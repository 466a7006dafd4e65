---------------------------- MODULE MCPipelineRun ----------------------------
(* Instances of PipelineRun: the step lists a run considers.               *)
EXTENDS PipelineRun

CONSTANT MaxSteps  \* bound on the length of a pipeline

UpTo(S) == UNION {[1 .. n -> S] : n \in 1 .. MaxSteps}

Checks == {"Verify", "Drill"}
Count(ss, K) == Len(SelectSeq(ss, LAMBDA s : s.kind \in K))

\* Every list of steps.
AnyPipeline == UpTo(StepRecords)

\* One check of each sort at most.
CheckedOnce ==
    {ss \in AnyPipeline : Count(ss, Checks) <= 1 /\ Count(ss, {"Offsite"}) <= 1}
=============================================================================
