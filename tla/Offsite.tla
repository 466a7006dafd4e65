------------------------------- MODULE Offsite -------------------------------
(***************************************************************************)
(* Off-site copies (ops.rs push_offsite, s3/client.rs, destination.rs).    *)
(* A job sends its artifact and then its manifest to every enabled         *)
(* destination in turn, proves each one arrived by reading its size back,  *)
(* and applies the destination's own retention.  Several jobs share the    *)
(* destinations and one step is one request, so jobs interleave between    *)
(* any two requests.                                                       *)
(*                                                                         *)
(* A request may be refused, its answer may be lost after the server has   *)
(* acted on it, a server may accept what it then stores short or not at    *)
(* all, a process may end and a credential may be removed: MaxFaults       *)
(* bounds them all, and MaxCancels the jobs that are cancelled.  The       *)
(* client sets no time limit on a request, so nothing says that a push     *)
(* ends: no fairness is assumed.                                           *)
(*                                                                         *)
(* An artifact may be sent more than once: `push` sends what is on disk,   *)
(* also what the destination holds already or another job is sending.      *)
(*                                                                         *)
(* Keys of artifacts are numbers in the order of their names.  What a      *)
(* destination is called, and how a request is signed, is left out.        *)
(***************************************************************************)
EXTENDS Naturals, Sequences, FiniteSets

CONSTANTS
    Jobs,        \* the pushes
    Sends,       \* [Jobs -> the key of the artifact the job sends]
    Held,        \* keys of artifacts the destinations hold already
    Dests,       \* the enabled destinations
    ByName,      \* the same, in the order list_enabled_destinations returns
    KeepLast,    \* [Dests -> Nat or None]: RetentionPolicy.keep_last
    MaxAge,      \* [Dests -> Nat or None]: RetentionPolicy.max_age_days
    Large,       \* the keys whose artifact is above MULTIPART_THRESHOLD
    Parts,       \* how many parts such an artifact has
    Described,   \* the keys whose artifact has a manifest beside it
    Counted,     \* the keys is_artifact_key recognises
    Undated,     \* the keys a listing gives no readable timestamp for
    PageSize,    \* how many keys a listing returns at once
    MaxFaults,   \* how many things may go wrong
    MaxCancels,  \* how many jobs may be cancelled
    None

Keys == {Sends[j] : j \in Jobs} \union Held
Files == {"artifact", "manifest"}

ASSUME OffsiteAssumption ==
    /\ Keys \subseteq Nat \ {0}
    /\ None \notin Jobs
    /\ Parts \in Nat \ {0}
    /\ PageSize \in Nat \ {0}
    /\ MaxFaults \in Nat /\ MaxCancels \in Nat
    /\ None \notin {"ok", "error"}
    /\ ByName \in Seq(Dests)
    /\ \A d \in Dests : \E i \in DOMAIN ByName : ByName[i] = d
    /\ \A i, k \in DOMAIN ByName : ByName[i] = ByName[k] => i = k

VARIABLES
    push,       \* [Jobs -> where push_offsite of the job is]
    cancelled,  \* the jobs whose token is cancelled
    objects,    \* what the destinations hold
    pending,    \* multipart uploads that were started and not ended
    credential, \* the destinations whose secret is in the keychain
    clock,      \* last_modified of the newest object
    faults,     \* how many things went wrong
    pruned,     \* history: the files a retention removed, not stored since
    overtaken,  \* history: the artifacts it removed that it had not listed
    excused     \* history: uploads the client could not end

vars == <<push, cancelled, objects, pending, credential, clock, faults, pruned,
          overtaken, excused>>

-----------------------------------------------------------------------------
(* Helpers. *)

Steps == {"idle", "upload_to", "check_access", "upload_file", "upload_parts",
          "complete", "abort", "head", "list", "delete", "delete_manifest",
          "done", "failed", "killed"}

NotPushed == [pc |-> "idle", todo |-> <<>>, result |-> [d \in Dests |-> None],
              file |-> "artifact", sent |-> 0, token |-> 0, listed |-> {}, doomed |-> {}]

Dest(j) == Head(push[j].todo)

\* The object a job is writing, and the upload that makes it.
Target(j) == [dest |-> Dest(j), key |-> Sends[j], file |-> push[j].file, by |-> j]

Same(o, t) == o.dest = t.dest /\ o.key = t.key /\ o.file = t.file

\* A PUT of an object replaces what its key held.
Stored(os, t, whole) ==
    {o \in os : ~Same(o, t)} \union
        {[dest |-> t.dest, key |-> t.key, file |-> t.file, at |-> clock + 1,
          whole |-> whole, by |-> t.by]}

Name(o) == <<o.dest, o.key, o.file>>

\* The object job j was writing is stored.
Puts(j, whole) ==
    /\ objects' = Stored(objects, Target(j), whole)
    /\ clock' = clock + 1
    /\ pruned' = pruned \ {Name(Target(j))}

PutsNothing == UNCHANGED <<objects, clock, pruned>>

Ready(j, pc) == push[j].pc = pc
Moved(j, pc) == push' = [push EXCEPT ![j].pc = pc]

\* push_one files a result and push_offsite turns to the next destination,
\* whatever the result is.
NextStep(rest) == IF rest = <<>> THEN "done" ELSE "upload_to"

\* Mutant: a failed destination ends the push.
PushedStopsAtFailure(p, r) ==
    LET rest == IF r = "error" THEN <<>> ELSE Tail(p.todo)
    IN  [NotPushed EXCEPT !.pc = NextStep(rest), !.todo = rest,
                          !.result = [p.result EXCEPT ![Head(p.todo)] = r]]

Pushed(p, r) ==
    LET rest == Tail(p.todo)
    IN  [NotPushed EXCEPT !.pc = NextStep(rest), !.todo = rest,
                          !.result = [p.result EXCEPT ![Head(p.todo)] = r]]

Filed(j, r) == push' = [push EXCEPT ![j] = Pushed(@, r)]

Fault == faults < MaxFaults /\ faults' = faults + 1
NoFault == faults' = faults

Server == <<objects, pending, clock>>
History == <<pruned, overtaken, excused>>
Outside == <<cancelled, credential>>

-----------------------------------------------------------------------------
(* plan_retention: newest first, the newest is never removed, and either   *)
(* rule is enough to remove any other.                                     *)

IsEnabled(d) == KeepLast[d] # None \/ MaxAge[d] # None

Newer(c, cs) == {b \in cs : b.at > c.at \/ (b.at = c.at /\ b.key < c.key)}

\* Mutant: the newest artifact is not exempt.
PlanRetentionAlways(cs, d, now) ==
    {c \in cs : \/ KeepLast[d] # None /\ Cardinality(Newer(c, cs)) >= KeepLast[d]
                \/ MaxAge[d] # None /\ c.at + MaxAge[d] < now}

PlanRetention(cs, d, now) ==
    {c \in cs :
        /\ Newer(c, cs) # {}
        /\ \/ KeepLast[d] # None /\ Cardinality(Newer(c, cs)) >= KeepLast[d]
           \/ MaxAge[d] # None /\ c.at + MaxAge[d] < now}

\* What a listing offers to retention: artifacts with a readable timestamp.
Candidate(o) == o.file = "artifact" /\ o.key \in Counted /\ o.key \notin Undated

\* One page: the first keys after the continuation token.
Beyond(d, token) == {o \in objects : o.dest = d /\ o.key > token}
Page(d, token) ==
    {o \in Beyond(d, token) :
        Cardinality({k \in Keys : k < o.key /\ \E b \in Beyond(d, token) : b.key = k}) < PageSize}
Truncated(d, token) == Page(d, token) # Beyond(d, token)
LastKey(page) == CHOOSE k \in {o.key : o \in page} : \A o \in page : o.key <= k

-----------------------------------------------------------------------------
(* The push, one request at a time. *)

Init ==
    /\ push = [j \in Jobs |-> NotPushed]
    /\ cancelled = {}
    /\ objects = {[dest |-> d, key |-> k, file |-> f, at |-> 0, whole |-> TRUE, by |-> None] :
                    d \in Dests, k \in Held, f \in Files}
    /\ pending = {}
    /\ credential = Dests
    /\ clock = 0
    /\ faults = 0
    /\ pruned = {} /\ overtaken = {}
    /\ excused = {}

\* The destinations are read once, when the push begins.
PushOffsite(j) ==
    /\ Ready(j, "idle")
    /\ push' = [push EXCEPT ![j].todo = ByName, ![j].pc = NextStep(ByName)]
    /\ NoFault
    /\ UNCHANGED <<Server, History, Outside>>

\* The store cannot be read: the operation fails before any destination.
ListingFails(j) ==
    /\ Ready(j, "idle")
    /\ Fault
    /\ Moved(j, "failed")
    /\ UNCHANGED <<Server, History, Outside>>

\* upload_to begins with the secret of the destination.
UploadTo(j) ==
    /\ Ready(j, "upload_to")
    /\ IF Dest(j) \in credential THEN Moved(j, "check_access") ELSE Filed(j, "error")
    /\ NoFault
    /\ UNCHANGED <<Server, History, Outside>>

CheckAccess(j) ==
    /\ Ready(j, "check_access")
    /\ \/ NoFault /\ Moved(j, "upload_file")
       \/ Fault /\ Filed(j, "error")
    /\ UNCHANGED <<Server, History, Outside>>

\* upload_file chooses by size; a manifest is always small.
Small(j) == Sends[j] \notin Large \/ push[j].file = "manifest"

\* put_small_file: one PUT, which a cancelled job waits for like any other.
PutSmallFile(j) ==
    /\ Ready(j, "upload_file")
    /\ Small(j)
    /\ \/ NoFault /\ Moved(j, "head") /\ Puts(j, TRUE)
       \/ Fault /\ Filed(j, "error") /\ PutsNothing      \* refused
       \/ Fault /\ Filed(j, "error") /\ Puts(j, TRUE)    \* stored, the answer is lost
       \/ Fault /\ Moved(j, "head") /\ Puts(j, FALSE)    \* accepted and stored short
       \/ Fault /\ Moved(j, "head") /\ PutsNothing       \* accepted and not stored
    /\ UNCHANGED <<pending, overtaken, excused, Outside>>

\* put_multipart asks for an upload id; an id that never arrives is an upload
\* nobody can abort.
StartMultipart(j) ==
    /\ Ready(j, "upload_file")
    /\ ~Small(j)
    /\ \/ /\ NoFault
          /\ push' = [push EXCEPT ![j].pc = "upload_parts", ![j].sent = 0]
          /\ pending' = pending \union {Target(j)}
          /\ UNCHANGED excused
       \/ Fault /\ Filed(j, "error") /\ UNCHANGED <<pending, excused>>
       \/ /\ Fault /\ Filed(j, "error")
          /\ pending' = pending \union {Target(j)}
          /\ excused' = excused \union {Target(j)}
    /\ UNCHANGED <<objects, clock, pruned, overtaken, Outside>>

\* upload_parts looks at the token before every part, and once more before it
\* finds the end of the file.

UploadPart(j) ==
    /\ Ready(j, "upload_parts")
    /\ IF j \in cancelled
       THEN NoFault /\ Moved(j, "abort")
       ELSE \/ /\ NoFault
               /\ IF push[j].sent < Parts
                  THEN push' = [push EXCEPT ![j].sent = @ + 1]
                  ELSE Moved(j, "complete")
            \/ push[j].sent < Parts /\ Fault /\ Moved(j, "abort")
    /\ UNCHANGED <<Server, History, Outside>>

\* complete_multipart: an error, in the status or in the body of a 200, is
\* returned past the abort.
CompleteMultipart(j) ==
    /\ Ready(j, "complete")
    /\ \/ /\ NoFault /\ Moved(j, "head") /\ Puts(j, TRUE)
          /\ pending' = pending \ {Target(j)}
          /\ UNCHANGED excused
       \/ /\ Fault /\ Filed(j, "error") /\ PutsNothing   \* not assembled
          /\ excused' = excused \union {Target(j)}
          /\ UNCHANGED pending
       \/ /\ Fault /\ Filed(j, "error") /\ Puts(j, TRUE) \* assembled, the answer is lost
          /\ pending' = pending \ {Target(j)}
          /\ UNCHANGED excused
    /\ UNCHANGED <<overtaken, Outside>>

\* Mutant: the upload is not aborted.
AbandonMultipart(j) ==
    /\ Ready(j, "abort")
    /\ Filed(j, "error")
    /\ NoFault
    /\ UNCHANGED <<Server, History, Outside>>

\* abort_multipart is tried once and its result is dropped.
AbortMultipart(j) ==
    /\ Ready(j, "abort")
    /\ Filed(j, "error")
    /\ \/ NoFault /\ pending' = pending \ {Target(j)} /\ UNCHANGED excused
       \/ Fault /\ excused' = excused \union {Target(j)} /\ UNCHANGED pending
    /\ UNCHANGED <<objects, clock, pruned, overtaken, Outside>>

\* What follows a file that reads back at its size: the manifest, if there is
\* one, and then retention.
AfterUpload(j) ==
    IF push[j].file = "artifact" /\ Sends[j] \in Described
    THEN push' = [push EXCEPT ![j].file = "manifest", ![j].pc = "upload_file"]
    ELSE IF IsEnabled(Dest(j))
         THEN push' = [push EXCEPT ![j].pc = "list", ![j].token = 0, ![j].listed = {}]
         ELSE Filed(j, "ok")

\* Mutant: the size is not compared.
ReadBackLoosely(j) == \E o \in objects : Same(o, Target(j))

\* upload_file ends by reading the object back.
ReadBack(j) == \E o \in objects : Same(o, Target(j)) /\ o.whole

HeadObject(j) ==
    /\ Ready(j, "head")
    /\ \/ NoFault /\ (IF ReadBack(j) THEN AfterUpload(j) ELSE Filed(j, "error"))
       \/ Fault /\ Filed(j, "error")
    /\ UNCHANGED <<Server, History, Outside>>

\* list_paged, one page; a page that cannot be read, or that is cut short
\* without saying where to go on, ends retention and not the push.
ListPage(j) ==
    /\ Ready(j, "list")
    /\ LET page == Page(Dest(j), push[j].token)
           seen == push[j].listed \union page
       IN  \/ /\ NoFault
              /\ push' = IF Truncated(Dest(j), push[j].token)
                         THEN [push EXCEPT ![j].listed = seen, ![j].token = LastKey(page)]
                         ELSE [push EXCEPT ![j].pc = "delete", ![j].listed = {},
                                 ![j].doomed = PlanRetention(
                                    {o \in seen : Candidate(o)}, Dest(j), clock)]
           \/ Fault /\ Filed(j, "ok")
    /\ UNCHANGED <<Server, History, Outside>>

\* apply_offsite_retention removes the planned artifacts one by one, newest
\* first; a refused removal is passed over.
FirstDoomed(j) ==
    CHOOSE c \in push[j].doomed : Newer(c, push[j].doomed) = {}

DeleteObject(j) ==
    /\ Ready(j, "delete")
    /\ push[j].doomed # {}
    /\ LET c == FirstDoomed(j)
           gone == {o \in objects : Same(o, c)}
       IN  \/ /\ NoFault
              /\ objects' = objects \ gone
              /\ pruned' = pruned \union {Name(c)}
              /\ overtaken' = overtaken \union (gone \ {c})
              /\ Moved(j, "delete_manifest")
           \/ /\ Fault
              /\ push' = [push EXCEPT ![j].doomed = @ \ {c}]
              /\ UNCHANGED <<objects, pruned, overtaken>>
    /\ UNCHANGED <<pending, clock, excused, Outside>>

DeleteManifest(j) ==
    /\ Ready(j, "delete_manifest")
    /\ LET c == FirstDoomed(j)
           m == [c EXCEPT !.file = "manifest"]
       IN  /\ push' = [push EXCEPT ![j].pc = "delete", ![j].doomed = @ \ {c}]
           /\ \/ /\ NoFault
                 /\ objects' = {o \in objects : ~Same(o, m)}
                 /\ pruned' = pruned \union {Name(m)}
              \/ Fault /\ UNCHANGED <<objects, pruned>>
    /\ UNCHANGED <<pending, clock, overtaken, excused, Outside>>

RetentionEnds(j) ==
    /\ Ready(j, "delete")
    /\ push[j].doomed = {}
    /\ Filed(j, "ok")
    /\ NoFault
    /\ UNCHANGED <<Server, History, Outside>>

Over(j) == push[j].pc \in {"done", "failed", "killed"}

Cancel(j) ==
    /\ ~Over(j)
    /\ j \notin cancelled
    /\ Cardinality(cancelled) < MaxCancels
    /\ cancelled' = cancelled \union {j}
    /\ UNCHANGED <<push, faults, credential, Server, History>>

\* The process ends; nothing looks for the uploads it leaves.
Crash(j) ==
    /\ ~Over(j)
    /\ Fault
    /\ Moved(j, "killed")
    /\ excused' = excused \union
        (IF Ready(j, "idle") THEN {} ELSE pending \intersect {Target(j)})
    /\ UNCHANGED <<Server, pruned, overtaken, Outside>>

\* forget_destination takes the secret while pushes are under way.
ForgetCredential(d) ==
    /\ d \in credential
    /\ Fault
    /\ credential' = credential \ {d}
    /\ UNCHANGED <<push, cancelled, Server, History>>

Next ==
    \/ \E j \in Jobs :
        \/ PushOffsite(j) \/ UploadTo(j) \/ CheckAccess(j) \/ PutSmallFile(j)
        \/ StartMultipart(j) \/ UploadPart(j) \/ CompleteMultipart(j)
        \/ AbortMultipart(j) \/ HeadObject(j) \/ ListPage(j)
        \/ DeleteObject(j) \/ DeleteManifest(j) \/ RetentionEnds(j)
        \/ ListingFails(j) \/ Cancel(j) \/ Crash(j)
    \/ \E d \in Dests : ForgetCredential(d)

Spec == Init /\ [][Next]_vars

-----------------------------------------------------------------------------
(* Properties. *)

\* Every variable has its type (PushResult, ObjectInfo).
TypeOK ==
    /\ \A j \in Jobs :
        /\ push[j].pc \in Steps
        /\ push[j].file \in Files
        /\ push[j].sent \in 0..Parts
        /\ \A c \in push[j].doomed : Candidate(c) /\ c.dest = Dest(j)
        /\ \A d \in Dests : push[j].result[d] \in {None, "ok", "error"}
        /\ push[j].pc \notin {"idle", "done", "failed", "killed"} => push[j].todo # <<>>
    /\ cancelled \subseteq Jobs
    /\ pending \subseteq [dest : Dests, key : Keys, file : Files, by : Jobs]
    /\ \A o \in objects : o.dest \in Dests /\ o.key \in Keys /\ o.file \in Files /\ o.at \in 0..clock
    /\ faults \in 0..MaxFaults

\* The files a push has to leave at a destination.
Owed(j) == {"artifact"} \union (IF Sends[j] \in Described THEN {"manifest"} ELSE {})

\* The file is there whole; or another push stored it again since, and that
\* push has not called it a success.
Kept(j, d, f) ==
    \E o \in objects :
        /\ o.dest = d /\ o.key = Sends[j] /\ o.file = f
        /\ o.whole \/ (o.by # j /\ push[o.by].result[d] # "ok")

\* A destination that reports success holds the whole artifact and, when there
\* is one, its manifest, unless a retention has removed that file since:
\* "None on success" (PushResult.error, upload_file's read-back).  A copy that
\* is not whole is the last one stored, by a push that does not report success.
SuccessMeansACopy ==
    \A j \in Jobs, d \in Dests :
        push[j].result[d] = "ok" =>
            \A f \in Owed(j) : <<d, Sends[j], f>> \in pruned \/ Kept(j, d, f)

Recognised(d) == {o \in objects : o.dest = d /\ Candidate(o)}

\* Retention, whichever jobs' listings it acts on and however many pushes run
\* it at once, takes the newest artifact of a destination in one case only:
\* something at least as new, this artifact or another, was stored again after
\* a listing had condemned the copy before it, and went by that listing
\* (plan_retention, list_paged, apply_offsite_retention).
NewestFallsToARepushOnly ==
    [][\A d \in Dests : \A o \in Recognised(d) :
          (Newer(o, Recognised(d)) = {} /\ o \notin Recognised(d)')
            => \/ \E b \in Recognised(d)' : b.at > o.at
               \/ \E b \in overtaken' : b.dest = d /\ (b = o \/ b \in Newer(o, overtaken'))]_vars

Writing(j, d) == ~Over(j) /\ push[j].todo # <<>> /\ Dest(j) = d

\* No parts are left at a destination once the job that sent them has moved
\* on, unless the server refused the abort, never told the upload id, did not
\* complete the upload, or the process ended: "abandoned parts are billed".
NoPartsLeftBehind ==
    \A u \in pending : u \in excused \/ Writing(u.by, u.dest)

\* "One unreachable bucket must not stop the others" (push_offsite): a push has
\* one result for every destination it has turned away from, whatever was
\* refused, lost or cancelled there, and is over when none is left.
NoDestinationIsSkipped ==
    \A j \in Jobs :
        push[j].pc \notin {"idle", "failed", "killed"} =>
            /\ \A d \in Dests :
                push[j].result[d] = None <=>
                    \E i \in DOMAIN push[j].todo : push[j].todo[i] = d
            /\ push[j].pc = "done" <=> push[j].todo = <<>>

\* What a destination holds is accounted for: a copy for every success, and no
\* parts of an upload that nobody is sending (push_offsite, put_multipart).
CopiesAreAccountedFor ==
    /\ TypeOK
    /\ SuccessMeansACopy
    /\ NoPartsLeftBehind

=============================================================================
