-------------------------- MODULE CatalogueProofs --------------------------
(***************************************************************************)
(* Proofs about Catalogue: nothing is dropped unattended without a         *)
(* permission, stored rows are sound, and a backup is encrypted to a key   *)
(* that is held elsewhere, but for three named exceptions.                 *)
(***************************************************************************)
EXTENDS Catalogue, SequenceTheorems, TLAPS

-----------------------------------------------------------------------------
(* What a request may have left to do. *)

Marks   == Pipes \cup Plans \cup Scheds \cup Dests \cup {None}
Actions == {"PipelineCreated", "PipelineUpdated", "PipelineArmed", "PipelineDeleted",
            "MaskingChanged", "ScheduleDeleted", "DestinationCreated", "DestinationDeleted",
            "ConfigImported", "BackupKeyExported"}
Texts     == {Signature[l] : l \in StepLists} \cup {None}
PipePatch == {<<>>} \cup [{"steps"} -> StepLists]
PlanText  == [selections : Edits, masking : Edits]
PlanPatch == [selections : Edits] \cup [masking : Edits]
DestPatch == [{"enabled"} -> BOOLEAN] \cup [{"kind"} -> Edits]
NewDest   == {a \in [row : DestRow, asked : BOOLEAN] : a.row.enabled => a.asked}

OfPipes == [do : {"insert_pipe"}, id : Pipes, arg : StepLists]
      \cup [do : {"update_pipe"}, id : Pipes, arg : PipePatch]
      \cup [do : {"write_pipe"}, id : Pipes, arg : [row : PipeRow, edited : BOOLEAN]]
      \cup [do : {"arm"}, id : Pipes, arg : Texts]
      \cup [do : {"write_ack"}, id : Pipes, arg : [ack : Texts, steps : Runnable]]
      \cup [do : {"delete_pipe", "perform_pipe"}, id : Pipes, arg : {None}]
OfPlans == [do : {"insert_plan"}, id : Plans, arg : PlanText]
      \cup [do : {"edit_plan"}, id : Plans, arg : PlanPatch]
      \cup [do : {"write_plan"}, id : Plans, arg : [patch : PlanPatch, row : PlanRow]]
      \cup [do : {"delete_plans"}, id : SUBSET Plans, arg : {None}]
      \cup [do : {"import_plan"}, id : Plans, arg : Edits]
OfScheds == [do : {"check_target", "insert_sched"}, id : Scheds, arg : SchedRow]
      \cup [do : {"update_sched"}, id : Scheds, arg : SchedulePatches]
      \cup [do : {"write_sched"}, id : Scheds, arg : [row : SchedRow, patch : SchedulePatches]]
      \cup [do : {"delete_sched"}, id : Scheds, arg : {None}]
OfDests == [do : {"insert_dest"}, id : Dests, arg : NewDest]
      \cup [do : {"file_secret", "require_dest", "unfile_secret"}, id : Dests, arg : {None}]
      \cup [do : {"delete_dest"}, id : Dests, arg : BOOLEAN]
      \cup [do : {"update_dest"}, id : Dests, arg : DestPatch]
      \cup [do : {"write_dest"}, id : Dests, arg : [row : DestRow, patch : DestPatch]]
      \cup [do : {"import_dest"}, id : Dests, arg : Edits]
Flag    == {f \in [value : BOOLEAN, key : Keys] : f.value => f.key \in Elsewhere}
OfKeys == [do : {"ensure", "export", "gate"}, id : {None}, arg : {None}]
      \cup [do : {"set_vault", "set_public", "compare", "mark_exported", "hand_over"},
             id : {None}, arg : Keys]
      \cup [do : {"recipients"}, id : {None}, arg : Keys \cup {None}]
      \cup [do : {"set_exported"}, id : {None}, arg : Flag]
OfAudit == [do : {"audit"}, id : Marks, arg : Actions]

Steps == OfPipes \cup OfPlans \cup OfScheds \cup OfDests \cup OfKeys \cup OfAudit

\* The steps that carry something read by the step before.
Loaded == {"write_pipe", "write_ack", "write_plan", "write_sched", "write_dest", "compare",
           "mark_exported", "hand_over", "recipients"}

\* What a step says of the one after it: each waits right behind the step that
\* does what it relies on.
Follows(a, b) ==
    /\ b.do \notin Loaded
    /\ b.do = "file_secret"  => a.do \in {"insert_dest", "require_dest"} /\ a.id = b.id
    /\ b.do = "delete_dest"  => a.do = "unfile_secret" /\ a.id = b.id
    /\ b.do = "insert_sched" => a.do = "check_target" /\ a.arg = b.arg
    /\ b.do = "set_exported" => a.do = "set_public" /\ a.arg = b.arg.key
    /\ a.do = "set_public"   => b.do = "set_exported"
    /\ a.do \in {"arm", "write_ack"} => b = Audit("PipelineArmed", a.id)

NeverLast == {"set_public", "arm", "write_ack"}

Chain(q) == \A i \in 1 .. Len(q) : IF i < Len(q) THEN Follows(q[i], q[i+1])
                                   ELSE q[i].do \notin NeverLast

-----------------------------------------------------------------------------
(* The inductive invariant. *)

Typed ==
    /\ TypeOK
    /\ wanted \in [Plans -> PlanText \cup {None}]
    /\ client \in [Clients -> [todo : Seq(Steps), stale : SUBSET Marks]]
    /\ \A c \in Clients : Chain(client[c].todo)

\* A permission is on the record, or is just being recorded.
OnRecord(p) ==
    \/ <<"PipelineArmed", p>> \in audit \cup lost
    \/ \E c \in Clients : client[c].todo # <<>> /\ The(c) = Audit("PipelineArmed", p)

\* The row an update of a pipeline is about to write.
PipePending(c) ==
    LET p == The(c).id  row == The(c).arg.row IN
    /\ Armed(row) => <<p, row.ack>> \in typed
    /\ The(c).arg.edited => row.ack = None
    /\ ~The(c).arg.edited /\ p \notin client[c].stale /\ pipes[p] # None => row = pipes[p]

\* The permission an arming is about to write.
AckPending(c) ==
    LET p == The(c).id IN
    p \notin client[c].stale /\ pipes[p] # None => The(c).arg.steps = pipes[p].steps

Permission ==
    /\ dropped \subseteq typed
    /\ \A r \in typed : OnRecord(r[1])
    /\ \A p \in Pipes : pipes[p] # None /\ Armed(pipes[p]) =>
         /\ <<p, pipes[p].ack>> \in typed
         /\ <<p, pipes[p].steps>> \in authorised \/ p \in raced
    /\ \A c \in Clients : At(c, "write_pipe") => PipePending(c)
    /\ \A c \in Clients : At(c, "write_ack") => AckPending(c)

\* The keys that are held elsewhere, and those of the three exceptions.
Spoken == released \cup unkept \cup mistaken \cup UNION {InHand(c) : c \in Clients}

\* A key that is in use is one of those, unless its flag is about to be reset by
\* the request that has just stored it; and so is the key a gate let through.
KeyIsHeld ==
    settings.exported /\ settings.public # None =>
        settings.public \in Spoken \cup UNION {HalfReplaced(c) : c \in Clients}

KeyInv ==
    /\ Elsewhere \subseteq released
    /\ encrypted \subseteq Spoken
    /\ KeyIsHeld
    /\ \A c \in Clients : At(c, "recipients") => The(c).arg \in Spoken \cup {None}

\* Neither a key's flag nor its secret is what the request of the step is at.
Calm(c) == ~At(c, "set_exported") /\ ~At(c, "hand_over")

\* What a request that writes a schedule or a destination knows of it.
SchedPending(c) ==
    LET s == The(c).id  row == The(c).arg.row IN
    /\ s \in used /\ ValidParts(row)
    /\ scheds[s] # None =>
         scheds[s].kind = row.kind /\ scheds[s].plan = row.plan /\ scheds[s].pipe = row.pipe

DestPending(c) ==
    LET d == The(c).id  row == The(c).arg.row  patch == The(c).arg.patch IN
    /\ "enabled" \in DOMAIN patch => row.enabled = patch.enabled
    /\ "enabled" \notin DOMAIN patch /\ d \notin client[c].stale /\ dests[d] # None =>
         row.enabled = dests[d].enabled

RowPending(c) ==
    /\ At(c, "insert_sched") => ValidParts(The(c).arg)
    /\ At(c, "write_sched") => SchedPending(c)
    /\ At(c, "write_dest") => DestPending(c)
    /\ At(c, "file_secret") /\ The(c).id \notin client[c].stale => dests[The(c).id] # None
    /\ At(c, "delete_dest") /\ The(c).id \notin client[c].stale => The(c).id \notin filed

RowInv ==
    /\ PlanEditsSurvive /\ ScheduledPlansExist /\ StoredSchedulesAreValid
    /\ FiledSecretsHaveOwners /\ EnabledIsAsked
    /\ \A s \in Scheds : scheds[s] # None => s \in used
    /\ \A c \in Clients : RowPending(c)

Inv == Typed /\ Permission /\ KeyInv /\ RowInv

-----------------------------------------------------------------------------
(* Steps and lists of steps. *)

\* What a step's name says of its id and of its argument.
LEMMA PipeSteps ==
    ASSUME NEW s \in Steps
    PROVE  /\ s.do = "insert_pipe" => s.id \in Pipes /\ s.arg \in StepLists
           /\ s.do = "update_pipe" => s.id \in Pipes /\ s.arg \in PipePatch
           /\ s.do = "write_pipe"  => s.id \in Pipes /\ s.arg \in [row : PipeRow, edited : BOOLEAN]
           /\ s.do = "arm"         => s.id \in Pipes /\ s.arg \in Texts
           /\ s.do = "write_ack"   => s.id \in Pipes /\ s.arg \in [ack : Texts, steps : Runnable]
           /\ s.do \in {"delete_pipe", "perform_pipe"} => s.id \in Pipes
<1>1. CASE s \in OfPipes
      BY <1>1 DEF OfPipes
<1>2. CASE s \notin OfPipes
      BY <1>2 DEF Steps, OfPlans, OfScheds, OfDests, OfKeys, OfAudit
<1>. QED  BY <1>1, <1>2

\* The same of the steps on plans.
LEMMA PlanSteps ==
    ASSUME NEW s \in Steps
    PROVE  /\ s.do = "insert_plan"  => s.id \in Plans /\ s.arg \in PlanText
           /\ s.do = "edit_plan"    => s.id \in Plans /\ s.arg \in PlanPatch
           /\ s.do = "write_plan"   => s.id \in Plans /\ s.arg \in [patch : PlanPatch, row : PlanRow]
           /\ s.do = "delete_plans" => s.id \in SUBSET Plans
           /\ s.do = "import_plan"  => s.id \in Plans /\ s.arg \in Edits
<1>1. CASE s \in OfPlans
      BY <1>1 DEF OfPlans
<1>2. CASE s \notin OfPlans
      BY <1>2 DEF Steps, OfPipes, OfScheds, OfDests, OfKeys, OfAudit
<1>. QED  BY <1>1, <1>2

\* The same of the steps on schedules.
LEMMA SchedSteps ==
    ASSUME NEW s \in Steps
    PROVE  /\ s.do \in {"check_target", "insert_sched"} => s.id \in Scheds /\ s.arg \in SchedRow
           /\ s.do = "update_sched" => s.id \in Scheds /\ s.arg \in SchedulePatches
           /\ s.do = "write_sched"  => s.id \in Scheds
                                       /\ s.arg \in [row : SchedRow, patch : SchedulePatches]
           /\ s.do = "delete_sched" => s.id \in Scheds
<1>1. CASE s \in OfScheds
      BY <1>1 DEF OfScheds
<1>2. CASE s \notin OfScheds
      BY <1>2 DEF Steps, OfPipes, OfPlans, OfDests, OfKeys, OfAudit
<1>. QED  BY <1>1, <1>2

\* The same of the steps on destinations.
LEMMA DestSteps ==
    ASSUME NEW s \in Steps
    PROVE  /\ s.do = "insert_dest" => s.id \in Dests /\ s.arg \in NewDest
           /\ s.do \in {"file_secret", "require_dest", "unfile_secret"} => s.id \in Dests
           /\ s.do = "delete_dest" => s.id \in Dests /\ s.arg \in BOOLEAN
           /\ s.do = "update_dest" => s.id \in Dests /\ s.arg \in DestPatch
           /\ s.do = "write_dest"  => s.id \in Dests /\ s.arg \in [row : DestRow, patch : DestPatch]
           /\ s.do = "import_dest" => s.id \in Dests /\ s.arg \in Edits
<1>1. CASE s \in OfDests
      BY <1>1 DEF OfDests
<1>2. CASE s \notin OfDests
      BY <1>2 DEF Steps, OfPipes, OfPlans, OfScheds, OfKeys, OfAudit
<1>. QED  BY <1>1, <1>2

\* The same of the steps on the key, and of audit rows.
LEMMA KeySteps ==
    ASSUME NEW s \in Steps
    PROVE  /\ s.do \in {"set_vault", "set_public", "compare", "mark_exported", "hand_over"} => s.arg \in Keys
           /\ s.do = "recipients" => s.arg \in Keys \cup {None}
           /\ s.do = "set_exported" => s.arg \in Flag
           /\ s.do = "audit" => s.id \in Marks /\ s.arg \in Actions
<1>1. CASE s \in OfKeys \cup OfAudit
      BY <1>1 DEF OfKeys, OfAudit
<1>2. CASE s \notin OfKeys \cup OfAudit
      BY <1>2 DEF Steps, OfPipes, OfPlans, OfScheds, OfDests
<1>. QED  BY <1>1, <1>2

\* The steps that the step behind them relies on.
Opens == {"insert_dest", "require_dest", "unfile_secret", "check_target", "set_public"}

\* The steps whose pending facts the invariant states.
Watched == {"write_pipe", "write_ack", "write_sched", "write_dest", "recipients",
            "insert_sched", "file_secret", "delete_dest"}

Lead(q) == IF q = <<>> THEN "idle" ELSE Head(q).do

\* The rest of a chain is a chain, and nothing relies on most first steps.
LEMMA TailChain ==
    ASSUME NEW q \in Seq(Steps), q # <<>>, Chain(q)
    PROVE  /\ Head(q) \in Steps
           /\ Tail(q) \in Seq(Steps) /\ Chain(Tail(q))
           /\ Tail(q) # <<>> => Follows(Head(q), Head(Tail(q))) /\ Head(Tail(q)) \in Steps
           /\ Tail(q) = <<>> => Head(q).do \notin NeverLast
<1>1. /\ Len(q) \in Nat /\ Len(q) > 0 /\ Head(q) = q[1] /\ Head(q) \in Steps
      /\ Tail(q) \in Seq(Steps) /\ Len(Tail(q)) = Len(q) - 1
      /\ \A i \in 1 .. Len(Tail(q)) : Tail(q)[i] = q[i+1]
      BY EmptySeq, HeadTailProperties
<1>2. Chain(Tail(q))
  <2>1. SUFFICES ASSUME NEW i \in 1 .. Len(Tail(q))
                 PROVE  IF i < Len(Tail(q)) THEN Follows(Tail(q)[i], Tail(q)[i+1])
                        ELSE Tail(q)[i].do \notin NeverLast
        BY DEF Chain
  <2>2. i + 1 \in 1 .. Len(q) /\ Tail(q)[i] = q[i+1]
        BY <1>1
  <2>3. CASE i < Len(Tail(q))
    <3>1. i + 1 < Len(q) /\ i + 1 \in 1 .. Len(Tail(q))
          BY <1>1, <2>3
    <3>2. Follows(q[i+1], q[i+1+1]) /\ Tail(q)[i+1] = q[i+1+1]
          BY <1>1, <2>2, <3>1 DEF Chain
    <3>. QED  BY <2>2, <2>3, <3>2
  <2>4. CASE ~(i < Len(Tail(q)))
    <3>1. ~(i + 1 < Len(q))
          BY <1>1, <2>4
    <3>2. q[i+1].do \notin NeverLast
          BY <2>2, <3>1 DEF Chain
    <3>. QED  BY <2>2, <2>4, <3>2
  <2>. QED  BY <2>3, <2>4
<1>3. ASSUME Tail(q) # <<>>
      PROVE  Follows(Head(q), Head(Tail(q))) /\ Head(Tail(q)) \in Steps
  <2>1. Len(Tail(q)) > 0 /\ Head(Tail(q)) = Tail(q)[1] /\ Head(Tail(q)) \in Steps
        BY <1>1, <1>3, EmptySeq, HeadTailProperties
  <2>2. 1 \in 1 .. Len(q) /\ 1 < Len(q) /\ Tail(q)[1] = q[1+1]
        BY <1>1, <2>1
  <2>. QED  BY <1>1, <2>1, <2>2 DEF Chain
<1>4. ASSUME Tail(q) = <<>> PROVE Head(q).do \notin NeverLast
  <2>0. Len(<<>>) = 0
        OBVIOUS
  <2>1. Len(Tail(q)) = Len(<<>>)
        BY <1>4, Zenon
  <2>. PICK n \in Nat : n = Len(q)
        BY <1>1
  <2>2. n - 1 = 0 /\ n > 0
        BY <1>1, <2>0, <2>1
  <2>3. 1 \in 1 .. n /\ ~(1 < n)
        BY <2>2
  <2>. QED  BY <1>1, <2>3 DEF Chain
<1>. QED  BY <1>1, <1>2, <1>3, <1>4

Linked(w) == \A i \in 1 .. Len(w) : i < Len(w) => Follows(w[i], w[i+1])

\* Linked steps may be put before a chain.
LEMMA PushChain ==
    ASSUME NEW w \in Seq(Steps), w # <<>>, Linked(w),
           NEW r \in Seq(Steps), Chain(r),
           r # <<>> => Follows(w[Len(w)], Head(r)),
           r = <<>> => w[Len(w)].do \notin NeverLast
    PROVE  /\ w \o r \in Seq(Steps) /\ Chain(w \o r)
           /\ w \o r # <<>> /\ Head(w \o r) = w[1]
<1>1. /\ Len(w) \in Nat /\ Len(w) > 0 /\ Len(r) \in Nat
      BY EmptySeq
<1>2. /\ w \o r \in Seq(Steps) /\ Len(w \o r) = Len(w) + Len(r)
      /\ \A i \in 1 .. Len(w) + Len(r) : (w \o r)[i] = IF i <= Len(w) THEN w[i] ELSE r[i - Len(w)]
      BY ConcatProperties
<1>3. w \o r # <<>> /\ Head(w \o r) = w[1]
  <2>1. Len(w \o r) > 0 /\ 1 \in 1 .. Len(w) + Len(r) /\ 1 <= Len(w)
        BY <1>1, <1>2
  <2>2. w \o r # <<>> /\ Head(w \o r) = (w \o r)[1]
        BY <1>2, <2>1, EmptySeq, HeadTailProperties
  <2>. QED  BY <1>2, <2>1, <2>2
<1>4. ASSUME NEW i \in 1 .. Len(w \o r)
      PROVE  IF i < Len(w \o r) THEN Follows((w \o r)[i], (w \o r)[i+1])
             ELSE (w \o r)[i].do \notin NeverLast
  <2>1. CASE i < Len(w)
    <3>1. /\ i < Len(w \o r) /\ i \in 1 .. Len(w)
          /\ (w \o r)[i] = w[i] /\ (w \o r)[i+1] = w[i+1]
          BY <1>1, <1>2, <2>1
    <3>. QED  BY <2>1, <3>1 DEF Linked
  <2>2. CASE i = Len(w)
    <3>1. (w \o r)[i] = w[i] /\ i \in 1 .. Len(w) /\ ~(i < Len(w))
          BY <1>1, <1>2, <2>2
    <3>2. CASE r = <<>>
      <4>1. ~(i < Len(w \o r))
            BY <1>1, <1>2, <2>2, <3>2
      <4>. QED  BY <2>2, <3>1, <3>2, <4>1
    <3>3. CASE r # <<>>
      <4>1. Len(r) > 0 /\ Head(r) = r[1]
            BY <3>3, EmptySeq, HeadTailProperties
      <4>2. i < Len(w \o r) /\ (w \o r)[i+1] = r[1]
            BY <1>1, <1>2, <2>2, <4>1
      <4>. QED  BY <2>2, <3>1, <3>3, <4>1, <4>2
    <3>. QED  BY <3>2, <3>3
  <2>3. CASE i > Len(w)
    <3>1. /\ i - Len(w) \in 1 .. Len(r) /\ (w \o r)[i] = r[i - Len(w)]
          /\ i < Len(w \o r) <=> i - Len(w) < Len(r)
          BY <1>1, <1>2, <2>3
    <3>2. i < Len(w \o r) => (w \o r)[i+1] = r[i - Len(w) + 1]
          BY <1>1, <1>2, <2>3
    <3>. QED  BY <3>1, <3>2 DEF Chain
  <2>. QED  BY <1>1, <1>2, <2>1, <2>2, <2>3
<1>. QED  BY <1>2, <1>3, <1>4 DEF Chain

\* A step that may take the place of h: what waited behind h may wait behind it.
Stands(h, s) ==
    /\ h.do \notin Opens
    /\ s.do \in NeverLast => h.do = "arm" /\ s.do = "write_ack" /\ s.id = h.id

\* What waited behind h may wait behind a step that takes its place.
LEMMA StandsFollows ==
    ASSUME NEW h \in Steps, NEW s \in Steps, NEW b \in Steps, Stands(h, s), Follows(h, b)
    PROVE  Follows(s, b)
BY DEF Stands, Follows, Opens, NeverLast

\* The first step of a chain may be replaced by a list that ends in one that
\* takes its place.
LEMMA ReplaceChain ==
    ASSUME NEW q \in Seq(Steps), q # <<>>, Chain(q),
           NEW w \in Seq(Steps), w # <<>>, Linked(w), Stands(Head(q), w[Len(w)])
    PROVE  /\ w \o Tail(q) \in Seq(Steps) /\ Chain(w \o Tail(q))
           /\ w \o Tail(q) # <<>> /\ Head(w \o Tail(q)) = w[1]
<1>1. /\ Head(q) \in Steps
      /\ Tail(q) \in Seq(Steps) /\ Chain(Tail(q))
      /\ Tail(q) # <<>> => Follows(Head(q), Head(Tail(q))) /\ Head(Tail(q)) \in Steps
      /\ Tail(q) = <<>> => Head(q).do \notin NeverLast
      BY TailChain
<1>2. Len(w) \in 1 .. Len(w) /\ w[Len(w)] \in Steps
      BY EmptySeq
<1>3. Tail(q) # <<>> => Follows(w[Len(w)], Head(Tail(q)))
      BY <1>1, <1>2, StandsFollows
<1>4. Tail(q) = <<>> => w[Len(w)].do \notin NeverLast
      BY <1>1 DEF Stands, NeverLast
<1>. QED  BY <1>1, <1>3, <1>4, PushChain

\* Lists of one, two and three steps.
LEMMA OneStep ==
    ASSUME NEW s \in Steps
    PROVE  /\ <<s>> \in Seq(Steps) /\ <<s>> # <<>> /\ Linked(<<s>>)
           /\ Len(<<s>>) = 1 /\ <<s>>[1] = s /\ Head(<<s>>) = s
           /\ s.do \notin NeverLast => Chain(<<s>>)
BY DEF Linked, Chain

LEMMA TwoSteps ==
    ASSUME NEW s \in Steps, NEW t \in Steps, Follows(s, t)
    PROVE  /\ <<s, t>> \in Seq(Steps) /\ <<s, t>> # <<>> /\ Linked(<<s, t>>)
           /\ Len(<<s, t>>) = 2 /\ <<s, t>>[1] = s /\ <<s, t>>[2] = t /\ Head(<<s, t>>) = s
           /\ t.do \notin NeverLast => Chain(<<s, t>>)
<1>1. /\ <<s, t>> \in Seq(Steps) /\ <<s, t>> # <<>>
      /\ Len(<<s, t>>) = 2 /\ <<s, t>>[1] = s /\ <<s, t>>[2] = t /\ Head(<<s, t>>) = s
      OBVIOUS
<1>2. \A i \in 1 .. 2 : (i < 2 => i = 1) /\ (~(i < 2) => i = 2)
      OBVIOUS
<1>3. Linked(<<s, t>>)
      BY <1>1, <1>2 DEF Linked
<1>4. t.do \notin NeverLast => Chain(<<s, t>>)
      BY <1>1, <1>2 DEF Chain
<1>. QED  BY <1>1, <1>3, <1>4

LEMMA ThreeSteps ==
    ASSUME NEW s \in Steps, NEW t \in Steps, NEW u \in Steps, Follows(s, t), Follows(t, u)
    PROVE  /\ <<s, t, u>> \in Seq(Steps) /\ <<s, t, u>> # <<>> /\ Linked(<<s, t, u>>)
           /\ Len(<<s, t, u>>) = 3 /\ <<s, t, u>>[1] = s /\ <<s, t, u>>[3] = u
           /\ Head(<<s, t, u>>) = s
           /\ u.do \notin NeverLast => Chain(<<s, t, u>>)
<1>1. /\ <<s, t, u>> \in Seq(Steps) /\ <<s, t, u>> # <<>>
      /\ Len(<<s, t, u>>) = 3 /\ <<s, t, u>>[1] = s /\ <<s, t, u>>[2] = t /\ <<s, t, u>>[3] = u
      /\ Head(<<s, t, u>>) = s
      OBVIOUS
<1>2. \A i \in 1 .. 3 : (i < 3 => (i = 1 /\ i+1 = 2) \/ (i = 2 /\ i+1 = 3)) /\ (~(i < 3) => i = 3)
      OBVIOUS
<1>3. Linked(<<s, t, u>>)
      BY <1>1, <1>2 DEF Linked
<1>4. u.do \notin NeverLast => Chain(<<s, t, u>>)
      BY <1>1, <1>2 DEF Chain
<1>. QED  BY <1>1, <1>3, <1>4

-----------------------------------------------------------------------------
(* What a step of one request does to the requests. *)

Moves(c) ==
    /\ client' \in [Clients -> [todo : Seq(Steps), stale : SUBSET Marks]]
    /\ Chain(client'[c].todo)
    /\ \A d \in Clients \ {c} : /\ client'[d].todo = client[d].todo
                                /\ client[d].stale \subseteq client'[d].stale
    /\ raced \subseteq raced'

\* Everybody who may have read record r knows that it is written.
Tells(c, r) ==
    /\ \A d \in Clients \ {c} : client[d].todo # <<>> => r \in client'[d].stale
    /\ r \in client[c].stale => r \in raced'

\* A request that goes on with w in place of its first step moves alone.
LEMMA Runs ==
    ASSUME client \in [Clients -> [todo : Seq(Steps), stale : SUBSET Marks]],
           NEW c \in Clients, NEW w, NEW r \in Marks,
           w \o Tail(client[c].todo) \in Seq(Steps), Chain(w \o Tail(client[c].todo)),
           Then(c, w) \/ Write(c, r, w)
    PROVE  /\ Moves(c) /\ client'[c].todo = w \o Tail(client[c].todo)
           /\ Write(c, r, w) => Tells(c, r)
<1>1. CASE Then(c, w)
  <2>1. /\ client' = [client EXCEPT ![c].todo = w \o Tail(client[c].todo)] /\ raced' = raced
        BY <1>1 DEF Then
  <2>2. client'[c].todo = w \o Tail(client[c].todo)
        BY <2>1
  <2>3. client' \in [Clients -> [todo : Seq(Steps), stale : SUBSET Marks]]
        BY <2>1
  <2>4. \A d \in Clients \ {c} : client'[d] = client[d]
        BY <2>1
  <2>5. Moves(c)
        BY <2>1, <2>2, <2>3, <2>4 DEF Moves
  <2>6. Write(c, r, w) => Tells(c, r)
        BY DEF Write, Tells
  <2>. QED  BY <2>2, <2>5, <2>6
<1>2. CASE Write(c, r, w)
  <2>1. /\ client' = [d \in Clients |->
             IF d = c THEN [client[c] EXCEPT !.todo = w \o Tail(client[c].todo)]
             ELSE [client[d] EXCEPT !.stale = IF client[d].todo = <<>> THEN client[d].stale
                                              ELSE client[d].stale \cup {r}]]
        /\ raced' = raced \cup ({r} \cap client[c].stale)
        BY <1>2 DEF Write
  <2>2. client'[c].todo = w \o Tail(client[c].todo)
        BY <2>1
  <2>3. client' \in [Clients -> [todo : Seq(Steps), stale : SUBSET Marks]]
        BY <2>1
  <2>4. \A d \in Clients \ {c} :
           /\ client'[d].todo = client[d].todo
           /\ client[d].stale \subseteq client'[d].stale
           /\ client[d].todo # <<>> => r \in client'[d].stale
        BY <2>1
  <2>5. Moves(c)
        BY <2>1, <2>2, <2>3, <2>4 DEF Moves
  <2>6. Tells(c, r)
        BY <2>1, <2>4 DEF Tells
  <2>. QED  BY <2>2, <2>5, <2>6
<1>. QED  BY <1>1, <1>2

\* A step that goes on with what is left.
LEMMA Pop ==
    ASSUME Typed, NEW c \in Clients, client[c].todo # <<>>, NEW r \in Marks,
           Then(c, <<>>) \/ Write(c, r, <<>>)
    PROVE  /\ Moves(c) /\ client'[c].todo = Tail(client[c].todo)
           /\ client'[c].todo # <<>> =>
                Follows(The(c), Head(client'[c].todo)) /\ Head(client'[c].todo) \in Steps
           /\ client'[c].todo = <<>> => The(c).do \notin NeverLast
           /\ The(c) \in Steps
           /\ Write(c, r, <<>>) => Tells(c, r)
<1>1. /\ client \in [Clients -> [todo : Seq(Steps), stale : SUBSET Marks]]
      /\ client[c].todo \in Seq(Steps) /\ Chain(client[c].todo)
      BY DEF Typed
<1>. PICK q \in Seq(Steps) : q = client[c].todo
      BY <1>1
<1>2. /\ Head(q) \in Steps
      /\ Tail(q) \in Seq(Steps) /\ Chain(Tail(q))
      /\ Tail(q) # <<>> => Follows(Head(q), Head(Tail(q))) /\ Head(Tail(q)) \in Steps
      /\ Tail(q) = <<>> => Head(q).do \notin NeverLast
      BY <1>1, TailChain
<1>3. <<>> \o Tail(q) = Tail(q)
      BY <1>2, ConcatEmptySeq
<1>4. /\ Moves(c) /\ client'[c].todo = <<>> \o Tail(client[c].todo)
      /\ Write(c, r, <<>>) => Tells(c, r)
      BY <1>1, <1>2, <1>3, Runs
<1>. QED  BY <1>2, <1>3, <1>4 DEF The

\* A step that has found out what to do.
LEMMA Push ==
    ASSUME Typed, NEW c \in Clients, client[c].todo # <<>>, NEW r \in Marks,
           NEW w \in Seq(Steps), w # <<>>, Linked(w), Stands(The(c), w[Len(w)]),
           Then(c, w) \/ Write(c, r, w)
    PROVE  /\ Moves(c) /\ client'[c].todo # <<>> /\ Head(client'[c].todo) = w[1]
           /\ Write(c, r, w) => Tells(c, r)
<1>1. /\ client \in [Clients -> [todo : Seq(Steps), stale : SUBSET Marks]]
      /\ client[c].todo \in Seq(Steps) /\ Chain(client[c].todo)
      BY DEF Typed
<1>. PICK q \in Seq(Steps) : q = client[c].todo
      BY <1>1
<1>2. /\ w \o Tail(q) \in Seq(Steps) /\ Chain(w \o Tail(q))
      /\ w \o Tail(q) # <<>> /\ Head(w \o Tail(q)) = w[1]
      BY <1>1, ReplaceChain DEF The
<1>3. /\ Moves(c) /\ client'[c].todo = w \o Tail(client[c].todo)
      /\ Write(c, r, w) => Tells(c, r)
      BY <1>1, <1>2, Runs
<1>. QED  BY <1>2, <1>3

\* A request that gives up, and one that begins.
LEMMA Stop ==
    ASSUME Typed, NEW c \in Clients, Fail(c)
    PROVE  Moves(c) /\ client'[c].todo = <<>>
<1>1. /\ client \in [Clients -> [todo : Seq(Steps), stale : SUBSET Marks]]
      BY DEF Typed
<1>2. /\ client' = [client EXCEPT ![c].todo = <<>>] /\ raced' = raced
      BY DEF Fail
<1>3. Chain(<<>>) /\ <<>> \in Seq(Steps)
      BY EmptySeq DEF Chain
<1>4. client'[c].todo = <<>>
      BY <1>1, <1>2
<1>5. client' \in [Clients -> [todo : Seq(Steps), stale : SUBSET Marks]]
      BY <1>1, <1>2, <1>3
<1>6. \A d \in Clients \ {c} : client'[d] = client[d]
      BY <1>1, <1>2
<1>. QED  BY <1>2, <1>3, <1>4, <1>5, <1>6 DEF Moves

\* A request that begins moves alone.
LEMMA Start ==
    ASSUME Typed, NEW c \in Clients, NEW w \in Seq(Steps), Chain(w), Begin(c, w)
    PROVE  Moves(c) /\ client'[c].todo = w
<1>1. /\ client \in [Clients -> [todo : Seq(Steps), stale : SUBSET Marks]]
      BY DEF Typed
<1>2. /\ client' = [client EXCEPT ![c] = [todo |-> w, stale |-> {}]] /\ raced' = raced
      BY DEF Begin
<1>3. client'[c].todo = w
      BY <1>1, <1>2
<1>4. client' \in [Clients -> [todo : Seq(Steps), stale : SUBSET Marks]]
      BY <1>1, <1>2
<1>5. \A d \in Clients \ {c} : client'[d] = client[d]
      BY <1>1, <1>2
<1>. QED  BY <1>2, <1>3, <1>4, <1>5 DEF Moves

-----------------------------------------------------------------------------
(* Steps that leave a part of the invariant alone. *)

\* A request that moves keeps lists of steps well formed.
LEMMA TypedKept ==
    ASSUME Typed, NEW c \in Clients, Moves(c), TypeOK',
           wanted' \in [Plans -> PlanText \cup {None}]
    PROVE  Typed'
<1>1. \A d \in Clients : Chain(client'[d].todo)
      BY DEF Typed, Moves
<1>. QED  BY <1>1 DEF Typed, Moves

\* Records of permissions stay, and a pending one is written or is lost.
LEMMA RecordKept ==
    ASSUME Typed, NEW c \in Clients, Moves(c), audit \subseteq audit', lost \subseteq lost',
           client[c].todo # <<>> /\ The(c).do = "audit" =>
             <<The(c).arg, The(c).id>> \in audit' \cup lost',
           NEW p, OnRecord(p)
    PROVE  OnRecord(p)'
<1>1. CASE <<"PipelineArmed", p>> \in audit \cup lost
      BY <1>1 DEF OnRecord
<1>2. CASE \E d \in Clients : client[d].todo # <<>> /\ The(d) = Audit("PipelineArmed", p)
  <2>1. PICK d \in Clients : client[d].todo # <<>> /\ The(d) = Audit("PipelineArmed", p)
        BY <1>2
  <2>2. CASE d = c
    <3>1. The(c).do = "audit" /\ The(c).arg = "PipelineArmed" /\ The(c).id = p
          BY <2>1, <2>2 DEF Audit, Step
    <3>. QED  BY <2>1, <2>2, <3>1 DEF OnRecord
  <2>3. CASE d # c
    <3>1. client'[d].todo = client[d].todo
          BY <2>3 DEF Moves
    <3>. QED  BY <2>1, <3>1 DEF OnRecord, The, Audit, Step
  <2>. QED  BY <2>2, <2>3
<1>. QED  BY <1>1, <1>2 DEF OnRecord

\* What the others are about to write to a pipeline.
LEMMA OtherPipes ==
    ASSUME Typed, Permission, NEW c \in Clients, Moves(c), typed \subseteq typed',
           \A p \in Pipes : pipes'[p] = pipes[p] \/ Tells(c, p),
           NEW d \in Clients \ {c}
    PROVE  /\ At(d, "write_pipe")' => PipePending(d)'
           /\ At(d, "write_ack")' => AckPending(d)'
<1>1. /\ client'[d].todo = client[d].todo /\ client[d].stale \subseteq client'[d].stale
      BY DEF Moves
<1>2. ASSUME At(d, "write_pipe")' PROVE PipePending(d)'
  <2>1. At(d, "write_pipe") /\ The(d)' = The(d) /\ client[d].todo # <<>>
        BY <1>1, <1>2 DEF At, The
  <2>2. PipePending(d)
        BY <2>1 DEF Permission
  <2>3. The(d) \in Steps
        BY <2>1, TailChain DEF Typed, The
  <2>. PICK s \in Steps : s = The(d)
        BY <2>3
  <2>4. s.id \in Pipes
        BY <2>1, PipeSteps DEF At, The
  <2>5. pipes'[s.id] = pipes[s.id] \/ s.id \in client'[d].stale
        BY <2>1, <2>4 DEF Tells
  <2>6. Armed(s.arg.row) <=> Armed(s.arg.row)'
        BY DEF Armed
  <2>. QED  BY <1>1, <2>1, <2>2, <2>5, <2>6 DEF PipePending, Armed
<1>3. ASSUME At(d, "write_ack")' PROVE AckPending(d)'
  <2>1. At(d, "write_ack") /\ The(d)' = The(d) /\ client[d].todo # <<>>
        BY <1>1, <1>3 DEF At, The
  <2>2. AckPending(d)
        BY <2>1 DEF Permission
  <2>3. The(d) \in Steps
        BY <2>1, TailChain DEF Typed, The
  <2>. PICK s \in Steps : s = The(d)
        BY <2>3
  <2>4. s.id \in Pipes
        BY <2>1, PipeSteps DEF At, The
  <2>5. pipes'[s.id] = pipes[s.id] \/ s.id \in client'[d].stale
        BY <2>1, <2>4 DEF Tells
  <2>. QED  BY <1>1, <2>1, <2>2, <2>5 DEF AckPending
<1>. QED  BY <1>2, <1>3

\* The request of the step is not about to write a pipeline, and no record of
\* a permission is lost sight of.
Recording(c) ==
    /\ audit \subseteq audit' /\ lost \subseteq lost'
    /\ client[c].todo # <<>> /\ The(c).do = "audit" =>
         <<The(c).arg, The(c).id>> \in audit' \cup lost'

\* A step that touches no pipeline keeps what is known of permissions.
LEMMA PermissionKept ==
    ASSUME Typed, Permission, NEW c \in Clients, Moves(c), Recording(c),
           UNCHANGED <<pipes, typed, authorised, dropped>>,
           Lead(client'[c].todo) \notin {"write_pipe", "write_ack"}
    PROVE  Permission'
<1>1. /\ dropped' \subseteq typed'
      /\ \A p \in Pipes : pipes'[p] # None /\ Armed(pipes'[p]) =>
           /\ <<p, pipes'[p].ack>> \in typed'
           /\ <<p, pipes'[p].steps>> \in authorised' \/ p \in raced'
      BY DEF Permission, Moves
<1>2. \A r \in typed' : OnRecord(r[1])'
      BY RecordKept DEF Permission, Recording
<1>3. \A d \in Clients \ {c} : /\ At(d, "write_pipe")' => PipePending(d)'
                               /\ At(d, "write_ack")' => AckPending(d)'
      BY OtherPipes
<1>4. ~At(c, "write_pipe")' /\ ~At(c, "write_ack")'
      BY DEF At, Lead
<1>. QED  BY <1>1, <1>2, <1>3, <1>4 DEF Permission, Armed

\* What each request holds of a key.
LEMMA Hands ==
    ASSUME NEW c \in Clients
    PROVE  /\ Calm(c) => InHand(c) = {} /\ HalfReplaced(c) = {}
           /\ At(c, "hand_over") => InHand(c) = {The(c).arg}
           /\ At(c, "set_exported") /\ ~The(c).arg.value => HalfReplaced(c) = {The(c).arg.key}
           /\ At(c, "set_exported") /\ The(c).arg.value => HalfReplaced(c) = {}
           /\ At(c, "set_exported") => InHand(c) = {}
           /\ At(c, "hand_over") => HalfReplaced(c) = {}
BY DEF Calm, InHand, HalfReplaced, At

\* The other requests hold what they held.
LEMMA OtherHands ==
    ASSUME NEW c \in Clients, Moves(c), NEW d \in Clients \ {c}
    PROVE  /\ InHand(d)' = InHand(d) /\ HalfReplaced(d)' = HalfReplaced(d)
           /\ (At(d, "recipients")' <=> At(d, "recipients"))
           /\ The(d)' = The(d)
BY DEF Moves, InHand, HalfReplaced, At, The

\* A key is never out of account again.
LEMMA SpokenGrows ==
    ASSUME NEW c \in Clients, Moves(c), released \subseteq released', unkept \subseteq unkept',
           mistaken \subseteq mistaken', InHand(c) \subseteq released' \cup unkept'
    PROVE  Spoken \subseteq Spoken'
<1>. SUFFICES ASSUME NEW k \in Spoken PROVE k \in Spoken'
      OBVIOUS
<1>1. CASE k \in released \cup unkept \cup mistaken
      BY <1>1 DEF Spoken
<1>2. CASE \E d \in Clients : k \in InHand(d)
  <2>. PICK d \in Clients : k \in InHand(d)
        BY <1>2
  <2>1. CASE d = c
        BY <2>1 DEF Spoken
  <2>2. CASE d # c
    <3>1. k \in InHand(d)'
          BY <2>2, OtherHands
    <3>. QED  BY <3>1 DEF Spoken
  <2>. QED  BY <2>1, <2>2
<1>. QED  BY <1>1, <1>2 DEF Spoken

\* A step that leaves the settings alone and accounts for the keys it lets go of
\* keeps what is known of keys.
LEMMA KeyKept ==
    ASSUME KeyInv, NEW c \in Clients, Moves(c), UNCHANGED <<settings, encrypted>>,
           released \subseteq released', unkept \subseteq unkept', mistaken \subseteq mistaken',
           InHand(c) \subseteq released' \cup unkept', HalfReplaced(c) \subseteq mistaken',
           Lead(client'[c].todo) # "recipients"
    PROVE  KeyInv'
<1>1. Spoken \subseteq Spoken' /\ mistaken' \subseteq Spoken'
      BY SpokenGrows DEF Spoken
<1>2. KeyIsHeld'
  <2>. SUFFICES ASSUME settings'.exported, settings'.public # None
                PROVE  settings'.public \in Spoken' \cup UNION {HalfReplaced(d)' : d \in Clients}
        BY DEF KeyIsHeld
  <2>1. CASE settings.public \in Spoken
        BY <1>1, <2>1
  <2>2. CASE \E d \in Clients : settings.public \in HalfReplaced(d)
    <3>. PICK d \in Clients : settings.public \in HalfReplaced(d)
          BY <2>2
    <3>1. CASE d = c
          BY <1>1, <3>1
    <3>2. CASE d # c
          BY <3>2, OtherHands
    <3>. QED  BY <3>1, <3>2
  <2>. QED  BY <2>1, <2>2 DEF KeyInv, KeyIsHeld
<1>3. ASSUME NEW d \in Clients, At(d, "recipients")'
      PROVE  The(d)'.arg \in Spoken' \cup {None}
  <2>1. d # c
        BY <1>3 DEF At, Lead
  <2>2. At(d, "recipients") /\ The(d)' = The(d)
        BY <1>3, <2>1, OtherHands
  <2>. QED  BY <1>1, <2>2 DEF KeyInv
<1>. QED  BY <1>1, <1>2, <1>3 DEF KeyInv

\* What the other requests know of their rows survives a write they are told of.
LEMMA OtherRows ==
    ASSUME Typed, RowInv, NEW c \in Clients, Moves(c), used \subseteq used',
           \A s \in Scheds : \/ scheds'[s] = scheds[s] \/ scheds'[s] = None
                             \/ s \notin used
                             \/ /\ scheds[s] # None /\ scheds'[s].kind = scheds[s].kind
                                /\ scheds'[s].plan = scheds[s].plan
                                /\ scheds'[s].pipe = scheds[s].pipe,
           \A d \in Dests : dests'[d] = dests[d] \/ Tells(c, d),
           \A d \in Dests : d \in filed' => d \in filed \/ Tells(c, d),
           NEW d \in Clients \ {c}
    PROVE  RowPending(d)'
<1>1. /\ client'[d].todo = client[d].todo /\ client[d].stale \subseteq client'[d].stale
      BY DEF Moves
<1>. SUFFICES ASSUME client[d].todo # <<>> PROVE RowPending(d)'
      BY <1>1 DEF RowPending, At
<1>2. (\A do : At(d, do)' <=> At(d, do)) /\ The(d)' = The(d)
      BY <1>1 DEF At, The
<1>3. The(d) \in Steps
      BY TailChain DEF Typed, The
<1>. PICK s \in Steps : s = The(d)
      BY <1>3
<1>4. (\A do : At(d, do) => s.do = do) /\ RowPending(d)
      BY DEF At, The, RowInv
<1>5. /\ \A e \in Dests : dests'[e] = dests[e] \/ e \in client'[d].stale
      /\ \A e \in Dests : e \in filed' => e \in filed \/ e \in client'[d].stale
      BY DEF Tells
<1>6. At(d, "insert_sched") => ValidParts(s.arg)
      BY <1>4 DEF RowPending
<1>7. ASSUME At(d, "write_sched") PROVE SchedPending(d)'
  <2>1. SchedPending(d) /\ s.id \in Scheds
        BY <1>4, <1>7, SchedSteps DEF RowPending
  <2>2. s.id \in used /\ ValidParts(s.arg.row)
        BY <2>1 DEF SchedPending
  <2>3. scheds[s.id] # None => /\ scheds[s.id].kind = s.arg.row.kind
                               /\ scheds[s.id].plan = s.arg.row.plan
                               /\ scheds[s.id].pipe = s.arg.row.pipe
        BY <2>1 DEF SchedPending
  <2>4. scheds'[s.id] # None => /\ scheds'[s.id].kind = s.arg.row.kind
                                /\ scheds'[s.id].plan = s.arg.row.plan
                                /\ scheds'[s.id].pipe = s.arg.row.pipe
        BY <2>1, <2>2, <2>3
  <2>5. s.id \in used' /\ The(d)' = s
        BY <1>2, <2>2
  <2>. QED  BY <2>2, <2>4, <2>5 DEF SchedPending
<1>8. ASSUME At(d, "write_dest") PROVE DestPending(d)'
  <2>1. DestPending(d) /\ s.id \in Dests
        BY <1>4, <1>8, DestSteps DEF RowPending
  <2>2. dests'[s.id] = dests[s.id] \/ s.id \in client'[d].stale
        BY <1>5, <2>1
  <2>. QED  BY <1>1, <1>2, <2>1, <2>2 DEF DestPending
<1>9. ASSUME At(d, "file_secret"), s.id \notin client'[d].stale PROVE dests'[s.id] # None
  <2>1. s.id \in Dests /\ s.id \notin client[d].stale
        BY <1>1, <1>4, <1>9, DestSteps
  <2>. QED  BY <1>4, <1>5, <1>9, <2>1 DEF RowPending
<1>10. ASSUME At(d, "delete_dest"), s.id \notin client'[d].stale PROVE s.id \notin filed'
  <2>1. s.id \in Dests /\ s.id \notin client[d].stale
        BY <1>1, <1>4, <1>10, DestSteps
  <2>. QED  BY <1>4, <1>5, <1>10, <2>1 DEF RowPending
<1>. QED  BY <1>2, <1>6, <1>7, <1>8, <1>9, <1>10 DEF RowPending, ValidParts

WatchedRows == {"insert_sched", "write_sched", "write_dest", "file_secret", "delete_dest"}

\* A request that is not about to write a row has nothing to know of one.
LEMMA NoRowPending ==
    ASSUME NEW c \in Clients, Lead(client'[c].todo) \notin WatchedRows
    PROVE  RowPending(c)'
BY DEF RowPending, At, Lead, WatchedRows

\* A step that touches no row keeps what is known of rows.
LEMMA RowKept ==
    ASSUME Typed, RowInv, NEW c \in Clients, Moves(c), used \subseteq used',
           UNCHANGED <<plans, scheds, dests, wanted, switchedOn, filed>>, RowPending(c)'
    PROVE  RowInv'
<1>1. /\ PlanEditsSurvive' /\ ScheduledPlansExist' /\ StoredSchedulesAreValid'
      BY DEF RowInv, PlanEditsSurvive, ScheduledPlansExist, StoredSchedulesAreValid, ValidParts
<1>2. FiledSecretsHaveOwners' /\ EnabledIsAsked'
      BY DEF RowInv, FiledSecretsHaveOwners, EnabledIsAsked, Moves
<1>3. \A s \in Scheds : scheds'[s] # None => s \in used'
      BY DEF RowInv
<1>4. \A d \in Clients \ {c} : RowPending(d)'
      BY OtherRows
<1>. QED  BY <1>1, <1>2, <1>3, <1>4 DEF RowInv

\* A step that changes no row and no key, and after which the request stands
\* before no step with a pending fact.
LEMMA Quiet ==
    ASSUME Inv, NEW c \in Clients, Moves(c), Recording(c), TypeOK',
           UNCHANGED <<tables, settings, encrypted, filed, ghosts>>,
           released \subseteq released', unkept \subseteq unkept', mistaken \subseteq mistaken',
           InHand(c) \subseteq released' \cup unkept', HalfReplaced(c) \subseteq mistaken',
           used \subseteq used',
           Lead(client'[c].todo) \notin Watched
    PROVE  Inv'
<1>1. Typed'
      BY TypedKept DEF Inv, Typed, ghosts
<1>2. Permission'
      BY PermissionKept DEF Inv, tables, ghosts, Watched
<1>3. KeyInv'
      BY KeyKept DEF Inv, Watched
<1>4. RowInv'
      BY RowKept, NoRowPending DEF Inv, tables, ghosts, Watched, WatchedRows
<1>. QED  BY <1>1, <1>2, <1>3, <1>4 DEF Inv

\* A request that begins has read nothing.
LEMMA Begins ==
    ASSUME Inv, NEW c \in Clients, NEW w \in Seq(Steps), Chain(w), w # <<>>,
           Head(w).do \notin Watched, Begin(c, w)
    PROVE  Inv'
<1>1. Moves(c) /\ client'[c].todo = w
      BY Start DEF Inv
<1>2. client[c].todo = <<>> /\ UNCHANGED <<tables, keys, filed, audit, ghosts, lost, used, faults>>
      BY DEF Begin
<1>3. requests' \in 0 .. MaxRequests
      BY CatalogueAssumption DEF Begin, Inv, Typed, TypeOK
<1>4. TypeOK'
      BY <1>2, <1>3 DEF Inv, Typed, TypeOK, tables, keys
<1>5. Recording(c) /\ Calm(c)
      BY <1>2 DEF Recording, At, Calm
<1>6. Lead(client'[c].todo) \notin Watched
      BY <1>1 DEF Lead
<1>. QED  BY <1>1, <1>2, <1>4, <1>5, <1>6, Quiet, Hands DEF keys, escrow

\* A request of one, two or three steps begins.
LEMMA BeginsOne ==
    ASSUME Inv, NEW c \in Clients, NEW s \in Steps, Begin(c, <<s>>),
           s.do \notin Watched, s.do \notin NeverLast
    PROVE  Inv'
<1>. PICK w : w = <<s>>
      OBVIOUS
<1>1. w \in Seq(Steps) /\ Chain(w) /\ w # <<>> /\ Head(w) = s
      BY OneStep
<1>. QED  BY <1>1, Begins

LEMMA BeginsTwo ==
    ASSUME Inv, NEW c \in Clients, NEW s \in Steps, NEW t \in Steps, Begin(c, <<s, t>>),
           Follows(s, t), s.do \notin Watched, t.do \notin NeverLast
    PROVE  Inv'
<1>. PICK w : w = <<s, t>>
      OBVIOUS
<1>1. w \in Seq(Steps) /\ Chain(w) /\ w # <<>> /\ Head(w) = s
      BY TwoSteps
<1>. QED  BY <1>1, Begins

LEMMA BeginsThree ==
    ASSUME Inv, NEW c \in Clients, NEW s \in Steps, NEW t \in Steps, NEW u \in Steps,
           Begin(c, <<s, t, u>>), Follows(s, t), Follows(t, u),
           s.do \notin Watched, u.do \notin NeverLast
    PROVE  Inv'
<1>. PICK w : w = <<s, t, u>>
      OBVIOUS
<1>1. w \in Seq(Steps) /\ Chain(w) /\ w # <<>> /\ Head(w) = s
      BY ThreeSteps
<1>. QED  BY <1>1, Begins

\* A step that reads and decides how to go on.
LEMMA Reads ==
    ASSUME Inv, NEW c \in Clients, Moves(c), ReadOnly,
           ~At(c, "audit"), Calm(c), Lead(client'[c].todo) \notin Watched
    PROVE  Inv'
<1>1. TypeOK'
      BY DEF Inv, Typed, TypeOK, tables, keys, ReadOnly, bounds
<1>2. Recording(c)
      BY DEF Recording, At, The, ReadOnly
<1>. QED  BY <1>1, <1>2, Quiet, Hands DEF keys, escrow, ReadOnly, bounds

\* A request that gives up.
LEMMA Stops ==
    ASSUME Typed, NEW c \in Clients, Fail(c)
    PROVE  Moves(c) /\ Lead(client'[c].todo) \notin Watched
BY Stop DEF Lead, Watched

\* Most steps are followed by none with a pending fact.
LEMMA Pops ==
    ASSUME Typed, NEW c \in Clients, client[c].todo # <<>>, NEW r \in Marks,
           Then(c, <<>>) \/ Write(c, r, <<>>), The(c).do \notin Opens
    PROVE  Moves(c) /\ Lead(client'[c].todo) \notin Watched
           /\ (Write(c, r, <<>>) => Tells(c, r))
<1>1. /\ Moves(c)
      /\ client'[c].todo # <<>> => Follows(The(c), Head(client'[c].todo))
      /\ Write(c, r, <<>>) => Tells(c, r)
      BY Pop
<1>2. CASE client'[c].todo = <<>>
      BY <1>1, <1>2 DEF Lead, Watched
<1>3. CASE client'[c].todo # <<>>
  <2>. PICK b : b = Head(client'[c].todo)
        OBVIOUS
  <2>1. b.do \notin Watched
        BY <1>1, <1>3 DEF Follows, Loaded, Opens, Watched
  <2>. QED  BY <1>1, <1>3, <2>1 DEF Lead
<1>. QED  BY <1>2, <1>3

\* A step that is replaced by others.
LEMMA Pushes ==
    ASSUME Typed, NEW c \in Clients, client[c].todo # <<>>,
           NEW w \in Seq(Steps), w # <<>>, Linked(w), Stands(The(c), w[Len(w)]),
           Then(c, w), w[1].do \notin Watched
    PROVE  Moves(c) /\ Lead(client'[c].todo) \notin Watched
<1>1. None \in Marks
      BY DEF Marks
<1>. QED  BY <1>1, Push DEF Lead

-----------------------------------------------------------------------------
(* The requests that begin. *)

\* The requests of a kind, as they begin: first those on pipelines.
LEMMA PipelineRequests ==
    ASSUME Inv, NEW c \in Clients,
           \/ CreatePipeline(c) \/ UpdatePipeline(c) \/ ArmPipeline(c) \/ DeletePipeline(c)
           \/ RunPipelineNow(c)
    PROVE  Inv'
<1>. USE DEF Step, Audit
<1>0. \A p \in Pipes, a \in Actions : Audit(a, p) \in Steps
      BY DEF Steps, OfAudit, Marks
<1>1. CASE CreatePipeline(c)
  <2>1. PICK p \in Pipes, l \in StepLists :
          Begin(c, <<Step("insert_pipe", p, l), Audit("PipelineCreated", p)>>)
        BY <1>1 DEF CreatePipeline
  <2>. PICK s : s = Step("insert_pipe", p, l)
        OBVIOUS
  <2>. PICK t : t = Audit("PipelineCreated", p)
        OBVIOUS
  <2>2. s \in Steps /\ t \in Steps
        BY <1>0 DEF Steps, OfPipes, Actions
  <2>3. Follows(s, t) /\ s.do \notin Watched /\ t.do \notin NeverLast
        BY DEF Follows, Watched, NeverLast, Loaded
  <2>. QED  BY <2>1, <2>2, <2>3, BeginsTwo
<1>2. CASE UpdatePipeline(c)
  <2>1. PICK p \in Pipes, patch \in PipePatch :
          Begin(c, <<Step("update_pipe", p, patch), Audit("PipelineUpdated", p)>>)
        BY <1>2 DEF UpdatePipeline, PipePatch
  <2>. PICK s : s = Step("update_pipe", p, patch)
        OBVIOUS
  <2>. PICK t : t = Audit("PipelineUpdated", p)
        OBVIOUS
  <2>2. s \in Steps /\ t \in Steps
        BY <1>0 DEF Steps, OfPipes, Actions
  <2>3. Follows(s, t) /\ s.do \notin Watched /\ t.do \notin NeverLast
        BY DEF Follows, Watched, NeverLast, Loaded
  <2>. QED  BY <2>1, <2>2, <2>3, BeginsTwo
<1>3. CASE ArmPipeline(c)
  <2>1. PICK p \in Pipes, x \in Texts :
          Begin(c, <<Step("arm", p, x), Audit("PipelineArmed", p)>>)
        BY <1>3 DEF ArmPipeline, Texts
  <2>. PICK s : s = Step("arm", p, x)
        OBVIOUS
  <2>. PICK t : t = Audit("PipelineArmed", p)
        OBVIOUS
  <2>2. s \in Steps /\ t \in Steps
        BY <1>0 DEF Steps, OfPipes, Actions
  <2>3. Follows(s, t) /\ s.do \notin Watched /\ t.do \notin NeverLast
        BY DEF Follows, Watched, NeverLast, Loaded
  <2>. QED  BY <2>1, <2>2, <2>3, BeginsTwo
<1>4. CASE DeletePipeline(c)
  <2>1. PICK p \in Pipes : Begin(c, <<Step("delete_pipe", p, None)>>)
        BY <1>4 DEF DeletePipeline
  <2>. PICK s : s = Step("delete_pipe", p, None)
        OBVIOUS
  <2>2. s \in Steps /\ s.do \notin Watched /\ s.do \notin NeverLast
        BY DEF Steps, OfPipes, Watched, NeverLast
  <2>. QED  BY <2>1, <2>2, BeginsOne
<1>5. CASE RunPipelineNow(c)
  <2>1. PICK p \in Pipes : Begin(c, <<Step("perform_pipe", p, None)>>)
        BY <1>5 DEF RunPipelineNow
  <2>. PICK s : s = Step("perform_pipe", p, None)
        OBVIOUS
  <2>2. s \in Steps /\ s.do \notin Watched /\ s.do \notin NeverLast
        BY DEF Steps, OfPipes, Watched, NeverLast
  <2>. QED  BY <2>1, <2>2, BeginsOne
<1>. QED  BY <1>1, <1>2, <1>3, <1>4, <1>5

\* The requests on plans, and the deletion of the profile behind them.
LEMMA PlanRequests ==
    ASSUME Inv, NEW c \in Clients,
           \/ CreatePlan(c) \/ UpdatePlan(c) \/ SetPlanMasking(c) \/ DeletePlan(c)
           \/ DeleteProfile(c)
    PROVE  Inv'
<1>. USE DEF Step, Audit
<1>0. \A p \in Plans, a \in Actions : Audit(a, p) \in Steps
      BY DEF Steps, OfAudit, Marks
<1>1. CASE CreatePlan(c)
  <2>1. PICK p \in Plans, e \in Edits :
          Begin(c, <<Step("insert_plan", p, [selections |-> e, masking |-> e])>>)
        BY <1>1 DEF CreatePlan
  <2>. PICK s : s = Step("insert_plan", p, [selections |-> e, masking |-> e])
        OBVIOUS
  <2>2. s \in Steps
        BY DEF Steps, OfPlans, PlanText
  <2>3. s.do \notin Watched /\ s.do \notin NeverLast
        BY DEF Watched, NeverLast
  <2>. QED  BY <2>1, <2>2, <2>3, BeginsOne
<1>2. CASE UpdatePlan(c)
  <2>1. PICK p \in Plans, e \in Edits :
          Begin(c, <<Step("edit_plan", p, [selections |-> e])>>)
        BY <1>2 DEF UpdatePlan
  <2>. PICK s : s = Step("edit_plan", p, [selections |-> e])
        OBVIOUS
  <2>2. s \in Steps
        BY DEF Steps, OfPlans, PlanPatch
  <2>3. s.do \notin Watched /\ s.do \notin NeverLast
        BY DEF Watched, NeverLast
  <2>. QED  BY <2>1, <2>2, <2>3, BeginsOne
<1>3. CASE SetPlanMasking(c)
  <2>1. PICK p \in Plans, e \in Edits :
          Begin(c, <<Step("edit_plan", p, [masking |-> e]), Audit("MaskingChanged", p)>>)
        BY <1>3 DEF SetPlanMasking
  <2>. PICK s : s = Step("edit_plan", p, [masking |-> e])
        OBVIOUS
  <2>. PICK t : t = Audit("MaskingChanged", p)
        OBVIOUS
  <2>2. s \in Steps /\ t \in Steps
        BY <1>0 DEF Steps, OfPlans, PlanPatch, Actions
  <2>3. Follows(s, t) /\ s.do \notin Watched /\ t.do \notin NeverLast
        BY DEF Follows, Loaded, Watched, NeverLast
  <2>. QED  BY <2>1, <2>2, <2>3, BeginsTwo
<1>4. CASE DeletePlan(c)
  <2>1. PICK p \in Plans :
          Begin(c, <<Step("delete_plans", {p}, None)>>)
        BY <1>4 DEF DeletePlan
  <2>. PICK s : s = Step("delete_plans", {p}, None)
        OBVIOUS
  <2>2. s \in Steps
        BY DEF Steps, OfPlans
  <2>3. s.do \notin Watched /\ s.do \notin NeverLast
        BY DEF Watched, NeverLast
  <2>. QED  BY <2>1, <2>2, <2>3, BeginsOne
<1>5. CASE DeleteProfile(c)
  <2>1. Begin(c, <<Step("delete_plans", Plans, None)>>)
        BY <1>5 DEF DeleteProfile
  <2>. PICK s : s = Step("delete_plans", Plans, None)
        OBVIOUS
  <2>2. s \in Steps
        BY DEF Steps, OfPlans
  <2>3. s.do \notin Watched /\ s.do \notin NeverLast
        BY DEF Watched, NeverLast
  <2>. QED  BY <2>1, <2>2, <2>3, BeginsOne
<1>. QED  BY <1>1, <1>2, <1>3, <1>4, <1>5

\* The requests on schedules.
LEMMA ScheduleRequests ==
    ASSUME Inv, NEW c \in Clients,
           \/ CreateSchedule(c) \/ UpdateSchedule(c) \/ DeleteSchedule(c) \/ RunSchedule(c)
    PROVE  Inv'
<1>. USE DEF Step, Audit
<1>0. \A i \in Scheds, a \in Actions : Audit(a, i) \in Steps
      BY DEF Steps, OfAudit, Marks
<1>1. CASE CreateSchedule(c)
  <2>1. PICK i \in Scheds, row \in ScheduleRows :
          Begin(c, <<Step("check_target", i, row), Step("insert_sched", i, row)>>)
        BY <1>1 DEF CreateSchedule
  <2>. PICK s : s = Step("check_target", i, row)
        OBVIOUS
  <2>. PICK t : t = Step("insert_sched", i, row)
        OBVIOUS
  <2>2. s \in Steps /\ t \in Steps
        BY RowsAssumption DEF Steps, OfScheds
  <2>3. Follows(s, t) /\ s.do \notin Watched /\ t.do \notin NeverLast
        BY DEF Follows, Loaded, Watched, NeverLast
  <2>. QED  BY <2>1, <2>2, <2>3, BeginsTwo
<1>2. CASE UpdateSchedule(c)
  <2>1. PICK i \in Scheds, patch \in SchedulePatches :
          Begin(c, <<Step("update_sched", i, patch)>>)
        BY <1>2 DEF UpdateSchedule
  <2>. PICK s : s = Step("update_sched", i, patch)
        OBVIOUS
  <2>2. s \in Steps
        BY DEF Steps, OfScheds
  <2>3. s.do \notin Watched /\ s.do \notin NeverLast
        BY DEF Watched, NeverLast
  <2>. QED  BY <2>1, <2>2, <2>3, BeginsOne
<1>3. CASE DeleteSchedule(c)
  <2>1. PICK i \in Scheds :
          Begin(c, <<Audit("ScheduleDeleted", i), Step("delete_sched", i, None)>>)
        BY <1>3 DEF DeleteSchedule
  <2>. PICK s : s = Audit("ScheduleDeleted", i)
        OBVIOUS
  <2>. PICK t : t = Step("delete_sched", i, None)
        OBVIOUS
  <2>2. s \in Steps /\ t \in Steps
        BY <1>0 DEF Steps, OfScheds, Actions
  <2>3. Follows(s, t) /\ s.do \notin Watched /\ t.do \notin NeverLast
        BY DEF Follows, Loaded, Watched, NeverLast
  <2>. QED  BY <2>1, <2>2, <2>3, BeginsTwo
<1>4. CASE RunSchedule(c)
  <2>1. PICK i \in Scheds : /\ scheds[i] # None /\ scheds[i].kind = "pipeline"
                            /\ Begin(c, <<Step("perform_pipe", scheds[i].pipe, None)>>)
        BY <1>4 DEF RunSchedule
  <2>2. ValidParts(scheds[i]) /\ scheds[i] \in SchedRow
        BY <2>1 DEF Inv, RowInv, StoredSchedulesAreValid, Typed, TypeOK
  <2>3. scheds[i].pipe \in Pipes
        BY <2>1, <2>2 DEF ValidParts, SchedRow
  <2>. PICK s : s = Step("perform_pipe", scheds[i].pipe, None)
        OBVIOUS
  <2>4. s \in Steps /\ s.do \notin Watched /\ s.do \notin NeverLast
        BY <2>3 DEF Steps, OfPipes, Watched, NeverLast
  <2>. QED  BY <2>1, <2>4, BeginsOne
<1>. QED  BY <1>1, <1>2, <1>3, <1>4

\* The requests on destinations, and imports.
LEMMA DestinationRequests ==
    ASSUME Inv, NEW c \in Clients,
           \/ CreateDestination(c) \/ AddDestination(c) \/ SetDestinationCredential(c)
           \/ UpdateDestination(c) \/ DeleteDestination(c) \/ ImportBundle(c)
    PROVE  Inv'
<1>. USE DEF Step, Audit
<1>0. \A d \in Dests, a \in Actions : Audit(a, d) \in Steps
      BY DEF Steps, OfAudit, Marks
<1>a. \A e \in Edits : Asked(e) \in NewDest
      BY DEF Asked, NewDest, DestRow
<1>1. CASE CreateDestination(c)
  <2>1. PICK d \in Dests, e \in Edits :
          Begin(c, <<Step("insert_dest", d, Asked(e)), Step("file_secret", d, None), Audit("DestinationCreated", d)>>)
        BY <1>1 DEF CreateDestination
  <2>. PICK s : s = Step("insert_dest", d, Asked(e))
        OBVIOUS
  <2>. PICK t : t = Step("file_secret", d, None)
        OBVIOUS
  <2>. PICK u : u = Audit("DestinationCreated", d)
        OBVIOUS
  <2>2. s \in Steps /\ t \in Steps /\ u \in Steps
        BY <1>0, <1>a DEF Steps, OfDests, Actions
  <2>3. Follows(s, t) /\ Follows(t, u) /\ s.do \notin Watched /\ u.do \notin NeverLast
        BY DEF Follows, Loaded, Watched, NeverLast
  <2>. QED  BY <2>1, <2>2, <2>3, BeginsThree
<1>2. CASE AddDestination(c)
  <2>1. PICK d \in Dests, e \in Edits :
          Begin(c, <<Step("insert_dest", d, Asked(e)), Step("file_secret", d, None)>>)
        BY <1>2 DEF AddDestination
  <2>. PICK s : s = Step("insert_dest", d, Asked(e))
        OBVIOUS
  <2>. PICK t : t = Step("file_secret", d, None)
        OBVIOUS
  <2>2. s \in Steps /\ t \in Steps
        BY <1>a DEF Steps, OfDests
  <2>3. Follows(s, t) /\ s.do \notin Watched /\ t.do \notin NeverLast
        BY DEF Follows, Loaded, Watched, NeverLast
  <2>. QED  BY <2>1, <2>2, <2>3, BeginsTwo
<1>3. CASE SetDestinationCredential(c)
  <2>1. PICK d \in Dests :
          Begin(c, <<Step("require_dest", d, None), Step("file_secret", d, None)>>)
        BY <1>3 DEF SetDestinationCredential
  <2>. PICK s : s = Step("require_dest", d, None)
        OBVIOUS
  <2>. PICK t : t = Step("file_secret", d, None)
        OBVIOUS
  <2>2. s \in Steps /\ t \in Steps
        BY DEF Steps, OfDests
  <2>3. Follows(s, t) /\ s.do \notin Watched /\ t.do \notin NeverLast
        BY DEF Follows, Loaded, Watched, NeverLast
  <2>. QED  BY <2>1, <2>2, <2>3, BeginsTwo
<1>4. CASE UpdateDestination(c)
  <2>1. PICK d \in Dests, patch \in DestPatch :
          Begin(c, <<Step("update_dest", d, patch)>>)
        BY <1>4 DEF UpdateDestination, DestPatch
  <2>. PICK s : s = Step("update_dest", d, patch)
        OBVIOUS
  <2>2. s \in Steps
        BY DEF Steps, OfDests
  <2>3. s.do \notin Watched /\ s.do \notin NeverLast
        BY DEF Watched, NeverLast
  <2>. QED  BY <2>1, <2>2, <2>3, BeginsOne
<1>5. CASE DeleteDestination(c)
  <2>1. PICK d \in Dests :
          Begin(c, <<Step("unfile_secret", d, None), Step("delete_dest", d, TRUE)>>)
        BY <1>5 DEF DeleteDestination, Forget
  <2>. PICK s : s = Step("unfile_secret", d, None)
        OBVIOUS
  <2>. PICK t : t = Step("delete_dest", d, TRUE)
        OBVIOUS
  <2>2. s \in Steps /\ t \in Steps
        BY DEF Steps, OfDests
  <2>3. Follows(s, t) /\ s.do \notin Watched /\ t.do \notin NeverLast
        BY DEF Follows, Loaded, Watched, NeverLast
  <2>. QED  BY <2>1, <2>2, <2>3, BeginsTwo
<1>6. CASE ImportBundle(c)
  <2>1. PICK p \in Plans, d \in Dests, e \in Edits :
          Begin(c, <<Step("import_plan", p, e), Step("import_dest", d, e), Audit("ConfigImported", None)>>)
        BY <1>6 DEF ImportBundle
  <2>. PICK s : s = Step("import_plan", p, e)
        OBVIOUS
  <2>. PICK t : t = Step("import_dest", d, e)
        OBVIOUS
  <2>. PICK u : u = Audit("ConfigImported", None)
        OBVIOUS
  <2>2. s \in Steps /\ t \in Steps /\ u \in Steps
        BY DEF Steps, OfPlans, OfDests, OfAudit, Marks, Actions
  <2>3. Follows(s, t) /\ Follows(t, u) /\ s.do \notin Watched /\ u.do \notin NeverLast
        BY DEF Follows, Loaded, Watched, NeverLast
  <2>. QED  BY <2>1, <2>2, <2>3, BeginsThree
<1>. QED  BY <1>1, <1>2, <1>3, <1>4, <1>5, <1>6

\* The requests on the backup key, and backups that are to be encrypted.
LEMMA KeyRequests ==
    ASSUME Inv, NEW c \in Clients,
           \/ Generate(c) \/ ExportKey(c) \/ ImportKey(c) \/ Encrypt(c)
    PROVE  Inv'
<1>. USE DEF Step, Audit
<1>1. CASE Generate(c)
  <2>1. Begin(c, <<Step("ensure", None, None)>>)
        BY <1>1 DEF Generate
  <2>. PICK s : s = Step("ensure", None, None)
        OBVIOUS
  <2>2. s \in Steps
        BY DEF Steps, OfKeys
  <2>3. s.do \notin Watched /\ s.do \notin NeverLast
        BY DEF Watched, NeverLast
  <2>. QED  BY <2>1, <2>2, <2>3, BeginsOne
<1>2. CASE ExportKey(c)
  <2>. PICK s : s = Step("export", None, None)
        OBVIOUS
  <2>. PICK t : t = Audit("BackupKeyExported", None)
        OBVIOUS
  <2>1. Begin(c, <<s, t>>) \/ Begin(c, <<s>>)
        BY <1>2 DEF ExportKey
  <2>2. s \in Steps /\ t \in Steps
        BY DEF Steps, OfKeys, OfAudit, Marks, Actions
  <2>3. /\ Follows(s, t) /\ s.do \notin Watched
        /\ s.do \notin NeverLast /\ t.do \notin NeverLast
        BY DEF Follows, Loaded, Watched, NeverLast
  <2>4. CASE Begin(c, <<s, t>>)
        BY <2>2, <2>3, <2>4, BeginsTwo
  <2>5. CASE Begin(c, <<s>>)
        BY <2>2, <2>3, <2>5, BeginsOne
  <2>. QED  BY <2>1, <2>4, <2>5
<1>3. CASE ImportKey(c)
  <2>1. PICK k \in Elsewhere :
          Begin(c, <<Step("set_vault", None, k), Step("set_public", None, k), Step("set_exported", None, [value |-> TRUE, key |-> k])>>)
        BY <1>3 DEF ImportKey
  <2>0. k \in Keys
        BY CatalogueAssumption
  <2>. PICK s : s = Step("set_vault", None, k)
        OBVIOUS
  <2>. PICK t : t = Step("set_public", None, k)
        OBVIOUS
  <2>. PICK u : u = Step("set_exported", None, [value |-> TRUE, key |-> k])
        OBVIOUS
  <2>2. s \in Steps /\ t \in Steps /\ u \in Steps
        BY <2>0 DEF Steps, OfKeys, Flag
  <2>3. Follows(s, t) /\ Follows(t, u) /\ s.do \notin Watched /\ u.do \notin NeverLast
        BY DEF Follows, Loaded, Watched, NeverLast
  <2>. QED  BY <2>1, <2>2, <2>3, BeginsThree
<1>4. CASE Encrypt(c)
  <2>1. Begin(c, <<Step("ensure", None, None), Step("gate", None, None)>>)
        BY <1>4 DEF Encrypt
  <2>. PICK s : s = Step("ensure", None, None)
        OBVIOUS
  <2>. PICK t : t = Step("gate", None, None)
        OBVIOUS
  <2>2. s \in Steps /\ t \in Steps
        BY DEF Steps, OfKeys
  <2>3. Follows(s, t) /\ s.do \notin Watched /\ t.do \notin NeverLast
        BY DEF Follows, Loaded, Watched, NeverLast
  <2>. QED  BY <2>1, <2>2, <2>3, BeginsTwo
<1>. QED  BY <1>1, <1>2, <1>3, <1>4

-----------------------------------------------------------------------------
(* Steps that change no row and no setting. *)

\* The step a request is at is a step, and the only one it is at.
LEMMA Current ==
    ASSUME Typed, NEW c \in Clients, NEW do, At(c, do)
    PROVE  /\ client[c].todo # <<>> /\ The(c) \in Steps /\ The(c).do = do
           /\ \A other : other # do => ~At(c, other)
<1>1. client[c].todo # <<>> /\ The(c).do = do
      BY DEF At, The
<1>2. client[c].todo \in Seq(Steps) /\ Chain(client[c].todo)
      BY DEF Typed
<1>3. The(c) \in Steps
      BY <1>1, <1>2, TailChain DEF The
<1>. QED  BY <1>1, <1>3 DEF At, The

\* The count of faults stays within its bound.
LEMMA FaultCounted ==
    ASSUME faults \in 0 .. MaxFaults, faults' = faults \/ (faults < MaxFaults /\ faults' = faults + 1)
    PROVE  faults' \in 0 .. MaxFaults
BY CatalogueAssumption

\* None is a mark: of no record.
LEMMA NoMark == None \in Marks
BY DEF Marks

\* audit.rs: the row is written, or lost.
LEMMA AuditRowKeeps ==
    ASSUME Inv, NEW c \in Clients, AuditRow(c)
    PROVE  Inv'
<1>1. /\ client[c].todo # <<>> /\ The(c) \in Steps /\ The(c).do = "audit"
      /\ Calm(c)
      BY Current DEF Inv, AuditRow, Calm
<1>2. Then(c, <<>>)
      BY DEF AuditRow
<1>3. Moves(c) /\ Lead(client'[c].todo) \notin Watched
      BY <1>1, <1>2, Pops, NoMark DEF Inv, Opens
<1>4. Recording(c)
      BY DEF AuditRow, Recording
<1>5. UNCHANGED <<tables, keys, filed, ghosts, used, requests>>
      BY DEF AuditRow
<1>6. faults' \in 0 .. MaxFaults
      BY FaultCounted DEF AuditRow, Inv, Typed, TypeOK
<1>7. TypeOK'
      BY <1>5, <1>6 DEF Inv, Typed, TypeOK, tables, keys
<1>. QED  BY <1>1, <1>3, <1>4, <1>5, <1>7, Quiet, Hands DEF keys, escrow

\* A request ends where it is: a key may be left half replaced, or not handed over.
LEMMA CrashKeeps ==
    ASSUME Inv, NEW c \in Clients, Crash(c)
    PROVE  Inv'
<1>1. Fail(c) /\ client[c].todo # <<>>
      BY DEF Crash, Fail
<1>2. Moves(c) /\ Lead(client'[c].todo) \notin Watched
      BY <1>1, Stops DEF Inv
<1>3. PICK q \in Seq(Steps) : q = client[c].todo
      BY DEF Inv, Typed
<1>4. 1 \in 1 .. Len(q) /\ Head(q) = q[1]
      BY <1>1, <1>3, EmptySeq, HeadTailProperties
<1>5. Recording(c)
  <2>1. audit' = audit /\ lost \subseteq lost'
        BY DEF Crash
  <2>2. ASSUME The(c).do = "audit" PROVE <<The(c).arg, The(c).id>> \in lost'
    <3>1. The(c) = q[1]
          BY <1>3, <1>4 DEF The
    <3>2. q[1] \in {t \in {q[i] : i \in 1 .. Len(q)} : t.do = "audit"}
          BY <1>4, <2>2, <3>1
    <3>. QED  BY <1>3, <3>1, <3>2 DEF Crash
  <2>. QED  BY <2>1, <2>2 DEF Recording
<1>6. mistaken' = mistaken \cup HalfReplaced(c) /\ unkept' = unkept \cup InHand(c)
      BY DEF Crash
<1>7. UNCHANGED <<tables, settings, vault, encrypted, released, filed, ghosts, used, requests>>
      BY DEF Crash
<1>8. faults' \in 0 .. MaxFaults
      BY FaultCounted DEF Crash, Inv, Typed, TypeOK
<1>9. TypeOK'
      BY <1>7, <1>8 DEF Inv, Typed, TypeOK, tables
<1>. QED  BY <1>2, <1>5, <1>6, <1>7, <1>9, Quiet

\* A plan is read before it is edited.
LEMMA LoadPlanKeeps ==
    ASSUME Inv, NEW c \in Clients, LoadPlan(c)
    PROVE  Inv'
<1>1. /\ client[c].todo # <<>> /\ The(c) \in Steps /\ The(c).do = "edit_plan"
      /\ Calm(c) /\ ~At(c, "audit")
      BY Current DEF Inv, LoadPlan, Calm
<1>2. ReadOnly
      BY DEF LoadPlan
<1>3. CASE Fail(c)
      BY <1>1, <1>2, <1>3, Stops, Reads DEF Inv
<1>4. CASE ~Fail(c)
  <2>1. PICK h \in Steps : h = The(c)
        BY <1>1
  <2>2. h.id \in Plans /\ h.arg \in PlanPatch /\ plans[h.id] \in PlanRow
        BY <1>1, <1>4, <2>1, PlanSteps DEF LoadPlan, Inv, Typed, TypeOK
  <2>3. PICK s : s = Step("write_plan", h.id, [patch |-> h.arg, row |-> plans[h.id]])
        OBVIOUS
  <2>4. s \in Steps /\ s.do \notin Watched /\ Stands(h, s)
        BY <1>1, <2>1, <2>2, <2>3 DEF Step, Steps, OfPlans, Watched, Stands, Opens, NeverLast
  <2>5. Then(c, <<s>>)
        BY <1>4, <2>1, <2>3 DEF LoadPlan
  <2>6. Moves(c) /\ Lead(client'[c].todo) \notin Watched
        BY <1>1, <2>1, <2>4, <2>5, OneStep, Pushes DEF Inv
  <2>. QED  BY <1>1, <1>2, <2>6, Reads
<1>. QED  BY <1>3, <1>4

\* An import creates a plan or edits the one it finds.
LEMMA ImportPlanKeeps ==
    ASSUME Inv, NEW c \in Clients, ImportPlan(c)
    PROVE  Inv'
<1>1. /\ client[c].todo # <<>> /\ The(c) \in Steps /\ The(c).do = "import_plan"
      /\ Calm(c) /\ ~At(c, "audit")
      BY Current DEF Inv, ImportPlan, Calm
<1>2. ReadOnly
      BY DEF ImportPlan
<1>. PICK h \in Steps : h = The(c)
      BY <1>1
<1>3. h.id \in Plans /\ h.arg \in Edits
      BY <1>1, PlanSteps
<1>. PICK s : s = Step("edit_plan", h.id, [selections |-> h.arg])
      OBVIOUS
<1>. PICK t : t = Step("edit_plan", h.id, [masking |-> h.arg])
      OBVIOUS
<1>. PICK u : u = Step("insert_plan", h.id, [selections |-> h.arg, masking |-> h.arg])
      OBVIOUS
<1>4. s \in Steps /\ t \in Steps /\ u \in Steps
      BY <1>3 DEF Step, Steps, OfPlans, PlanPatch, PlanText
<1>5. /\ s.do \notin Watched /\ u.do \notin Watched /\ Follows(s, t)
      /\ Stands(h, t) /\ Stands(h, u)
      BY <1>1 DEF Step, Watched, Stands, Opens, NeverLast, Follows, Loaded
<1>6. Then(c, <<s, t>>) \/ Then(c, <<u>>)
      BY DEF ImportPlan
<1>7. CASE Then(c, <<s, t>>)
  <2>. PICK w : w = <<s, t>>
        OBVIOUS
  <2>1. w \in Seq(Steps) /\ w # <<>> /\ Linked(w) /\ w[Len(w)] = t /\ w[1] = s
        BY <1>4, <1>5, TwoSteps
  <2>2. Moves(c) /\ Lead(client'[c].todo) \notin Watched
        BY <1>1, <1>5, <1>7, <2>1, Pushes DEF Inv
  <2>. QED  BY <1>1, <1>2, <2>2, Reads
<1>8. CASE Then(c, <<u>>)
  <2>1. Moves(c) /\ Lead(client'[c].todo) \notin Watched
        BY <1>1, <1>4, <1>5, <1>8, OneStep, Pushes DEF Inv
  <2>. QED  BY <1>1, <1>2, <2>1, Reads
<1>. QED  BY <1>6, <1>7, <1>8

\* An import creates a destination or edits the one it finds, and enables neither.
LEMMA ImportDestKeeps ==
    ASSUME Inv, NEW c \in Clients, ImportDest(c)
    PROVE  Inv'
<1>1. /\ client[c].todo # <<>> /\ The(c) \in Steps /\ The(c).do = "import_dest"
      /\ Calm(c) /\ ~At(c, "audit")
      BY Current DEF Inv, ImportDest, Calm
<1>2. ReadOnly
      BY DEF ImportDest
<1>. PICK h \in Steps : h = The(c)
      BY <1>1
<1>3. h.id \in Dests /\ h.arg \in Edits
      BY <1>1, DestSteps
<1>. PICK s : s = Step("update_dest", h.id, [kind |-> h.arg])
      OBVIOUS
<1>. PICK t : t = Step("insert_dest", h.id, Imported(h.arg))
      OBVIOUS
<1>4. [kind |-> h.arg] \in DestPatch /\ Imported(h.arg) \in NewDest
      BY <1>3 DEF DestPatch, Imported, NewDest, DestRow
<1>5. s \in Steps /\ t \in Steps
      BY <1>3, <1>4 DEF Step, Steps, OfDests
<1>6. s.do \notin Watched /\ t.do \notin Watched /\ Stands(h, s) /\ Stands(h, t)
      BY <1>1 DEF Step, Watched, Stands, Opens, NeverLast
<1>7. Then(c, <<s>>) \/ Then(c, <<t>>)
      BY DEF ImportDest
<1>8. Moves(c) /\ Lead(client'[c].todo) \notin Watched
      BY <1>1, <1>5, <1>6, <1>7, OneStep, Pushes DEF Inv
<1>. QED  BY <1>1, <1>2, <1>8, Reads

\* ensure_exists: a key that is there is kept, otherwise its replacement is
\* queued.
LEMMA EnsureExistsKeeps ==
    ASSUME Inv, NEW c \in Clients, EnsureExists(c)
    PROVE  Inv'
<1>1. /\ client[c].todo # <<>> /\ The(c) \in Steps /\ The(c).do = "ensure"
      /\ Calm(c) /\ ~At(c, "audit")
      BY Current DEF Inv, EnsureExists, Calm
<1>2. /\ UNCHANGED <<tables, keys, filed, audit, ghosts, lost, requests, faults>>
      /\ used \subseteq used'
      BY DEF EnsureExists
<1>3. TypeOK'
      BY <1>2 DEF Inv, Typed, TypeOK, tables, keys
<1>4. Recording(c)
      BY <1>1, <1>2 DEF Recording
<1>5. Moves(c) /\ Lead(client'[c].todo) \notin Watched
  <2>1. CASE Then(c, <<>>)
        BY <1>1, <2>1, Pops, NoMark DEF Inv, Opens
  <2>2. CASE ~Then(c, <<>>)
    <3>1. PICK k \in Keys : Then(c, Replacement(k))
          BY <2>2 DEF EnsureExists, Fresh
    <3>. PICK h \in Steps : h = The(c)
          BY <1>1
    <3>. PICK s : s = Step("set_vault", None, k)
          OBVIOUS
    <3>. PICK t : t = Step("set_public", None, k)
          OBVIOUS
    <3>. PICK u : u = Step("set_exported", None, [value |-> FALSE, key |-> k])
          OBVIOUS
    <3>2. s \in Steps /\ t \in Steps /\ u \in Steps
          BY DEF Step, Steps, OfKeys, Flag
    <3>3. s.do \notin Watched /\ Follows(s, t) /\ Follows(t, u) /\ Stands(h, u)
          BY <1>1 DEF Step, Watched, Stands, Opens, NeverLast, Follows, Loaded
    <3>. PICK w : w = <<s, t, u>>
          OBVIOUS
    <3>4. w \in Seq(Steps) /\ w # <<>> /\ Linked(w) /\ w[Len(w)] = u /\ w[1] = s
          BY <3>2, <3>3, ThreeSteps
    <3>5. Then(c, w)
          BY <3>1 DEF Replacement
    <3>. QED  BY <1>1, <3>3, <3>4, <3>5, Pushes DEF Inv
  <2>. QED  BY <2>1, <2>2
<1>. QED  BY <1>1, <1>2, <1>3, <1>4, <1>5, Quiet, Hands DEF keys, escrow

\* ensure_exists: the private half, which the keychain may refuse.
LEMMA SetVaultKeeps ==
    ASSUME Inv, NEW c \in Clients, SetVault(c)
    PROVE  Inv'
<1>1. /\ client[c].todo # <<>> /\ The(c) \in Steps /\ The(c).do = "set_vault"
      /\ Calm(c) /\ ~At(c, "audit")
      BY Current DEF Inv, SetVault, Calm
<1>2. The(c).arg \in Keys
      BY <1>1, KeySteps
<1>3. UNCHANGED <<tables, settings, encrypted, escrow, filed, audit, ghosts, lost, used,
                  requests>>
      BY DEF SetVault
<1>4. faults' \in 0 .. MaxFaults
      BY FaultCounted DEF SetVault, Inv, Typed, TypeOK
<1>5. vault' \in Keys \cup {None}
      BY <1>2 DEF SetVault, Inv, Typed, TypeOK
<1>6. TypeOK'
      BY <1>3, <1>4, <1>5 DEF Inv, Typed, TypeOK, tables
<1>7. Recording(c)
      BY <1>1, <1>3 DEF Recording
<1>8. Moves(c) /\ Lead(client'[c].todo) \notin Watched
  <2>1. CASE Fail(c)
        BY <2>1, Stops DEF Inv
  <2>2. CASE Then(c, <<>>)
        BY <1>1, <2>2, Pops, NoMark DEF Inv, Opens
  <2>. QED  BY <2>1, <2>2 DEF SetVault
<1>. QED  BY <1>1, <1>3, <1>6, <1>7, <1>8, Quiet, Hands DEF escrow

\* export: the private half is read.
LEMMA ReadVaultKeeps ==
    ASSUME Inv, NEW c \in Clients, ReadVault(c)
    PROVE  Inv'
<1>1. /\ client[c].todo # <<>> /\ The(c) \in Steps /\ The(c).do = "export"
      /\ Calm(c) /\ ~At(c, "audit")
      BY Current DEF Inv, ReadVault, Calm
<1>2. ReadOnly
      BY DEF ReadVault
<1>3. CASE Fail(c)
      BY <1>1, <1>2, <1>3, Stops, Reads DEF Inv
<1>4. CASE ~Fail(c)
  <2>. PICK h \in Steps : h = The(c)
        BY <1>1
  <2>1. vault \in Keys
        BY <1>4 DEF ReadVault, Inv, Typed, TypeOK
  <2>. PICK s : s = Step("compare", None, vault)
        OBVIOUS
  <2>2. s \in Steps /\ s.do \notin Watched /\ Stands(h, s)
        BY <1>1, <2>1 DEF Step, Steps, OfKeys, Watched, Stands, Opens, NeverLast
  <2>3. Then(c, <<s>>)
        BY <1>4 DEF ReadVault
  <2>4. Moves(c) /\ Lead(client'[c].todo) \notin Watched
        BY <1>1, <2>2, <2>3, OneStep, Pushes DEF Inv
  <2>. QED  BY <1>1, <1>2, <2>4, Reads
<1>. QED  BY <1>3, <1>4

\* The file or the print of an export, which may fail.
LEMMA HandOverKeeps ==
    ASSUME Inv, NEW c \in Clients, HandOver(c)
    PROVE  Inv'
<1>1. /\ client[c].todo # <<>> /\ The(c) \in Steps /\ The(c).do = "hand_over"
      /\ At(c, "hand_over")
      BY Current DEF Inv, HandOver
<1>2. UNCHANGED <<tables, settings, vault, encrypted, mistaken, filed, audit, ghosts, lost,
                  used, requests>>
      BY DEF HandOver
<1>3. faults' \in 0 .. MaxFaults
      BY FaultCounted DEF HandOver, Inv, Typed, TypeOK
<1>4. TypeOK'
      BY <1>2, <1>3 DEF Inv, Typed, TypeOK, tables
<1>5. Recording(c)
      BY <1>1, <1>2 DEF Recording
<1>6. Moves(c) /\ Lead(client'[c].todo) \notin Watched
  <2>1. CASE Fail(c)
        BY <2>1, Stops DEF Inv
  <2>2. CASE Then(c, <<>>)
        BY <1>1, <2>2, Pops, NoMark DEF Inv, Opens
  <2>. QED  BY <2>1, <2>2 DEF HandOver
<1>7. released \subseteq released' /\ unkept \subseteq unkept' /\ The(c).arg \in released' \cup unkept'
      BY DEF HandOver
<1>8. InHand(c) = {The(c).arg} /\ HalfReplaced(c) = {}
      BY <1>1, Hands
<1>. QED  BY <1>1, <1>2, <1>4, <1>5, <1>6, <1>7, <1>8, Quiet

-----------------------------------------------------------------------------
(* Pipelines and the permission to drop databases. *)

\* A step about pipelines owes only what the invariant says of permissions.
LEMMA PipesOnly ==
    ASSUME Inv, NEW c \in Clients, Moves(c), Permission', Calm(c),
           pipes' \in [Pipes -> PipeRow \cup {None}], used \subseteq used',
           UNCHANGED <<plans, scheds, dests, keys, filed, wanted, switchedOn, requests, faults>>,
           Lead(client'[c].todo) \notin Watched \ {"write_pipe", "write_ack"}
    PROVE  Inv'
<1>1. TypeOK'
      BY DEF Inv, Typed, TypeOK, keys
<1>2. Typed'
      BY <1>1, TypedKept DEF Inv, Typed
<1>3. KeyInv'
      BY KeyKept, Hands DEF Inv, Watched, keys, escrow
<1>4. RowInv'
      BY RowKept, NoRowPending DEF Inv, Watched, WatchedRows
<1>. QED  BY <1>2, <1>3, <1>4 DEF Inv

\* One pipeline is written, by a request that is done with it.
LEMMA PipeWritten ==
    ASSUME Inv, NEW c \in Clients, NEW p \in Pipes, Moves(c), Tells(c, p),
           Recording(c), UNCHANGED <<typed, dropped>>,
           \A o \in Pipes \ {p} : /\ pipes'[o] = pipes[o]
                                  /\ \A l : <<o, l>> \in authorised => <<o, l>> \in authorised',
           pipes'[p] # None /\ Armed(pipes'[p]) =>
             /\ <<p, pipes'[p].ack>> \in typed
             /\ <<p, pipes'[p].steps>> \in authorised' \/ p \in raced',
           Lead(client'[c].todo) \notin {"write_pipe", "write_ack"}
    PROVE  Permission'
<1>1. \A o \in Pipes : pipes'[o] # None /\ Armed(pipes'[o]) =>
           /\ <<o, pipes'[o].ack>> \in typed'
           /\ <<o, pipes'[o].steps>> \in authorised' \/ o \in raced'
  <2>1. SUFFICES ASSUME NEW o \in Pipes, o # p, pipes'[o] # None, Armed(pipes'[o])
                 PROVE  /\ <<o, pipes'[o].ack>> \in typed'
                        /\ <<o, pipes'[o].steps>> \in authorised' \/ o \in raced'
        OBVIOUS
  <2>2. pipes'[o] = pipes[o]
        BY <2>1
  <2>3. <<o, pipes[o].ack>> \in typed /\ (<<o, pipes[o].steps>> \in authorised \/ o \in raced)
        BY <2>1, <2>2 DEF Inv, Permission
  <2>. QED  BY <2>1, <2>2, <2>3 DEF Moves
<1>2. \A r \in typed' : OnRecord(r[1])'
      BY RecordKept DEF Inv, Permission, Recording
<1>3. \A d \in Clients \ {c} : /\ At(d, "write_pipe")' => PipePending(d)'
                               /\ At(d, "write_ack")' => AckPending(d)'
      BY OtherPipes DEF Inv
<1>4. ~At(c, "write_pipe")' /\ ~At(c, "write_ack")'
      BY DEF At, Lead
<1>5. dropped' \subseteq typed'
      BY DEF Inv, Permission
<1>. QED  BY <1>1, <1>2, <1>3, <1>4, <1>5 DEF Permission, Armed

\* A pipeline is stored.
LEMMA InsertPipeKeeps ==
    ASSUME Inv, NEW c \in Clients, InsertPipe(c)
    PROVE  Inv'
<1>1. /\ client[c].todo # <<>> /\ The(c) \in Steps /\ The(c).do = "insert_pipe"
      /\ Calm(c) /\ ~At(c, "audit")
      BY Current DEF Inv, InsertPipe, Calm
<1>2. UNCHANGED <<plans, scheds, dests, keys, filed, audit, ghosts, lost, requests, faults>>
      BY DEF InsertPipe
<1>3. Recording(c)
      BY <1>1, <1>2 DEF Recording
<1>4. CASE Fail(c) /\ UNCHANGED <<pipes, used>>
  <2>1. TypeOK'
        BY <1>2, <1>4 DEF Inv, Typed, TypeOK, keys
  <2>2. Moves(c) /\ Lead(client'[c].todo) \notin Watched
        BY <1>4, Stops DEF Inv
  <2>. QED  BY <1>1, <1>2, <1>3, <1>4, <2>1, <2>2, Quiet, Hands DEF keys, escrow, tables
<1>5. CASE ~(Fail(c) /\ UNCHANGED <<pipes, used>>)
  <2>. PICK h \in Steps : h = The(c)
        BY <1>1
  <2>1. h.id \in Pipes
        BY <1>1, PipeSteps
  <2>2. /\ h.arg \in Runnable /\ used \subseteq used' /\ Write(c, h.id, <<>>)
        /\ pipes' = [pipes EXCEPT ![h.id] = [steps |-> h.arg, ack |-> None]]
        BY <1>5 DEF InsertPipe
  <2>3. pipes' \in [Pipes -> PipeRow \cup {None}]
        BY <2>1, <2>2 DEF Inv, Typed, TypeOK, PipeRow
  <2>4. Moves(c) /\ Lead(client'[c].todo) \notin Watched /\ Tells(c, h.id)
        BY <1>1, <2>1, <2>2, Pops DEF Inv, Opens, Marks
  <2>5. \A o \in Pipes \ {h.id} : pipes'[o] = pipes[o]
        BY <2>2 DEF Inv, Typed, TypeOK
  <2>6. ~Armed(pipes'[h.id])
        BY <2>1, <2>2 DEF Inv, Typed, TypeOK, Armed
  <2>7. Permission'
        BY <1>2, <1>3, <2>1, <2>4, <2>5, <2>6, PipeWritten DEF ghosts, Watched
  <2>. QED  BY <1>1, <1>2, <2>2, <2>3, <2>4, <2>7, PipesOnly DEF ghosts
<1>. QED  BY <1>4, <1>5

\* Patching keeps the columns; an edit of the steps withdraws the permission.
LEMMA PatchedRow ==
    ASSUME NEW row \in PipeRow, NEW patch, Patched(row, patch).steps \in Runnable
    PROVE  /\ Patched(row, patch) \in PipeRow
           /\ "steps" \in DOMAIN patch => Patched(row, patch).ack = None
           /\ "steps" \notin DOMAIN patch => Patched(row, patch) = row
<1>1. CASE "steps" \in DOMAIN patch
  <2>1. Patched(row, patch) = [Patch(row, patch) EXCEPT !.ack = None]
        BY <1>1 DEF Patched
  <2>2. DOMAIN row = {"steps", "ack"}
        BY DEF PipeRow
  <2>. PICK m : m = Patch(row, patch)
        OBVIOUS
  <2>3. m = [f \in {"steps", "ack"} |-> IF f \in DOMAIN patch THEN patch[f] ELSE row[f]]
        BY <2>2 DEF Patch
  <2>4. Patched(row, patch) = [steps |-> m.steps, ack |-> None]
        BY <2>1, <2>3
  <2>5. Patched(row, patch).steps = m.steps /\ Patched(row, patch).ack = None
        BY <2>4
  <2>. QED  BY <1>1, <2>4, <2>5 DEF PipeRow
<1>2. CASE "steps" \notin DOMAIN patch
      BY <1>2 DEF Patched
<1>. QED  BY <1>1, <1>2

\* A pipeline is read and patched: edited steps lose their acknowledgement.
LEMMA LoadPipeKeeps ==
    ASSUME Inv, NEW c \in Clients, LoadPipe(c)
    PROVE  Inv'
<1>1. /\ client[c].todo # <<>> /\ The(c) \in Steps /\ The(c).do = "update_pipe"
      /\ Calm(c) /\ ~At(c, "audit")
      BY Current DEF Inv, LoadPipe, Calm
<1>2. ReadOnly
      BY DEF LoadPipe
<1>3. CASE Fail(c)
      BY <1>1, <1>2, <1>3, Stops, Reads DEF Inv
<1>4. CASE ~Fail(c)
  <2>. PICK h \in Steps : h = The(c)
        BY <1>1
  <2>1. h.id \in Pipes
        BY <1>1, PipeSteps
  <2>. PICK row : row = Patched(pipes[h.id], h.arg)
        OBVIOUS
  <2>. PICK edited : edited = ("steps" \in DOMAIN h.arg)
        OBVIOUS
  <2>2. pipes[h.id] \in PipeRow /\ pipes[h.id] # None /\ row.steps \in Runnable
        BY <1>4, <2>1 DEF LoadPipe, Inv, Typed, TypeOK, PatchRunnable
  <2>3. row \in PipeRow /\ (edited => row.ack = None) /\ (~edited => row = pipes[h.id])
        BY <2>2, PatchedRow
  <2>4. edited \in BOOLEAN
        OBVIOUS
  <2>. PICK s : s = Step("write_pipe", h.id, [row |-> row, edited |-> edited])
        OBVIOUS
  <2>5. s \in Steps /\ Stands(h, s)
        BY <1>1, <2>1, <2>3, <2>4 DEF Step, Steps, OfPipes, Stands, Opens, NeverLast
  <2>6. Then(c, <<s>>)
        BY <1>4 DEF LoadPipe
  <2>7. Moves(c) /\ client'[c].todo # <<>> /\ Head(client'[c].todo) = s
        BY <1>1, <2>5, <2>6, OneStep, Push, NoMark DEF Inv
  <2>8. s.do = "write_pipe" /\ s.id = h.id /\ s.arg.row = row /\ s.arg.edited = edited
        BY DEF Step
  <2>9. PipePending(c)'
    <3>0. edited => ~Armed(row)
          BY <2>3 DEF Armed
    <3>1. Armed(row) => <<h.id, row.ack>> \in typed
          BY <2>1, <2>2, <2>3, <3>0 DEF Inv, Permission
    <3>2. UNCHANGED <<typed, pipes>>
          BY <1>2 DEF ReadOnly, ghosts, tables
    <3>. QED  BY <2>3, <2>7, <2>8, <3>1, <3>2 DEF PipePending, The, Armed
  <2>10. Permission'
    <3>1. UNCHANGED <<typed, pipes, authorised, dropped, audit, lost>>
          BY <1>2 DEF ReadOnly, ghosts, tables
    <3>2. /\ \A p \in Pipes : pipes'[p] # None /\ Armed(pipes'[p]) =>
               /\ <<p, pipes'[p].ack>> \in typed'
               /\ <<p, pipes'[p].steps>> \in authorised' \/ p \in raced'
          BY <2>7, <3>1 DEF Inv, Permission, Moves
    <3>3. \A r \in typed' : OnRecord(r[1])'
          BY <1>1, <2>7, <3>1, RecordKept DEF Inv, Permission
    <3>4. \A d \in Clients \ {c} : /\ At(d, "write_pipe")' => PipePending(d)'
                                   /\ At(d, "write_ack")' => AckPending(d)'
          BY <2>7, <3>1, OtherPipes DEF Inv
    <3>5. ~At(c, "write_ack")'
          BY <2>7, <2>8 DEF At
    <3>. QED  BY <2>9, <3>1, <3>2, <3>3, <3>4, <3>5 DEF Inv, Permission, Armed
  <2>11. Lead(client'[c].todo) = "write_pipe"
        BY <2>7, <2>8 DEF Lead
  <2>. QED  BY <1>1, <1>2, <2>7, <2>10, <2>11, PipesOnly
            DEF ReadOnly, tables, ghosts, bounds, Inv, Typed, TypeOK, Watched
<1>. QED  BY <1>3, <1>4

\* The patched pipeline is written.
LEMMA WritePipeKeeps ==
    ASSUME Inv, NEW c \in Clients, WritePipe(c)
    PROVE  Inv'
<1>1. /\ client[c].todo # <<>> /\ The(c) \in Steps /\ The(c).do = "write_pipe"
      /\ Calm(c) /\ ~At(c, "audit") /\ At(c, "write_pipe")
      BY Current DEF Inv, WritePipe, Calm
<1>2. UNCHANGED <<plans, scheds, dests, keys, filed, audit, typed, dropped, wanted,
                  switchedOn, lost, bounds>>
      BY DEF WritePipe
<1>. PICK h \in Steps : h = The(c)
      BY <1>1
<1>3. h.id \in Pipes /\ h.arg.row \in PipeRow
      BY <1>1, PipeSteps
<1>4. /\ Write(c, h.id, <<>>)
      /\ pipes' = IF pipes[h.id] = None THEN pipes ELSE [pipes EXCEPT ![h.id] = h.arg.row]
      /\ authorised' = IF h.arg.edited THEN {a \in authorised : a[1] # h.id} ELSE authorised
      BY DEF WritePipe
<1>5. pipes' \in [Pipes -> PipeRow \cup {None}]
      BY <1>3, <1>4 DEF Inv, Typed, TypeOK
<1>6. Moves(c) /\ Lead(client'[c].todo) \notin Watched /\ Tells(c, h.id)
      BY <1>1, <1>3, <1>4, Pops DEF Inv, Opens, Marks
<1>7. \A o \in Pipes \ {h.id} : pipes'[o] = pipes[o]
      BY <1>4 DEF Inv, Typed, TypeOK
<1>8. \A o \in Pipes \ {h.id} : \A l : <<o, l>> \in authorised => <<o, l>> \in authorised'
      BY <1>4
<1>9. ASSUME pipes'[h.id] # None, Armed(pipes'[h.id])
      PROVE  /\ <<h.id, pipes'[h.id].ack>> \in typed
             /\ <<h.id, pipes'[h.id].steps>> \in authorised' \/ h.id \in raced'
  <2>1. pipes[h.id] # None /\ pipes'[h.id] = h.arg.row
        BY <1>3, <1>4, <1>9 DEF Inv, Typed, TypeOK
  <2>2. PipePending(c)
        BY <1>1 DEF Inv, Permission
  <2>3. <<h.id, h.arg.row.ack>> \in typed
        BY <1>9, <2>1, <2>2 DEF PipePending
  <2>4. ~h.arg.edited
        BY <1>9, <2>1, <2>2 DEF PipePending, Armed
  <2>5. CASE h.id \in client[c].stale
        BY <1>6, <2>1, <2>3, <2>5 DEF Tells
  <2>6. CASE h.id \notin client[c].stale
    <3>1. h.arg.row = pipes[h.id]
          BY <2>1, <2>2, <2>4, <2>6 DEF PipePending
    <3>2. <<h.id, pipes[h.id].steps>> \in authorised \/ h.id \in raced
          BY <1>3, <1>9, <2>1, <3>1 DEF Inv, Permission
    <3>. QED  BY <1>4, <1>6, <2>1, <2>3, <2>4, <3>1, <3>2 DEF Moves
  <2>. QED  BY <2>5, <2>6
<1>10. Recording(c)
      BY <1>1, <1>2 DEF Recording
<1>11. Permission'
      BY <1>2, <1>3, <1>6, <1>7, <1>8, <1>9, <1>10, PipeWritten DEF Watched
<1>. QED  BY <1>1, <1>2, <1>5, <1>6, <1>11, PipesOnly DEF bounds

\* A pipeline is deleted.
LEMMA RemovePipeKeeps ==
    ASSUME Inv, NEW c \in Clients, RemovePipe(c)
    PROVE  Inv'
<1>1. /\ client[c].todo # <<>> /\ The(c) \in Steps /\ The(c).do = "delete_pipe"
      /\ Calm(c) /\ ~At(c, "audit")
      BY Current DEF Inv, RemovePipe, Calm
<1>2. UNCHANGED <<plans, scheds, dests, keys, filed, audit, ghosts, lost, bounds>>
      BY DEF RemovePipe
<1>3. CASE Fail(c) /\ UNCHANGED pipes
  <2>1. Moves(c) /\ Lead(client'[c].todo) \notin Watched
        BY <1>3, Stops DEF Inv
  <2>2. ReadOnly
        BY <1>2, <1>3 DEF ReadOnly, tables
  <2>. QED  BY <1>1, <2>1, <2>2, Reads
<1>4. CASE ~(Fail(c) /\ UNCHANGED pipes)
  <2>. PICK h \in Steps : h = The(c)
        BY <1>1
  <2>1. h.id \in Pipes
        BY <1>1, PipeSteps
  <2>. PICK s : s = Audit("PipelineDeleted", h.id)
        OBVIOUS
  <2>2. s \in Steps /\ Stands(h, s) /\ s.do = "audit"
        BY <1>1, <2>1 DEF Audit, Step, Steps, OfAudit, Marks, Actions, Stands, Opens, NeverLast
  <2>3. Write(c, h.id, <<s>>) /\ pipes' = [pipes EXCEPT ![h.id] = None]
        BY <1>4 DEF RemovePipe
  <2>4. Moves(c) /\ client'[c].todo # <<>> /\ Head(client'[c].todo) = s /\ Tells(c, h.id)
        BY <1>1, <2>1, <2>2, <2>3, OneStep, Push DEF Inv, Marks
  <2>5. Lead(client'[c].todo) \notin Watched
        BY <2>2, <2>4 DEF Lead, Watched
  <2>6. /\ pipes' \in [Pipes -> PipeRow \cup {None}]
        /\ \A o \in Pipes \ {h.id} : pipes'[o] = pipes[o]
        /\ pipes'[h.id] = None
        BY <2>1, <2>3 DEF Inv, Typed, TypeOK
  <2>7. Recording(c)
        BY <1>1, <1>2 DEF Recording
  <2>8. Permission'
        BY <1>2, <2>1, <2>4, <2>5, <2>6, <2>7, PipeWritten DEF ghosts, Watched
  <2>. QED  BY <1>1, <1>2, <2>4, <2>5, <2>6, <2>8, PipesOnly DEF ghosts, bounds
<1>. QED  BY <1>3, <1>4

\* An arming reads the steps and checks what was typed against them.
LEMMA LoadArmKeeps ==
    ASSUME Inv, NEW c \in Clients, LoadArm(c)
    PROVE  Inv'
<1>1. /\ client[c].todo # <<>> /\ The(c) \in Steps /\ The(c).do = "arm"
      /\ Calm(c) /\ ~At(c, "audit")
      BY Current DEF Inv, LoadArm, Calm
<1>2. ReadOnly
      BY DEF LoadArm
<1>3. CASE Fail(c)
      BY <1>1, <1>2, <1>3, Stops, Reads DEF Inv
<1>4. CASE ~Fail(c)
  <2>. PICK h \in Steps : h = The(c)
        BY <1>1
  <2>1. h.id \in Pipes /\ h.arg \in Texts
        BY <1>1, PipeSteps
  <2>2. pipes[h.id].steps \in Runnable
        BY <1>4, <2>1 DEF LoadArm, Inv, Typed, TypeOK, PipeRow
  <2>. PICK s : s = Step("write_ack", h.id, [ack |-> h.arg, steps |-> pipes[h.id].steps])
        OBVIOUS
  <2>3. s \in Steps /\ Stands(h, s)
        BY <1>1, <2>1, <2>2 DEF Step, Steps, OfPipes, Stands, Opens, NeverLast
  <2>4. Then(c, <<s>>)
        BY <1>4 DEF LoadArm
  <2>5. Moves(c) /\ client'[c].todo # <<>> /\ Head(client'[c].todo) = s
        BY <1>1, <2>3, <2>4, OneStep, Push, NoMark DEF Inv
  <2>6. s.do = "write_ack" /\ s.id = h.id /\ s.arg.steps = pipes[h.id].steps
        BY DEF Step
  <2>7. UNCHANGED <<typed, pipes, authorised, dropped, audit, lost>>
        BY <1>2 DEF ReadOnly, ghosts, tables
  <2>8. AckPending(c)'
        BY <2>5, <2>6, <2>7 DEF AckPending, The
  <2>9. Permission'
    <3>1. /\ \A p \in Pipes : pipes'[p] # None /\ Armed(pipes'[p]) =>
               /\ <<p, pipes'[p].ack>> \in typed'
               /\ <<p, pipes'[p].steps>> \in authorised' \/ p \in raced'
          BY <2>5, <2>7 DEF Inv, Permission, Moves
    <3>2. \A r \in typed' : OnRecord(r[1])'
          BY <1>1, <2>5, <2>7, RecordKept DEF Inv, Permission
    <3>3. \A d \in Clients \ {c} : /\ At(d, "write_pipe")' => PipePending(d)'
                                   /\ At(d, "write_ack")' => AckPending(d)'
          BY <2>5, <2>7, OtherPipes DEF Inv
    <3>4. ~At(c, "write_pipe")'
          BY <2>5, <2>6 DEF At
    <3>. QED  BY <2>7, <2>8, <3>1, <3>2, <3>3, <3>4 DEF Inv, Permission, Armed
  <2>10. Lead(client'[c].todo) = "write_ack"
        BY <2>5, <2>6 DEF Lead
  <2>. QED  BY <1>1, <1>2, <2>5, <2>9, <2>10, PipesOnly
            DEF ReadOnly, tables, ghosts, bounds, Inv, Typed, TypeOK, Watched
<1>. QED  BY <1>3, <1>4

\* A permission is written with the steps it was read for, and its record is
\* the next thing its request does.
LEMMA WriteAckKeeps ==
    ASSUME Inv, NEW c \in Clients, WriteAck(c)
    PROVE  Inv'
<1>1. /\ client[c].todo # <<>> /\ The(c) \in Steps /\ The(c).do = "write_ack"
      /\ Calm(c) /\ ~At(c, "audit") /\ At(c, "write_ack")
      BY Current DEF Inv, WriteAck, Calm
<1>2. UNCHANGED <<plans, scheds, dests, keys, filed, audit, dropped, wanted, switchedOn,
                  lost, bounds>>
      BY DEF WriteAck
<1>. PICK h \in Steps : h = The(c)
      BY <1>1
<1>. PICK p : p = h.id
      OBVIOUS
<1>. PICK ack : ack = h.arg.ack
      OBVIOUS
<1>3. p \in Pipes /\ ack \in Texts
      BY <1>1, PipeSteps
<1>4. /\ Write(c, p, <<>>)
      /\ pipes' = IF pipes[p] = None THEN pipes ELSE [pipes EXCEPT ![p].ack = ack]
      /\ authorised' = {a \in authorised : a[1] # p} \cup
                       (IF ack = None THEN {} ELSE {<<p, h.arg.steps>>})
      /\ typed' = typed \cup (IF ack = None THEN {} ELSE {<<p, ack>>})
      BY DEF WriteAck
<1>5. pipes' \in [Pipes -> PipeRow \cup {None}]
  <2>1. pipes[p] \in PipeRow \cup {None}
        BY <1>3 DEF Inv, Typed, TypeOK
  <2>2. CASE pipes[p] = None
        BY <1>4, <2>2 DEF Inv, Typed, TypeOK
  <2>3. CASE pipes[p] # None
    <3>1. [pipes[p] EXCEPT !.ack = ack] \in PipeRow
          BY <1>3, <2>1, <2>3 DEF PipeRow, Texts
    <3>. QED  BY <1>3, <1>4, <2>3, <3>1 DEF Inv, Typed, TypeOK
  <2>. QED  BY <2>2, <2>3
<1>6. Moves(c) /\ Lead(client'[c].todo) \notin Watched /\ Tells(c, p)
      BY <1>1, <1>3, <1>4, Pops DEF Inv, Opens, Marks
<1>7. client'[c].todo # <<>> /\ Head(client'[c].todo) = Audit("PipelineArmed", p)
  <2>1. /\ client'[c].todo # <<>> => Follows(The(c), Head(client'[c].todo))
        /\ client'[c].todo = <<>> => The(c).do \notin NeverLast
        BY <1>1, <1>3, <1>4, Pop DEF Inv, Marks
  <2>2. client'[c].todo # <<>>
        BY <1>1, <2>1 DEF NeverLast
  <2>. QED  BY <1>1, <2>1, <2>2 DEF Follows
<1>8. \A r \in typed' : OnRecord(r[1])'
  <2>1. \A r \in typed : OnRecord(r[1])'
        BY <1>1, <1>2, <1>6, RecordKept DEF Inv, Permission
  <2>2. OnRecord(p)'
        BY <1>7 DEF OnRecord, The, Audit, Step
  <2>3. <<p, ack>>[1] = p
        OBVIOUS
  <2>. QED  BY <1>4, <2>1, <2>2, <2>3
<1>9. ASSUME NEW o \in Pipes, pipes'[o] # None, Armed(pipes'[o])
      PROVE  /\ <<o, pipes'[o].ack>> \in typed'
             /\ <<o, pipes'[o].steps>> \in authorised' \/ o \in raced'
  <2>1. CASE o = p
    <3>1. pipes[p] # None /\ pipes[p] \in PipeRow
          BY <1>3, <1>4, <1>9, <2>1 DEF Inv, Typed, TypeOK
    <3>2. pipes'[p].ack = ack /\ pipes'[p].steps = pipes[p].steps
          BY <1>3, <1>4, <3>1 DEF Inv, Typed, TypeOK, PipeRow
    <3>3. ack # None
          BY <1>9, <2>1, <3>2 DEF Armed
    <3>4. <<p, ack>> \in typed' /\ <<p, h.arg.steps>> \in authorised'
          BY <1>4, <3>3
    <3>5. h.arg.steps = pipes[p].steps \/ p \in client[c].stale
          BY <1>1, <3>1 DEF Inv, Permission, AckPending
    <3>. QED  BY <1>6, <2>1, <3>2, <3>4, <3>5 DEF Tells
  <2>2. CASE o # p
    <3>1. pipes'[o] = pipes[o]
          BY <1>4, <2>2 DEF Inv, Typed, TypeOK
    <3>2. <<o, pipes[o].ack>> \in typed /\ (<<o, pipes[o].steps>> \in authorised \/ o \in raced)
          BY <1>9, <3>1 DEF Inv, Permission
    <3>3. \A l : <<o, l>> \in authorised => <<o, l>> \in authorised'
          BY <1>4, <2>2
    <3>4. <<o, pipes[o].ack>> \in typed'
          BY <1>4, <3>2
    <3>5. <<o, pipes[o].steps>> \in authorised' \/ o \in raced'
          BY <1>6, <3>2, <3>3 DEF Moves
    <3>. QED  BY <3>1, <3>4, <3>5
  <2>. QED  BY <2>1, <2>2
<1>10. Permission'
  <2>1. typed \subseteq typed'
        BY <1>4
  <2>2. \A o \in Pipes : pipes'[o] = pipes[o] \/ Tells(c, o)
        BY <1>4, <1>6 DEF Inv, Typed, TypeOK
  <2>3. \A d \in Clients \ {c} : /\ At(d, "write_pipe")' => PipePending(d)'
                                 /\ At(d, "write_ack")' => AckPending(d)'
        BY <1>6, <2>1, <2>2, OtherPipes DEF Inv
  <2>4. ~At(c, "write_pipe")' /\ ~At(c, "write_ack")'
        BY <1>6 DEF At, Lead, Watched
  <2>5. dropped' \subseteq typed'
        BY <1>2, <2>1 DEF Inv, Permission
  <2>. QED  BY <1>8, <1>9, <2>3, <2>4, <2>5 DEF Permission, Armed
<1>. QED  BY <1>1, <1>2, <1>5, <1>6, <1>10, PipesOnly DEF bounds

\* What runs unattended drops what somebody typed: an armed pipeline's own text.
LEMMA PerformPipelineKeeps ==
    ASSUME Inv, NEW c \in Clients, PerformPipeline(c)
    PROVE  Inv'
<1>1. /\ client[c].todo # <<>> /\ The(c) \in Steps /\ The(c).do = "perform_pipe"
      /\ Calm(c) /\ ~At(c, "audit")
      BY Current DEF Inv, PerformPipeline, Calm
<1>2. UNCHANGED <<tables, keys, filed, audit, typed, authorised, wanted, switchedOn, lost, bounds>>
      BY DEF PerformPipeline
<1>. PICK p : p = The(c).id
      OBVIOUS
<1>3. p \in Pipes
      BY <1>1, PipeSteps
<1>4. Moves(c) /\ Lead(client'[c].todo) \notin Watched
  <2>1. Fail(c) \/ Then(c, <<>>)
        BY DEF PerformPipeline
  <2>. QED  BY <1>1, <2>1, Stops, Pops, NoMark DEF Inv, Opens
<1>5. dropped' \subseteq typed'
  <2>1. \/ dropped' = dropped
        \/ /\ pipes[p] # None /\ Armed(pipes[p])
           /\ dropped' = dropped \cup {<<p, Signature[pipes[p].steps]>>}
        BY DEF PerformPipeline, MayRun
  <2>2. Armed(pipes[p]) => Signature[pipes[p].steps] = pipes[p].ack
        BY DEF Armed
  <2>. QED  BY <1>2, <1>3, <2>1, <2>2 DEF Inv, Permission
<1>6. Permission'
  <2>1. \A o \in Pipes : pipes'[o] # None /\ Armed(pipes'[o]) =>
             /\ <<o, pipes'[o].ack>> \in typed'
             /\ <<o, pipes'[o].steps>> \in authorised' \/ o \in raced'
        BY <1>2, <1>4 DEF Inv, Permission, Moves, tables
  <2>2. \A r \in typed' : OnRecord(r[1])'
        BY <1>1, <1>2, <1>4, RecordKept DEF Inv, Permission
  <2>3. \A d \in Clients \ {c} : /\ At(d, "write_pipe")' => PipePending(d)'
                                 /\ At(d, "write_ack")' => AckPending(d)'
        BY <1>2, <1>4, OtherPipes DEF Inv, tables
  <2>4. ~At(c, "write_pipe")' /\ ~At(c, "write_ack")'
        BY <1>4 DEF At, Lead, Watched
  <2>. QED  BY <1>5, <2>1, <2>2, <2>3, <2>4 DEF Permission, Armed
<1>. QED  BY <1>1, <1>2, <1>4, <1>6, PipesOnly DEF tables, bounds, Inv, Typed, TypeOK

-----------------------------------------------------------------------------
(* The backup key. *)

\* A step about the key owes only what the invariant says of keys.
LEMMA KeysOnly ==
    ASSUME Inv, NEW c \in Clients, Moves(c), KeyInv', ~At(c, "audit"),
           settings' \in [public : Keys \cup {None}, exported : BOOLEAN],
           encrypted' \subseteq Keys,
           UNCHANGED <<tables, vault, filed, audit, ghosts, lost, bounds>>,
           Lead(client'[c].todo) \notin Watched \ {"recipients"}
    PROVE  Inv'
<1>1. TypeOK'
      BY DEF Inv, Typed, TypeOK, tables, bounds
<1>2. Typed'
      BY <1>1, TypedKept DEF Inv, Typed, ghosts
<1>3. Recording(c)
      BY DEF Recording, At, The
<1>4. Permission'
      BY <1>3, PermissionKept DEF Inv, Watched, tables, ghosts
<1>5. RowInv'
      BY RowKept, NoRowPending DEF Inv, Watched, WatchedRows, tables, ghosts, bounds
<1>. QED  BY <1>2, <1>4, <1>5 DEF Inv

\* What a step about the key owes: the key in use and those it encrypts to are
\* accounted for, and so is the key it takes through the gate.
LEMMA KeyMoved ==
    ASSUME Inv, NEW c \in Clients, Moves(c), released \subseteq released',
           unkept \subseteq unkept', mistaken \subseteq mistaken',
           InHand(c) \subseteq released' \cup unkept', encrypted' \subseteq encrypted \cup Spoken',
           KeyIsHeld', At(c, "recipients")' => The(c).arg' \in Spoken' \cup {None}
    PROVE  KeyInv'
<1>1. Spoken \subseteq Spoken'
      BY SpokenGrows
<1>2. ASSUME NEW d \in Clients \ {c}, At(d, "recipients")'
      PROVE  The(d).arg' \in Spoken' \cup {None}
  <2>1. At(d, "recipients") /\ The(d)' = The(d)
        BY <1>2, OtherHands
  <2>. QED  BY <1>1, <2>1 DEF Inv, KeyInv
<1>. QED  BY <1>1, <1>2 DEF Inv, KeyInv

\* Nothing of this changes when no request moves.
LEMMA SameHands ==
    ASSUME UNCHANGED <<client, settings, released, unkept, mistaken>>
    PROVE  Spoken' = Spoken /\ (KeyIsHeld' <=> KeyIsHeld)
BY DEF Spoken, KeyIsHeld, InHand, HalfReplaced, At, The

\* The public half is stored: it is held elsewhere, or until the next step the
\* flag is that of the key before it.
LEMMA SetPublicKeeps ==
    ASSUME Inv, NEW c \in Clients, SetPublic(c)
    PROVE  Inv'
<1>1. /\ client[c].todo # <<>> /\ The(c) \in Steps /\ The(c).do = "set_public"
      /\ Calm(c) /\ ~At(c, "audit")
      BY Current DEF Inv, SetPublic, Calm
<1>2. The(c).arg \in Keys
      BY <1>1, KeySteps
<1>3. /\ settings' = [settings EXCEPT !.public = The(c).arg] /\ Then(c, <<>>)
      /\ UNCHANGED <<tables, vault, encrypted, escrow, filed, audit, ghosts, lost, bounds>>
      BY DEF SetPublic
<1>4. settings \in [public : Keys \cup {None}, exported : BOOLEAN]
      BY DEF Inv, Typed, TypeOK
<1>5. /\ settings' \in [public : Keys \cup {None}, exported : BOOLEAN]
      /\ settings'.public = The(c).arg
      BY <1>2, <1>3, <1>4
<1>6. /\ Moves(c)
      /\ client'[c].todo # <<>> => Follows(The(c), Head(client'[c].todo))
                              /\ Head(client'[c].todo) \in Steps
      /\ client'[c].todo = <<>> => The(c).do \notin NeverLast
      BY <1>1, <1>3, Pop, NoMark DEF Inv
<1>7. client'[c].todo # <<>>
      BY <1>1, <1>6 DEF NeverLast
<1>. PICK b : b = Head(client'[c].todo)
      OBVIOUS
<1>8. b.do = "set_exported" /\ b.arg.key = The(c).arg /\ (b.arg.value => b.arg.key \in Elsewhere)
  <2>1. b \in Steps
        BY <1>6, <1>7
  <2>. QED  BY <1>1, <1>6, <1>7, <2>1, KeySteps DEF Follows, Flag
<1>9. At(c, "set_exported")' /\ ~At(c, "recipients")' /\ The(c)' = b
      BY <1>7, <1>8 DEF At, The
<1>10. KeyIsHeld'
  <2>1. CASE b.arg.value
    <3>1. settings'.public \in released'
          BY <1>3, <1>5, <1>8, <2>1 DEF Inv, KeyInv, escrow
    <3>. QED  BY <3>1 DEF KeyIsHeld, Spoken
  <2>2. CASE ~b.arg.value
    <3>1. HalfReplaced(c)' = {settings'.public}
          BY <1>5, <1>8, <1>9, <2>2 DEF HalfReplaced
    <3>. QED  BY <3>1 DEF KeyIsHeld
  <2>. QED  BY <2>1, <2>2
<1>11. KeyInv'
  <2>1. InHand(c) = {}
        BY <1>1, Hands
  <2>. QED  BY <1>3, <1>6, <1>9, <1>10, <2>1, KeyMoved DEF escrow
<1>12. Lead(client'[c].todo) = "set_exported"
      BY <1>7, <1>8 DEF Lead
<1>13. encrypted' \subseteq Keys
      BY <1>3 DEF Inv, Typed, TypeOK
<1>. QED  BY <1>1, <1>3, <1>5, <1>6, <1>11, <1>12, <1>13, KeysOnly DEF Watched

\* The flag is stored: reset for a new key, or set.  Set, it speaks for the key
\* that is public by then.
LEMMA SetExportedKeeps ==
    ASSUME Inv, NEW c \in Clients, SetExported(c)
    PROVE  Inv'
<1>1. /\ client[c].todo # <<>> /\ The(c) \in Steps /\ The(c).do = "set_exported"
      /\ At(c, "set_exported") /\ ~At(c, "audit")
      BY Current DEF Inv, SetExported
<1>2. /\ The(c).arg \in [value : BOOLEAN, key : Keys]
      /\ The(c).arg.value => The(c).arg.key \in Elsewhere
      BY <1>1, KeySteps DEF Flag
<1>3. /\ settings' = [settings EXCEPT !.exported = The(c).arg.value] /\ Then(c, <<>>)
      /\ UNCHANGED <<tables, vault, encrypted, released, unkept, filed, audit, ghosts, lost, bounds>>
      BY DEF SetExported
<1>4. settings \in [public : Keys \cup {None}, exported : BOOLEAN]
      BY DEF Inv, Typed, TypeOK
<1>5. /\ settings' \in [public : Keys \cup {None}, exported : BOOLEAN]
      /\ settings'.public = settings.public /\ settings'.exported = The(c).arg.value
      BY <1>2, <1>3, <1>4
<1>6. Moves(c) /\ Lead(client'[c].todo) \notin Watched
      BY <1>1, <1>3, Pops, NoMark DEF Inv, Opens
<1>7. /\ mistaken \subseteq mistaken'
      /\ The(c).arg.value => mistaken' = mistaken \cup ({settings.public} \ {None, The(c).arg.key})
      BY DEF SetExported, SpeaksFor
<1>9. KeyIsHeld'
  <2>. SUFFICES ASSUME The(c).arg.value, settings.public # None PROVE settings.public \in Spoken'
        BY <1>5 DEF KeyIsHeld
  <2>1. The(c).arg.key \in released'
        BY <1>2, <1>3 DEF Inv, KeyInv
  <2>. QED  BY <1>7, <2>1 DEF Spoken
<1>10. KeyInv'
  <2>1. InHand(c) = {} /\ ~At(c, "recipients")'
        BY <1>1, <1>6, Hands DEF At, Lead, Watched
  <2>. QED  BY <1>3, <1>6, <1>7, <1>9, <2>1, KeyMoved
<1>11. encrypted' \subseteq Keys
      BY <1>3 DEF Inv, Typed, TypeOK
<1>. QED  BY <1>1, <1>3, <1>5, <1>6, <1>10, <1>11, KeysOnly

\* export: the halves are compared before the flag is set.
LEMMA CompareHalvesKeeps ==
    ASSUME Inv, NEW c \in Clients, CompareHalves(c)
    PROVE  Inv'
<1>1. /\ client[c].todo # <<>> /\ The(c) \in Steps /\ The(c).do = "compare"
      /\ Calm(c) /\ ~At(c, "audit")
      BY Current DEF Inv, CompareHalves, Calm
<1>2. ReadOnly
      BY DEF CompareHalves
<1>3. CASE Fail(c)
      BY <1>1, <1>2, <1>3, Stops, Reads DEF Inv
<1>4. CASE ~Fail(c)
  <2>. PICK h \in Steps : h = The(c)
        BY <1>1
  <2>1. h.arg \in Keys
        BY <1>1, KeySteps
  <2>. PICK s : s = Step("mark_exported", None, h.arg)
        OBVIOUS
  <2>2. s \in Steps /\ s.do \notin Watched /\ Stands(h, s)
        BY <1>1, <2>1 DEF Step, Steps, OfKeys, Watched, Stands, Opens, NeverLast
  <2>3. Then(c, <<s>>)
        BY <1>4 DEF CompareHalves
  <2>4. Moves(c) /\ Lead(client'[c].todo) \notin Watched
        BY <1>1, <2>2, <2>3, OneStep, Pushes DEF Inv
  <2>. QED  BY <1>1, <1>2, <2>4, Reads
<1>. QED  BY <1>3, <1>4

\* export: the flag is set, and the secret is then in the hands of the request.
LEMMA MarkExportedKeeps ==
    ASSUME Inv, NEW c \in Clients, MarkExported(c)
    PROVE  Inv'
<1>1. /\ client[c].todo # <<>> /\ The(c) \in Steps /\ The(c).do = "mark_exported"
      /\ Calm(c) /\ ~At(c, "audit")
      BY Current DEF Inv, MarkExported, Calm
<1>. PICK h \in Steps : h = The(c)
      BY <1>1
<1>2. h.arg \in Keys
      BY <1>1, KeySteps
<1>. PICK s : s = Step("hand_over", None, h.arg)
      OBVIOUS
<1>3. /\ settings' = [settings EXCEPT !.exported = TRUE] /\ Then(c, <<s>>)
      /\ UNCHANGED <<tables, vault, encrypted, released, unkept, filed, audit, ghosts, lost, bounds>>
      BY DEF MarkExported
<1>4. settings \in [public : Keys \cup {None}, exported : BOOLEAN]
      BY DEF Inv, Typed, TypeOK
<1>5. /\ settings' \in [public : Keys \cup {None}, exported : BOOLEAN]
      /\ settings'.public = settings.public
      BY <1>3, <1>4
<1>6. s \in Steps /\ Stands(h, s) /\ s.do = "hand_over" /\ s.arg = h.arg
      BY <1>1, <1>2 DEF Step, Steps, OfKeys, Stands, Opens, NeverLast
<1>7. Moves(c) /\ client'[c].todo # <<>> /\ Head(client'[c].todo) = s
      BY <1>1, <1>3, <1>6, OneStep, Push, NoMark DEF Inv
<1>8. At(c, "hand_over")' /\ ~At(c, "recipients")' /\ The(c)' = s
      BY <1>6, <1>7 DEF At, The
<1>9. mistaken' = mistaken \cup ({settings.public} \ {None, h.arg})
      BY DEF MarkExported, SpeaksFor
<1>10. KeyIsHeld'
  <2>1. InHand(c)' = {h.arg}
        BY <1>6, <1>8 DEF InHand
  <2>. QED  BY <1>5, <1>9, <2>1 DEF KeyIsHeld, Spoken
<1>11. KeyInv'
  <2>1. InHand(c) = {}
        BY <1>1, Hands
  <2>. QED  BY <1>3, <1>7, <1>8, <1>9, <1>10, <2>1, KeyMoved
<1>12. Lead(client'[c].todo) = "hand_over"
      BY <1>6, <1>7 DEF Lead
<1>13. encrypted' \subseteq Keys
      BY <1>3 DEF Inv, Typed, TypeOK
<1>. QED  BY <1>1, <1>3, <1>5, <1>7, <1>11, <1>12, <1>13, KeysOnly DEF Watched

\* ensure_ready_for_encryption: the flag is read.
LEMMA GateKeeps ==
    ASSUME Inv, NEW c \in Clients, Gate(c)
    PROVE  Inv'
<1>1. /\ client[c].todo # <<>> /\ The(c) \in Steps /\ The(c).do = "gate"
      /\ Calm(c) /\ ~At(c, "audit")
      BY Current DEF Inv, Gate, Calm
<1>2. ReadOnly
      BY DEF Gate
<1>3. CASE Fail(c)
      BY <1>1, <1>2, <1>3, Stops, Reads DEF Inv
<1>4. CASE ~Fail(c)
  <2>. PICK h \in Steps : h = The(c)
        BY <1>1
  <2>. PICK k : k = Flagged
        OBVIOUS
  <2>. PICK s : s = Step("recipients", None, k)
        OBVIOUS
  <2>0. k \in Keys \cup {None}
        BY DEF Flagged, Inv, Typed, TypeOK
  <2>1. s \in Steps /\ Stands(h, s) /\ s.do = "recipients" /\ s.arg = k
        BY <1>1, <2>0 DEF Step, Steps, OfKeys, Stands, Opens, NeverLast
  <2>2. Then(c, <<s>>) /\ settings.exported
        BY <1>4 DEF Gate, GatePasses
  <2>3. Moves(c) /\ client'[c].todo # <<>> /\ Head(client'[c].todo) = s
        BY <1>1, <2>1, <2>2, OneStep, Push, NoMark DEF Inv
  <2>4. The(c)' = s
        BY <2>3 DEF The
  <2>5. UNCHANGED <<settings, encrypted, released, unkept, mistaken>>
        BY <1>2 DEF ReadOnly, keys, escrow
  <2>6. InHand(c) = {} /\ HalfReplaced(c) = {}
        BY <1>1, Hands
  <2>7. Spoken \subseteq Spoken'
        BY <2>3, <2>5, <2>6, SpokenGrows
  <2>8. k \in Spoken \cup {None}
    <3>. SUFFICES ASSUME k # None PROVE k \in Spoken
          OBVIOUS
    <3>1. k = settings.public /\ \A d \in Clients : settings.public \notin HalfReplaced(d)
          BY DEF Flagged
    <3>. QED  BY <2>2, <3>1 DEF Inv, KeyInv, KeyIsHeld
  <2>9. KeyIsHeld'
    <3>. SUFFICES ASSUME settings.exported, settings.public # None,
                         settings.public \in Spoken \cup UNION {HalfReplaced(d) : d \in Clients}
                  PROVE  settings.public \in Spoken' \cup UNION {HalfReplaced(d)' : d \in Clients}
          BY <2>5 DEF KeyIsHeld, Inv, KeyInv
    <3>1. ASSUME NEW d \in Clients, settings.public \in HalfReplaced(d)
          PROVE  settings.public \in HalfReplaced(d)'
      <4>1. d # c
            BY <2>6, <3>1
      <4>. QED  BY <2>3, <3>1, <4>1, OtherHands
    <3>. QED  BY <2>7, <3>1
  <2>10. KeyInv'
        BY <2>1, <2>3, <2>4, <2>5, <2>6, <2>7, <2>8, <2>9, KeyMoved
  <2>11. Lead(client'[c].todo) = "recipients"
        BY <2>1, <2>3 DEF Lead
  <2>. QED  BY <1>1, <1>2, <2>3, <2>5, <2>10, <2>11, KeysOnly
            DEF ReadOnly, keys, Inv, Typed, TypeOK, Watched
<1>. QED  BY <1>3, <1>4

\* A backup is encrypted to the public key, which is the one the gate saw unless
\* it was replaced since.
LEMMA RecipientsKeeps ==
    ASSUME Inv, NEW c \in Clients, Recipients(c)
    PROVE  Inv'
<1>1. /\ client[c].todo # <<>> /\ The(c) \in Steps /\ The(c).do = "recipients"
      /\ Calm(c) /\ ~At(c, "audit") /\ At(c, "recipients")
      BY Current DEF Inv, Recipients, Calm
<1>2. /\ Then(c, <<>>) /\ encrypted' = encrypted \cup ({settings.public} \ {None})
      /\ mistaken' = mistaken \cup ({settings.public} \ {None, The(c).arg})
      /\ UNCHANGED <<tables, settings, vault, released, unkept, filed, audit, ghosts, lost, bounds>>
      BY DEF Recipients, SpeaksFor
<1>3. Moves(c) /\ Lead(client'[c].todo) \notin Watched
      BY <1>1, <1>2, Pops, NoMark DEF Inv, Opens
<1>4. InHand(c) = {} /\ HalfReplaced(c) = {}
      BY <1>1, Hands
<1>5. Spoken \subseteq Spoken' /\ mistaken' \subseteq Spoken'
      BY <1>2, <1>3, <1>4, SpokenGrows DEF Spoken
<1>6. The(c).arg \in Spoken \cup {None}
      BY <1>1 DEF Inv, KeyInv
<1>7. encrypted' \subseteq encrypted \cup Spoken'
  <2>1. CASE settings.public \in {None, The(c).arg}
        BY <1>2, <1>5, <1>6, <2>1
  <2>2. CASE settings.public \notin {None, The(c).arg}
        BY <1>2, <1>5, <2>2
  <2>. QED  BY <2>1, <2>2
<1>8. KeyIsHeld'
  <2>. SUFFICES ASSUME settings.exported, settings.public # None,
                       settings.public \in Spoken \cup UNION {HalfReplaced(d) : d \in Clients}
                PROVE  settings.public \in Spoken' \cup UNION {HalfReplaced(d)' : d \in Clients}
        BY <1>2 DEF KeyIsHeld, Inv, KeyInv
  <2>1. ASSUME NEW d \in Clients, settings.public \in HalfReplaced(d)
        PROVE  settings.public \in HalfReplaced(d)'
    <3>1. d # c
          BY <1>4, <2>1
    <3>. QED  BY <1>3, <2>1, <3>1, OtherHands
  <2>. QED  BY <1>5, <2>1
<1>9. KeyInv'
  <2>1. ~At(c, "recipients")'
        BY <1>3 DEF At, Lead, Watched
  <2>. QED  BY <1>2, <1>3, <1>4, <1>7, <1>8, <2>1, KeyMoved
<1>10. encrypted' \subseteq Keys /\ settings' \in [public : Keys \cup {None}, exported : BOOLEAN]
      BY <1>2 DEF Inv, Typed, TypeOK
<1>. QED  BY <1>1, <1>2, <1>3, <1>9, <1>10, KeysOnly

-----------------------------------------------------------------------------
(* Plans, schedules and destinations. *)

\* A step about rows owes only what the invariant says of rows.
LEMMA RowsOnly ==
    ASSUME Inv, NEW c \in Clients, Moves(c), RowInv', ~At(c, "audit"), Calm(c),
           plans' \in [Plans -> PlanRow \cup {None}],
           scheds' \in [Scheds -> SchedRow \cup {None}],
           dests' \in [Dests -> DestRow \cup {None}],
           wanted' \in [Plans -> PlanText \cup {None}],
           filed' \subseteq Dests, faults' \in 0 .. MaxFaults,
           UNCHANGED <<pipes, keys, audit, lost, typed, authorised, dropped, requests>>,
           Lead(client'[c].todo) \notin Watched \ WatchedRows
    PROVE  Inv'
<1>1. TypeOK'
      BY DEF Inv, Typed, TypeOK, keys
<1>2. Typed'
      BY <1>1, TypedKept DEF Inv
<1>3. Recording(c)
      BY DEF Recording, At, The
<1>4. Permission'
      BY <1>3, PermissionKept DEF Inv, Watched, WatchedRows
<1>5. KeyInv'
      BY KeyKept, Hands DEF Inv, Watched, WatchedRows, keys, escrow
<1>. QED  BY <1>2, <1>4, <1>5 DEF Inv

\* The types the invariant knows.
LEMMA RowTypes ==
    ASSUME Inv
    PROVE  /\ plans \in [Plans -> PlanRow \cup {None}]
           /\ scheds \in [Scheds -> SchedRow \cup {None}]
           /\ dests \in [Dests -> DestRow \cup {None}]
           /\ wanted \in [Plans -> PlanText \cup {None}]
           /\ filed \subseteq Dests /\ faults \in 0 .. MaxFaults
           /\ Typed /\ RowInv
BY DEF Inv, Typed, TypeOK

\* A plan is stored.
LEMMA InsertPlanKeeps ==
    ASSUME Inv, NEW c \in Clients, InsertPlan(c)
    PROVE  Inv'
<1>1. /\ client[c].todo # <<>> /\ The(c) \in Steps /\ The(c).do = "insert_plan"
      /\ Calm(c) /\ ~At(c, "audit")
      BY Current DEF Inv, InsertPlan, Calm
<1>2. UNCHANGED <<pipes, scheds, dests, keys, filed, audit, typed, authorised, dropped,
                  switchedOn, lost, requests, faults>>
      BY DEF InsertPlan
<1>3. CASE Fail(c) /\ UNCHANGED <<plans, wanted, used>>
  <2>1. Moves(c) /\ Lead(client'[c].todo) \notin Watched
        BY <1>3, Stops DEF Inv
  <2>2. ReadOnly
        BY <1>2, <1>3 DEF ReadOnly, tables, ghosts, bounds
  <2>. QED  BY <1>1, <2>1, <2>2, Reads
<1>4. CASE ~(Fail(c) /\ UNCHANGED <<plans, wanted, used>>)
  <2>. PICK h \in Steps : h = The(c)
        BY <1>1
  <2>. PICK p : p = h.id
        OBVIOUS
  <2>. PICK a : a = h.arg
        OBVIOUS
  <2>1. p \in Plans /\ a \in PlanText
        BY <1>1, PlanSteps
  <2>. PICK row : row = [selections |-> a.selections, masking |-> a.masking, revision |-> 1]
        OBVIOUS
  <2>2. /\ plans' = [plans EXCEPT ![p] = row] /\ wanted' = [wanted EXCEPT ![p] = a]
        /\ used \subseteq used' /\ Write(c, p, <<>>)
        BY <1>4 DEF InsertPlan
  <2>3. row \in PlanRow /\ [selections |-> row.selections, masking |-> row.masking] = a
        BY <2>1 DEF PlanRow, PlanText
  <2>4. row # None
        BY <2>3, RowsAssumption
  <2>5. Moves(c) /\ Lead(client'[c].todo) \notin Watched
        BY <1>1, <2>1, <2>2, Pops DEF Inv, Opens, Marks
  <2>6. plans' \in [Plans -> PlanRow \cup {None}] /\ wanted' \in [Plans -> PlanText \cup {None}]
        BY <2>1, <2>2, <2>3, RowTypes
  <2>7. plans'[p] = row /\ wanted'[p] = a
        BY <2>1, <2>2, RowTypes
  <2>8. \A o \in Plans \ {p} : plans'[o] = plans[o] /\ wanted'[o] = wanted[o]
        BY <2>2, RowTypes
  <2>9. PlanEditsSurvive'
        BY <2>3, <2>7, <2>8, RowTypes DEF PlanEditsSurvive, RowInv
  <2>10. ScheduledPlansExist'
    <3>1. SUFFICES ASSUME NEW s \in Scheds, scheds[s] # None, scheds[s].plan # None
                   PROVE  plans'[scheds[s].plan] # None
          BY <1>2 DEF ScheduledPlansExist
    <3>2. scheds[s].plan \in Plans
          BY <3>1, RowTypes DEF SchedRow
    <3>3. plans[scheds[s].plan] # None
          BY <3>1, RowTypes DEF RowInv, ScheduledPlansExist
    <3>. QED  BY <2>4, <2>7, <2>8, <3>2, <3>3
  <2>11. /\ StoredSchedulesAreValid' /\ FiledSecretsHaveOwners' /\ EnabledIsAsked'
         /\ \A s \in Scheds : scheds'[s] # None => s \in used'
        BY <1>2, <2>2, <2>5, RowTypes DEF RowInv, StoredSchedulesAreValid, ValidParts, FiledSecretsHaveOwners,
           EnabledIsAsked, Moves
  <2>12. \A d \in Clients : RowPending(d)'
        BY <1>2, <2>2, <2>5, OtherRows, NoRowPending, RowTypes DEF Watched, WatchedRows
  <2>13. RowInv'
        BY <2>9, <2>10, <2>11, <2>12 DEF RowInv
  <2>. QED  BY <1>1, <1>2, <2>5, <2>6, <2>13, RowsOnly, RowTypes
<1>. QED  BY <1>3, <1>4

\* An edit writes its own column over the row as it is now.
LEMMA EditedPlan ==
    ASSUME NEW now \in PlanRow, NEW row \in PlanRow, NEW patch \in PlanPatch,
           NEW want, want = [selections |-> now.selections, masking |-> now.masking]
    PROVE  /\ Edited(now, row, patch) \in PlanRow /\ Patch(want, patch) \in PlanText
           /\ [selections |-> Edited(now, row, patch).selections,
               masking |-> Edited(now, row, patch).masking] = Patch(want, patch)
<1>1. DOMAIN now = {"selections", "masking", "revision"} /\ DOMAIN want = {"selections", "masking"}
      BY DEF PlanRow
<1>2. row.revision + 1 \in Nat \ {0}
      BY DEF PlanRow
<1>. PICK m : m = Patch(now, patch)
      OBVIOUS
<1>. PICK v : v = Patch(want, patch)
      OBVIOUS
<1>3. /\ m = [f \in {"selections", "masking", "revision"} |->
                 IF f \in DOMAIN patch THEN patch[f] ELSE now[f]]
      /\ v = [f \in {"selections", "masking"} |-> IF f \in DOMAIN patch THEN patch[f] ELSE want[f]]
      BY <1>1 DEF Patch
<1>4. m.selections = v.selections /\ m.masking = v.masking
      BY <1>3
<1>5. v.selections \in Edits /\ v.masking \in Edits
  <2>1. CASE patch \in [selections : Edits]
    <3>1. DOMAIN patch = {"selections"} /\ patch.selections \in Edits
          BY <2>1
    <3>. QED  BY <1>3, <3>1 DEF PlanRow
  <2>2. CASE patch \in [masking : Edits]
    <3>1. DOMAIN patch = {"masking"} /\ patch.masking \in Edits
          BY <2>2
    <3>. QED  BY <1>3, <3>1 DEF PlanRow
  <2>. QED  BY <2>1, <2>2 DEF PlanPatch
<1>6. v = [selections |-> v.selections, masking |-> v.masking]
      BY <1>3
<1>7. Edited(now, row, patch) =
        [selections |-> m.selections, masking |-> m.masking, revision |-> row.revision + 1]
  <2>1. Edited(now, row, patch) = [m EXCEPT !.revision = row.revision + 1]
        BY DEF Edited
  <2>. QED  BY <1>3, <2>1
<1>8. v \in PlanText
      BY <1>5, <1>6 DEF PlanText
<1>9. Edited(now, row, patch) \in PlanRow
      BY <1>2, <1>4, <1>5, <1>7 DEF PlanRow
<1>10. [selections |-> Edited(now, row, patch).selections,
        masking |-> Edited(now, row, patch).masking] = v
      BY <1>4, <1>6, <1>7
<1>. QED  BY <1>8, <1>9, <1>10

\* The edited half of a plan is written.
LEMMA WritePlanKeeps ==
    ASSUME Inv, NEW c \in Clients, WritePlan(c)
    PROVE  Inv'
<1>1. /\ client[c].todo # <<>> /\ The(c) \in Steps /\ The(c).do = "write_plan"
      /\ Calm(c) /\ ~At(c, "audit")
      BY Current DEF Inv, WritePlan, Calm
<1>2. UNCHANGED <<pipes, scheds, dests, keys, filed, audit, typed, authorised, dropped,
                  switchedOn, lost, bounds>>
      BY DEF WritePlan
<1>. PICK h \in Steps : h = The(c)
      BY <1>1
<1>. PICK p : p = h.id
      OBVIOUS
<1>. PICK a : a = h.arg
      OBVIOUS
<1>3. p \in Plans /\ a.patch \in PlanPatch /\ a.row \in PlanRow
      BY <1>1, PlanSteps
<1>4. /\ Write(c, p, <<>>)
      /\ IF plans[p] = None THEN UNCHANGED <<plans, wanted>>
         ELSE /\ plans' = [plans EXCEPT ![p] = Edited(plans[p], a.row, a.patch)]
              /\ wanted' = [wanted EXCEPT ![p] = Patch(wanted[p], a.patch)]
      BY DEF WritePlan
<1>5. Moves(c) /\ Lead(client'[c].todo) \notin Watched
      BY <1>1, <1>3, <1>4, Pops DEF Inv, Opens, Marks
<1>6. CASE plans[p] = None
  <2>1. RowInv'
        BY <1>2, <1>4, <1>5, <1>6, RowKept, NoRowPending, RowTypes DEF Watched, WatchedRows, bounds
  <2>. QED  BY <1>1, <1>2, <1>4, <1>5, <1>6, <2>1, RowsOnly, RowTypes DEF bounds
<1>7. CASE plans[p] # None
  <2>. PICK row : row = Edited(plans[p], a.row, a.patch)
        OBVIOUS
  <2>. PICK want : want = Patch(wanted[p], a.patch)
        OBVIOUS
  <2>1. plans[p] \in PlanRow
        BY <1>3, <1>7, RowTypes
  <2>2. wanted[p] = [selections |-> plans[p].selections, masking |-> plans[p].masking]
        BY <1>3, <1>7, RowTypes DEF RowInv, PlanEditsSurvive
  <2>3. row \in PlanRow /\ want \in PlanText
        /\ [selections |-> row.selections, masking |-> row.masking] = want
        BY <1>3, <2>1, <2>2, EditedPlan
  <2>4. row # None
        BY <2>3, RowsAssumption
  <2>5. plans' = [plans EXCEPT ![p] = row] /\ wanted' = [wanted EXCEPT ![p] = want]
        BY <1>4, <1>7
  <2>6. plans' \in [Plans -> PlanRow \cup {None}] /\ wanted' \in [Plans -> PlanText \cup {None}]
        BY <1>3, <2>3, <2>5, RowTypes
  <2>7. plans'[p] = row /\ wanted'[p] = want
        BY <1>3, <2>5, RowTypes
  <2>8. \A o \in Plans \ {p} : plans'[o] = plans[o] /\ wanted'[o] = wanted[o]
        BY <2>5, RowTypes
  <2>9. PlanEditsSurvive'
        BY <2>3, <2>7, <2>8, RowTypes DEF PlanEditsSurvive, RowInv
  <2>10. ScheduledPlansExist'
    <3>1. SUFFICES ASSUME NEW s \in Scheds, scheds[s] # None, scheds[s].plan # None
                   PROVE  plans'[scheds[s].plan] # None
          BY <1>2 DEF ScheduledPlansExist
    <3>2. scheds[s].plan \in Plans
          BY <3>1, RowTypes DEF SchedRow
    <3>3. plans[scheds[s].plan] # None
          BY <3>1, RowTypes DEF RowInv, ScheduledPlansExist
    <3>. QED  BY <2>4, <2>7, <2>8, <3>2, <3>3
  <2>11. /\ StoredSchedulesAreValid' /\ FiledSecretsHaveOwners' /\ EnabledIsAsked'
         /\ \A s \in Scheds : scheds'[s] # None => s \in used'
        BY <1>2, <1>5, RowTypes DEF RowInv, StoredSchedulesAreValid, ValidParts, FiledSecretsHaveOwners,
           EnabledIsAsked, Moves, bounds
  <2>12. \A d \in Clients : RowPending(d)'
        BY <1>2, <1>5, OtherRows, NoRowPending, RowTypes DEF Watched, WatchedRows, bounds
  <2>13. RowInv'
        BY <2>9, <2>10, <2>11, <2>12 DEF RowInv
  <2>. QED  BY <1>1, <1>2, <1>5, <2>6, <2>13, RowsOnly, RowTypes DEF bounds
<1>. QED  BY <1>6, <1>7

\* Deleting plans takes their schedules with them.
LEMMA RemovePlansKeeps ==
    ASSUME Inv, NEW c \in Clients, RemovePlans(c)
    PROVE  Inv'
<1>1. /\ client[c].todo # <<>> /\ The(c) \in Steps /\ The(c).do = "delete_plans"
      /\ Calm(c) /\ ~At(c, "audit")
      BY Current DEF Inv, RemovePlans, Calm
<1>2. UNCHANGED <<pipes, dests, keys, filed, audit, typed, authorised, dropped, switchedOn,
                  lost, bounds>>
      BY DEF RemovePlans
<1>. PICK gone : gone = {p \in The(c).id : plans[p] # None}
      OBVIOUS
<1>3. /\ plans' = [p \in Plans |-> IF p \in gone THEN None ELSE plans[p]]
      /\ wanted' = [p \in Plans |-> IF p \in gone THEN None ELSE wanted[p]]
      /\ scheds' = [s \in Scheds |-> IF scheds[s] # None /\ scheds[s].plan \in gone
                                     THEN None ELSE scheds[s]]
      /\ Then(c, <<>>)
      BY DEF RemovePlans, Cascade
<1>4. Moves(c) /\ Lead(client'[c].todo) \notin Watched
      BY <1>1, <1>3, Pops, NoMark DEF Inv, Opens
<1>5. /\ plans' \in [Plans -> PlanRow \cup {None}] /\ wanted' \in [Plans -> PlanText \cup {None}]
      /\ scheds' \in [Scheds -> SchedRow \cup {None}]
      BY <1>3, RowTypes
<1>6. \A p \in Plans : (p \in gone /\ plans'[p] = None) \/
                       (p \notin gone /\ plans'[p] = plans[p] /\ wanted'[p] = wanted[p])
      BY <1>3
<1>7. \A s \in Scheds : \/ scheds'[s] = None
                        \/ scheds'[s] = scheds[s] /\ (scheds[s] # None => scheds[s].plan \notin gone)
      BY <1>3
<1>8. PlanEditsSurvive'
      BY <1>6, RowTypes DEF PlanEditsSurvive, RowInv
<1>9. ScheduledPlansExist'
  <2>1. SUFFICES ASSUME NEW s \in Scheds, scheds'[s] # None, scheds'[s].plan # None
                 PROVE  plans'[scheds'[s].plan] # None
        BY DEF ScheduledPlansExist
  <2>2. scheds'[s] = scheds[s] /\ scheds[s].plan \notin gone
        BY <1>7, <2>1
  <2>3. scheds[s].plan \in Plans
        BY <2>1, <2>2, RowTypes DEF SchedRow
  <2>4. plans[scheds[s].plan] # None
        BY <2>1, <2>2, RowTypes DEF RowInv, ScheduledPlansExist
  <2>. QED  BY <1>6, <2>2, <2>3, <2>4
<1>10. StoredSchedulesAreValid'
      BY <1>7, RowTypes DEF RowInv, StoredSchedulesAreValid, ValidParts
<1>11. /\ FiledSecretsHaveOwners' /\ EnabledIsAsked'
       /\ \A s \in Scheds : scheds'[s] # None => s \in used'
      BY <1>2, <1>4, <1>7, RowTypes DEF RowInv, FiledSecretsHaveOwners, EnabledIsAsked, Moves, bounds
<1>12. \A d \in Clients : RowPending(d)'
      BY <1>2, <1>4, <1>7, OtherRows, NoRowPending, RowTypes DEF Watched, WatchedRows, bounds
<1>13. RowInv'
      BY <1>8, <1>9, <1>10, <1>11, <1>12 DEF RowInv
<1>. QED  BY <1>1, <1>2, <1>4, <1>5, <1>13, RowsOnly, RowTypes DEF bounds

\* A new schedule is validated.
LEMMA CheckPipelineTargetKeeps ==
    ASSUME Inv, NEW c \in Clients, CheckPipelineTarget(c)
    PROVE  Inv'
<1>1. /\ client[c].todo # <<>> /\ The(c) \in Steps /\ The(c).do = "check_target"
      /\ Calm(c) /\ ~At(c, "audit")
      BY Current DEF Inv, CheckPipelineTarget, Calm
<1>2. ReadOnly
      BY DEF CheckPipelineTarget
<1>3. CASE Fail(c)
      BY <1>1, <1>2, <1>3, Stops, Reads DEF Inv
<1>4. CASE ~Fail(c)
  <2>1. ValidParts(The(c).arg) /\ Then(c, <<>>)
        BY <1>4 DEF CheckPipelineTarget
  <2>2. /\ Moves(c)
        /\ client'[c].todo # <<>> => Follows(The(c), Head(client'[c].todo))
        BY <1>1, <2>1, Pop, NoMark DEF Inv
  <2>. PICK h : h = The(c)
        OBVIOUS
  <2>. PICK b : b = Head(client'[c].todo)
        OBVIOUS
  <2>3. client'[c].todo # <<>> => /\ b.do \notin Watched \ {"insert_sched"}
                                  /\ b.do = "insert_sched" => b.arg = h.arg
        BY <1>1, <2>2 DEF Follows, Loaded, Watched
  <2>4. RowPending(c)'
        BY <2>1, <2>3 DEF RowPending, At, The, Watched, ValidParts
  <2>5. RowInv'
        BY <1>2, <2>2, <2>4, RowKept, RowTypes DEF ReadOnly, tables, ghosts, bounds
  <2>6. Lead(client'[c].todo) \notin Watched \ WatchedRows
        BY <2>3 DEF Lead, Watched, WatchedRows
  <2>. QED  BY <1>1, <1>2, <2>2, <2>5, <2>6, RowsOnly, RowTypes DEF ReadOnly, tables, ghosts, bounds
<1>. QED  BY <1>3, <1>4

\* One schedule is written: it is valid, and its plan is there.
LEMMA ScheduleWritten ==
    ASSUME Inv, NEW c \in Clients, NEW s \in Scheds, Moves(c), used \subseteq used',
           UNCHANGED <<plans, dests, filed, wanted, switchedOn>>,
           scheds' \in [Scheds -> SchedRow \cup {None}],
           \A o \in Scheds \ {s} : scheds'[o] = scheds[o],
           scheds'[s] # None => /\ ValidParts(scheds'[s]) /\ s \in used'
                                /\ scheds'[s].plan # None => plans[scheds'[s].plan] # None,
           \/ scheds'[s] = scheds[s] \/ scheds'[s] = None \/ s \notin used
           \/ /\ scheds[s] # None /\ scheds'[s].kind = scheds[s].kind
              /\ scheds'[s].plan = scheds[s].plan /\ scheds'[s].pipe = scheds[s].pipe,
           Lead(client'[c].todo) \notin Watched
    PROVE  RowInv'
<1>1. PlanEditsSurvive'
      BY RowTypes DEF PlanEditsSurvive, RowInv
<1>2. ScheduledPlansExist'
      BY RowTypes DEF ScheduledPlansExist, RowInv
<1>3. StoredSchedulesAreValid'
  <2>1. SUFFICES ASSUME NEW o \in Scheds, scheds'[o] # None PROVE ValidParts(scheds'[o])
        BY DEF StoredSchedulesAreValid
  <2>2. o # s => scheds'[o] = scheds[o] /\ ValidParts(scheds[o])
        BY <2>1, RowTypes DEF StoredSchedulesAreValid, RowInv
  <2>. QED  BY <2>1, <2>2
<1>4. FiledSecretsHaveOwners' /\ EnabledIsAsked'
      BY RowTypes DEF RowInv, FiledSecretsHaveOwners, EnabledIsAsked, Moves
<1>5. \A o \in Scheds : scheds'[o] # None => o \in used'
      BY RowTypes DEF RowInv
<1>6. \A d \in Clients : RowPending(d)'
      BY OtherRows, NoRowPending, RowTypes DEF Watched, WatchedRows
<1>. QED  BY <1>1, <1>2, <1>3, <1>4, <1>5, <1>6 DEF RowInv

\* A schedule is stored, if its plan exists.
LEMMA InsertScheduleKeeps ==
    ASSUME Inv, NEW c \in Clients, InsertSchedule(c)
    PROVE  Inv'
<1>1. /\ client[c].todo # <<>> /\ The(c) \in Steps /\ The(c).do = "insert_sched"
      /\ Calm(c) /\ ~At(c, "audit") /\ At(c, "insert_sched")
      BY Current DEF Inv, InsertSchedule, Calm
<1>2. UNCHANGED <<pipes, plans, dests, keys, filed, audit, ghosts, lost, requests, faults>>
      BY DEF InsertSchedule
<1>3. CASE Fail(c) /\ UNCHANGED <<scheds, used>>
  <2>1. Moves(c) /\ Lead(client'[c].todo) \notin Watched
        BY <1>3, Stops DEF Inv
  <2>2. ReadOnly
        BY <1>2, <1>3 DEF ReadOnly, tables, bounds
  <2>. QED  BY <1>1, <2>1, <2>2, Reads
<1>4. CASE ~(Fail(c) /\ UNCHANGED <<scheds, used>>)
  <2>. PICK h \in Steps : h = The(c)
        BY <1>1
  <2>. PICK s : s = h.id
        OBVIOUS
  <2>. PICK row : row = h.arg
        OBVIOUS
  <2>1. s \in Scheds /\ row \in SchedRow
        BY <1>1, SchedSteps
  <2>2. /\ s \notin used /\ (row.plan # None => plans[row.plan] # None)
        /\ scheds' = [scheds EXCEPT ![s] = row] /\ used' = used \cup {s} /\ Write(c, s, <<>>)
        BY <1>4 DEF InsertSchedule
  <2>3. ValidParts(row)
        BY <1>1, RowTypes DEF RowInv, RowPending
  <2>4. Moves(c) /\ Lead(client'[c].todo) \notin Watched
        BY <1>1, <2>1, <2>2, Pops DEF Inv, Opens, Marks
  <2>5. /\ scheds' \in [Scheds -> SchedRow \cup {None}] /\ scheds'[s] = row
        /\ \A o \in Scheds \ {s} : scheds'[o] = scheds[o]
        BY <2>1, <2>2, RowTypes
  <2>6. ValidParts(scheds'[s])
        BY <2>3, <2>5
  <2>7. RowInv'
        BY <1>2, <2>1, <2>2, <2>4, <2>5, <2>6, ScheduleWritten DEF ghosts
  <2>. QED  BY <1>1, <1>2, <2>4, <2>5, <2>7, RowsOnly, RowTypes DEF ghosts
<1>. QED  BY <1>3, <1>4

\* An edit of a schedule keeps its columns, its kind, its plan and its pipeline.
LEMMA PatchedSchedule ==
    ASSUME NEW row \in SchedRow, NEW patch \in SchedulePatches
    PROVE  /\ Patch(row, patch) \in SchedRow
           /\ Patch(row, patch).kind = row.kind
           /\ Patch(row, patch).plan = row.plan
           /\ Patch(row, patch).pipe = row.pipe
<1>1. DOMAIN row = {"kind", "plan", "pipe", "dest", "restore", "enabled"}
      BY DEF SchedRow
<1>2. /\ DOMAIN patch \subseteq {"dest", "restore", "enabled"}
      /\ "dest" \in DOMAIN patch => patch.dest \in BOOLEAN
      /\ "restore" \in DOMAIN patch => patch.restore \in {"none", "safe", "destructive"}
      /\ "enabled" \in DOMAIN patch => patch.enabled \in BOOLEAN
      BY RowsAssumption
<1>. PICK m : m = Patch(row, patch)
      OBVIOUS
<1>3. m = [f \in {"kind", "plan", "pipe", "dest", "restore", "enabled"} |->
             IF f \in DOMAIN patch THEN patch[f] ELSE row[f]]
      BY <1>1 DEF Patch
<1>4. /\ row.kind \in {"sync", "drill", "pipeline"} /\ row.plan \in Plans \cup {None}
      /\ row.pipe \in Pipes \cup {None} /\ row.dest \in BOOLEAN
      /\ row.restore \in {"none", "safe", "destructive"} /\ row.enabled \in BOOLEAN
      BY DEF SchedRow
<1>5. m.kind = row.kind /\ m.plan = row.plan /\ m.pipe = row.pipe
      BY <1>2, <1>3
<1>6. m.dest \in BOOLEAN /\ m.restore \in {"none", "safe", "destructive"} /\ m.enabled \in BOOLEAN
      BY <1>2, <1>3, <1>4
<1>7. m = [kind |-> m.kind, plan |-> m.plan, pipe |-> m.pipe, dest |-> m.dest,
           restore |-> m.restore, enabled |-> m.enabled]
      BY <1>3
<1>8. m \in SchedRow
      BY <1>4, <1>5, <1>6, <1>7 DEF SchedRow
<1>. QED  BY <1>5, <1>8

\* A schedule is read, patched and validated as a whole.
LEMMA LoadScheduleKeeps ==
    ASSUME Inv, NEW c \in Clients, LoadSchedule(c)
    PROVE  Inv'
<1>1. /\ client[c].todo # <<>> /\ The(c) \in Steps /\ The(c).do = "update_sched"
      /\ Calm(c) /\ ~At(c, "audit")
      BY Current DEF Inv, LoadSchedule, Calm
<1>2. ReadOnly
      BY DEF LoadSchedule
<1>3. CASE Fail(c)
      BY <1>1, <1>2, <1>3, Stops, Reads DEF Inv
<1>4. CASE ~Fail(c)
  <2>. PICK h \in Steps : h = The(c)
        BY <1>1
  <2>. PICK i : i = h.id
        OBVIOUS
  <2>1. i \in Scheds /\ h.arg \in SchedulePatches
        BY <1>1, SchedSteps
  <2>. PICK row : row = Patch(scheds[i], h.arg)
        OBVIOUS
  <2>. PICK s : s = Step("write_sched", i, [row |-> row, patch |-> h.arg])
        OBVIOUS
  <2>2. scheds[i] # None /\ ValidParts(row) /\ Then(c, <<s>>)
        BY <1>4 DEF LoadSchedule
  <2>3. /\ row \in SchedRow
        /\ row.kind = scheds[i].kind /\ row.plan = scheds[i].plan /\ row.pipe = scheds[i].pipe
        BY <2>1, <2>2, PatchedSchedule, RowTypes
  <2>4. s \in Steps /\ Stands(h, s)
        BY <1>1, <2>1, <2>3 DEF Step, Steps, OfScheds, Stands, Opens, NeverLast
  <2>5. s.do = "write_sched" /\ s.id = i /\ s.arg.row = row
        BY DEF Step
  <2>6. Moves(c) /\ client'[c].todo # <<>> /\ Head(client'[c].todo) = s
        BY <1>1, <2>2, <2>4, OneStep, Push, NoMark DEF Inv
  <2>7. UNCHANGED <<scheds, used>>
        BY <1>2 DEF ReadOnly, tables, bounds
  <2>8. i \in used
        BY <2>1, <2>2, RowTypes DEF RowInv
  <2>9. SchedPending(c)'
    <3>1. The(c)' = s
          BY <2>6 DEF The
    <3>. QED  BY <2>2, <2>3, <2>5, <2>7, <2>8, <3>1 DEF SchedPending
  <2>10. RowPending(c)'
        BY <2>5, <2>6, <2>9 DEF RowPending, At
  <2>11. RowInv'
        BY <1>2, <2>6, <2>10, RowKept, RowTypes DEF ReadOnly, tables, ghosts, bounds
  <2>12. Lead(client'[c].todo) \notin Watched \ WatchedRows
        BY <2>5, <2>6 DEF Lead, Watched, WatchedRows
  <2>. QED  BY <1>1, <1>2, <2>6, <2>11, <2>12, RowsOnly, RowTypes DEF ReadOnly, tables, ghosts, bounds
<1>. QED  BY <1>3, <1>4

\* Validity looks at five columns.
LEMMA SameParts ==
    ASSUME NEW a, NEW b, ValidParts(a), a.kind = b.kind, a.plan = b.plan, a.pipe = b.pipe,
           a.dest = b.dest, a.restore = b.restore
    PROVE  ValidParts(b)
BY DEF ValidParts

\* The patched schedule is written.
LEMMA WriteScheduleKeeps ==
    ASSUME Inv, NEW c \in Clients, WriteSchedule(c)
    PROVE  Inv'
<1>1. /\ client[c].todo # <<>> /\ The(c) \in Steps /\ The(c).do = "write_sched"
      /\ Calm(c) /\ ~At(c, "audit") /\ At(c, "write_sched")
      BY Current DEF Inv, WriteSchedule, Calm
<1>2. UNCHANGED <<pipes, plans, dests, keys, filed, audit, ghosts, lost, bounds>>
      BY DEF WriteSchedule
<1>. PICK h \in Steps : h = The(c)
      BY <1>1
<1>. PICK s : s = h.id
      OBVIOUS
<1>. PICK row : row = h.arg.row
      OBVIOUS
<1>3. s \in Scheds /\ row \in SchedRow
      BY <1>1, SchedSteps
<1>4. /\ Write(c, s, <<>>)
      /\ scheds' = IF scheds[s] = None THEN scheds
                   ELSE [scheds EXCEPT ![s] = Written(scheds[s], row, h.arg.patch)]
      BY DEF WriteSchedule
<1>5. Moves(c) /\ Lead(client'[c].todo) \notin Watched
      BY <1>1, <1>3, <1>4, Pops DEF Inv, Opens, Marks
<1>6. SchedPending(c)
      BY <1>1, RowTypes DEF RowInv, RowPending
<1>7. CASE scheds[s] = None
  <2>1. RowInv'
        BY <1>2, <1>4, <1>5, <1>7, RowKept, NoRowPending, RowTypes DEF Watched, WatchedRows, bounds, ghosts
  <2>. QED  BY <1>1, <1>2, <1>4, <1>5, <1>7, <2>1, RowsOnly, RowTypes DEF bounds, ghosts
<1>8. CASE scheds[s] # None
  <2>. PICK new : new = Written(scheds[s], row, h.arg.patch)
        OBVIOUS
  <2>1. scheds[s] \in SchedRow
        BY <1>3, <1>8, RowTypes
  <2>2. /\ new \in SchedRow /\ new.kind = scheds[s].kind /\ new.plan = scheds[s].plan
        /\ new.pipe = scheds[s].pipe /\ new.dest = row.dest /\ new.restore = row.restore
        BY <1>3, <2>1 DEF Written, SchedRow
  <2>3. /\ s \in used /\ ValidParts(row)
        /\ scheds[s].kind = row.kind /\ scheds[s].plan = row.plan /\ scheds[s].pipe = row.pipe
        BY <1>6, <1>8 DEF SchedPending
  <2>4. ValidParts(new)
        BY <2>2, <2>3, SameParts
  <2>5. /\ scheds' \in [Scheds -> SchedRow \cup {None}] /\ scheds'[s] = new
        /\ \A o \in Scheds \ {s} : scheds'[o] = scheds[o]
        BY <1>3, <1>4, <1>8, <2>2, RowTypes
  <2>6. ValidParts(scheds'[s])
        BY <2>4, <2>5
  <2>7. scheds'[s].plan # None => plans[scheds'[s].plan] # None
        BY <1>3, <1>8, <2>2, <2>5, RowTypes DEF RowInv, ScheduledPlansExist
  <2>8. RowInv'
        BY <1>2, <1>3, <1>5, <1>8, <2>2, <2>3, <2>5, <2>6, <2>7, ScheduleWritten DEF ghosts, bounds
  <2>. QED  BY <1>1, <1>2, <1>5, <2>5, <2>8, RowsOnly, RowTypes DEF ghosts, bounds
<1>. QED  BY <1>7, <1>8

\* A schedule is deleted.
LEMMA RemoveScheduleKeeps ==
    ASSUME Inv, NEW c \in Clients, RemoveSchedule(c)
    PROVE  Inv'
<1>1. /\ client[c].todo # <<>> /\ The(c) \in Steps /\ The(c).do = "delete_sched"
      /\ Calm(c) /\ ~At(c, "audit")
      BY Current DEF Inv, RemoveSchedule, Calm
<1>2. UNCHANGED <<pipes, plans, dests, keys, filed, audit, ghosts, lost, bounds>>
      BY DEF RemoveSchedule
<1>. PICK s : s = The(c).id
      OBVIOUS
<1>3. s \in Scheds
      BY <1>1, SchedSteps
<1>4. Write(c, s, <<>>) /\ scheds' = [scheds EXCEPT ![s] = None]
      BY DEF RemoveSchedule
<1>5. Moves(c) /\ Lead(client'[c].todo) \notin Watched
      BY <1>1, <1>3, <1>4, Pops DEF Inv, Opens, Marks
<1>6. /\ scheds' \in [Scheds -> SchedRow \cup {None}] /\ scheds'[s] = None
      /\ \A o \in Scheds \ {s} : scheds'[o] = scheds[o]
      BY <1>3, <1>4, RowTypes
<1>7. RowInv'
      BY <1>2, <1>3, <1>5, <1>6, ScheduleWritten DEF ghosts, bounds
<1>. QED  BY <1>1, <1>2, <1>5, <1>6, <1>7, RowsOnly, RowTypes DEF ghosts, bounds

\* One destination or its secret is written.
LEMMA DestWritten ==
    ASSUME Inv, NEW c \in Clients, NEW d \in Dests, Moves(c), Tells(c, d), used \subseteq used',
           UNCHANGED <<plans, scheds, wanted>>,
           \A o \in Dests \ {d} : /\ dests'[o] = dests[o]
                                  /\ o \in filed' => o \in filed
                                  /\ o \in switchedOn => o \in switchedOn',
           filed' \subseteq Dests,
           d \in filed' => dests'[d] # None \/ d \in raced',
           dests'[d] # None /\ dests'[d].enabled => d \in switchedOn' \/ d \in raced',
           RowPending(c)'
    PROVE  RowInv'
<1>1. /\ PlanEditsSurvive' /\ ScheduledPlansExist' /\ StoredSchedulesAreValid'
      BY RowTypes DEF RowInv, PlanEditsSurvive, ScheduledPlansExist, StoredSchedulesAreValid, ValidParts
<1>2. FiledSecretsHaveOwners'
      BY RowTypes DEF RowInv, FiledSecretsHaveOwners, Moves
<1>3. EnabledIsAsked'
      BY RowTypes DEF RowInv, EnabledIsAsked, Moves
<1>4. \A s \in Scheds : scheds'[s] # None => s \in used'
      BY RowTypes DEF RowInv
<1>5. \A e \in Clients \ {c} : RowPending(e)'
      BY OtherRows, RowTypes
<1>. QED  BY <1>1, <1>2, <1>3, <1>4, <1>5 DEF RowInv

\* What waits behind a step that makes way for a secret.
LEMMA Secrets ==
    ASSUME Typed, NEW c \in Clients, client[c].todo # <<>>, NEW r \in Marks,
           Then(c, <<>>) \/ Write(c, r, <<>>),
           The(c).do \in {"insert_dest", "require_dest"}, dests'[The(c).id] # None
    PROVE  /\ Moves(c) /\ RowPending(c)' /\ (Write(c, r, <<>>) => Tells(c, r))
           /\ Lead(client'[c].todo) \notin Watched \ WatchedRows
<1>1. /\ Moves(c) /\ (Write(c, r, <<>>) => Tells(c, r))
      /\ client'[c].todo # <<>> => Follows(The(c), Head(client'[c].todo))
      BY Pop
<1>. PICK h : h = The(c)
      OBVIOUS
<1>. PICK b : b = Head(client'[c].todo)
      OBVIOUS
<1>2. client'[c].todo # <<>> => /\ b.do \notin Watched \ {"file_secret"}
                                /\ b.do = "file_secret" => b.id = h.id
      BY <1>1 DEF Follows, Loaded, Watched
<1>3. RowPending(c)'
      BY <1>2 DEF RowPending, At, The, Watched
<1>4. Lead(client'[c].todo) \notin Watched \ WatchedRows
      BY <1>2 DEF Lead, Watched, WatchedRows
<1>. QED  BY <1>1, <1>3, <1>4

\* A destination is stored.
LEMMA InsertDestKeeps ==
    ASSUME Inv, NEW c \in Clients, InsertDest(c)
    PROVE  Inv'
<1>1. /\ client[c].todo # <<>> /\ The(c) \in Steps /\ The(c).do = "insert_dest"
      /\ Calm(c) /\ ~At(c, "audit")
      BY Current DEF Inv, InsertDest, Calm
<1>2. UNCHANGED <<pipes, plans, scheds, keys, filed, audit, typed, authorised, dropped, wanted,
                  lost, requests, faults>>
      BY DEF InsertDest
<1>3. CASE Fail(c) /\ UNCHANGED <<dests, used, switchedOn>>
  <2>1. Moves(c) /\ Lead(client'[c].todo) \notin Watched
        BY <1>3, Stops DEF Inv
  <2>2. ReadOnly
        BY <1>2, <1>3 DEF ReadOnly, tables, ghosts, bounds
  <2>. QED  BY <1>1, <2>1, <2>2, Reads
<1>4. CASE ~(Fail(c) /\ UNCHANGED <<dests, used, switchedOn>>)
  <2>. PICK h \in Steps : h = The(c)
        BY <1>1
  <2>. PICK d : d = h.id
        OBVIOUS
  <2>. PICK a : a = h.arg
        OBVIOUS
  <2>1. d \in Dests /\ a \in NewDest
        BY <1>1, DestSteps
  <2>2. a.row \in DestRow /\ (a.row.enabled => a.asked)
        BY <2>1 DEF NewDest
  <2>3. a.row # None
        BY <2>2, RowsAssumption
  <2>4. /\ dests' = [dests EXCEPT ![d] = a.row] /\ used' = used \cup {d}
        /\ switchedOn' = IF a.asked THEN switchedOn \cup {d} ELSE switchedOn
        /\ Write(c, d, <<>>)
        BY <1>4 DEF InsertDest
  <2>5. /\ dests' \in [Dests -> DestRow \cup {None}] /\ dests'[d] = a.row
        /\ \A o \in Dests \ {d} : dests'[o] = dests[o]
        BY <2>1, <2>2, <2>4, RowTypes
  <2>6. /\ Moves(c) /\ RowPending(c)' /\ Tells(c, d)
        /\ Lead(client'[c].todo) \notin Watched \ WatchedRows
        BY <1>1, <2>1, <2>3, <2>4, <2>5, Secrets DEF Inv, Marks
  <2>7. RowInv'
        BY <1>2, <2>1, <2>2, <2>3, <2>4, <2>5, <2>6, DestWritten, RowTypes
  <2>. QED  BY <1>1, <1>2, <2>5, <2>6, <2>7, RowsOnly, RowTypes
<1>. QED  BY <1>3, <1>4

\* A destination is looked up before its secret is filed.
LEMMA RequireDestKeeps ==
    ASSUME Inv, NEW c \in Clients, RequireDest(c)
    PROVE  Inv'
<1>1. /\ client[c].todo # <<>> /\ The(c) \in Steps /\ The(c).do = "require_dest"
      /\ Calm(c) /\ ~At(c, "audit")
      BY Current DEF Inv, RequireDest, Calm
<1>2. ReadOnly
      BY DEF RequireDest
<1>3. CASE Fail(c)
      BY <1>1, <1>2, <1>3, Stops, Reads DEF Inv
<1>4. CASE ~Fail(c)
  <2>1. dests'[The(c).id] # None /\ Then(c, <<>>)
        BY <1>2, <1>4 DEF RequireDest, ReadOnly, tables
  <2>2. Moves(c) /\ RowPending(c)' /\ Lead(client'[c].todo) \notin Watched \ WatchedRows
        BY <1>1, <2>1, Secrets, NoMark DEF Inv
  <2>3. RowInv'
        BY <1>2, <2>2, RowKept, RowTypes DEF ReadOnly, tables, ghosts, bounds
  <2>. QED  BY <1>1, <1>2, <2>2, <2>3, RowsOnly, RowTypes DEF ReadOnly, tables, ghosts, bounds
<1>. QED  BY <1>3, <1>4

\* A secret is filed, unless the keychain refuses.
LEMMA FileSecretKeeps ==
    ASSUME Inv, NEW c \in Clients, FileSecret(c)
    PROVE  Inv'
<1>1. /\ client[c].todo # <<>> /\ The(c) \in Steps /\ The(c).do = "file_secret"
      /\ Calm(c) /\ ~At(c, "audit") /\ At(c, "file_secret")
      BY Current DEF Inv, FileSecret, Calm
<1>2. UNCHANGED <<tables, keys, audit, ghosts, lost, used, requests>>
      BY DEF FileSecret
<1>. PICK d : d = The(c).id
      OBVIOUS
<1>3. d \in Dests
      BY <1>1, DestSteps
<1>4. faults' \in 0 .. MaxFaults
      BY FaultCounted, RowTypes DEF FileSecret
<1>5. CASE Fail(c) /\ UNCHANGED filed
  <2>1. Moves(c) /\ Lead(client'[c].todo) \notin Watched
        BY <1>5, Stops DEF Inv
  <2>2. RowInv'
        BY <1>2, <1>5, <2>1, RowKept, NoRowPending, RowTypes DEF Watched, WatchedRows, tables, ghosts
  <2>. QED  BY <1>1, <1>2, <1>4, <1>5, <2>1, <2>2, RowsOnly, RowTypes DEF tables, ghosts
<1>6. CASE filed' = filed \cup {d} /\ Write(c, d, <<>>)
  <2>1. Moves(c) /\ Lead(client'[c].todo) \notin Watched /\ Tells(c, d)
        BY <1>1, <1>3, <1>6, Pops DEF Inv, Opens, Marks
  <2>2. dests[d] # None \/ d \in raced'
        BY <1>1, <2>1, RowTypes DEF RowInv, RowPending, Tells
  <2>3. dests[d] # None /\ dests[d].enabled => d \in switchedOn \/ d \in raced'
        BY <1>3, <2>1, RowTypes DEF RowInv, EnabledIsAsked, Moves
  <2>4. RowPending(c)'
        BY <2>1, NoRowPending DEF Watched, WatchedRows
  <2>5. filed' \subseteq Dests
        BY <1>3, <1>6, RowTypes
  <2>6. RowInv'
        BY <1>2, <1>3, <1>6, <2>1, <2>2, <2>3, <2>4, <2>5, DestWritten DEF tables, ghosts
  <2>. QED  BY <1>1, <1>2, <1>4, <2>1, <2>5, <2>6, RowsOnly, RowTypes DEF tables, ghosts
<1>. QED  BY <1>5, <1>6 DEF FileSecret

\* A secret is removed before its destination is.
LEMMA UnfileSecretKeeps ==
    ASSUME Inv, NEW c \in Clients, UnfileSecret(c)
    PROVE  Inv'
<1>1. /\ client[c].todo # <<>> /\ The(c) \in Steps /\ The(c).do = "unfile_secret"
      /\ Calm(c) /\ ~At(c, "audit")
      BY Current DEF Inv, UnfileSecret, Calm
<1>2. UNCHANGED <<tables, keys, audit, ghosts, lost, used, requests>>
      BY DEF UnfileSecret
<1>. PICK h : h = The(c)
      OBVIOUS
<1>. PICK d : d = h.id
      OBVIOUS
<1>3. d \in Dests
      BY <1>1, DestSteps
<1>4. faults' \in 0 .. MaxFaults
      BY FaultCounted, RowTypes DEF UnfileSecret
<1>5. CASE Fail(c) /\ UNCHANGED filed
  <2>1. Moves(c) /\ Lead(client'[c].todo) \notin Watched
        BY <1>5, Stops DEF Inv
  <2>2. RowInv'
        BY <1>2, <1>5, <2>1, RowKept, NoRowPending, RowTypes DEF Watched, WatchedRows, tables, ghosts
  <2>. QED  BY <1>1, <1>2, <1>4, <1>5, <2>1, <2>2, RowsOnly, RowTypes DEF tables, ghosts
<1>6. CASE filed' = filed \ {d} /\ Write(c, d, <<>>)
  <2>1. /\ Moves(c) /\ Tells(c, d)
        /\ client'[c].todo # <<>> => Follows(The(c), Head(client'[c].todo))
        BY <1>1, <1>3, <1>6, Pop DEF Inv, Marks
  <2>. PICK b : b = Head(client'[c].todo)
        OBVIOUS
  <2>2. client'[c].todo # <<>> => /\ b.do \notin Watched \ {"delete_dest"}
                                  /\ b.do = "delete_dest" => b.id = d
        BY <1>1, <2>1 DEF Follows, Loaded, Watched
  <2>3. RowPending(c)'
        BY <1>6, <2>2 DEF RowPending, At, The, Watched
  <2>4. Lead(client'[c].todo) \notin Watched \ WatchedRows
        BY <2>2 DEF Lead, Watched, WatchedRows
  <2>5. dests[d] # None /\ dests[d].enabled => d \in switchedOn \/ d \in raced'
        BY <1>3, <2>1, RowTypes DEF RowInv, EnabledIsAsked, Moves
  <2>6. filed' \subseteq Dests
        BY <1>6, RowTypes
  <2>7. RowInv'
        BY <1>2, <1>3, <1>6, <2>1, <2>3, <2>5, <2>6, DestWritten DEF tables, ghosts
  <2>. QED  BY <1>1, <1>2, <1>4, <2>1, <2>4, <2>6, <2>7, RowsOnly, RowTypes DEF tables, ghosts
<1>. QED  BY <1>5, <1>6 DEF UnfileSecret

\* The secret is gone before its destination, unless it was filed again since.
LEMMA RemoveDestKeeps ==
    ASSUME Inv, NEW c \in Clients, RemoveDest(c)
    PROVE  Inv'
<1>1. /\ client[c].todo # <<>> /\ The(c) \in Steps /\ The(c).do = "delete_dest"
      /\ Calm(c) /\ ~At(c, "audit") /\ At(c, "delete_dest")
      BY Current DEF Inv, RemoveDest, Calm
<1>2. UNCHANGED <<pipes, plans, scheds, keys, filed, audit, ghosts, lost, bounds>>
      BY DEF RemoveDest
<1>. PICK h \in Steps : h = The(c)
      BY <1>1
<1>. PICK d : d = h.id
      OBVIOUS
<1>3. d \in Dests
      BY <1>1, DestSteps
<1>. PICK s : s = Audit("DestinationDeleted", d)
      OBVIOUS
<1>4. s \in Steps /\ Stands(h, s) /\ s.do = "audit"
      BY <1>1, <1>3 DEF Audit, Step, Steps, OfAudit, Marks, Actions, Stands, Opens, NeverLast
<1>5. /\ dests' = [dests EXCEPT ![d] = None]
      /\ Write(c, d, <<s>>) \/ Write(c, d, <<>>)
      BY DEF RemoveDest
<1>6. Moves(c) /\ Lead(client'[c].todo) \notin Watched /\ Tells(c, d)
  <2>1. CASE Write(c, d, <<>>)
        BY <1>1, <1>3, <2>1, Pops DEF Inv, Opens, Marks
  <2>2. CASE Write(c, d, <<s>>)
    <3>1. Moves(c) /\ client'[c].todo # <<>> /\ Head(client'[c].todo) = s /\ Tells(c, d)
          BY <1>1, <1>3, <1>4, <2>2, OneStep, Push DEF Inv, Marks
    <3>. QED  BY <1>4, <3>1 DEF Lead, Watched
  <2>. QED  BY <1>5, <2>1, <2>2
<1>7. /\ dests' \in [Dests -> DestRow \cup {None}] /\ dests'[d] = None
      /\ \A o \in Dests \ {d} : dests'[o] = dests[o]
      BY <1>3, <1>5, RowTypes
<1>8. d \in filed => d \in raced'
      BY <1>1, <1>6, RowTypes DEF RowInv, RowPending, Tells
<1>9. RowPending(c)'
      BY <1>6, NoRowPending DEF Watched, WatchedRows
<1>10. RowInv'
      BY <1>2, <1>3, <1>6, <1>7, <1>8, <1>9, DestWritten, RowTypes DEF ghosts, bounds
<1>. QED  BY <1>1, <1>2, <1>6, <1>7, <1>10, RowsOnly, RowTypes DEF ghosts, bounds

\* An edit of a destination keeps its columns and changes the one it names.
LEMMA PatchedDest ==
    ASSUME NEW row \in DestRow, NEW patch \in DestPatch
    PROVE  /\ Patch(row, patch) \in DestRow
           /\ "enabled" \in DOMAIN patch => Patch(row, patch).enabled = patch.enabled
           /\ "enabled" \notin DOMAIN patch => Patch(row, patch).enabled = row.enabled
<1>1. DOMAIN row = {"kind", "enabled"} /\ row.kind \in Edits /\ row.enabled \in BOOLEAN
      BY DEF DestRow
<1>. PICK m : m = Patch(row, patch)
      OBVIOUS
<1>2. m = [f \in {"kind", "enabled"} |-> IF f \in DOMAIN patch THEN patch[f] ELSE row[f]]
      BY <1>1 DEF Patch
<1>3. m = [kind |-> m.kind, enabled |-> m.enabled]
      BY <1>2
<1>4. CASE patch \in [{"enabled"} -> BOOLEAN]
  <2>1. DOMAIN patch = {"enabled"} /\ patch["enabled"] \in BOOLEAN
        BY <1>4
  <2>2. m.kind = row.kind /\ m.enabled = patch["enabled"]
        BY <1>2, <2>1
  <2>3. m.kind \in Edits /\ m.enabled \in BOOLEAN
        BY <1>1, <2>1, <2>2
  <2>4. m \in DestRow
        BY <1>3, <2>3 DEF DestRow
  <2>. QED  BY <2>1, <2>2, <2>4
<1>5. CASE patch \in [{"kind"} -> Edits]
  <2>1. DOMAIN patch = {"kind"} /\ patch["kind"] \in Edits
        BY <1>5
  <2>2. m.kind = patch["kind"] /\ m.enabled = row.enabled
        BY <1>2, <2>1
  <2>3. m.kind \in Edits /\ m.enabled \in BOOLEAN
        BY <1>1, <2>1, <2>2
  <2>4. m \in DestRow
        BY <1>3, <2>3 DEF DestRow
  <2>. QED  BY <2>1, <2>2, <2>4
<1>. QED  BY <1>4, <1>5 DEF DestPatch

\* A destination is read and patched.
LEMMA LoadDestKeeps ==
    ASSUME Inv, NEW c \in Clients, LoadDest(c)
    PROVE  Inv'
<1>1. /\ client[c].todo # <<>> /\ The(c) \in Steps /\ The(c).do = "update_dest"
      /\ Calm(c) /\ ~At(c, "audit")
      BY Current DEF Inv, LoadDest, Calm
<1>2. ReadOnly
      BY DEF LoadDest
<1>3. CASE Fail(c)
      BY <1>1, <1>2, <1>3, Stops, Reads DEF Inv
<1>4. CASE ~Fail(c)
  <2>. PICK h \in Steps : h = The(c)
        BY <1>1
  <2>. PICK d : d = h.id
        OBVIOUS
  <2>1. d \in Dests /\ h.arg \in DestPatch
        BY <1>1, DestSteps
  <2>. PICK row : row = Patch(dests[d], h.arg)
        OBVIOUS
  <2>. PICK s : s = Step("write_dest", d, [row |-> row, patch |-> h.arg])
        OBVIOUS
  <2>2. dests[d] # None /\ Then(c, <<s>>)
        BY <1>4 DEF LoadDest
  <2>3. /\ row \in DestRow
        /\ "enabled" \in DOMAIN h.arg => row.enabled = h.arg.enabled
        /\ "enabled" \notin DOMAIN h.arg => row.enabled = dests[d].enabled
        BY <2>1, <2>2, PatchedDest, RowTypes
  <2>4. s \in Steps /\ Stands(h, s)
        BY <1>1, <2>1, <2>3 DEF Step, Steps, OfDests, Stands, Opens, NeverLast
  <2>5. s.do = "write_dest" /\ s.id = d /\ s.arg.row = row /\ s.arg.patch = h.arg
        BY DEF Step
  <2>6. Moves(c) /\ client'[c].todo # <<>> /\ Head(client'[c].todo) = s
        BY <1>1, <2>2, <2>4, OneStep, Push, NoMark DEF Inv
  <2>7. dests' = dests
        BY <1>2 DEF ReadOnly, tables
  <2>8. DestPending(c)'
        BY <2>3, <2>5, <2>6, <2>7 DEF DestPending, The
  <2>9. RowPending(c)'
        BY <2>5, <2>6, <2>8 DEF RowPending, At
  <2>10. RowInv'
        BY <1>2, <2>6, <2>9, RowKept, RowTypes DEF ReadOnly, tables, ghosts, bounds
  <2>11. Lead(client'[c].todo) \notin Watched \ WatchedRows
        BY <2>5, <2>6 DEF Lead, Watched, WatchedRows
  <2>. QED  BY <1>1, <1>2, <2>6, <2>10, <2>11, RowsOnly, RowTypes DEF ReadOnly, tables, ghosts, bounds
<1>. QED  BY <1>3, <1>4

\* A destination is enabled by an edit that says so, or as it was.
LEMMA WriteDestKeeps ==
    ASSUME Inv, NEW c \in Clients, WriteDest(c)
    PROVE  Inv'
<1>1. /\ client[c].todo # <<>> /\ The(c) \in Steps /\ The(c).do = "write_dest"
      /\ Calm(c) /\ ~At(c, "audit") /\ At(c, "write_dest")
      BY Current DEF Inv, WriteDest, Calm
<1>2. UNCHANGED <<pipes, plans, scheds, keys, filed, audit, typed, authorised, dropped, wanted,
                  lost, bounds>>
      BY DEF WriteDest
<1>. PICK h \in Steps : h = The(c)
      BY <1>1
<1>. PICK d : d = h.id
      OBVIOUS
<1>. PICK a : a = h.arg
      OBVIOUS
<1>3. d \in Dests /\ a.row \in DestRow
      BY <1>1, DestSteps
<1>4. /\ Write(c, d, <<>>)
      /\ dests' = IF dests[d] = None THEN dests ELSE [dests EXCEPT ![d] = a.row]
      /\ switchedOn' = IF "enabled" \notin DOMAIN a.patch THEN switchedOn
                       ELSE IF a.patch.enabled THEN switchedOn \cup {d} ELSE switchedOn \ {d}
      BY DEF WriteDest
<1>5. Moves(c) /\ Lead(client'[c].todo) \notin Watched /\ Tells(c, d)
      BY <1>1, <1>3, <1>4, Pops DEF Inv, Opens, Marks
<1>6. DestPending(c)
      BY <1>1, RowTypes DEF RowInv, RowPending
<1>7. /\ dests' \in [Dests -> DestRow \cup {None}]
      /\ dests[d] = None => dests'[d] = None
      /\ dests[d] # None => dests'[d] = a.row
      /\ \A o \in Dests \ {d} : dests'[o] = dests[o]
      BY <1>3, <1>4, RowTypes
<1>8. a.row # None
      BY <1>3, RowsAssumption
<1>9. d \in filed => dests'[d] # None \/ d \in raced'
      BY <1>5, <1>7, <1>8, RowTypes DEF RowInv, FiledSecretsHaveOwners, Moves
<1>10. ASSUME dests'[d] # None, dests'[d].enabled
       PROVE  d \in switchedOn' \/ d \in raced'
  <2>1. dests[d] # None /\ a.row.enabled
        BY <1>7, <1>10
  <2>2. CASE "enabled" \in DOMAIN a.patch
    <3>1. a.row.enabled = a.patch.enabled
          BY <1>6, <2>2 DEF DestPending
    <3>. QED  BY <1>4, <2>1, <2>2, <3>1
  <2>3. CASE "enabled" \notin DOMAIN a.patch /\ d \in client[c].stale
        BY <1>5, <2>3 DEF Tells
  <2>4. CASE "enabled" \notin DOMAIN a.patch /\ d \notin client[c].stale
    <3>1. a.row.enabled = dests[d].enabled
          BY <1>6, <2>1, <2>4 DEF DestPending
    <3>2. d \in switchedOn \/ d \in raced
          BY <1>3, <2>1, <3>1, RowTypes DEF RowInv, EnabledIsAsked
    <3>. QED  BY <1>4, <1>5, <2>4, <3>2 DEF Moves
  <2>. QED  BY <2>2, <2>3, <2>4
<1>11. \A o \in Dests \ {d} : o \in switchedOn => o \in switchedOn'
      BY <1>4
<1>12. RowPending(c)'
      BY <1>5, NoRowPending DEF Watched, WatchedRows
<1>13. RowInv'
      BY <1>2, <1>3, <1>5, <1>7, <1>9, <1>10, <1>11, <1>12, DestWritten, RowTypes DEF bounds
<1>. QED  BY <1>1, <1>2, <1>5, <1>7, <1>13, RowsOnly, RowTypes DEF bounds

-----------------------------------------------------------------------------
(* The invariant holds in the beginning and every step keeps it. *)

\* Nothing a request knows of its row changes.
LEMMA StillPending ==
    ASSUME NEW c \in Clients, RowPending(c), UNCHANGED <<client, scheds, dests, used>>,
           filed' \subseteq filed
    PROVE  RowPending(c)'
<1>1. (\A do : At(c, do)' <=> At(c, do)) /\ The(c)' = The(c)
      BY DEF At, The
<1>. PICK s : s = The(c)
      OBVIOUS
<1>2. At(c, "insert_sched") => ValidParts(s.arg)
      BY DEF RowPending
<1>3. ASSUME At(c, "write_sched") PROVE SchedPending(c)'
  <2>1. SchedPending(c)
        BY <1>3 DEF RowPending
  <2>. QED  BY <1>1, <2>1 DEF SchedPending, ValidParts
<1>4. ASSUME At(c, "write_dest") PROVE DestPending(c)'
  <2>1. DestPending(c)
        BY <1>4 DEF RowPending
  <2>. QED  BY <1>1, <2>1 DEF DestPending
<1>5. At(c, "file_secret") /\ s.id \notin client[c].stale => dests[s.id] # None
      BY DEF RowPending
<1>6. At(c, "delete_dest") /\ s.id \notin client[c].stale => s.id \notin filed
      BY DEF RowPending
<1>. QED  BY <1>1, <1>2, <1>3, <1>4, <1>5, <1>6 DEF RowPending, ValidParts

\* The keychain loses all it holds.
LEMMA KeychainResetKeeps ==
    ASSUME Inv, KeychainReset
    PROVE  Inv'
<1>1. /\ vault' = None /\ filed' = {}
      /\ UNCHANGED <<tables, settings, encrypted, escrow, audit, client, ghosts, lost,
                     raced, used, requests>>
      BY DEF KeychainReset
<1>2. faults' \in 0 .. MaxFaults
      BY FaultCounted, RowTypes DEF KeychainReset
<1>3. TypeOK'
      BY <1>1, <1>2 DEF Inv, Typed, TypeOK, tables
<1>4. Typed'
      BY <1>1, <1>3 DEF Inv, Typed, ghosts
<1>5. \A c \in Clients : (\A do : At(c, do)' <=> At(c, do)) /\ The(c)' = The(c)
      BY <1>1 DEF At, The
<1>6. Permission'
  <2>1. \A p : OnRecord(p)' <=> OnRecord(p)
        BY <1>1 DEF OnRecord, The, Audit, Step
  <2>2. \A c \in Clients : /\ At(c, "write_pipe")' => PipePending(c)'
                           /\ At(c, "write_ack")' => AckPending(c)'
        BY <1>1, <1>5 DEF Inv, Permission, PipePending, AckPending, Armed, tables, ghosts
  <2>. QED  BY <1>1, <2>1, <2>2 DEF Inv, Permission, Armed, tables, ghosts
<1>7. KeyInv'
      BY <1>1, <1>5, SameHands DEF Inv, KeyInv, escrow
<1>8. RowInv'
  <2>1. /\ PlanEditsSurvive' /\ ScheduledPlansExist' /\ StoredSchedulesAreValid'
        BY <1>1 DEF Inv, RowInv, PlanEditsSurvive, ScheduledPlansExist, StoredSchedulesAreValid,
           ValidParts, tables, ghosts
  <2>2. FiledSecretsHaveOwners' /\ EnabledIsAsked' /\ \A s \in Scheds : scheds'[s] # None => s \in used'
        BY <1>1 DEF Inv, RowInv, FiledSecretsHaveOwners, EnabledIsAsked, tables, ghosts
  <2>3. \A c \in Clients : RowPending(c)'
        BY <1>1, StillPending DEF Inv, RowInv, tables
  <2>. QED  BY <2>1, <2>2, <2>3 DEF RowInv
<1>. QED  BY <1>4, <1>6, <1>7, <1>8 DEF Inv

\* The invariant holds of what the program starts with.
LEMMA InitInv ==
    ASSUME Init
    PROVE  Inv
<1>1. PICK st \in Starts :
        /\ pipes = st.pipes /\ plans = st.plans /\ scheds = st.scheds /\ dests = st.dests
        /\ vault = st.key /\ settings = [public |-> st.key, exported |-> st.exported]
        /\ released = Elsewhere \cup (IF st.exported THEN {st.key} ELSE {})
      BY DEF Init
<1>2. /\ filed = {d \in Dests : dests[d] # None}
      /\ audit = {<<"PipelineArmed", p>> : p \in {q \in Pipes : pipes[q] # None /\ Armed(pipes[q])}}
      /\ client = [c \in Clients |-> [todo |-> <<>>, stale |-> {}]]
      /\ authorised = {a \in Pipes \X StepLists :
                         pipes[a[1]] # None /\ Armed(pipes[a[1]]) /\ pipes[a[1]].steps = a[2]}
      /\ typed = {<<a[1], Signature[a[2]]>> : a \in authorised}
      /\ wanted = [p \in Plans |-> IF plans[p] = None THEN None
                   ELSE [selections |-> plans[p].selections, masking |-> plans[p].masking]]
      /\ switchedOn = {d \in Dests : dests[d] # None /\ dests[d].enabled}
      /\ {r \in Scheds : scheds[r] # None} \subseteq used
      /\ dropped = {} /\ encrypted = {} /\ lost = {} /\ raced = {}
      /\ requests = 0 /\ faults = 0
      BY DEF Init
<1>3. /\ pipes \in [Pipes -> PipeRow \cup {None}]
      /\ plans \in [Plans -> PlanRow \cup {None}]
      /\ scheds \in [Scheds -> SchedRow \cup {None}]
      /\ dests \in [Dests -> DestRow \cup {None}]
      /\ st.key \in Keys \cup {None} /\ st.exported \in BOOLEAN
      /\ st.exported => st.key # None
      /\ \A i \in Scheds : scheds[i] # None =>
           ValidParts(scheds[i]) /\ (scheds[i].plan # None => plans[scheds[i].plan] # None)
      BY <1>1, StartsAssumption
<1>4. \A c \in Clients : client[c].todo = <<>> /\ \A do : ~At(c, do)
      BY <1>2 DEF At
<1>5. Typed
  <2>1. TypeOK
        BY <1>1, <1>2, <1>3, CatalogueAssumption DEF TypeOK
  <2>2. wanted \in [Plans -> PlanText \cup {None}]
        BY <1>2, <1>3 DEF PlanText, PlanRow
  <2>3. <<>> \in Seq(Steps) /\ Chain(<<>>)
        BY EmptySeq DEF Chain
  <2>4. client \in [Clients -> [todo : Seq(Steps), stale : SUBSET Marks]]
        BY <1>2, <2>3
  <2>. QED  BY <1>4, <2>1, <2>2, <2>3, <2>4 DEF Typed
<1>6. Permission
  <2>1. ASSUME NEW r \in typed PROVE OnRecord(r[1])
    <3>1. PICK a \in authorised : r = <<a[1], Signature[a[2]]>>
          BY <1>2
    <3>2. a[1] \in Pipes /\ pipes[a[1]] # None /\ Armed(pipes[a[1]]) /\ r[1] = a[1]
          BY <1>2, <3>1
    <3>. QED  BY <1>2, <3>2 DEF OnRecord
  <2>2. ASSUME NEW p \in Pipes, pipes[p] # None, Armed(pipes[p])
        PROVE  <<p, pipes[p].ack>> \in typed /\ <<p, pipes[p].steps>> \in authorised
    <3>1. pipes[p].steps \in StepLists
          BY <1>3, <2>2, CatalogueAssumption DEF PipeRow
    <3>. PICK a : a = <<p, pipes[p].steps>>
          OBVIOUS
    <3>2. a \in Pipes \X StepLists /\ a[1] = p /\ a[2] = pipes[p].steps
          BY <3>1
    <3>3. a \in authorised
          BY <1>2, <2>2, <3>2
    <3>4. <<p, Signature[pipes[p].steps]>> \in typed
          BY <1>2, <3>2, <3>3
    <3>. QED  BY <2>2, <3>3, <3>4 DEF Armed
  <2>. QED  BY <1>2, <1>4, <2>1, <2>2 DEF Permission
<1>7. KeyInv
  <2>1. encrypted = {} /\ Elsewhere \subseteq released
        BY <1>1, <1>2
  <2>2. settings.exported => settings.public \in Spoken
        BY <1>1 DEF Spoken
  <2>. QED  BY <1>4, <2>1, <2>2 DEF KeyInv, KeyIsHeld
<1>8. RowInv
  <2>1. PlanEditsSurvive /\ ScheduledPlansExist /\ StoredSchedulesAreValid
        BY <1>2, <1>3 DEF PlanEditsSurvive, ScheduledPlansExist, StoredSchedulesAreValid
  <2>2. FiledSecretsHaveOwners /\ EnabledIsAsked /\ \A s \in Scheds : scheds[s] # None => s \in used
        BY <1>2 DEF FiledSecretsHaveOwners, EnabledIsAsked
  <2>3. \A c \in Clients : RowPending(c)
        BY <1>4 DEF RowPending
  <2>. QED  BY <2>1, <2>2, <2>3 DEF RowInv
<1>. QED  BY <1>5, <1>6, <1>7, <1>8 DEF Inv

\* A stuttering step keeps the invariant.
LEMMA UnchangedInv ==
    ASSUME Inv, UNCHANGED vars
    PROVE  Inv'
<1>. USE DEF vars
<1>1. Typed'
      BY DEF Inv, Typed, TypeOK, Chain, Follows, Audit, Step
<1>2. Permission'
      BY DEF Inv, Permission, OnRecord, PipePending, AckPending, Armed, At, The, Audit, Step
<1>3. KeyInv'
      BY SameHands DEF Inv, KeyInv, keys, escrow, At, The
<1>4. RowInv'
  <2>1. \A c \in Clients : RowPending(c)'
        BY StillPending DEF Inv, RowInv
  <2>2. PlanEditsSurvive' /\ ScheduledPlansExist' /\ StoredSchedulesAreValid'
        BY DEF Inv, RowInv, PlanEditsSurvive, ScheduledPlansExist, StoredSchedulesAreValid, ValidParts
  <2>3. FiledSecretsHaveOwners' /\ EnabledIsAsked'
        BY DEF Inv, RowInv, FiledSecretsHaveOwners, EnabledIsAsked
  <2>. QED  BY <2>1, <2>2, <2>3 DEF Inv, RowInv
<1>. QED  BY <1>1, <1>2, <1>3, <1>4 DEF Inv

\* Every step keeps the invariant, by the lemma of its action.
LEMMA NextInv ==
    ASSUME Inv, Next
    PROVE  Inv'
<1>1. CASE KeychainReset
      BY <1>1, KeychainResetKeeps
<1>2. ASSUME NEW c \in Clients,
             \/ AuditRow(c) \/ Crash(c)
             \/ CreatePipeline(c) \/ InsertPipe(c) \/ UpdatePipeline(c) \/ LoadPipe(c) \/ WritePipe(c)
             \/ ArmPipeline(c) \/ LoadArm(c) \/ WriteAck(c) \/ DeletePipeline(c) \/ RemovePipe(c)
             \/ PerformPipeline(c) \/ RunPipelineNow(c)
      PROVE  Inv'
      BY <1>2, AuditRowKeeps, CrashKeeps, PipelineRequests, InsertPipeKeeps, LoadPipeKeeps,
         WritePipeKeeps, LoadArmKeeps, WriteAckKeeps, RemovePipeKeeps, PerformPipelineKeeps
<1>3. ASSUME NEW c \in Clients,
             \/ CreatePlan(c) \/ InsertPlan(c) \/ UpdatePlan(c) \/ SetPlanMasking(c) \/ LoadPlan(c)
             \/ WritePlan(c) \/ DeletePlan(c) \/ DeleteProfile(c) \/ RemovePlans(c)
             \/ CreateSchedule(c) \/ CheckPipelineTarget(c) \/ InsertSchedule(c) \/ UpdateSchedule(c)
             \/ LoadSchedule(c) \/ WriteSchedule(c) \/ DeleteSchedule(c) \/ RemoveSchedule(c)
             \/ RunSchedule(c)
      PROVE  Inv'
      BY <1>3, PlanRequests, InsertPlanKeeps, LoadPlanKeeps, WritePlanKeeps, RemovePlansKeeps,
         ScheduleRequests, CheckPipelineTargetKeeps, InsertScheduleKeeps, LoadScheduleKeeps,
         WriteScheduleKeeps, RemoveScheduleKeeps
<1>4. ASSUME NEW c \in Clients,
             \/ CreateDestination(c) \/ AddDestination(c) \/ InsertDest(c) \/ FileSecret(c)
             \/ SetDestinationCredential(c) \/ RequireDest(c) \/ UpdateDestination(c) \/ LoadDest(c)
             \/ WriteDest(c) \/ DeleteDestination(c) \/ UnfileSecret(c) \/ RemoveDest(c)
             \/ ImportBundle(c) \/ ImportPlan(c) \/ ImportDest(c)
      PROVE  Inv'
      BY <1>4, DestinationRequests, InsertDestKeeps, FileSecretKeeps, RequireDestKeeps,
         LoadDestKeeps, WriteDestKeeps, UnfileSecretKeeps, RemoveDestKeeps, ImportPlanKeeps,
         ImportDestKeeps
<1>5. ASSUME NEW c \in Clients,
             \/ Generate(c) \/ EnsureExists(c) \/ SetVault(c) \/ SetPublic(c) \/ SetExported(c)
             \/ ExportKey(c) \/ ReadVault(c) \/ CompareHalves(c) \/ MarkExported(c) \/ HandOver(c)
             \/ ImportKey(c) \/ Encrypt(c) \/ Gate(c) \/ Recipients(c)
      PROVE  Inv'
      BY <1>5, KeyRequests, EnsureExistsKeeps, SetVaultKeeps, SetPublicKeeps, SetExportedKeeps,
         ReadVaultKeeps, CompareHalvesKeeps, MarkExportedKeeps, HandOverKeeps, GateKeeps,
         RecipientsKeeps
<1>. QED  BY <1>1, <1>2, <1>3, <1>4, <1>5 DEF Next

-----------------------------------------------------------------------------
(* The theorems. *)

\* Every configuration the program can be in satisfies the inductive invariant:
\* rows and requests have their types, each step waits behind the one it relies
\* on, and a request that is about to write knows what it read is still so
\* unless somebody wrote the record meanwhile (store.rs, backupkey.rs).
LEMMA CatalogueInvariance == Spec => []Inv
<1>1. Init => Inv
      BY InitInv
<1>2. Inv /\ [Next]_vars => Inv'
      BY NextInv, UnchangedInv
<1>. QED  BY <1>1, <1>2, PTL DEF Spec

\* arm_pipeline and perform_pipeline: whatever drops databases unattended drops
\* names a person typed for that pipeline, an armed pipeline has the steps its
\* permission was given for unless its row was written from an outdated read,
\* and the permission is on the record unless its audit row was refused.
THEOREM UnattendedDropsArePermitted == Spec => []PermissionWasGiven
<1>1. Inv => PermissionWasGiven
  <2>. SUFFICES ASSUME Inv PROVE PermissionWasGiven
        OBVIOUS
  <2>2. UnattendedDropsWereTyped /\ ArmedStepsWereSeen
        BY DEF Inv, Permission, UnattendedDropsWereTyped, ArmedStepsWereSeen
  <2>3. AuthorisationsAreOnRecord
    <3>. SUFFICES ASSUME NEW r \in dropped
                   PROVE  \/ <<"PipelineArmed", r[1]>> \in audit \cup lost
                          \/ \E c \in Clients : \E i \in 1 .. Len(client[c].todo) :
                                client[c].todo[i] = Audit("PipelineArmed", r[1])
          BY DEF AuthorisationsAreOnRecord
    <3>2. OnRecord(r[1])
          BY DEF Inv, Permission
    <3>3. ASSUME NEW c \in Clients, client[c].todo # <<>>, The(c) = Audit("PipelineArmed", r[1])
          PROVE  \E i \in 1 .. Len(client[c].todo) :
                    client[c].todo[i] = Audit("PipelineArmed", r[1])
      <4>1. PICK q \in Seq(Steps) : q = client[c].todo
            BY DEF Inv, Typed
      <4>2. 1 \in 1 .. Len(q) /\ Head(q) = q[1]
            BY <3>3, <4>1, EmptySeq, HeadTailProperties
      <4>. QED  BY <3>3, <4>1, <4>2 DEF The
    <3>. QED  BY <3>2, <3>3 DEF OnRecord
  <2>. QED  BY <2>2, <2>3 DEF PermissionWasGiven
<1>. QED  BY <1>1, CatalogueInvariance, PTL

\* store.rs and share.rs: stored rows are well formed and validated as a whole,
\* crossing edits of a plan do not undo each other, scheduled plans exist; and
\* but for the destinations written from an outdated read, no secret is orphaned
\* and none is enabled that nobody asked to enable.
THEOREM RowsAreSound == Spec => []StoredRowsAreSound
<1>1. Inv => StoredRowsAreSound
      BY DEF Inv, Typed, RowInv, StoredRowsAreSound
<1>. QED  BY <1>1, CatalogueInvariance, PTL

\* ensure_ready_for_encryption: a backup is encrypted only to a key whose secret
\* is held outside this machine, has been recorded as exported without reaching
\* its file (commands.rs:1304-1314), or was let through on another key's flag.
THEOREM EncryptionWaitsForExport == Spec => []EncryptedKeysWereReleased
<1>1. Inv => EncryptedKeysWereReleased
      BY DEF Inv, KeyInv, Spoken, EncryptedKeysWereReleased
<1>. QED  BY <1>1, CatalogueInvariance, PTL
=============================================================================
