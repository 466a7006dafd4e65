---------------------------- MODULE Verification ----------------------------
(***************************************************************************)
(* Checking a restore (ops.rs verify_restore and drill, verify.rs, and the *)
(* digests of db.rs).                                                      *)
(*                                                                         *)
(* A verification counts the tables of the plan on the source and then on  *)
(* the destination, compares, and when asked compares digests and columns  *)
(* as well.  A drill restores the newest backup into a scratch database,   *)
(* compares it with what its manifest recorded, and drops it.  One step is *)
(* one query of one table.  Any query or connection may fail, the restore  *)
(* may have damaged a table, and the source is written to meanwhile.       *)
(*                                                                         *)
(* A table is a bag of rows and a set of columns; which values the rows    *)
(* have is abstract.                                                       *)
(***************************************************************************)
EXTENDS Naturals, Sequences, FiniteSets, Functions

CONSTANTS
    Tables,      \* a sequence of table names, in the order they are queried
    Values,      \* what a row may hold
    MaskedValue, \* what masking leaves of it
    Contents,    \* what a table may hold: records [rows, cols]
    Dumped,      \* those of them a table held when it was dumped
    Absent,      \* no such table
    Asked,       \* the checks that are asked for
    None,
    MaxFaults,   \* how many queries may fail
    MaxWrites    \* how many times a table may change under the check

Names == {Tables[i] : i \in DOMAIN Tables}
Sides == {"source", "dest"}

ASSUME VerificationAssumption ==
    /\ \A c \in Contents : c.rows \in [Values -> Nat]
    /\ Dumped \subseteq Contents
    /\ MaxFaults \in Nat /\ MaxWrites \in Nat

VARIABLES
    check,    \* the check that runs and how far it is, with pc "none" where nothing is checked
    holds,    \* holds[side][t]: what the table really holds
    counts,   \* counts[side][t]: what a count said, or None
    digests,  \* digests[side][t], or None
    columns,  \* columns[side][t], or None
    verdict,  \* verdict[t] of the report, or None
    scratch,  \* the scratch database of a drill: "none", "there" or "dropped"
    unanswered, \* history: queries that failed
    writes,   \* history: how often the source was written to during the check
    damaged   \* history: the restore did not load what the backup held

vVars == <<check, holds, counts, digests, columns, verdict, scratch, unanswered, writes, damaged>>

-----------------------------------------------------------------------------
(* Tables. *)

RowCount(c) == FoldFunction(+, 0, c.rows)
Rows(c) == IF c = Absent THEN 0 ELSE RowCount(c)
Hollow(c) == [c EXCEPT !.rows = [v \in Values |-> 0]]

\* exact_row_count: an error where there is no such table, except in MongoDB,
\* where a collection that is not there is one without documents.
Counted(engine, c) == IF c = Absent /\ engine # "mongo" THEN None ELSE Rows(c)

\* table_digest: MySQL and MongoDB fold the hashes of the rows with XOR, so a
\* row that occurs twice vanishes; PostgreSQL adds them.
Digest(engine, c) ==
    CASE c = Absent -> IF engine = "mongo" THEN [v \in Values |-> 0] ELSE None
      [] engine = "postgres" -> c.rows
      [] OTHER -> [v \in Values |-> c.rows[v] % 2]

\* column_names: MongoDB knows the fields its documents have.
ColumnNames(engine, c) ==
    IF c = Absent \/ (engine = "mongo" /\ Rows(c) = 0) THEN {} ELSE c.cols

Role(t) == check.ask.role[t]
WithData == SelectSeq(Tables, LAMBDA t : Role(t) = "data")
SchemaOnly == SelectSeq(Tables, LAMBDA t : Role(t) = "schema")
Planned == WithData \o SchemaOnly
IsDrill == check.ask.kind = "drill"

\* What a faithful restore of the plan holds.
Restored(c, role) ==
    CASE role = "data" -> c
      [] role = "schema" -> Hollow(c)
      [] role = "out" -> Absent

\* Masking changes values and never the number of rows.
MaskedContent(c) ==
    [c EXCEPT !.rows = [v \in Values |-> IF v = MaskedValue THEN RowCount(c) ELSE 0]]

-----------------------------------------------------------------------------
(* The report. *)

Failures == {"rows", "missing", "content", "schema"}
Verdicts == Failures \union {"match", "unexpected", "skipped"}
Passed == \A t \in Names : verdict[t] \notin Failures

\* build_report
VerifyVerdict(t) ==
    LET src == counts["source"][t]
        dst == counts["dest"][t]
    IN  CASE Role(t) = "data" /\ src # None ->
                IF dst = None THEN "missing" ELSE IF dst = src THEN "match" ELSE "rows"
          [] Role(t) = "schema" ->
                IF dst = None THEN "missing" ELSE IF dst = 0 THEN "match" ELSE "rows"
          [] OTHER -> IF dst = None THEN None ELSE "unexpected"

\* Mutant: only the columns are compared.
RefinedIgnoringDigests(t) ==
    IF /\ verdict[t] = "match"
       /\ columns["source"][t] # None /\ columns["dest"][t] # None
       /\ columns["source"][t] # columns["dest"][t]
    THEN "schema"
    ELSE verdict[t]

\* refine_with_contents: only what still matches is looked at.
Refined(t) ==
    CASE verdict[t] # "match" -> verdict[t]
      [] /\ verdict[t] = "match"
         /\ columns["source"][t] # None /\ columns["dest"][t] # None
         /\ columns["source"][t] # columns["dest"][t] -> "schema"
      [] OTHER ->
            IF /\ digests["source"][t] # None /\ digests["dest"][t] # None
               /\ digests["source"][t] # digests["dest"][t]
            THEN "content" ELSE "match"

\* check_against_manifest: the manifest has the source's counts, or not.

ManifestVerdict(t) ==
    LET dst == counts["dest"][t]
        recorded == IF check.ask.recorded THEN check.manifest[t] ELSE None
    IN  CASE dst = None -> IF Role(t) = "out" THEN None ELSE "missing"
          [] dst # None /\ Role(t) = "schema" -> "match"
          [] OTHER -> IF recorded # None
                      THEN IF dst = recorded THEN "match" ELSE "rows"
                      ELSE IF dst = 0 THEN "skipped" ELSE "match"

\* The deep drill reads every row and takes back a match it could not read.
ManifestRefined(t) ==
    IF /\ verdict[t] = "match" /\ digests["dest"][t] = None
       /\ columns["dest"][t] \notin {None, {}}
    THEN "skipped" ELSE verdict[t]

-----------------------------------------------------------------------------
(* Steps. *)

Unknown == [s \in Sides |-> [t \in Names |-> None]]

VerifyInit ==
    /\ \E ask \in Asked, c \in [Names -> Dumped] :
        /\ check = [ask |-> ask, pc |-> IF ask.kind = "drill" THEN "restore" ELSE "count_source",
                    todo |-> IF ask.kind = "drill" THEN <<>>
                             ELSE SelectSeq(Tables, LAMBDA t : ask.role[t] = "data"),
                    manifest |-> [t \in Names |-> RowCount(c[t])]]
        /\ holds = [source |-> c,
                    dest |-> [t \in Names |->
                        IF t \in ask.masked THEN MaskedContent(c[t]) ELSE Restored(c[t], ask.role[t])]]
    /\ counts = Unknown /\ digests = Unknown /\ columns = Unknown
    /\ verdict = [t \in Names |-> None]
    /\ scratch = "none"
    /\ unanswered = {} /\ writes = 0 /\ damaged = FALSE

At(pc) == check.pc = pc
Goto(pc, todo) == check' = [check EXCEPT !.pc = pc, !.todo = todo]
Table == Head(check.todo)
Rest == Tail(check.todo)
Faulty == Cardinality(unanswered) < MaxFaults

\* The restore did not load a table as the dump had it.
Damage(t, c) ==
    /\ At(IF IsDrill THEN "restore" ELSE "count_source")
    /\ ~damaged /\ unanswered = {} /\ writes = 0
    /\ Role(t) # "out" /\ holds["dest"][t] # c
    /\ holds' = [holds EXCEPT !["dest"][t] = c]
    /\ damaged' = TRUE
    /\ UNCHANGED <<check, counts, digests, columns, verdict, scratch, unanswered, writes>>

\* Somebody empties a table of the source while it is being compared, or has
\* done so by the time of the drill.
SourceWrites(t) ==
    /\ check.pc \notin {"none", "done", "error"}
    /\ writes < MaxWrites
    /\ RowCount(holds["source"][t]) > 0
    /\ holds' = [holds EXCEPT !["source"][t] = Hollow(@)]
    /\ writes' = writes + 1
    /\ UNCHANGED <<check, counts, digests, columns, verdict, scratch, unanswered, damaged>>

\* drill: the restore into a database of its own name.
RestoreScratch ==
    /\ At("restore")
    /\ \/ /\ scratch' = "there"
          /\ Goto("count_dest", Planned)
          /\ UNCHANGED unanswered
       \/ /\ Faulty
          /\ scratch' \in {"none", "there"}
          /\ Goto("error", <<>>)
          /\ unanswered' = unanswered \union {<<"restore", None, None>>}
    /\ UNCHANGED <<holds, counts, digests, columns, verdict, writes, damaged>>

Following(pc) == IF pc = "count_source" THEN "count_dest" ELSE "report"
Continue(pc, next, todo) == IF Rest = <<>> THEN Goto(next, todo) ELSE Goto(pc, Rest)

\* count_tables: a table that cannot be counted is left out, like one that is
\* not there.
CountTable(s) ==
    LET pc == IF s = "source" THEN "count_source" ELSE "count_dest"
        c == holds[s][Table]
    IN  /\ At(pc) /\ check.todo # <<>>
        /\ Continue(pc, Following(pc), IF s = "source" THEN Planned ELSE <<>>)
        /\ \/ /\ counts' = [counts EXCEPT ![s][Table] = Counted(check.ask.engine, c)]
              /\ UNCHANGED unanswered
           \/ /\ Faulty
              /\ unanswered' = unanswered \union {<<"count", s, Table>>}
              /\ UNCHANGED counts
        /\ UNCHANGED <<holds, digests, columns, verdict, scratch, writes, damaged>>

\* A plan without a table that carries data counts nothing on the source.
NothingToCount ==
    /\ check.pc \in {"count_source", "count_dest"} /\ check.todo = <<>>
    /\ Goto(Following(check.pc), IF At("count_source") THEN Planned ELSE <<>>)
    /\ UNCHANGED <<holds, counts, digests, columns, verdict, scratch, unanswered, writes, damaged>>

\* The server cannot be reached, or not be connected to, before the first of
\* its queries: the check is an error, not a failure; the comparison of
\* contents alone is given up with a warning.
ReachFails ==
    /\ check.pc \in {"count_source", "count_dest", "digest_source", "digest_dest"}
    /\ check.todo = IF At("count_source") THEN WithData ELSE Planned
    /\ Faulty
    /\ unanswered' = unanswered \union {<<"reach", check.pc, None>>}
    /\ IF check.pc \in {"digest_source", "digest_dest"} /\ ~IsDrill
       THEN Goto("done", <<>>) ELSE Goto("error", <<>>)
    /\ UNCHANGED <<holds, counts, digests, columns, verdict, scratch, writes, damaged>>

\* What follows a report that will not change any more.
Concluded == IF IsDrill THEN "cleanup" ELSE "done"

BuildReport ==
    /\ At("report")
    /\ verdict' = [t \in Names |-> IF IsDrill THEN ManifestVerdict(t) ELSE VerifyVerdict(t)]
    /\ IF check.ask.deep /\ Planned # <<>>
       THEN Goto(IF IsDrill THEN "digest_dest" ELSE "digest_source", Planned)
       ELSE Goto(Concluded, <<>>)
    /\ UNCHANGED <<holds, counts, digests, columns, scratch, unanswered, writes, damaged>>

\* A masked table is not digested; a drill exempts nothing.
IsMasked(t) == ~IsDrill /\ t \in check.ask.masked

\* digest_tables: the digest and the columns are two queries, and either may
\* fail without the other.
DigestTable(s) ==
    LET pc == IF s = "source" THEN "digest_source" ELSE "digest_dest"
        c == holds[s][Table]
        e == check.ask.engine
        queries == IF IsMasked(Table) THEN {"columns"} ELSE {"digest", "columns"}
    IN  /\ At(pc) /\ check.todo # <<>>
        /\ Continue(pc, IF s = "source" THEN "digest_dest" ELSE "refine",
                        IF s = "source" THEN Planned ELSE <<>>)
        /\ \E failed \in SUBSET queries :
            /\ Cardinality(unanswered) + Cardinality(failed) <= MaxFaults
            /\ unanswered' = unanswered \union {<<q, s, Table>> : q \in failed}
            /\ digests' = IF "digest" \in queries \ failed
                          THEN [digests EXCEPT ![s][Table] = Digest(e, c)] ELSE digests
            /\ columns' = IF "columns" \in queries \ failed
                          THEN [columns EXCEPT ![s][Table] = ColumnNames(e, c)] ELSE columns
        /\ UNCHANGED <<holds, counts, verdict, scratch, writes, damaged>>

RefineReport ==
    /\ At("refine")
    /\ verdict' = [t \in Names |-> IF IsDrill THEN ManifestRefined(t) ELSE Refined(t)]
    /\ Goto(Concluded, <<>>)
    /\ UNCHANGED <<holds, counts, digests, columns, scratch, unanswered, writes, damaged>>

\* A drill that failed may be asked to leave its evidence.
Keep == ~Passed /\ check.ask.keep

\* drop_scratch_database
CleanUp ==
    /\ At("cleanup")
    /\ \/ /\ scratch' = IF Keep THEN scratch ELSE "dropped"
          /\ Goto("done", <<>>)
          /\ UNCHANGED unanswered
       \/ /\ Faulty /\ ~Keep
          /\ Goto("error", <<>>)
          /\ unanswered' = unanswered \union {<<"drop", None, None>>}
          /\ UNCHANGED scratch
    /\ UNCHANGED <<holds, counts, digests, columns, verdict, writes, damaged>>

VerifyNext ==
    \/ RestoreScratch \/ NothingToCount \/ ReachFails \/ BuildReport \/ RefineReport \/ CleanUp
    \/ \E s \in Sides : CountTable(s) \/ DigestTable(s)
    \/ \E t \in Names, c \in Contents \union {Absent} : Damage(t, c)
    \/ \E t \in Names : SourceWrites(t)

-----------------------------------------------------------------------------
(* Properties. *)

\* Every variable has its type (TableVerdict, VerificationReport), and only a
\* drill has a scratch database.
VerificationTypeOK ==
    /\ check.pc \in {"none", "restore", "count_source", "count_dest", "report", "digest_source",
                     "digest_dest", "refine", "cleanup", "done", "error"}
    /\ \A t \in Names : verdict[t] \in Verdicts \union {None}
    /\ \A s \in Sides, t \in Names :
        /\ holds[s][t] = Absent \/ holds[s][t].rows \in [Values -> Nat]
        /\ counts[s][t] = None \/ counts[s][t] \in Nat
    /\ scratch \in IF IsDrill THEN {"none", "there", "dropped"} ELSE {"none"}

CountFailed(t) == \E u \in unanswered : u[1] = "count" /\ u[3] = t
ContentsFailed(t) ==
    \E u \in unanswered : u[1] = "reach" \/ (u[1] \in {"digest", "columns"} /\ u[3] = t)

\* Two tables a digest cannot tell apart: rows that occur twice cancel out.
Cancels(c) == c # Absent /\ check.ask.engine # "postgres" /\ \E v \in Values : c.rows[v] > 1

\* MongoDB cannot tell a collection that is missing from an empty one, nor one
\* set of fields from another when there are no documents.
IsThere(c) == c # Absent \/ check.ask.engine = "mongo"
Looks(c) == <<c.rows, ColumnNames(check.ask.engine, c)>>

\* A verification of a still source that passes is evidence: every planned
\* table that could be counted is at the destination with the source's
\* rows, empty if only its structure was copied, and after a deep comparison
\* equal, unless it was masked or its digest cannot tell (verify_restore,
\* build_report, refine_with_contents).
PassedIsEvidence ==
    (~IsDrill /\ At("done") /\ Passed /\ writes = 0) =>
        \A t \in Names :
            (Role(t) # "out" /\ ~CountFailed(t)) =>
                LET src == holds["source"][t]
                    dst == holds["dest"][t]
                IN  /\ IsThere(dst)
                    /\ Rows(dst) = RowCount(Restored(src, Role(t)))
                    /\ (check.ask.deep /\ ~ContentsFailed(t) /\ t \notin check.ask.masked
                           /\ dst # Absent /\ ~Cancels(src) /\ ~Cancels(dst))
                       => Looks(dst) = Looks(Restored(src, Role(t)))

\* A drill that passes has found every table of the manifest, with the number
\* of rows the manifest records (check_against_manifest).
DrillPassIsEvidence ==
    (IsDrill /\ At("done") /\ Passed) =>
        \A t \in Names :
            Role(t) # "out" =>
                /\ IsThere(holds["dest"][t])
                /\ (Role(t) = "data" /\ check.ask.recorded)
                       => Rows(holds["dest"][t]) = check.manifest[t]

\* Nobody cries wolf: a faithful restore is never reported as a failure,
\* whatever could not be digested and whatever was masked or empty, unless a
\* count was not answered or the source changed under a verification (a drill
\* does not look at the source).  A deep verification that
\* includes a structure-only table with rows at the source is the exception:
\* it compares that table's contents too (ops.rs:440-442 and verify.rs:106-107
\* promise otherwise).
FaithfulPasses ==
    (/\ At("done") /\ ~damaged /\ (IsDrill \/ writes = 0)
     /\ \A u \in unanswered : u[1] # "count"
     /\ ~(~IsDrill /\ check.ask.deep
            /\ \E t \in Names : Role(t) = "schema" /\ RowCount(holds["source"][t]) > 0))
        => Passed

\* A scratch database is left behind only by a drill that failed and was asked
\* to keep it, or that ended in an error; a drill that passes leaves nothing
\* (drill, drop_scratch_database).
ScratchIsAccountedFor ==
    (check.pc \in {"done", "error"} /\ scratch = "there") =>
        check.pc = "error" \/ (~Passed /\ check.ask.keep)

\* A verdict is right both ways: a pass is evidence, a faithful restore passes,
\* and a drill leaves no database behind that its verdict does not explain
\* (verify_restore, drill).
VerdictsAreHonest ==
    /\ VerificationTypeOK
    /\ PassedIsEvidence
    /\ DrillPassIsEvidence
    /\ FaithfulPasses
    /\ ScratchIsAccountedFor

=============================================================================
