------------------------------ MODULE MCChecks ------------------------------
(* Three components that do not share state, side by side: a behaviour       *)
(* checks one restore, answers one question about a schedule, or plans and  *)
(* masks one copy.                                                          *)
EXTENDS Verification, Cron, Masking

CONSTANTS t1, t2, x, y

Nothing == [v \in {x, y} |-> 0]
MCTables == <<t1, t2>>
MCContents ==
    {[rows |-> Nothing, cols |-> {"a"}], [rows |-> [Nothing EXCEPT ![x] = 1], cols |-> {"a"}],
     [rows |-> [Nothing EXCEPT ![y] = 1], cols |-> {"a"}], [rows |-> [Nothing EXCEPT ![x] = 2], cols |-> {"a"}],
     [rows |-> [Nothing EXCEPT ![x] = 1], cols |-> {"a", "b"}]}
MCDumped == {c \in MCContents : c.rows[y] = 0 /\ c.cols = {"a"}}
MCRoles == {f \in [{t1, t2} -> {"data", "schema", "out"}] : f[t1] # "out"}
MCAsked ==
    {[kind |-> k, engine |-> e, deep |-> d, keep |-> kp, recorded |-> r, role |-> f, masked |-> ms] :
        k \in {"verify"}, e \in {"mysql", "postgres", "mongo"}, d \in BOOLEAN, kp \in {FALSE},
        r \in {FALSE}, f \in MCRoles, ms \in {{}, {t1}}}
    \union
    {[kind |-> k, engine |-> e, deep |-> d, keep |-> kp, recorded |-> r, role |-> f, masked |-> ms] :
        k \in {"drill"}, e \in {"mysql", "mongo"}, d \in BOOLEAN, kp \in BOOLEAN,
        r \in BOOLEAN, f \in MCRoles, ms \in {{}}}
\* A masked table carries data, and MongoDB has no collection without documents.
MCAskedSound ==
    {a \in MCAsked : /\ \A t \in a.masked : a.role[t] = "data"
                     /\ a.engine = "mongo" => \A t \in {t1, t2} : a.role[t] # "schema"}

\* Six days of eight minutes.  The clock never jumps, jumps ahead an hour on the
\* third day, skips midnight, or goes back an hour.
MCMonths == <<3, 2>>
MCInstants == 0..47
MCZones ==
    {[i \in MCInstants |-> i], [i \in MCInstants |-> IF i < 18 THEN i ELSE i + 2],
     [i \in MCInstants |-> IF i < 15 THEN i ELSE i + 2], [i \in MCInstants |-> IF i < 22 THEN i ELSE i - 2]}

Each(n) == <<[kind |-> "star", lo |-> 0, hi |-> 0, step |-> n]>>
From(v, n) == <<[kind |-> "value", lo |-> v, hi |-> v, step |-> n]>>
Span(a, b) == <<[kind |-> "range", lo |-> a, hi |-> b, step |-> 1]>>
Fields(mi, h, dom, mo, dow) == [minute |-> mi, hour |-> h, dom |-> dom, month |-> mo, dow |-> dow]

MCExpressions ==
    {Fields(Only(1), Only(1), Only(2), Star, Only(1)),      \* either day counts
     Fields(Only(0), Only(1), Each(2), Star, Only(2)),      \* a star with a step is a star; Sunday as 7
     Fields(Only(0) \o Only(1), From(1, 2), Star, Only(2), Star),
     Fields(Star, Span(0, 1), Only(3), Only(1), Star),
     Fields(Only(0), Only(0), Only(3), Only(2), Star),      \* a day the month does not have
     Fields(Only(0), Span(2, 1), Star, Star, Star),         \* backwards
     Fields(Each(0), Star, Star, Star, Star)}               \* no step

In(schema, name) == [schema |-> schema, name |-> name]
Rule(table, column, transform) == [table |-> table, column |-> column, transform |-> transform]
Spellings(e) == IF e = "postgres" THEN {In("public", "orders"), In(NoSchema, "orders"), In("archive", "orders")}
                ELSE {In(NoSchema, "orders")}
Gone == In(NoSchema, "gone")

\* orders and, created late, users; PostgreSQL has a second orders.
MCOrders ==
    UNION {{[engine |-> e, schemas |-> ss, saved |-> sv, conf |-> cf, rules |-> rs,
             there |-> IF e = "postgres" THEN {In("public", "orders"), In("archive", "orders")}
                       ELSE {In(NoSchema, "orders")},
             late |-> {In(IF e = "postgres" THEN "public" ELSE NoSchema, "users")}] :
            ss \in IF e = "postgres" THEN {{}, {"public"}} ELSE {{}},
            sv \in {<<>>} \union {<<With(n, md), With(Gone, "schema")>> : n \in Spellings(e), md \in {"data", "schema", "exclude"}},
            cf \in {{}, {In(NoSchema, "orders")}},
            rs \in {<<Rule(n, c, tr)>> : n \in Spellings(e), c \in {Column, "typo"}, tr \in {"hash", "null", "constant"}}
                   \union {<<Rule(In("public", "users"), Column, "hash"), Rule(In(NoSchema, "orders"), Column, "null")>>,
                           <<Rule(In(NoSchema, "users"), Column, "hash"), Rule(In(NoSchema, "users"), Column, "null")>>,
                           <<>>}} : e \in {"mysql", "postgres", "mongo"}}

\* PostgreSQL: Users, spelled with a capital, and its twin users, there or late.
Users == In("public", "Users")
Twin == In("public", "users")
MCUsers ==
    {[engine |-> "postgres", schemas |-> {}, saved |-> sv, conf |-> {}, rules |-> <<Rule(n, Column, "hash")>>,
      there |-> {Users, Twin} \ lt, late |-> lt] :
        sv \in {<<With(n, md)>> : n \in {Users, In(NoSchema, "Users"), Twin}, md \in {"data", "schema", "exclude"}},
        n \in {Users, In(NoSchema, "Users"), Twin}, lt \in {{}, {Twin}}}
MCCopies == MCOrders \union MCUsers
MCFolded == [n \in {"orders", "users", "Users", "gone"} |-> IF n = "Users" THEN "users" ELSE n]
MCHoldings == [mysql |-> {"null", "real", "shaped"}, postgres |-> {"null", "real", "shaped"},
               mongo |-> {"real", "nested", "gappy"}]

NoScan == [pc |-> "none"]
NoCheck == [pc |-> "none", ask |-> CHOOSE a \in Asked : TRUE]
NoCopy == [pc |-> "none", ask |-> [late |-> {}]]

NothingChecked ==
    /\ check = NoCheck
    /\ holds = [s \in Sides |-> [t \in Names |-> Absent]]
    /\ counts = Unknown /\ digests = Unknown /\ columns = Unknown
    /\ verdict = [t \in Names |-> None]
    /\ scratch = "none" /\ unanswered = {} /\ writes = 0 /\ damaged = FALSE
NothingScanned == scan = NoScan
NothingCopied == copy = NoCopy /\ there = {} /\ cells = <<>>

Init ==
    \/ VerifyInit /\ NothingScanned /\ NothingCopied
    \/ NothingChecked /\ CronInit /\ NothingCopied
    \/ NothingChecked /\ NothingScanned /\ MaskingInit

Next ==
    \/ RestoreScratch /\ UNCHANGED <<cVars, mVars>>
    \/ NothingToCount /\ UNCHANGED <<cVars, mVars>>
    \/ ReachFails /\ UNCHANGED <<cVars, mVars>>
    \/ BuildReport /\ UNCHANGED <<cVars, mVars>>
    \/ RefineReport /\ UNCHANGED <<cVars, mVars>>
    \/ CleanUp /\ UNCHANGED <<cVars, mVars>>
    \/ \E s \in Sides : CountTable(s) /\ UNCHANGED <<cVars, mVars>>
    \/ \E s \in Sides : DigestTable(s) /\ UNCHANGED <<cVars, mVars>>
    \/ \E t \in Names, c \in Contents \union {Absent} : Damage(t, c) /\ UNCHANGED <<cVars, mVars>>
    \/ \E t \in Names : SourceWrites(t) /\ UNCHANGED <<cVars, mVars>>
    \/ Parse /\ UNCHANGED <<vVars, mVars>>
    \/ ScanDay /\ UNCHANGED <<vVars, mVars>>
    \/ GiveUp /\ UNCHANGED <<vVars, mVars>>
    \/ \E t \in copy.ask.late : CreateTable(t) /\ UNCHANGED <<vVars, cVars>>
    \/ ResolveSelections /\ UNCHANGED <<vVars, cVars>>
    \/ \E readable \in BOOLEAN : PlanMasking(readable) /\ UNCHANGED <<vVars, cVars>>
    \/ ResolveAgain /\ UNCHANGED <<vVars, cVars>>
    \/ CopyTables /\ UNCHANGED <<vVars, cVars>>
    \/ UpdateStatements /\ UNCHANGED <<vVars, cVars>>
    \/ CheckStatements /\ UNCHANGED <<vVars, cVars>>

vars == <<vVars, cVars, mVars>>
Spec == Init /\ [][Next]_vars

=============================================================================
