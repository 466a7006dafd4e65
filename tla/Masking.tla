------------------------------ MODULE Masking ------------------------------
(***************************************************************************)
(* What a masked copy carries and what it masks (plan.rs, mask/mod.rs,     *)
(* mask/mongo.rs, and resolve_selections, plan_masking_for and run_masking *)
(* of ops.rs).                                                             *)
(*                                                                         *)
(* A saved selection names exceptions and is completed against the tables  *)
(* the source has, once by the sync and once more by its backup; the rules *)
(* are judged in between; the restored columns are rewritten and read back.*)
(* The source's owner may create a table at any moment before the dump,    *)
(* mysqldump may fail on a table, and a server may accept an UPDATE that   *)
(* does not take.                                                          *)
(*                                                                         *)
(* A table is [schema, name]; NoSchema is the schema of a bare name.  Of a *)
(* column only the kind of value it holds matters: "null", "real", a       *)
(* "shaped" real value that happens to look masked, and for documents      *)
(* structure ("nested") and a list with a null in it ("gappy").            *)
(***************************************************************************)
EXTENDS Naturals, Sequences, FiniteSets, SequencesExt

CONSTANTS
    Copies,      \* the copies asked for: engine, schemas, saved, conf, rules, there, late
    Holdings,    \* what the column of a table may hold, per engine
    Column,      \* the column every table has
    NoSchema,
    Nowhere,     \* the table did not reach the destination with data
    Folded,      \* the name an unquoted pg_dump pattern matches: capitals are lost
    MaxSkipped,  \* how many tables mysqldump may fail on
    MaxResisting \* how many columns an UPDATE may leave as they are

VARIABLES
    copy,    \* the copy under way
    there,   \* the tables on the source
    cells    \* what the column holds at the destination, per table

mVars == <<copy, there, cells>>

ASSUME MaskingAssumption ==
    /\ MaxSkipped \in Nat /\ MaxResisting \in Nat
    /\ \A a \in Copies : a.there \intersect a.late = {}

-----------------------------------------------------------------------------
(* Selections. *)

\* Mutant: names are compared as they are spelled.
SpelledTheSame(saved, t) == saved = t

\* names_same_table: a bare name means the public schema, and no other.
NamesSameTable(saved, t) ==
    saved = t \/ (t.schema = "public" /\ saved = [schema |-> NoSchema, name |-> t.name])

With(name, mode) == [name |-> name, mode |-> mode]
Listed(saved, t) == {i \in DOMAIN saved : NamesSameTable(saved[i].name, t)}

\* expand_selections: the first entry that names the table, under the name the
\* entry has; a table nobody mentions carries data.
ExpandSelections(saved, tables) ==
    [t \in tables |-> IF Listed(saved, t) = {} THEN With(t, "data")
                      ELSE saved[CHOOSE i \in Listed(saved, t) : \A k \in Listed(saved, t) : i <= k]]

\* selections_from_tables_conf: the file names what carries data, and what it
\* does not name is structure.
SelectionsFromTablesConf(conf, tables) ==
    SetToSeq({With(t, IF \E n \in conf : NamesSameTable(n, t) THEN "data" ELSE "schema") : t \in tables})

Named(saved) == {saved[i].name : i \in DOMAIN saved}

\* resolve_selections tells of the entries the source no longer has and of the
\* tables nobody mentioned, comparing spellings.
MissingFrom(saved, tables) ==
    {saved[i].name : i \in {k \in DOMAIN saved : saved[k].mode # "exclude" /\ saved[k].name \notin tables}}

Entries(expanded) == SetToSeq({expanded[t] : t \in DOMAIN expanded})
Added(saved, expanded) == {expanded[t].name : t \in DOMAIN expanded} \ Named(saved)

TablesWithData(expanded) == {expanded[t].name : t \in {u \in DOMAIN expanded : expanded[u].mode = "data"}}

-----------------------------------------------------------------------------
(* Transforms. *)

\* preserves_null
PreservesNull(transform) == transform \in {"hash", "email", "phone"}

\* replacement, is_maskable: MongoDB finds the documents to rewrite by a value
\* that is not null, which a list with a null in it is not, and leaves structure.
LeftAlone(engine, v) == v = "null" \/ (engine = "mongo" /\ v \in {"nested", "gappy"})

\* set_expr
SetExpr(engine, transform, v) ==
    CASE transform = "null" -> "null"
      [] transform = "constant" -> "constant"
      [] PreservesNull(transform) -> IF LeftAlone(engine, v) THEN v ELSE "pseudonym"

\* violation_expr and violation_filter: what the read-back counts.
ViolationExpr(engine, transform, v) ==
    LET unseen == IF engine = "mongo" THEN {"null", "gappy"} ELSE {"null"}
    IN  CASE transform = "null" -> v \notin unseen
          [] transform = "constant" -> v # "constant"
          [] OTHER -> v \notin unseen \union {"pseudonym", "shaped"}

\* quote_table: a bare name is in the public schema of PostgreSQL.
QuoteTable(engine, n) ==
    IF engine = "postgres" /\ n.schema = NoSchema THEN [n EXCEPT !.schema = "public"] ELSE n

-----------------------------------------------------------------------------
(* Steps. *)

MaskingInit ==
    \E ask \in Copies :
      \E v \in [ask.there \union ask.late -> Holdings[ask.engine]] :
        /\ copy = [ask |-> ask, holds |-> v, pc |-> "resolve", missing |-> {}, added |-> {},
                   saved |-> IF ask.conf = {} THEN ask.saved
                             ELSE SelectionsFromTablesConf(ask.conf, ask.there),
                   selections |-> <<>>, effective |-> {}, late |-> {}, skipped |-> {}]
        /\ there = ask.there
        /\ cells = [t \in ask.there \union ask.late |-> Nowhere]

Engine == copy.ask.engine

\* Somebody creates a table on the source.
CreateTable(t) ==
    /\ copy.pc \in {"resolve", "plan", "backup", "dump"}
    /\ t \in copy.ask.late \ there
    /\ there' = there \union {t}
    /\ copy' = [copy EXCEPT !.late = @ \union (IF copy.pc = "resolve" THEN {} ELSE {<<t, copy.pc>>})]
    /\ UNCHANGED cells

\* sync: resolve_selections before plan_masking.
ResolveSelections ==
    /\ copy.pc = "resolve"
    /\ LET expanded == ExpandSelections(copy.saved, there)
       IN  copy' = [copy EXCEPT !.pc = "plan", !.selections = expanded,
                        !.missing = MissingFrom(copy.saved, there),
                        !.added = Added(copy.saved, expanded)]
    /\ UNCHANGED <<there, cells>>

\* Mutant: the rules are judged by the saved selection.
InertBySaved(r) == r.table \notin {copy.saved[i].name : i \in {k \in DOMAIN copy.saved : copy.saved[k].mode = "data"}}

\* plan_coverage: a rule whose table carries no data is inert; one that names a
\* column that is not there, or was given twice, refuses the copy.
Inert(r) == r.table \notin TablesWithData(copy.selections)
Duplicate(rules) == \E i, k \in DOMAIN rules :
                        i < k /\ rules[i].table = rules[k].table /\ rules[i].column = rules[k].column

\* source_columns may fail to read a table's columns, which is a refusal too.
PlanMasking(readable) ==
    LET rules == ToSet(copy.ask.rules)
        effective == {r \in rules : ~Inert(r)}
        known == readable /\ \A r \in effective : r.column = Column
    IN  /\ copy.pc = "plan"
        /\ copy' = IF Duplicate(copy.ask.rules) \/ ~known
                   THEN [copy EXCEPT !.pc = "refused"]
                   ELSE [copy EXCEPT !.pc = "backup", !.effective = effective]
        /\ UNCHANGED <<there, cells>>

\* backup completes the list again, and tells again of what it finds; MongoDB has
\* no collection without documents.
ResolveAgain ==
    /\ copy.pc = "backup"
    /\ LET entries == Entries(copy.selections)
           expanded == ExpandSelections(entries, there)
       IN  copy' = [copy EXCEPT !.selections = expanded,
                        !.missing = @ \union MissingFrom(entries, there),
                        !.added = @ \union Added(entries, expanded),
                        !.pc = IF Engine = "mongo" /\ \E t \in there : expanded[t].mode = "schema"
                               THEN "refused" ELSE "dump"]
    /\ UNCHANGED <<there, cells>>

\* dump_command of PostgreSQL: a name is passed unquoted, as a pattern, which is
\* folded to lower case and, bare, sees the public schema.
Pattern(n) == LET q == QuoteTable("postgres", n) IN [q EXCEPT !.name = Folded[q.name]]

InSchemas(t) == copy.ask.schemas = {} \/ t.schema \in copy.ask.schemas
LeftOut(n) == \E u \in DOMAIN copy.selections : copy.selections[u].mode # "data" /\ Pattern(copy.selections[u].name) = n

\* mysqldump is told which tables carry data; pg_dump and mongodump which do not.
CarriesData(t) ==
    CASE Engine = "postgres" -> InSchemas(t) /\ ~LeftOut(t)
      [] OTHER -> IF t \in DOMAIN copy.selections THEN copy.selections[t].mode = "data" ELSE Engine # "mysql"

\* The dump and its restore into a database of the sync's own.  A table mysqldump
\* fails on is skipped with a warning, and the rows it had written stay in the dump.
CopyTables ==
    /\ copy.pc = "dump"
    /\ LET carried == {t \in there : CarriesData(t)}
       IN  \E skipped \in SUBSET (IF Engine = "mysql" THEN carried ELSE {}) : \E partly \in SUBSET skipped :
              /\ Cardinality(skipped) <= MaxSkipped
              /\ cells' = [t \in DOMAIN cells |->
                      IF t \in (carried \ skipped) \union partly THEN copy.holds[t] ELSE Nowhere]
              /\ copy' = [copy EXCEPT !.pc = IF copy.effective = {} THEN "done" ELSE "update", !.skipped = skipped]
    /\ UNCHANGED there

\* update_statements, mongo::plan and apply: every effective rule, by table.  An
\* UPDATE may be accepted and not take, or be an error.
RuleOn(t) == {r \in copy.effective : QuoteTable(Engine, r.table) = t}

\* A table outside --schema is not at the destination, and to update it is an error.
NotRestored(t) == Engine = "postgres" /\ ~InSchemas(t)

UpdateStatements ==
    /\ copy.pc = "update"
    /\ \/ /\ copy' = [copy EXCEPT !.pc = "gone"]
          /\ UNCHANGED cells
       \/ \E resisting \in SUBSET DOMAIN cells :
            /\ Cardinality(resisting) <= MaxResisting
            /\ \A t \in DOMAIN cells : RuleOn(t) # {} => ~NotRestored(t)
            /\ cells' = [t \in DOMAIN cells |->
                    IF cells[t] = Nowhere \/ t \in resisting \/ RuleOn(t) = {} THEN cells[t]
                    ELSE SetExpr(Engine, (CHOOSE r \in RuleOn(t) : TRUE).transform, cells[t])]
            /\ copy' = [copy EXCEPT !.pc = "check"]
    /\ UNCHANGED there

\* check_statements, mongo::verify: one violation and the destination goes.
CheckStatements ==
    /\ copy.pc = "check"
    /\ LET violated == \E t \in DOMAIN cells : \E r \in RuleOn(t) :
                          cells[t] # Nowhere /\ ViolationExpr(Engine, r.transform, cells[t])
       IN  copy' = [copy EXCEPT !.pc = IF violated THEN "gone" ELSE "done"]
    /\ UNCHANGED <<there, cells>>

MaskingNext ==
    \/ ResolveSelections \/ ResolveAgain \/ CopyTables \/ UpdateStatements \/ CheckStatements
    \/ \E readable \in BOOLEAN : PlanMasking(readable)
    \/ \E t \in copy.ask.late : CreateTable(t)

-----------------------------------------------------------------------------
(* Properties. *)

\* The variables have their types; a copy that came to an end was refused before
\* anything moved, is gone, or is done (SyncOutcome, MaskingCoverage).
MaskingTypeOK ==
    /\ copy.pc \in {"none", "resolve", "plan", "refused", "backup", "dump", "update", "check", "gone", "done"}
    /\ \A t \in DOMAIN cells :
        cells[t] \in {"null", "real", "shaped", "nested", "gappy", "pseudonym", "constant", Nowhere}
    /\ copy.pc \in {"update", "check", "done"} =>
        \A r \in copy.effective : r.column = Column /\ ~Duplicate(copy.ask.rules)

\* The reference: the table an entry or a rule is about.
Meant(n, t) == n = t \/ (n.schema = NoSchema /\ t.schema = "public" /\ n.name = t.name)
About(t) == {i \in DOMAIN copy.saved : Meant(copy.saved[i].name, t)}

Readable == {"real", "shaped", "nested", "gappy"}
CreatedAfterPlanning(t) == \E l \in copy.late : l[1] = t

\* The rule and the selection spell the table differently.
SpelledApart(r, t) ==
    LET entries == About(t)
    IN  IF entries = {} THEN r.table # t ELSE \A i \in entries : copy.saved[i].name # r.table

\* PostgreSQL: an entry that keeps rows back and is spelled with capitals is
\* folded by pg_dump, and hits the table of the folded name or none.
CapitalsLost(t) ==
    /\ Engine = "postgres"
    /\ \E i \in DOMAIN copy.saved :
        LET n == copy.saved[i].name.name
        IN  copy.saved[i].mode # "data" /\ Folded[n] # n /\ t.name \in {n, Folded[n]}

ReadableUnder(r) == {t \in DOMAIN cells : Meant(r.table, t) /\ cells[t] \in Readable}
Masked == {copy.ask.rules[i] : i \in DOMAIN copy.ask.rules}

\* A copy that is done has nothing readable in a column a rule names: it was
\* rewritten, or had nothing to rewrite.  What the code lets through is named
\* here: a rule that spells its table differently from the selection, a table
\* created after the rules were judged, and a PostgreSQL table with capitals
\* that was to leave its rows behind, are taken for tables without data; a value
\* that resisted the UPDATE and looks masked passes the read-back; so does a
\* MongoDB list with a null in it (mask_destination promises "masked or gone").
NothingReadable ==
    copy.pc = "done" =>
        \A r \in Masked : \A t \in ReadableUnder(r) :
            \/ SpelledApart(r, t) \/ CreatedAfterPlanning(t) \/ CapitalsLost(t)
            \/ cells[t] = "shaped"
            \/ Engine = "mongo" /\ cells[t] = "gappy"

\* The backup completes the list the sync had completed, without the entries of
\* the tables that were not there then.
Forgotten(t) == About(t) # {} /\ CreatedAfterPlanning(t)

\* A saved set means the same backup on every engine: what it says stays behind
\* stays behind, under either spelling, and every other table of the schemas
\* asked for that was there when the backup completed the set is carried with
\* its data (expand_selections).  Except a table mysqldump failed on, which the
\* run warned of, PostgreSQL names whose capitals pg_dump loses, and a table that
\* was away when the sync completed the set and is back for the backup, whose
\* entry the sync had dropped.
SetMeansWhatItSays ==
    copy.pc \in {"update", "check", "done"} =>
        \A t \in there :
            \/ <<t, "dump">> \in copy.late
            \/ t \in copy.skipped
            \/ CapitalsLost(t)
            \/ Forgotten(t)
            \/ LET entries == About(t)
                   said == entries = {} \/ copy.saved[CHOOSE i \in entries : \A k \in entries : i <= k].mode = "data"
               IN  (cells[t] # Nowhere) <=> (said /\ (Engine = "postgres" => InSchemas(t)))

\* Drift is said out loud, by the sync or by its backup, which completes the set
\* once more: an entry no table answers to is reported missing, and a table that
\* was there at the last completion and that nobody mentioned, or whose
\* entry was dropped, is reported added (resolve_selections).  The converse does not hold: a bare name that does govern
\* a table of the public schema is reported as missing as well.
DriftIsSaid ==
    copy.pc \notin {"none", "resolve"} =>
        /\ \A i \in DOMAIN copy.saved :
            (copy.saved[i].mode # "exclude" /\ \A t \in there : ~Meant(copy.saved[i].name, t))
                => copy.saved[i].name \in copy.missing
        /\ \A t \in there :
            (About(t) = {} \/ Forgotten(t)) =>
                \/ t \in copy.added
                \/ copy.pc \in {"plan", "refused", "backup"} /\ CreatedAfterPlanning(t)
                \/ <<t, "dump">> \in copy.late

\* A saved selection means what it says, and where the source has moved on since
\* it was saved the run says so (expand_selections, resolve_selections).
SelectionsAreHonest ==
    /\ MaskingTypeOK
    /\ SetMeansWhatItSays
    /\ DriftIsSaid

=============================================================================
