----------------------------- MODULE MCToolJob -----------------------------
(* Small instances of ToolJob for TLC.                                     *)
EXTENDS ToolJob

CONSTANTS t1, t2

Select(m1, m2) == <<[name |-> t1, mode |-> m1, filtered |-> FALSE],
                    [name |-> t2, mode |-> m2, filtered |-> FALSE]>>

BackupOf(engine, format, sel) ==
    [kind |-> "backup", profile |-> engine, engine |-> engine, format |-> format,
     encrypt |-> FALSE, compress |-> TRUE, sel |-> sel, extra |-> FALSE, parallel |-> None]

\* A plan with an excluded table and one of structure only or with data, a
\* dump with its optional last pass, each format, and requests to be refused.
MCBackups ==
    {[BackupOf("mysql", "sql", Select("data", "data")) EXCEPT !.extra = TRUE],
     [BackupOf("mysql", "sql", Select("data", "exclude")) EXCEPT !.encrypt = TRUE],
     BackupOf("postgres", "custom", Select("schema", "data")),
     [BackupOf("postgres", "plain", Select("data", "exclude")) EXCEPT !.extra = TRUE],
     [BackupOf("postgres", "directory", Select("data", "data")) EXCEPT !.parallel = 1],
     [BackupOf("mongo", "archive", Select("exclude", "data")) EXCEPT !.encrypt = TRUE],
     [BackupOf("mongo", "archive", Select("data", "data")) EXCEPT !.compress = FALSE],
     [BackupOf("postgres", "custom", Select("data", "data")) EXCEPT !.encrypt = TRUE],
     [BackupOf("mysql", "sql", Select("data", "data")) EXCEPT !.profile = "postgres"],
     [BackupOf("postgres", "plain", Select("data", "data")) EXCEPT !.parallel = 0],
     BackupOf("mongo", "archive", Select("schema", "data")),
     BackupOf("mysql", "sql", Select("exclude", "exclude"))}

RestoreOf(engine, naming) ==
    [kind |-> "restore", profile |-> engine, engine |-> engine, naming |-> naming,
     typed |-> TRUE, production |-> FALSE, checksum |-> TRUE, key |-> TRUE,
     only |-> {}, stop |-> TRUE]

MCRestores ==
    {RestoreOf(e, n) : e \in {"mysql", "postgres", "mongo"}, n \in {"new", "drop"}}
    \cup {[RestoreOf("mysql", "drop") EXCEPT !.typed = FALSE],
          [RestoreOf("mysql", "into") EXCEPT !.production = TRUE, !.checksum = FALSE],
          [RestoreOf("mysql", "into") EXCEPT !.key = FALSE],
          [RestoreOf("postgres", "into") EXCEPT !.only = {t1}, !.checksum = FALSE],
          [RestoreOf("mongo", "into") EXCEPT !.only = {t2}, !.stop = FALSE]}

=============================================================================
