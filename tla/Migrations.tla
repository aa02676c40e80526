------------------------------ MODULE Migrations ------------------------------
(***************************************************************************)
(* run_migrations(), run by several deployments at once, each of which may *)
(* crash between two files and be started again.  A file and its row in    *)
(* schema_migrations are one transaction; the first file of a run shares   *)
(* its transaction with the reading of that table.                         *)
(***************************************************************************)
EXTENDS Integers, Sequences

CONSTANTS
    Runners,
    NumFiles,           \* the files of the directory, in sorted order, 1..NumFiles
    MaxFaults           \* bound on crashes and lost connections

ASSUME MigrationAssumption == NumFiles \in Nat \ {0} /\ MaxFaults \in Nat

Files == 1..NumFiles

VARIABLES
    table,              \* schema_migrations exists
    schema_migrations,  \* the filenames in it
    schema,             \* the files that took effect, in order
    pc,
    already_applied,    \* what each run read
    position,           \* the file each run has come to
    applied,            \* what each run returns, once it does
    faults

vars == <<table, schema_migrations, schema, pc, already_applied, position,
          applied, faults>>

database == <<table, schema_migrations, schema>>

Init ==
    /\ table = FALSE /\ schema_migrations = {} /\ schema = << >>
    /\ pc = [r \in Runners |-> "idle"]
    /\ already_applied = [r \in Runners |-> {}]
    /\ position = [r \in Runners |-> 1]
    /\ applied = [r \in Runners |-> << >>]
    /\ faults = 0

Goto(r, where) == pc' = [pc EXCEPT ![r] = where]

\* A run is over, and what it remembers with it, but for what it reports.
End(r, where, report) ==
    /\ Goto(r, where)
    /\ already_applied' = [already_applied EXCEPT ![r] = {}]
    /\ position' = [position EXCEPT ![r] = 1]
    /\ applied' = [applied EXCEPT ![r] = report]

Start(r) ==
    /\ pc[r] = "idle"
    /\ Goto(r, "ensure")
    /\ UNCHANGED <<database, already_applied, position, applied, faults>>

ensure_migrations_table(r) ==
    /\ pc[r] = "ensure"
    /\ table' = TRUE
    /\ Goto(r, "read")
    /\ UNCHANGED <<schema_migrations, schema, already_applied, position, applied,
                   faults>>

\* Mutant: the table is not read, every file is tried.
Recorded_unread == {}

Recorded == schema_migrations

\* The transaction that reads stays open until the first file is committed.
applied_migrations(r) ==
    /\ pc[r] = "read"
    /\ already_applied' = [already_applied EXCEPT ![r] = Recorded]
    /\ Goto(r, "loop")
    /\ UNCHANGED <<database, position, applied, faults>>

Skip(r) ==
    /\ pc[r] = "loop" /\ position[r] \in already_applied[r]
    /\ position' = [position EXCEPT ![r] = @ + 1]
    /\ UNCHANGED <<database, pc, already_applied, applied, faults>>

\* Mutant: a filename that is in the table already is inserted again.
AlreadyRecorded_ignored(f) == FALSE

\* filename is the primary key.
AlreadyRecorded(f) == f \in schema_migrations

Pending(r) ==
    pc[r] = "loop" /\ position[r] \in Files \ already_applied[r]

ApplyFile(r) ==
    /\ Pending(r)
    /\ LET f == position[r]
       IN  /\ ~AlreadyRecorded(f)
           /\ schema' = Append(schema, f)
           /\ schema_migrations' = schema_migrations \cup {f}
           /\ applied' = [applied EXCEPT ![r] = Append(@, f)]
    /\ position' = [position EXCEPT ![r] = @ + 1]
    /\ UNCHANGED <<table, pc, already_applied, faults>>

\* Another run was faster: the primary key, or for the first file the open
\* transaction's snapshot, makes the run raise; the file is rolled back.
Collide(r) ==
    /\ Pending(r) /\ AlreadyRecorded(position[r])
    /\ End(r, "idle", << >>)
    /\ UNCHANGED <<database, faults>>

\* The list of the files it applied is returned.
Finish(r) ==
    /\ pc[r] = "loop" /\ position[r] > NumFiles
    /\ End(r, "done", applied[r])
    /\ UNCHANGED <<database, faults>>

\* The next deployment runs the migrations again, with an empty list.
Rerun(r) ==
    /\ pc[r] = "done"
    /\ Goto(r, "ensure")
    /\ applied' = [applied EXCEPT ![r] = << >>]
    /\ UNCHANGED <<database, already_applied, position, faults>>

Crash(r) ==
    /\ pc[r] \notin {"idle", "done"}
    /\ faults < MaxFaults /\ faults' = faults + 1
    /\ End(r, "idle", << >>)
    /\ UNCHANGED database

Run(r) ==
    \/ Start(r) \/ ensure_migrations_table(r) \/ applied_migrations(r)
    \/ Skip(r) \/ ApplyFile(r) \/ Collide(r) \/ Finish(r)

Next == \E r \in Runners : Run(r) \/ Rerun(r) \/ Crash(r)

\* A run that failed is started again, and a run that goes on makes progress.
Spec == Init /\ [][Next]_vars /\ \A r \in Runners : WF_vars(Run(r))

-----------------------------------------------------------------------------
\* Whatever runs race and wherever they crash, the files take effect in their
\* order, none twice and none left out before a later one, and the table lists
\* exactly those.
EachFileOnceInOrder ==
    /\ \A n \in DOMAIN schema : schema[n] = n
    /\ schema_migrations = {schema[n] : n \in DOMAIN schema}

\* A run that ends normally leaves the schema complete, whoever else applied
\* the files; and of the reports of the latest runs, ended or still going on, no
\* two claim the same file, although each read the table before the others wrote.
ReportsAreTrue ==
    /\ \A r \in Runners : pc[r] = "done" => schema_migrations = Files
    /\ \A r, s \in Runners : r # s =>
        \A m \in DOMAIN applied[r], n \in DOMAIN applied[s] :
            applied[r][m] # applied[s][n]

\* Runs that collide, or crash half way, make one another fail only for so long:
\* in the end some run gets past what the others applied, and completes.
MigrationsComplete == <>[](schema_migrations = Files)
=============================================================================
