--------------------------- MODULE MigrationsProofs ---------------------------
(***************************************************************************)
(* The safety of Migrations for any number of runs, files and crashes.     *)
(*                                                                         *)
(* The argument: a run has come past a file only if the file is recorded,  *)
(* the recorded files are an initial segment, so the first file of a run   *)
(* that is not recorded is the one behind that segment.                    *)
(***************************************************************************)
EXTENDS Migrations, SequenceTheorems, TLAPS

TypeInv ==
    /\ schema \in Seq(Files)
    /\ schema_migrations \subseteq Files
    /\ pc \in [Runners -> {"idle", "ensure", "read", "loop", "done"}]
    /\ already_applied \in [Runners -> SUBSET Files]
    /\ position \in [Runners -> 1..(NumFiles + 1)]
    /\ applied \in [Runners -> Seq(Files)]

\* What run r knows of the table stays true, since nothing is deleted from it.
RunInv(r) ==
    /\ already_applied[r] \subseteq schema_migrations
    /\ \A f \in Files : f < position[r] => f \in schema_migrations
    /\ \A n \in DOMAIN applied[r] : applied[r][n] \in schema_migrations
    /\ pc[r] = "done" => schema_migrations = Files

TableInv ==
    /\ schema_migrations = 1..Len(schema)
    /\ \A n \in DOMAIN schema : schema[n] = n

OneReporter ==
    \A r, s \in Runners : r # s =>
        \A m \in DOMAIN applied[r], n \in DOMAIN applied[s] :
            applied[r][m] # applied[s][n]

MInv ==
    TypeInv /\ TableInv /\ OneReporter /\ \A r \in Runners : RunInv(r)

LEMMA MInvInit == Init => MInv
  <1> SUFFICES ASSUME Init
               PROVE  MInv
    OBVIOUS
  <1>1. << >> \in Seq(Files) /\ Len(<< >>) = 0 /\ DOMAIN << >> = {}
    OBVIOUS
  <1>2. TypeInv
    BY <1>1, MigrationAssumption DEF Init, TypeInv
  <1>3. TableInv
    BY <1>1 DEF Init, TableInv
  <1>4. OneReporter
    BY <1>1 DEF Init, OneReporter
  <1>5. \A r \in Runners : RunInv(r)
    <2> SUFFICES ASSUME NEW r \in Runners
                 PROVE  RunInv(r)
      OBVIOUS
    <2>1. /\ pc[r] = "idle" /\ already_applied[r] = {}
          /\ position[r] = 1 /\ applied[r] = << >>
      BY DEF Init
    <2>2. \A f \in Files : ~(f < 1)
      BY MigrationAssumption DEF Files
    <2> QED
      BY <1>1, <2>1, <2>2 DEF RunInv
  <1> QED
    BY <1>2, <1>3, <1>4, <1>5 DEF MInv

\* A step that leaves the database alone and only ends or moves run r.
LEMMA QuietRun ==
    ASSUME MInv, NEW r \in Runners, UNCHANGED database, TypeInv',
           \A s \in Runners \ {r} :
                /\ pc'[s] = pc[s] /\ already_applied'[s] = already_applied[s]
                /\ position'[s] = position[s] /\ applied'[s] = applied[s],
           applied'[r] \in {applied[r], << >>},
           RunInv(r)'
    PROVE  MInv'
  <1>1. TableInv'
    BY DEF MInv, TableInv, database
  <1>2. DOMAIN << >> = {}
    OBVIOUS
  <1>3. OneReporter'
    BY <1>2 DEF MInv, OneReporter
  <1>4. ASSUME NEW s \in Runners
        PROVE  RunInv(s)'
    <2>1. CASE s = r
      BY <2>1
    <2>2. CASE s # r
      BY <2>2 DEF MInv, RunInv, database
    <2> QED
      BY <2>1, <2>2
  <1> QED
    BY <1>1, <1>3, <1>4 DEF MInv

LEMMA EndInv ==
    ASSUME MInv, NEW r \in Runners, NEW where \in {"idle", "done"},
           NEW report \in {applied[r], << >>},
           End(r, where, report), UNCHANGED database,
           where = "done" => schema_migrations = Files
    PROVE  MInv'
  <1>1. << >> \in Seq(Files) /\ DOMAIN << >> = {}
    OBVIOUS
  <1>2. TypeInv'
    <2>1. applied[r] \in Seq(Files)
      BY DEF MInv, TypeInv
    <2>2. report \in Seq(Files)
      BY <1>1, <2>1
    <2> QED
      BY <2>2, MigrationAssumption DEF MInv, TypeInv, End, Goto, database
  <1>3. /\ pc'[r] = where /\ already_applied'[r] = {}
        /\ position'[r] = 1 /\ applied'[r] = report
    BY DEF MInv, TypeInv, End, Goto
  <1>4. RunInv(r)'
    BY <1>1, <1>3, MigrationAssumption DEF MInv, RunInv, Files, database
  <1> QED
    BY <1>2, <1>3, <1>4, QuietRun DEF MInv, TypeInv, End, Goto

\* The file that is applied is the one behind the recorded files.
LEMMA ApplyInv ==
    ASSUME MInv, NEW r \in Runners, ApplyFile(r)
    PROVE  MInv'
  <1> DEFINE f == position[r]
  <1>1. /\ pc[r] = "loop" /\ f \in Files /\ f \notin schema_migrations
        /\ schema' = Append(schema, f)
        /\ schema_migrations' = schema_migrations \cup {f}
        /\ applied' = [applied EXCEPT ![r] = Append(@, f)]
        /\ position' = [position EXCEPT ![r] = @ + 1]
        /\ UNCHANGED <<table, pc, already_applied, faults>>
    BY DEF ApplyFile, Pending, AlreadyRecorded
  <1>2. /\ TypeInv /\ TableInv /\ OneReporter
        /\ \A s \in Runners : RunInv(s)
    BY DEF MInv
  <1>3. f = Len(schema) + 1
    <2>1. Len(schema) \in Nat /\ f \in 1..NumFiles /\ NumFiles \in Nat
      BY <1>1, <1>2, MigrationAssumption DEF TypeInv, Files
    <2>2. f > Len(schema)
      BY <1>1, <1>2, <2>1 DEF TableInv
    <2>3. CASE f > Len(schema) + 1
      <3>1. f - 1 \in Files /\ f - 1 < f
        BY <2>1, <2>3, MigrationAssumption DEF Files
      <3>2. f - 1 \in 1..Len(schema)
        BY <1>2, <3>1 DEF RunInv, TableInv
      <3> QED
        BY <2>1, <2>3, <3>2
    <2> QED
      BY <2>1, <2>2, <2>3
  <1> HIDE DEF f
  <1>4. /\ schema' \in Seq(Files) /\ Len(schema') = Len(schema) + 1
        /\ \A n \in 1..Len(schema) : schema'[n] = schema[n]
        /\ schema'[Len(schema) + 1] = f
    BY <1>1, <1>2, AppendProperties DEF TypeInv
  <1>5. applied[r] \in Seq(Files) /\ applied'[r] = Append(applied[r], f)
    BY <1>1, <1>2 DEF TypeInv
  <1>6. /\ applied'[r] \in Seq(Files)
        /\ \A n \in DOMAIN applied'[r] :
            applied'[r][n] = f \/ \E m \in DOMAIN applied[r] : applied'[r][n] = applied[r][m]
    <2>1. /\ applied'[r] \in Seq(Files)
          /\ Len(applied'[r]) = Len(applied[r]) + 1
          /\ \A n \in 1..Len(applied[r]) : applied'[r][n] = applied[r][n]
          /\ applied'[r][Len(applied[r]) + 1] = f
      BY <1>1, <1>5, AppendProperties
    <2>2. /\ DOMAIN applied'[r] = 1..(Len(applied[r]) + 1)
          /\ DOMAIN applied[r] = 1..Len(applied[r]) /\ Len(applied[r]) \in Nat
      BY <1>5, <2>1
    <2> QED
      BY <2>1, <2>2
  <1>7. TypeInv'
    <2>1. position'[r] = f + 1 /\ f + 1 \in 1..(NumFiles + 1)
      BY <1>1, <1>2, MigrationAssumption DEF TypeInv, Files, f
    <2>2. applied' \in [Runners -> Seq(Files)]
      BY <1>1, <1>2, <1>5, <1>6 DEF TypeInv
    <2> QED
      BY <1>1, <1>2, <1>4, <2>1, <2>2 DEF TypeInv
  <1>8. TableInv'
    <2>1. Len(schema) \in Nat /\ DOMAIN schema = 1..Len(schema)
      BY <1>2 DEF TypeInv
    <2>2. DOMAIN schema' = 1..(Len(schema) + 1)
      BY <1>4
    <2> QED
      BY <1>1, <1>2, <1>3, <1>4, <2>1, <2>2 DEF TableInv
  <1>9. OneReporter'
    <2>1. \A s \in Runners \ {r} :
            /\ applied'[s] = applied[s]
            /\ \A n \in DOMAIN applied[s] : applied[s][n] # f
      BY <1>1, <1>2 DEF TypeInv, RunInv
    <2> QED
      BY <1>2, <1>6, <2>1 DEF OneReporter
  <1>10. ASSUME NEW s \in Runners
         PROVE  RunInv(s)'
    <2>1. CASE s = r
      <3>1. position'[r] = f + 1 /\ f \in Int
        BY <1>1, <1>2, MigrationAssumption DEF TypeInv, Files, f
      <3>2. \A g \in Files : g < f + 1 => g < position[r] \/ g = f
        BY <3>1, MigrationAssumption DEF Files, f
      <3>3. \A g \in Files : g < position'[r] => g \in schema_migrations'
        BY <1>1, <1>2, <3>1, <3>2 DEF RunInv
      <3>4. \A n \in DOMAIN applied'[r] : applied'[r][n] \in schema_migrations'
        BY <1>1, <1>2, <1>6 DEF RunInv
      <3>5. pc'[r] # "done" /\ already_applied'[r] \subseteq schema_migrations'
        BY <1>1, <1>2 DEF RunInv
      <3> QED
        BY <2>1, <3>3, <3>4, <3>5 DEF RunInv
    <2>2. CASE s # r
      <3>1. position'[s] = position[s] /\ applied'[s] = applied[s]
        BY <1>1, <1>2, <2>2 DEF TypeInv
      <3>2. pc[s] # "done"
        BY <1>1, <1>2 DEF RunInv
      <3> QED
        BY <1>1, <1>2, <3>1, <3>2 DEF RunInv
    <2> QED
      BY <2>1, <2>2
  <1> QED
    BY <1>7, <1>8, <1>9, <1>10 DEF MInv

LEMMA RunStepInv ==
    ASSUME MInv, NEW r \in Runners, Run(r) \/ Rerun(r) \/ Crash(r)
    PROVE  MInv'
  <1>0. TypeInv /\ RunInv(r)
    BY DEF MInv
  <1>1. CASE Start(r) \/ ensure_migrations_table(r)
    <2>1. UNCHANGED <<schema_migrations, schema, already_applied, position, applied>>
      BY <1>1 DEF Start, ensure_migrations_table, database
    <2>2. pc' = [pc EXCEPT ![r] = "ensure"] \/ pc' = [pc EXCEPT ![r] = "read"]
      BY <1>1 DEF Start, ensure_migrations_table, Goto
    <2>3. TypeInv'
      BY <1>0, <2>1, <2>2 DEF TypeInv
    <2>4. \A s \in Runners : RunInv(s)'
      BY <1>0, <2>1, <2>2 DEF MInv, RunInv, TypeInv
    <2>5. TableInv' /\ OneReporter'
      BY <2>1 DEF MInv, TableInv, OneReporter
    <2> QED
      BY <2>3, <2>4, <2>5 DEF MInv
  <1>2. CASE applied_migrations(r)
    <2>1. /\ already_applied' = [already_applied EXCEPT ![r] = schema_migrations]
          /\ pc' = [pc EXCEPT ![r] = "loop"]
          /\ UNCHANGED <<database, position, applied>>
      BY <1>2 DEF applied_migrations, Recorded, Goto
    <2>2. TypeInv'
      BY <1>0, <2>1 DEF TypeInv, database
    <2>3. RunInv(r)'
      BY <1>0, <2>1 DEF TypeInv, RunInv, database
    <2> QED
      BY <1>0, <2>1, <2>2, <2>3, QuietRun DEF TypeInv
  <1>3. CASE Skip(r)
    <2>1. /\ position[r] \in already_applied[r] /\ pc[r] = "loop"
          /\ position' = [position EXCEPT ![r] = @ + 1]
          /\ UNCHANGED <<database, pc, already_applied, applied>>
      BY <1>3 DEF Skip
    <2>2. position[r] \in Files /\ position'[r] = position[r] + 1
      BY <1>0, <2>1 DEF TypeInv
    <2>3. TypeInv'
      BY <1>0, <2>1, <2>2, MigrationAssumption DEF TypeInv, Files, database
    <2>4. \A f \in Files : f < position[r] + 1 => f < position[r] \/ f = position[r]
      BY <2>2, MigrationAssumption DEF Files
    <2>5. RunInv(r)'
      BY <1>0, <2>1, <2>2, <2>4 DEF RunInv, database
    <2> QED
      BY <1>0, <2>1, <2>3, <2>5, QuietRun DEF TypeInv
  <1>4. CASE Finish(r)
    <2>1. position[r] > NumFiles /\ End(r, "done", applied[r]) /\ UNCHANGED database
      BY <1>4 DEF Finish
    <2>2. \A f \in Files : f < position[r]
      BY <1>0, <2>1, MigrationAssumption DEF TypeInv, Files
    <2>3. schema_migrations = Files
      BY <1>0, <2>2 DEF RunInv, TypeInv
    <2> QED
      BY <2>1, <2>3, EndInv
  <1>5. CASE Collide(r) \/ Crash(r)
    BY <1>5, EndInv DEF Collide, Crash
  <1>6. CASE Rerun(r)
    <2>1. /\ pc' = [pc EXCEPT ![r] = "ensure"]
          /\ applied' = [applied EXCEPT ![r] = << >>]
          /\ UNCHANGED <<database, already_applied, position>>
      BY <1>6 DEF Rerun, Goto
    <2>2. << >> \in Seq(Files) /\ DOMAIN << >> = {}
      OBVIOUS
    <2>3. TypeInv'
      BY <1>0, <2>1, <2>2 DEF TypeInv, database
    <2>4. RunInv(r)'
      BY <1>0, <2>1, <2>2 DEF TypeInv, RunInv, database
    <2> QED
      BY <1>0, <2>1, <2>3, <2>4, QuietRun DEF TypeInv
  <1> QED
    BY <1>1, <1>2, <1>3, <1>4, <1>5, <1>6, ApplyInv DEF Run

LEMMA MInvNext == MInv /\ [Next]_vars => MInv'
  <1>1. ASSUME MInv, UNCHANGED vars
        PROVE  MInv'
    BY <1>1 DEF MInv, TypeInv, TableInv, OneReporter, RunInv, vars
  <1> QED
    BY <1>1, RunStepInv DEF Next

THEOREM Inductive == Spec => []MInv
  BY MInvInit, MInvNext, PTL DEF Spec

\* However many deployments race, and wherever they crash, no file takes effect
\* twice, out of order or behind a gap, and the table lists exactly those that did.
THEOREM FilesOnceInOrder == Spec => []EachFileOnceInOrder
  <1>1. MInv => EachFileOnceInOrder
    <2> SUFFICES ASSUME MInv
                 PROVE  EachFileOnceInOrder
      OBVIOUS
    <2>1. DOMAIN schema = 1..Len(schema)
      BY DEF MInv, TypeInv
    <2> QED
      BY <2>1 DEF MInv, TableInv, EachFileOnceInOrder
  <1> QED
    BY <1>1, Inductive, PTL

\* What a run reports is so: a run that ended left the schema complete, and two
\* runs never both report the same file.
THEOREM ReportsTrue == Spec => []ReportsAreTrue
  <1>1. MInv => ReportsAreTrue
    BY DEF MInv, RunInv, OneReporter, ReportsAreTrue
  <1> QED
    BY <1>1, Inductive, PTL
===============================================================================
