-------------------------- MODULE ConnectionPoolProofs -------------------------
(***************************************************************************)
(* Proofs about the connection pool, for every number of threads, every    *)
(* limit and every number of errors: at most one pool is opened, every     *)
(* connection given out is held by a running function or was lost when it  *)
(* was set up, and no call holds more than two.                            *)
(***************************************************************************)
EXTENDS ConnectionPool, FiniteSetTheorems, SequenceTheorems, TLAPS

Functions == {"ingest", "pending", "first", "commit"}

\* Where a running function does not have its connection yet.
Asking == {"find", "lock", "check", "create", "get"}

Places ==
    Asking \cup {"idle", "setup", "run", "lost", "raise", "close", "close_lost",
                 "close_again", "close_commit"}

\* The counters, and the threads' functions, have their types.
CountersOK ==
    /\ registered \in BOOLEAN /\ created \in Nat
    /\ pools_lock \in Threads \cup {None}
    /\ idle \in Nat /\ used \in Int /\ leaked \in Nat
    /\ faults \in Nat

ThreadsOK ==
    /\ stack \in [Threads -> Seq(Functions)]
    /\ held \in [Threads -> Int]
    /\ pc \in [Threads -> Places]
    /\ attempt \in [Threads -> Nat]

\* The pool is created under the lock, by a thread that has looked again.
OneCreator ==
    /\ created = IF registered THEN 1 ELSE 0
    /\ \A t \in Threads : pc[t] \in {"check", "create"} => pools_lock = t
    /\ \A t \in Threads : pc[t] = "create" => ~registered
    /\ \A t \in Threads : pc[t] = "get" => registered

\* Each open function of t holds one connection; the running one may be asking
\* for it still. A second function runs only inside a first.
OneForEachFunction(t) ==
    /\ held[t] = Len(stack[t]) - (IF pc[t] \in Asking THEN 1 ELSE 0)
    /\ Len(stack[t]) \in 0..2
    /\ pc[t] = "idle" <=> Len(stack[t]) = 0
    /\ pc[t] = "lost" => Len(stack[t]) = 1

\* What is given out is held or lost, and the limit counts what is idle too.
Accounts ==
    /\ IsFiniteSet(Borrowed)
    /\ used = leaked + Cardinality(Borrowed)
    /\ idle + used <= MaxConn
    /\ ~registered => idle = 0 /\ used = 0

FramesOK == ThreadsOK /\ \A t \in Threads : OneForEachFunction(t)

PoolInv == CountersOK /\ FramesOK /\ OneCreator /\ Accounts

-----------------------------------------------------------------------------
(* Calls and returns.                                                       *)

\* A function that is entered is the running one, and asks for a connection.
LEMMA Entered ==
    ASSUME ThreadsOK, NEW t \in Threads, NEW f \in Functions, Enter(t, f)
    PROVE  /\ stack' \in [Threads -> Seq(Functions)] /\ attempt' \in [Threads -> Nat]
           /\ pc' = [pc EXCEPT ![t] = "find"]
           /\ Len(stack'[t]) = Len(stack[t]) + 1
           /\ \A u \in Threads \ {t} : stack'[u] = stack[u]
  <1>1. Append(stack[t], f) \in Seq(Functions) /\ Len(Append(stack[t], f)) = Len(stack[t]) + 1
    BY AppendProperties DEF ThreadsOK
  <1> QED
    BY <1>1 DEF ThreadsOK, Enter, Goto

\* A function that is left gives way to its caller, if it has one.
LEMMA Left ==
    ASSUME ThreadsOK, NEW t \in Threads, NEW where \in Places, Leave(t, where),
           Len(stack[t]) \in 1..2
    PROVE  /\ stack' \in [Threads -> Seq(Functions)] /\ attempt' = attempt
           /\ pc' = [pc EXCEPT ![t] = IF Len(stack[t]) = 1 THEN "idle" ELSE where]
           /\ pc' \in [Threads -> Places]
           /\ Len(stack'[t]) = Len(stack[t]) - 1
           /\ \A u \in Threads \ {t} : stack'[u] = stack[u]
  <1>1. SubSeq(stack[t], 1, Len(stack[t]) - 1) \in Seq(Functions)
        /\ Len(SubSeq(stack[t], 1, Len(stack[t]) - 1)) = Len(stack[t]) - 1
    <2>1. PICK s : s = stack[t]
      OBVIOUS
    <2>2. s \in Seq(Functions) /\ Len(s) \in 1..2
      BY <2>1 DEF ThreadsOK
    <2>3. SubSeq(s, 1, Len(s) - 1) \in Seq(Functions)
          /\ Len(SubSeq(s, 1, Len(s) - 1)) = Len(s) - 1
      BY <2>2, SubSeqProperties
    <2> QED
      BY <2>1, <2>3
  <1> QED
    BY <1>1 DEF ThreadsOK, Leave, Goto, Places

\* commit_resolution() takes the place of the function that is running.
LEMMA Replaced ==
    ASSUME ThreadsOK, NEW t \in Threads, Len(stack[t]) \in 1..2,
           stack' = [stack EXCEPT ![t][Len(stack[t])] = "commit"]
    PROVE  /\ stack' \in [Threads -> Seq(Functions)]
           /\ Len(stack'[t]) = Len(stack[t])
           /\ \A u \in Threads \ {t} : stack'[u] = stack[u]
  <1>1. PICK s : s = stack[t]
    OBVIOUS
  <1>2. s \in Seq(Functions) /\ Len(s) \in 1..Len(s) /\ "commit" \in Functions
    <2>1. s \in Seq(Functions) /\ Len(s) \in 1..2
      BY <1>1 DEF ThreadsOK
    <2>2. ASSUME NEW n \in 1..2 PROVE n \in 1..n
      OBVIOUS
    <2>3. "commit" \in Functions
      BY DEF Functions
    <2> QED
      BY <2>1, <2>2, <2>3, Zenon
  <1>3. [s EXCEPT ![Len(s)] = "commit"] \in Seq(Functions)
        /\ Len([s EXCEPT ![Len(s)] = "commit"]) = Len(s)
    BY <1>2, ExceptSeq
  <1>4. stack' = [stack EXCEPT ![t] = [s EXCEPT ![Len(s)] = "commit"]]
    BY <1>1
  <1> QED
    BY <1>1, <1>3, <1>4 DEF ThreadsOK

\* The counters keep their types, whatever a thread does next.
LEMMA CountersStep ==
    ASSUME CountersOK, NEW t \in Threads, Call(t) \/ Step(t)
    PROVE  CountersOK'
  <1> USE PoolAssumption
  <1>1. ASSUME UNCHANGED poolState, UNCHANGED <<idle, used>>,
               leaked' \in Nat, faults' \in Nat
        PROVE  CountersOK'
    BY <1>1 DEF CountersOK, poolState
  <1>2. Fault => faults' \in Nat
    BY DEF CountersOK, Fault
  <1>3. leaked \in Nat /\ leaked + 1 \in Nat /\ faults \in Nat
    BY DEF CountersOK
  <1>4. CASE FindPool(t) \/ LockPools(t)
    BY <1>4 DEF CountersOK, FindPool, LockPools, poolState, conns
  <1>5. CASE CheckAgain(t)
    <2>1. pools_lock' = pools_lock \/ pools_lock' = None
      BY <1>5 DEF CheckAgain
    <2> QED
      BY <1>1, <1>5, <2>1 DEF CountersOK, CheckAgain, conns
  <1>6. CASE CreatePool(t) \/ CreateFails(t)
    <2>1. registered' \in BOOLEAN
      BY <1>6, Zenon DEF CountersOK, CreatePool, CreateFails
    <2>2. created' \in Nat /\ pools_lock' \in Threads \cup {None} /\ faults' \in Nat
      BY <1>2, <1>6 DEF CountersOK, CreatePool, CreateFails
    <2>3. idle' \in Nat /\ used' \in Int /\ leaked' \in Nat
      BY <1>6 DEF CountersOK, CreatePool, CreateFails, conns, MINCONN
    <2> QED
      BY <2>1, <2>2, <2>3 DEF CountersOK
  <1>7. CASE GetConn(t)
    BY <1>7 DEF CountersOK, GetConn, poolState
  <1>8. CASE Close(t)
    <2>1. PutConn(t) \/ UNCHANGED <<idle, used>>
      BY <1>8 DEF Close
    <2>2. UNCHANGED <<poolState, leaked, faults>>
      BY <1>8 DEF Close
    <2> QED
      BY <2>1, <2>2 DEF CountersOK, PutConn, poolState, MINCONN
  <1>9. CASE \/ GetConnFails(t) \/ SetUp(t) \/ SetUpFails(t)
             \/ AfterLostRace(t) \/ Raise(t) \/ SerializationFailure(t)
    BY <1>1, <1>2, <1>3, <1>9
    DEF GetConnFails, SetUp, SetUpFails, AfterLostRace, Raise, SerializationFailure, conns
  <1>10. CASE \/ Call(t) \/ Return(t) \/ DecideConflict(t) \/ PromoteFirst(t) \/ LoseFirst(t)
    BY <1>1, <1>3, <1>10
    DEF Call, Return, DecideConflict, PromoteFirst, LoseFirst, conns
  <1> QED
    BY <1>4, <1>5, <1>6, <1>7, <1>8, <1>9, <1>10 DEF Step

\* What the other threads have is left to them, so only t is to be looked at.
LEMMA Moved ==
    ASSUME FramesOK, NEW t \in Threads, ThreadsOK', OneForEachFunction(t)',
           \A u \in Threads \ {t} :
               stack'[u] = stack[u] /\ held'[u] = held[u] /\ pc'[u] = pc[u]
    PROVE  FramesOK'
  <1>1. ASSUME NEW u \in Threads \ {t} PROVE OneForEachFunction(u)'
    BY DEF FramesOK, OneForEachFunction
  <1> QED
    BY <1>1 DEF FramesOK

\* A function that is left gives its connection back first, or never had it.
LEMMA LeftWithoutConnection ==
    ASSUME FramesOK, NEW t \in Threads, pc[t] # "idle",
           NEW where \in {"raise", "close", "lost"}, Leave(t, where),
           held' = [held EXCEPT ![t] = Len(stack[t]) - 1]
    PROVE  FramesOK'
  <1>1. where \in Places \ (Asking \cup {"idle"})
    BY DEF Places, Asking
  <1>2. Len(stack[t]) \in 1..2
    <2>1. OneForEachFunction(t)
      BY DEF FramesOK
    <2> QED
      BY <2>1 DEF OneForEachFunction
  <1>3. /\ stack' \in [Threads -> Seq(Functions)] /\ attempt' = attempt
        /\ pc' = [pc EXCEPT ![t] = IF Len(stack[t]) = 1 THEN "idle" ELSE where]
        /\ pc' \in [Threads -> Places]
        /\ Len(stack'[t]) = Len(stack[t]) - 1
        /\ \A u \in Threads \ {t} : stack'[u] = stack[u]
    BY <1>1, <1>2, Left DEF FramesOK
  <1>4. ThreadsOK'
    BY <1>2, <1>3 DEF FramesOK, ThreadsOK
  <1>5. pc'[t] = (IF Len(stack[t]) = 1 THEN "idle" ELSE where) /\ held'[t] = Len(stack[t]) - 1
    BY <1>3 DEF FramesOK, ThreadsOK
  <1>6. pc'[t] \notin Asking
    BY <1>1, <1>5 DEF Asking
  <1>7. OneForEachFunction(t)'
    BY <1>1, <1>2, <1>3, <1>5, <1>6 DEF OneForEachFunction
  <1> QED
    BY <1>3, <1>4, <1>7, Moved DEF FramesOK, ThreadsOK

\* A function that is entered has no connection yet.
LEMMA EnteredWithoutConnection ==
    ASSUME FramesOK, NEW t \in Threads, NEW f \in Functions, Enter(t, f),
           Len(stack[t]) \in 0..1, pc[t] \notin Asking, held' = held
    PROVE  FramesOK'
  <1>1. /\ stack' \in [Threads -> Seq(Functions)] /\ attempt' \in [Threads -> Nat]
        /\ pc' = [pc EXCEPT ![t] = "find"]
        /\ Len(stack'[t]) = Len(stack[t]) + 1
        /\ \A u \in Threads \ {t} : stack'[u] = stack[u]
    BY Entered DEF FramesOK
  <1>2. held[t] = Len(stack[t]) /\ held \in [Threads -> Int] /\ pc \in [Threads -> Places]
    BY DEF FramesOK, ThreadsOK, OneForEachFunction
  <1>3. "find" \in Places /\ "find" \in Asking /\ "find" # "idle" /\ "find" # "lost"
    BY DEF Places, Asking
  <1>4. ThreadsOK' /\ pc'[t] = "find"
    BY <1>1, <1>2, <1>3 DEF ThreadsOK
  <1>5. OneForEachFunction(t)'
    <2>1. PICK n \in 0..1 : n = Len(stack[t])
      OBVIOUS
    <2>2. Len(stack'[t]) = n + 1
      BY <1>1, <2>1
    <2>3. held'[t] = n
      BY <1>2, <2>1
    <2> QED
      BY <1>3, <1>4, <2>2, <2>3 DEF OneForEachFunction
  <1> QED
    BY <1>1, <1>2, <1>4, <1>5, Moved

\* A step within a function that neither gets a connection nor loses one.
LEMMA WentOn ==
    ASSUME FramesOK, NEW t \in Threads, NEW where \in Places \ {"idle", "lost"},
           Goto(t, where), stack' = stack, held' = held, attempt' = attempt,
           pc[t] # "idle", where \in Asking <=> pc[t] \in Asking
    PROVE  FramesOK'
  <1>1. /\ pc' = [pc EXCEPT ![t] = where] /\ pc \in [Threads -> Places]
        /\ pc'[t] = where /\ ThreadsOK'
    BY DEF FramesOK, ThreadsOK, Goto
  <1>2. OneForEachFunction(t)'
    BY <1>1 DEF FramesOK, OneForEachFunction
  <1> QED
    BY <1>1, <1>2, Moved

\* Each open function has one connection, whatever a thread does next.
LEMMA FramesStep ==
    ASSUME FramesOK, NEW t \in Threads, Call(t) \/ Step(t)
    PROVE  FramesOK'
  <1>1. /\ held[t] = Len(stack[t]) - (IF pc[t] \in Asking THEN 1 ELSE 0)
        /\ Len(stack[t]) \in 0..2
        /\ pc[t] = "idle" <=> Len(stack[t]) = 0
        /\ pc[t] = "lost" => Len(stack[t]) = 1
    BY DEF FramesOK, OneForEachFunction
  <1>2. /\ stack \in [Threads -> Seq(Functions)] /\ held \in [Threads -> Int]
        /\ pc \in [Threads -> Places] /\ attempt \in [Threads -> Nat]
    BY DEF FramesOK, ThreadsOK
  <1>3. ASSUME pc[t] \notin Asking \cup {"idle"}, held' = [held EXCEPT ![t] = @ - 1]
        PROVE  held' = [held EXCEPT ![t] = Len(stack[t]) - 1]
    <2>1. held[t] = Len(stack[t])
      <3>1. PICK n \in 0..2 : n = Len(stack[t])
        BY <1>1
      <3>2. pc[t] \notin Asking
        BY <1>3
      <3>3. held[t] = n - 0
        BY <1>1, <3>1, <3>2
      <3> QED
        BY <3>1, <3>3
    <2> QED
      BY <1>3, <2>1, Zenon
  <1>4. ASSUME pc[t] \in Asking, held' = held
        PROVE  held' = [held EXCEPT ![t] = Len(stack[t]) - 1]
    <2>1. PICK n \in 0..2 : n = Len(stack[t])
      BY <1>1
    <2>2. held[t] = n - 1
      BY <1>1, <1>4, <2>1
    <2>3. held = [held EXCEPT ![t] = held[t]] /\ held[t] = Len(stack[t]) - 1
      BY <1>2, <2>1, <2>2
    <2> QED
      BY <1>4, <2>3, Zenon
  <1>5. CASE Call(t)
    <2>1. PICK f \in {"ingest", "pending"} : Enter(t, f)
      BY <1>5 DEF Call
    <2>2. f \in Functions /\ pc[t] \notin Asking /\ Len(stack[t]) \in 0..1 /\ held' = held
      BY <1>1, <1>5 DEF Call, Functions, Asking
    <2> QED
      BY <2>1, <2>2, EnteredWithoutConnection
  <1>6. CASE FindPool(t) \/ LockPools(t) \/ CheckAgain(t) \/ CreatePool(t)
    <2>1. /\ pc[t] \in Asking /\ pc[t] # "idle"
          /\ stack' = stack /\ held' = held /\ attempt' = attempt
          /\ \E where \in Asking : Goto(t, where)
      BY <1>6 DEF FindPool, LockPools, CheckAgain, CreatePool, Asking
    <2>2. PICK where \in Asking : Goto(t, where)
      BY <2>1
    <2>3. where \in Places \ {"idle", "lost"}
      BY DEF Places, Asking
    <2> QED
      BY <2>1, <2>2, <2>3, WentOn
  <1>7. CASE CreateFails(t) \/ GetConnFails(t)
    <2>1. pc[t] \in Asking /\ pc[t] # "idle" /\ held' = held /\ Leave(t, "raise")
      BY <1>7 DEF CreateFails, GetConnFails, Asking
    <2> QED
      BY <1>4, <2>1, LeftWithoutConnection
  <1>8. CASE GetConn(t)
    <2>1. /\ pc[t] = "get" /\ pc' = [pc EXCEPT ![t] = "setup"]
          /\ held' = [held EXCEPT ![t] = @ + 1] /\ stack' = stack /\ attempt' = attempt
      BY <1>8 DEF GetConn, Goto
    <2>2. "get" \in Asking /\ "setup" \in Places \ (Asking \cup {"idle", "lost"})
          /\ "get" # "idle"
      BY DEF Places, Asking
    <2>3. ThreadsOK' /\ held'[t] = Len(stack[t]) /\ pc'[t] = "setup" /\ Len(stack[t]) # 0
      BY <1>1, <1>2, <2>1, <2>2 DEF ThreadsOK
    <2>4. OneForEachFunction(t)'
      <3>1. PICK n \in 1..2 : n = Len(stack[t])
        BY <1>1, <2>3
      <3>2. Len(stack'[t]) = n /\ held'[t] = n
        BY <2>1, <2>3, <3>1
      <3> QED
        BY <2>2, <2>3, <3>1, <3>2 DEF OneForEachFunction
    <2> QED
      BY <1>2, <2>1, <2>3, <2>4, Moved
  <1>9. CASE SetUpFails(t)
    <2>1. pc[t] \notin Asking \cup {"idle"} /\ Leave(t, "raise")
          /\ held' = [held EXCEPT ![t] = @ - 1]
      BY <1>9 DEF SetUpFails, Asking
    <2> QED
      BY <1>3, <2>1, LeftWithoutConnection
  <1>10. CASE Close(t)
    <2>1. /\ pc[t] \notin Asking \cup {"idle", "lost"}
          /\ held' = [held EXCEPT ![t] = @ - 1]
      BY <1>10 DEF Close, PutConn, Closing, Asking
    <2>2. CASE pc[t] \in {"close", "close_lost", "raise"}
      <3>1. PICK where \in {"raise", "close", "lost"} : Leave(t, where)
        BY <1>10, <2>2 DEF Close
      <3> QED
        BY <1>3, <2>1, <3>1, LeftWithoutConnection
    <2>3. CASE pc[t] \in {"close_again", "close_commit"}
      <3>1. /\ pc' = [pc EXCEPT ![t] = "find"] /\ attempt' \in [Threads -> Nat]
            /\ \/ stack' = stack
               \/ stack' = [stack EXCEPT ![t][Len(stack[t])] = "commit"]
        <4>1. attempt[t] + 1 \in Nat /\ 1 \in Nat
          BY <1>2
        <4>2. CASE pc[t] = "close_again"
          BY <1>2, <1>10, <4>1, <4>2 DEF Close, Goto
        <4>3. CASE pc[t] = "close_commit"
          BY <1>2, <1>10, <4>1, <4>3 DEF Close, Goto
        <4> QED
          BY <2>3, <4>2, <4>3
      <3>2. /\ stack' \in [Threads -> Seq(Functions)]
            /\ Len(stack'[t]) = Len(stack[t]) /\ Len(stack[t]) \in 1..2
            /\ \A u \in Threads \ {t} : stack'[u] = stack[u]
        BY <1>1, <1>2, <2>1, <3>1, Replaced DEF ThreadsOK
      <3>3. "find" \in Places /\ "find" \in Asking /\ "find" # "idle" /\ "find" # "lost"
        BY DEF Places, Asking
      <3>4. ThreadsOK' /\ pc'[t] = "find" /\ held'[t] = Len(stack[t]) - 1
        <4>1. held' = [held EXCEPT ![t] = Len(stack[t]) - 1]
          BY <1>3, <2>1
        <4>2. held'[t] = Len(stack[t]) - 1
          BY <1>2, <4>1
        <4>3. pc' \in [Threads -> Places] /\ pc'[t] = "find"
          BY <1>2, <3>1, <3>3
        <4>4. held' \in [Threads -> Int]
          BY <1>2, <2>1
        <4> QED
          BY <3>1, <3>2, <4>2, <4>3, <4>4 DEF ThreadsOK
      <3>5. OneForEachFunction(t)'
        <4>1. PICK n \in 1..2 : n = Len(stack[t])
          BY <3>2
        <4>2. Len(stack'[t]) = n /\ held'[t] = n - 1
          BY <3>2, <3>4, <4>1
        <4>3. pc'[t] \in Asking /\ pc'[t] # "idle" /\ pc'[t] # "lost"
          BY <3>3, <3>4
        <4>4. Len(stack'[t]) \in 0..2 /\ Len(stack'[t]) # 0 /\ held'[t] = Len(stack'[t]) - 1
          BY <4>2
        <4> QED
          BY <4>3, <4>4 DEF OneForEachFunction
      <3> QED
        BY <1>2, <2>1, <3>1, <3>2, <3>4, <3>5, Moved
    <2> QED
      BY <1>10, <2>2, <2>3 DEF Close
  <1>11. CASE \/ SetUp(t) \/ Return(t) \/ DecideConflict(t) \/ LoseFirst(t) \/ Raise(t)
              \/ SerializationFailure(t)
    <2>1. /\ pc[t] \in {"setup", "run"}
          /\ stack' = stack /\ held' = held /\ attempt' = attempt
          /\ \E where \in Places \ (Asking \cup {"idle", "lost"}) : Goto(t, where)
      BY <1>11
      DEF SetUp, Return, DecideConflict, CommitAfterwards, LoseFirst, Raise,
          SerializationFailure, conns, Places, Asking
    <2>2. PICK where \in Places \ (Asking \cup {"idle", "lost"}) : Goto(t, where)
      BY <2>1
    <2>3. pc[t] # "idle" /\ pc[t] \notin Asking
      BY <2>1 DEF Asking
    <2> QED
      BY <2>1, <2>2, <2>3, WentOn
  <1>12. CASE PromoteFirst(t)
    <2>1. Enter(t, "first") /\ held' = held /\ Len(stack[t]) \in 0..1 /\ "first" \in Functions
          /\ pc[t] \notin Asking
      BY <1>12 DEF PromoteFirst, Functions, Asking
    <2> QED
      BY <2>1, EnteredWithoutConnection
  <1>13. CASE AfterLostRace(t)
    <2>1. pc[t] = "lost" /\ held' = held /\ pc[t] \notin Asking /\ pc[t] # "idle"
      BY <1>13 DEF AfterLostRace, Asking
    <2>2. CASE Enter(t, "pending")
      <3>1. "pending" \in Functions /\ Len(stack[t]) \in 0..1
        BY <1>1, <2>1 DEF Functions
      <3> QED
        BY <2>1, <2>2, <3>1, EnteredWithoutConnection
    <2>3. CASE Goto(t, "raise") /\ UNCHANGED <<stack, attempt>>
      <3>1. "raise" \in Places \ (Asking \cup {"idle", "lost"})
        BY DEF Places, Asking
      <3> QED
        BY <2>1, <2>3, <3>1, WentOn
    <2> QED
      BY <1>13, <2>2, <2>3 DEF AfterLostRace
  <1> QED
    BY <1>5, <1>6, <1>7, <1>8, <1>9, <1>10, <1>11, <1>12, <1>13 DEF Step

-----------------------------------------------------------------------------
(* The lock.                                                                *)

\* Only a thread in _get_pool() touches the pool's registration and the lock.
LEMMA PoolStateStep ==
    ASSUME NEW t \in Threads, Call(t) \/ Step(t)
    PROVE  \/ LockPools(t) \/ CheckAgain(t) \/ CreatePool(t) \/ CreateFails(t)
           \/ UNCHANGED poolState
  BY DEF Step, Call, FindPool, GetConn, GetConnFails, SetUp, SetUpFails, Close, Return,
         DecideConflict, PromoteFirst, LoseFirst, AfterLostRace, Raise, SerializationFailure

\* A step of t changes where t is, and nobody else.
LEMMA OnlyOneMoves ==
    ASSUME ThreadsOK, NEW t \in Threads, Call(t) \/ Step(t)
    PROVE  \A u \in Threads \ {t} : pc'[u] = pc[u] /\ held'[u] = held[u]
  <1>1. pc \in [Threads -> Places] /\ held \in [Threads -> Int]
    BY DEF ThreadsOK
  <1>2. ASSUME NEW where, Goto(t, where) \/ Leave(t, where) \/ Enter(t, where)
        PROVE  \A u \in Threads \ {t} : pc'[u] = pc[u]
    BY <1>1, <1>2 DEF Goto, Leave, Enter
  <1>3. \A u \in Threads \ {t} : pc'[u] = pc[u]
    BY <1>2
    DEF Step, Call, FindPool, LockPools, CheckAgain, CreatePool, CreateFails, GetConn,
        GetConnFails, SetUp, SetUpFails, Close, Return, DecideConflict, CommitAfterwards,
        PromoteFirst, LoseFirst, AfterLostRace, Raise, SerializationFailure
  <1>4. \A u \in Threads \ {t} : held'[u] = held[u]
    BY <1>1
    DEF Step, Call, FindPool, LockPools, CheckAgain, CreatePool, CreateFails, GetConn,
        GetConnFails, SetUp, SetUpFails, Close, PutConn, Return, DecideConflict,
        PromoteFirst, LoseFirst, AfterLostRace, Raise, SerializationFailure
  <1> QED
    BY <1>3, <1>4

\* At most one thread looks again and creates the pool, and only when there is none.
LEMMA CreatorStep ==
    ASSUME PoolInv, NEW t \in Threads, Call(t) \/ Step(t)
    PROVE  OneCreator'
  <1>1. /\ created = IF registered THEN 1 ELSE 0
        /\ \A u \in Threads : pc[u] \in {"check", "create"} => pools_lock = u
        /\ \A u \in Threads : pc[u] = "create" => ~registered
        /\ \A u \in Threads : pc[u] = "get" => registered
    BY DEF PoolInv, OneCreator
  <1>2. \A u \in Threads \ {t} : pc'[u] = pc[u]
    BY OnlyOneMoves DEF PoolInv, FramesOK
  <1>3. /\ pc \in [Threads -> Places] /\ None \notin Threads /\ registered \in BOOLEAN
    BY PoolAssumption DEF PoolInv, FramesOK, ThreadsOK, CountersOK
  <1>4. CASE LockPools(t)
    <2>1. /\ pools_lock = None /\ pools_lock' = t /\ pc'[t] = "check"
          /\ registered' = registered /\ created' = created
      BY <1>3, <1>4 DEF LockPools, Goto
    <2> QED
      BY <1>1, <1>2, <1>3, <2>1 DEF OneCreator
  <1>5. CASE CheckAgain(t)
    <2>1. /\ pools_lock = t /\ registered' = registered /\ created' = created
          /\ IF registered THEN pc'[t] = "get" /\ pools_lock' = None
             ELSE pc'[t] = "create" /\ pools_lock' = t
      BY <1>1, <1>3, <1>5 DEF CheckAgain, NeedsPool, Goto
    <2> QED
      BY <1>1, <1>2, <1>3, <2>1 DEF OneCreator
  <1>6. CASE CreatePool(t)
    <2>1. /\ pools_lock = t /\ ~registered /\ created' = created + 1
          /\ registered' = TRUE /\ pc'[t] = "get" /\ pools_lock' = None
      BY <1>1, <1>3, <1>6 DEF CreatePool, Goto
    <2>2. created' = 1 /\ \A u \in Threads : pc'[u] \notin {"check", "create"}
      BY <1>1, <1>2, <1>3, <2>1
    <2> QED
      BY <2>1, <2>2 DEF OneCreator
  <1>7. CASE CreateFails(t)
    <2>1. /\ pools_lock = t /\ registered' = registered /\ created' = created
          /\ pc'[t] \in {"idle", "raise"} /\ pools_lock' = None
      BY <1>1, <1>3, <1>7 DEF CreateFails, Leave, Goto
    <2> QED
      BY <1>1, <1>2, <1>3, <2>1 DEF OneCreator
  <1>8. CASE UNCHANGED poolState /\ ~(LockPools(t) \/ CheckAgain(t) \/ CreatePool(t) \/ CreateFails(t))
    <2>1. /\ pc'[t] \notin {"check", "create"}
          /\ pc'[t] = "get" => registered
      BY <1>3, <1>8
      DEF Step, Call, FindPool, GetConn, GetConnFails, SetUp, SetUpFails, Close, Return,
          DecideConflict, CommitAfterwards, PromoteFirst, LoseFirst, AfterLostRace, Raise,
          SerializationFailure, Goto, Leave, Enter
    <2> QED
      BY <1>1, <1>2, <1>8, <2>1 DEF OneCreator, poolState
  <1> QED
    BY <1>4, <1>5, <1>6, <1>7, <1>8, PoolStateStep

-----------------------------------------------------------------------------
(* The connections.                                                         *)

\* A thread that gets a connection adds one to those that are out.
LEMMA BorrowedOneMore ==
    ASSUME ThreadsOK, NEW t \in Threads, held[t] \in Nat, IsFiniteSet(Borrowed),
           held' = [held EXCEPT ![t] = @ + 1]
    PROVE  IsFiniteSet(Borrowed') /\ Cardinality(Borrowed') = Cardinality(Borrowed) + 1
  <1>1. PICK b, n : b = Borrowed /\ n = held[t]
    OBVIOUS
  <1>2. n \in Nat /\ <<t, n + 1>> \notin b
    BY <1>1 DEF Borrowed
  <1>3. Borrowed' = b \cup {<<t, n + 1>>}
    <2>1. ASSUME NEW u \in Threads, NEW i
          PROVE  i \in 1..held'[u] <=> i \in 1..held[u] \/ (u = t /\ i = n + 1)
      BY <1>1, <1>2 DEF ThreadsOK
    <2> QED
      BY <1>1, <2>1 DEF Borrowed
  <1>4. IsFiniteSet(b \cup {<<t, n + 1>>})
        /\ Cardinality(b \cup {<<t, n + 1>>}) = Cardinality(b) + 1
    BY <1>1, <1>2, FS_AddElement
  <1> QED
    BY <1>1, <1>3, <1>4

\* A thread that gives one back, or loses it, takes one away.
LEMMA BorrowedOneLess ==
    ASSUME ThreadsOK, NEW t \in Threads, held[t] \in Nat \ {0}, IsFiniteSet(Borrowed),
           held' = [held EXCEPT ![t] = @ - 1]
    PROVE  IsFiniteSet(Borrowed') /\ Cardinality(Borrowed') = Cardinality(Borrowed) - 1
  <1>1. PICK b, n : b = Borrowed /\ n = held[t]
    OBVIOUS
  <1>2. n \in Nat \ {0} /\ <<t, n>> \in b
    BY <1>1 DEF Borrowed
  <1>3. Borrowed' = b \ {<<t, n>>}
    <2>1. ASSUME NEW u \in Threads, NEW i
          PROVE  i \in 1..held'[u] <=> i \in 1..held[u] /\ ~(u = t /\ i = n)
      BY <1>1, <1>2 DEF ThreadsOK
    <2> QED
      BY <1>1, <2>1 DEF Borrowed
  <1>4. IsFiniteSet(b \ {<<t, n>>}) /\ Cardinality(b \ {<<t, n>>}) = Cardinality(b) - 1
    BY <1>1, <1>2, FS_RemoveElement
  <1> QED
    BY <1>1, <1>3, <1>4

\* Any other step leaves the connections alone.
LEMMA ConnsStep ==
    ASSUME NEW t \in Threads, Call(t) \/ Step(t)
    PROVE  \/ CreatePool(t) \/ GetConn(t) \/ SetUpFails(t) \/ Close(t)
           \/ UNCHANGED <<registered, conns, held>>
  BY DEF Step, Call, FindPool, LockPools, CheckAgain, CreateFails, GetConnFails, SetUp, Return,
         DecideConflict, PromoteFirst, LoseFirst, AfterLostRace, Raise, SerializationFailure,
         poolState, conns

\* How many functions of t are open, and what that says of its connections.
LEMMA OpenFunctions ==
    ASSUME FramesOK, NEW t \in Threads
    PROVE  \E n \in 0..2 : /\ n = 0 <=> pc[t] = "idle"
                           /\ held[t] = IF pc[t] \in Asking THEN n - 1 ELSE n
  <1>1. PICK n \in 0..2 : n = Len(stack[t])
    BY DEF FramesOK, OneForEachFunction
  <1>2. pc[t] = "idle" <=> n = 0
    BY <1>1 DEF FramesOK, OneForEachFunction
  <1>3. held[t] = n - (IF pc[t] \in Asking THEN 1 ELSE 0)
    BY <1>1 DEF FramesOK, OneForEachFunction
  <1>4. CASE pc[t] \in Asking
    BY <1>2, <1>3, <1>4
  <1>5. CASE pc[t] \notin Asking
    <2>1. held[t] = n - 0
      BY <1>3, <1>5
    <2> QED
      BY <1>2, <1>5, <2>1
  <1> QED
    BY <1>4, <1>5

\* A thread that is past get_connection() holds a connection of the pool.
LEMMA HoldsOne ==
    ASSUME PoolInv, NEW t \in Threads, pc[t] \notin Asking \cup {"idle"}
    PROVE  held[t] \in Nat \ {0} /\ registered /\ used >= leaked + 1
  <1>1. PICK n \in 0..2 : n # 0 /\ held[t] = n
    BY OpenFunctions DEF PoolInv
  <1>2. held[t] \in 1..2
    BY <1>1
  <1>3. PICK b : b = Borrowed
    OBVIOUS
  <1>4. <<t, 1>> \in b /\ IsFiniteSet(b)
    BY <1>2, <1>3 DEF Borrowed, PoolInv, Accounts
  <1>5. Cardinality(b) \in Nat /\ Cardinality(b) # 0
    BY <1>4, FS_EmptySet, FS_CardinalityType
  <1> QED
    BY <1>2, <1>3, <1>5 DEF PoolInv, Accounts, CountersOK

LEMMA AccountsStep ==
    ASSUME PoolInv, NEW t \in Threads, Call(t) \/ Step(t)
    PROVE  Accounts'
  <1>1. /\ IsFiniteSet(Borrowed) /\ used = leaked + Cardinality(Borrowed)
        /\ idle + used <= MaxConn
        /\ ~registered => idle = 0 /\ used = 0
    BY DEF PoolInv, Accounts
  <1>2. /\ idle \in Nat /\ used \in Int /\ leaked \in Nat /\ MaxConn \in Nat \ {0}
        /\ ThreadsOK
    BY PoolAssumption DEF PoolInv, CountersOK, FramesOK
  <1>3. Cardinality(Borrowed) \in Nat
    BY <1>1, FS_CardinalityType
  <1>4. CASE CreatePool(t)
    <2>1. idle' = 1 /\ used' = used /\ leaked' = leaked /\ held' = held /\ registered'
      BY <1>4 DEF CreatePool, MINCONN
    <2>2. used = 0
      BY <1>1, <1>4 DEF CreatePool, PoolInv, OneCreator
    <2> QED
      BY <1>1, <1>2, <2>1, <2>2 DEF Accounts, Borrowed
  <1>5. CASE GetConn(t)
    <2>1. /\ registered' = registered /\ leaked' = leaked /\ used' = used + 1
          /\ idle' = (IF idle > 0 THEN idle - 1 ELSE 0) /\ (idle > 0 \/ used # MaxConn)
          /\ held' = [held EXCEPT ![t] = @ + 1]
      BY <1>2, <1>5 DEF GetConn, Exhausted, poolState
    <2>2. registered
      BY <1>5 DEF GetConn, PoolInv, OneCreator
    <2>3. held[t] \in Nat
      <3>1. pc[t] \in Asking /\ pc[t] # "idle"
        BY <1>5 DEF GetConn, Asking
      <3>2. PICK n \in 0..2 : n # 0 /\ held[t] = n - 1
        BY <3>1, OpenFunctions DEF PoolInv
      <3> QED
        BY <3>2
    <2>4. IsFiniteSet(Borrowed') /\ Cardinality(Borrowed') = Cardinality(Borrowed) + 1
      BY <1>1, <1>2, <2>1, <2>3, BorrowedOneMore
    <2> QED
      BY <1>1, <1>2, <1>3, <2>1, <2>2, <2>4 DEF Accounts
  <1>6. CASE SetUpFails(t)
    <2>1. /\ registered' = registered /\ idle' = idle /\ used' = used
          /\ leaked' = leaked + 1 /\ held' = [held EXCEPT ![t] = @ - 1]
          /\ pc[t] \notin Asking \cup {"idle"}
      BY <1>6 DEF SetUpFails, poolState, Asking
    <2>2. IsFiniteSet(Borrowed') /\ Cardinality(Borrowed') = Cardinality(Borrowed) - 1
      BY <1>1, <1>2, <2>1, HoldsOne, BorrowedOneLess
    <2> QED
      BY <1>1, <1>2, <1>3, <2>1, <2>2 DEF Accounts
  <1>7. CASE Close(t)
    <2>1. /\ registered' = registered /\ leaked' = leaked /\ used' = used - 1
          /\ idle' = (IF idle < 1 THEN idle + 1 ELSE idle)
          /\ held' = [held EXCEPT ![t] = @ - 1] /\ pc[t] \notin Asking \cup {"idle"}
      BY <1>7 DEF Close, Closing, PutConn, MINCONN, poolState, Asking
    <2>2. registered /\ IsFiniteSet(Borrowed')
          /\ Cardinality(Borrowed') = Cardinality(Borrowed) - 1
      BY <1>1, <1>2, <2>1, HoldsOne, BorrowedOneLess
    <2> QED
      BY <1>1, <1>2, <1>3, <2>1, <2>2 DEF Accounts
  <1>8. CASE UNCHANGED <<registered, conns, held>>
    BY <1>1, <1>8 DEF Accounts, Borrowed, conns
  <1> QED
    BY <1>4, <1>5, <1>6, <1>7, <1>8, ConnsStep

-----------------------------------------------------------------------------
LEMMA PoolInvariance == Spec => []PoolInv
  <1>1. Init => PoolInv
    <2> SUFFICES ASSUME Init PROVE PoolInv
      OBVIOUS
    <2>1. Borrowed = {}
      BY DEF Init, Borrowed
    <2>2. CountersOK /\ OneCreator
      <3>1. registered \in BOOLEAN /\ ~registered
        BY Zenon DEF Init
      <3>2. \A t \in Threads : pc[t] = "idle"
        BY DEF Init
      <3>3. OneCreator
        BY <3>1, <3>2 DEF Init, OneCreator
      <3>4. CountersOK
        BY <3>1 DEF Init, CountersOK
      <3> QED
        BY <3>3, <3>4
    <2>3. Accounts
      BY <2>1, PoolAssumption, FS_EmptySet DEF Init, Accounts
    <2>4. FramesOK
      <3>1. << >> \in Seq(Functions) /\ Len(<< >>) = 0
        OBVIOUS
      <3>2. "idle" \in Places \ Asking /\ "idle" # "lost"
        BY DEF Places, Asking
      <3>3. ThreadsOK
        BY <3>1, <3>2 DEF Init, ThreadsOK
      <3>4. ASSUME NEW t \in Threads PROVE OneForEachFunction(t)
        BY <3>1, <3>2 DEF Init, OneForEachFunction
      <3> QED
        BY <3>3, <3>4 DEF FramesOK
    <2> QED
      BY <2>2, <2>3, <2>4 DEF PoolInv
  <1>2. PoolInv /\ [Next]_vars => PoolInv'
    <2> SUFFICES ASSUME PoolInv, [Next]_vars PROVE PoolInv'
      OBVIOUS
    <2>1. ASSUME NEW t \in Threads, Call(t) \/ Step(t) PROVE PoolInv'
      BY <2>1, CountersStep, FramesStep, CreatorStep, AccountsStep DEF PoolInv
    <2>2. CASE UNCHANGED vars
      BY <2>2
      DEF vars, poolState, conns, PoolInv, CountersOK, FramesOK, ThreadsOK, OneForEachFunction,
          OneCreator, Accounts, Borrowed
    <2> QED
      BY <2>1, <2>2 DEF Next
  <1> QED
    BY <1>1, <1>2, PTL DEF Spec

\* The pool is opened once, however many threads find none at the same time:
\* who creates it holds _pools_lock and has read the dictionary again.
THEOREM OnePoolIsOpened == Spec => []OnePool
  <1>1. PoolInv => OnePool
    BY DEF PoolInv, CountersOK, OneCreator, OnePool
  <1> QED
    BY <1>1, PoolInvariance, PTL

\* Every connection that is out is held by a running function or was lost by
\* get_connection(), a call that ended holds none, and the limit is kept.
THEOREM EverythingComesBack == Spec => []CallsReturnWhatTheyBorrow
  <1>1. ASSUME PoolInv PROVE CallsReturnWhatTheyBorrow
    <2>1. ASSUME NEW t \in Threads, pc[t] = "idle" PROVE held[t] = 0
      <3>1. pc[t] \notin Asking
        BY <2>1 DEF Asking
      <3> QED
        BY <1>1, <2>1, <3>1, OpenFunctions DEF PoolInv
    <2>2. used = leaked + Cardinality(Borrowed) /\ used <= MaxConn
      BY <1>1, PoolAssumption DEF PoolInv, Accounts, CountersOK
    <2> QED
      BY <2>1, <2>2 DEF CallsReturnWhatTheyBorrow
  <1> QED
    BY <1>1, PoolInvariance, PTL

\* Three functions borrow within one ingest(), and never more than two at once:
\* the decision of a conflict is committed when the caller has closed.
THEOREM NoCallHoldsThree == Spec => []TwoConnectionsSuffice
  <1>1. ASSUME PoolInv, NEW t \in Threads PROVE held[t] <= 2
    BY <1>1, OpenFunctions DEF PoolInv
  <1>2. PoolInv => TwoConnectionsSuffice
    BY <1>1 DEF TwoConnectionsSuffice
  <1> QED
    BY <1>2, PoolInvariance, PTL

================================================================================
