---------------------------- MODULE ConnectionPool ----------------------------
(***************************************************************************)
(* The pool of one database URL and the threads that borrow from it.  Each *)
(* function of the pipeline that opens a connection is a frame of its      *)
(* thread's call stack, and closes it when it returns or raises; a caller  *)
(* keeps its own connection while the functions it calls use theirs.       *)
(* psycopg2's ThreadedConnectionPool is modelled as schema/db.py uses it:  *)
(* connections are alike, and getconn() raises when maxconn are in use.    *)
(***************************************************************************)
EXTENDS Integers, Sequences, FiniteSets

CONSTANTS
    Threads,
    None,
    MaxConn,            \* MNEMOS_DB_POOL_MAXCONN
    MAX_RETRIES,        \* attempts of a commit
    MaxFaults           \* bound on database errors

ASSUME PoolAssumption ==
    /\ MaxConn \in Nat \ {0} /\ MAX_RETRIES \in Nat \ {0} /\ MaxFaults \in Nat
    /\ None \notin Threads

VARIABLES
    registered,         \* _pools has an entry for the URL
    created,            \* pools opened so far
    pools_lock,         \* the thread that holds _pools_lock
    idle, used,         \* connections in the pool, and given out
    leaked,             \* given out, and dropped by get_connection()
    stack,              \* each thread's open functions, the running one last
    held,               \* the connections they hold
    pc, attempt,
    faults

poolState == <<registered, created, pools_lock>>
conns     == <<idle, used, leaked>>
vars == <<poolState, conns, stack, held, pc, attempt, faults>>

MINCONN == 1

Running(t) == IF stack[t] = << >> THEN "nothing" ELSE stack[t][Len(stack[t])]

Init ==
    /\ registered = FALSE /\ created = 0 /\ pools_lock = None
    /\ idle = 0 /\ used = 0 /\ leaked = 0
    /\ stack = [t \in Threads |-> << >>]
    /\ held = [t \in Threads |-> 0]
    /\ pc = [t \in Threads |-> "idle"]
    /\ attempt = [t \in Threads |-> 1]
    /\ faults = 0

Goto(t, where) == pc' = [pc EXCEPT ![t] = where]

\* t enters function f, which asks for a connection first.
Enter(t, f) ==
    /\ stack' = [stack EXCEPT ![t] = Append(@, f)]
    /\ attempt' = [attempt EXCEPT ![t] = 1]
    /\ Goto(t, "find")

\* The running function of t is left; `where` is how its caller goes on.
Leave(t, where) ==
    /\ stack' = [stack EXCEPT ![t] = SubSeq(@, 1, Len(@) - 1)]
    /\ Goto(t, IF Len(stack[t]) = 1 THEN "idle" ELSE where)
    /\ UNCHANGED attempt

Fault == faults < MaxFaults /\ faults' = faults + 1

-----------------------------------------------------------------------------
(* _get_pool(): looked up without the lock, again with it, then created.    *)

FindPool(t) ==
    /\ pc[t] = "find"
    /\ Goto(t, IF registered THEN "get" ELSE "lock")
    /\ UNCHANGED <<poolState, conns, stack, held, attempt, faults>>

LockPools(t) ==
    /\ pc[t] = "lock" /\ pools_lock = None
    /\ pools_lock' = t
    /\ Goto(t, "check")
    /\ UNCHANGED <<registered, created, conns, stack, held, attempt, faults>>

\* Mutant: the dictionary is not read again under the lock.
NeedsPool_unchecked == TRUE

NeedsPool == ~registered

CheckAgain(t) ==
    /\ pc[t] = "check"
    /\ IF NeedsPool THEN Goto(t, "create") /\ UNCHANGED pools_lock
       ELSE Goto(t, "get") /\ pools_lock' = None
    /\ UNCHANGED <<registered, created, conns, stack, held, attempt, faults>>

\* A new pool opens MINCONN connections at once, and then is registered.
CreatePool(t) ==
    /\ pc[t] = "create"
    /\ registered' = TRUE /\ created' = created + 1 /\ idle' = MINCONN
    /\ pools_lock' = None
    /\ Goto(t, "get")
    /\ UNCHANGED <<used, leaked, stack, held, attempt, faults>>

\* No connection can be opened: the lock is released, no pool registered.
CreateFails(t) ==
    /\ pc[t] = "create" /\ Fault
    /\ pools_lock' = None
    /\ Leave(t, "raise")
    /\ UNCHANGED <<registered, created, conns, held>>

-----------------------------------------------------------------------------
(* get_connection() and close().                                            *)

\* Mutant: a thread waits for a connection instead of raising.
RaisesWhenExhausted_waits == FALSE

RaisesWhenExhausted == TRUE

Exhausted == idle = 0 /\ used = MaxConn

\* getconn(): an idle connection, or a new one.
GetConn(t) ==
    /\ pc[t] = "get" /\ ~Exhausted
    /\ idle' = IF idle > 0 THEN idle - 1 ELSE 0
    /\ used' = used + 1
    /\ held' = [held EXCEPT ![t] = @ + 1]
    /\ Goto(t, "setup")
    /\ UNCHANGED <<poolState, leaked, stack, attempt, faults>>

\* getconn() at the limit, or with no connection to be had, raises.
GetConnFails(t) ==
    /\ pc[t] = "get"
    /\ IF Exhausted
       THEN RaisesWhenExhausted /\ UNCHANGED faults
       ELSE idle = 0 /\ Fault
    /\ Leave(t, "raise")
    /\ UNCHANGED <<poolState, conns, held>>

SetUp(t) ==
    /\ pc[t] = "setup"
    /\ Goto(t, "run")
    /\ UNCHANGED <<poolState, conns, stack, held, attempt, faults>>

\* register_vector() asks the database and may raise: the connection is not
\* wrapped yet, and nobody returns it.
SetUpFails(t) ==
    /\ pc[t] = "setup" /\ Fault
    /\ held' = [held EXCEPT ![t] = @ - 1]
    /\ leaked' = leaked + 1
    /\ Leave(t, "raise")
    /\ UNCHANGED <<poolState, idle, used>>

\* putconn(): the pool keeps MINCONN connections and closes the others.
PutConn(t) ==
    /\ idle' = IF idle < MINCONN THEN idle + 1 ELSE idle
    /\ used' = used - 1
    /\ held' = [held EXCEPT ![t] = @ - 1]

\* Mutant: no `finally`, an exception skips the close().
Closing_no_finally == {"close", "close_lost", "close_again", "close_commit"}

Closing == {"close", "close_lost", "close_again", "close_commit", "raise"}

\* close(), in the `finally` of the running function, and what comes next:
\* its caller, another attempt, or, for a conflict, a commit in its place.
Close(t) ==
    /\ pc[t] \in {"close", "close_lost", "close_again", "close_commit", "raise"}
    /\ IF pc[t] \in Closing THEN PutConn(t) ELSE UNCHANGED <<idle, used, held>>
    /\ CASE pc[t] = "close"       -> Leave(t, "close")
         [] pc[t] = "raise"       -> Leave(t, "raise")
         [] pc[t] = "close_lost"  -> Leave(t, "lost")
         [] pc[t] = "close_again" ->
                /\ attempt' = [attempt EXCEPT ![t] = @ + 1]
                /\ Goto(t, "find")
                /\ UNCHANGED stack
         [] pc[t] = "close_commit" ->
                /\ stack' = [stack EXCEPT ![t][Len(stack[t])] = "commit"]
                /\ attempt' = [attempt EXCEPT ![t] = 1]
                /\ Goto(t, "find")
    /\ UNCHANGED <<poolState, leaked, faults>>

-----------------------------------------------------------------------------
(* What the functions do with their connection.                             *)

\* A call of ingest() from outside, or of resolve_pending_candidate() by the
\* worker.
Call(t) ==
    /\ pc[t] = "idle"
    /\ \E f \in {"ingest", "pending"} : Enter(t, f)
    /\ UNCHANGED <<poolState, conns, held, faults>>

\* The running function has done its work on the connection.
Return(t) ==
    /\ pc[t] = "run"
    /\ Goto(t, "close")
    /\ UNCHANGED <<poolState, conns, stack, held, attempt, faults>>

\* Mutant: the decision is committed inside the `try`.
CommitAfterwards_inside(t) == Enter(t, "commit")

CommitAfterwards(t) == Goto(t, "close_commit") /\ UNCHANGED <<stack, attempt>>

\* A conflict: ingest() and resolve_pending_candidate() close, then commit.
DecideConflict(t) ==
    /\ pc[t] = "run" /\ Running(t) \in {"ingest", "pending"}
    /\ CommitAfterwards(t)
    /\ UNCHANGED <<poolState, conns, held, faults>>

\* A vacant subject: both call commit_first_canonical() before they close. An
\* ingest() that lost the race calls with a subject that is vacant no more.
PromoteFirst(t) ==
    /\ pc[t] = "run" /\ Running(t) \in {"ingest", "pending"} /\ Len(stack[t]) = 1
    /\ Enter(t, "first")
    /\ UNCHANGED <<poolState, conns, held, faults>>

LoseFirst(t) ==
    /\ pc[t] = "run" /\ Running(t) = "first"
    /\ Goto(t, "close_lost")
    /\ UNCHANGED <<poolState, conns, stack, held, attempt, faults>>

\* ingest() goes on with resolve_pending_candidate(), its connection open; a
\* resolve_pending_candidate() that lost reads an old snapshot and raises.
AfterLostRace(t) ==
    /\ pc[t] = "lost"
    /\ IF Running(t) = "ingest" THEN Enter(t, "pending")
       ELSE Goto(t, "raise") /\ UNCHANGED <<stack, attempt>>
    /\ UNCHANGED <<poolState, conns, held, faults>>

\* A stale decision raises, and so may any statement.
Raise(t) ==
    /\ pc[t] = "run"
    /\ IF Running(t) = "commit" THEN UNCHANGED faults ELSE Fault
    /\ Goto(t, "raise")
    /\ UNCHANGED <<poolState, conns, stack, held, attempt>>

\* SQLSTATE 40001: each attempt of a commit has a connection of its own.
SerializationFailure(t) ==
    /\ pc[t] = "run" /\ Running(t) \in {"first", "commit"} /\ Fault
    /\ Goto(t, IF attempt[t] < MAX_RETRIES THEN "close_again" ELSE "raise")
    /\ UNCHANGED <<poolState, conns, stack, held, attempt>>

Step(t) ==
    \/ FindPool(t) \/ LockPools(t) \/ CheckAgain(t) \/ CreatePool(t)
    \/ CreateFails(t)
    \/ GetConn(t) \/ GetConnFails(t) \/ SetUp(t) \/ SetUpFails(t) \/ Close(t)
    \/ Return(t) \/ DecideConflict(t) \/ PromoteFirst(t) \/ LoseFirst(t)
    \/ AfterLostRace(t) \/ Raise(t) \/ SerializationFailure(t)

Next == \E t \in Threads : Call(t) \/ Step(t)

\* A thread that is running goes on running.
Spec == Init /\ [][Next]_vars /\ \A t \in Threads : WF_vars(Step(t))

-----------------------------------------------------------------------------
\* The connections that running functions have, counted for each thread.
Borrowed == UNION {{t} \X (1..held[t]) : t \in Threads}

\* However many threads need the first connection at once, one pool is opened:
\* a second one would hold connections nobody returns.
OnePool == created <= 1

\* A call that has ended, in whatever way, holds no connection: what is out is
\* in the hands of a running function, or was lost when it was set up.
CallsReturnWhatTheyBorrow ==
    /\ \A t \in Threads : pc[t] = "idle" => held[t] = 0
    /\ used = leaked + Cardinality(Borrowed)
    /\ used <= MaxConn

\* No call ever holds more than two connections, although three functions
\* borrow within one ingest(): twice as many as there are threads suffice.
TwoConnectionsSuffice == \A t \in Threads : held[t] <= 2

\* Threads that hold a connection and ask for another never wait for each
\* other: at the limit somebody's call fails, and every call comes to an end.
EveryCallEnds == \A t \in Threads : pc[t] # "idle" ~> pc[t] = "idle"
=============================================================================
