--------------------------- MODULE ResolutionWorker ---------------------------
(***************************************************************************)
(* The scheduled worker of ConflictResolution with its poll: an invocation *)
(* lists the oldest pending candidates, up to a limit, and takes them one  *)
(* by one.  Its list grows stale while it works, an exception costs it one *)
(* candidate, and the Lambda timeout the rest of the list.                 *)
(*                                                                         *)
(* The list has no subject_key: the candidates of all subjects share its   *)
(* limit.  Those of other subjects are modelled by what the poll can tell  *)
(* of them: whether they are pending, and whether they conflict with the   *)
(* answer of their own subject.                                            *)
(***************************************************************************)
EXTENDS ConflictResolution, FiniteSets

CONSTANTS
    Others,         \* beliefs of other subjects
    POLL_LIMITS,    \* values POLL_LIMIT may have in the handler's environment
    ObservedFirst,  \* the order of observed_at, over the beliefs of all subjects
    MaxSetbacks     \* bound on what goes wrong with the others, all together

Beliefs == Ingests \cup Others

ASSUME PollAssumption ==
    /\ Others \cap Ingests = {}
    /\ POLL_LIMITS \subseteq Nat \ {0}
    /\ ObservedFirst \in [Beliefs -> Nat]
    /\ \A a, b \in Beliefs : ObservedFirst[a] = ObservedFirst[b] => a = b
    /\ MaxSetbacks \in Nat

VARIABLES
    POLL_LIMIT,     \* candidates an invocation lists at most
    pending,        \* what is left of the list of each worker's invocation
    others,         \* the beliefs of other subjects, as the poll sees them
    setbacks        \* exceptions, timeouts and changed answers there so far

elsewhere == <<others, setbacks>>
pollVars == <<vars, POLL_LIMIT, pending, elsewhere>>

PollInit ==
    /\ Init
    /\ POLL_LIMIT \in POLL_LIMITS
    /\ pending = [w \in Workers |-> << >>]
    /\ others = [o \in Others |-> "absent"]
    /\ setbacks = 0

-----------------------------------------------------------------------------
PendingElsewhere == {o \in Others : others[o] \in {"conflicting", "unrelated"}}

Candidates == {b \in Ingests : status[b] = "candidate"} \cup PendingElsewhere

Older(a, b) == ObservedFirst[a] < ObservedFirst[b]

Listed(list) == {list[n] : n \in DOMAIN list}

OldestFirst(list) == \A m, n \in DOMAIN list : m < n => Older(list[m], list[n])

\* Nothing is left out but what is newer than a full list.
FullOrComplete(list) ==
    \A b \in Candidates \ Listed(list) :
        Len(list) = POLL_LIMIT /\ \A c \in Listed(list) : Older(c, b)

\* WHERE status = 'candidate' ORDER BY observed_at ASC LIMIT, over all subjects:
\* one list.
list_pending_candidates ==
    {list \in UNION {[1..n -> Candidates] : n \in 0..POLL_LIMIT} :
        OldestFirst(list) /\ FullOrComplete(list)}

-----------------------------------------------------------------------------
(* The worker. *)

\* The schedule invokes the handler; with an empty list it ends at once.
Poll(w) ==
    /\ pc[w] = "idle" /\ pending[w] = << >>
    /\ Candidates # {}
    /\ \E list \in list_pending_candidates : pending' = [pending EXCEPT ![w] = list]
    /\ UNCHANGED <<vars, POLL_LIMIT, elsewhere>>

TakeOwn(w) ==
    /\ pending[w] # << >> /\ Head(pending[w]) \in Ingests
    /\ PickCandidate(w, Head(pending[w]))
    /\ pending' = [pending EXCEPT ![w] = Tail(@)]
    /\ UNCHANGED <<POLL_LIMIT, elsewhere>>

AtOther(w) ==
    pc[w] = "idle" /\ pending[w] # << >> /\ Head(pending[w]) \in Others

\* A candidate of another subject is resolved if it conflicts with the answer
\* there, and left as it is if not, or if it is no candidate any more.
TakeOther(w) ==
    /\ AtOther(w)
    /\ LET o == Head(pending[w])
       IN  others' = [others EXCEPT ![o] = IF @ = "conflicting" THEN "resolved" ELSE @]
    /\ pending' = [pending EXCEPT ![w] = Tail(@)]
    /\ UNCHANGED <<vars, POLL_LIMIT, setbacks>>

TakeNext(w) == TakeOwn(w) \/ TakeOther(w)

\* An exception on a candidate of another subject, or the Lambda timeout in the
\* middle of it: it is as pending as before.
Setback(w) ==
    /\ AtOther(w)
    /\ setbacks < MaxSetbacks /\ setbacks' = setbacks + 1
    /\ \E rest \in {Tail(pending[w]), << >>} :
        pending' = [pending EXCEPT ![w] = rest]
    /\ UNCHANGED <<vars, POLL_LIMIT, others>>

\* The Lambda timeout in the middle of a candidate: the rest of the list waits
\* for another poll. (One between two candidates is, in effect, one before the
\* next of them is read.)
Timeout(w) ==
    /\ Abort(w)
    /\ pending' = [pending EXCEPT ![w] = << >>]
    /\ UNCHANGED <<POLL_LIMIT, elsewhere>>

-----------------------------------------------------------------------------
(* Other subjects, where calls run and answers change at any time. *)

\* A call leaves a candidate behind, or has not resolved it yet.
InsertElsewhere(o) ==
    /\ others[o] = "absent"
    /\ \E s \in {"conflicting", "unrelated"} : others' = [others EXCEPT ![o] = s]
    /\ UNCHANGED <<vars, POLL_LIMIT, pending, setbacks>>

\* The answer there changes, and with it what the candidate is to it.
AnswerElsewhere(o) ==
    /\ o \in PendingElsewhere
    /\ setbacks < MaxSetbacks /\ setbacks' = setbacks + 1
    /\ others' = [others EXCEPT ![o] =
                    IF @ = "conflicting" THEN "unrelated" ELSE "conflicting"]
    /\ UNCHANGED <<vars, POLL_LIMIT, pending>>

\* The call that brought the candidate resolves it itself.
ResolveElsewhere(o) ==
    /\ others[o] = "conflicting"
    /\ others' = [others EXCEPT ![o] = "resolved"]
    /\ UNCHANGED <<vars, POLL_LIMIT, pending, setbacks>>

-----------------------------------------------------------------------------
\* Everything else goes on as in ConflictResolution. A candidate that raises
\* costs the worker no more than that candidate: the handler catches it.
OwnSubject ==
    /\ Next
    /\ \A w \in Workers : pc[w] = "idle" => pc'[w] = "idle"
    /\ UNCHANGED <<POLL_LIMIT, pending, elsewhere>>

PollNext ==
    \/ \E w \in Workers : Poll(w) \/ TakeNext(w) \/ Setback(w) \/ Timeout(w)
    \/ \E o \in Others :
        InsertElsewhere(o) \/ AnswerElsewhere(o) \/ ResolveElsewhere(o)
    \/ OwnSubject

Resolve(w) ==
    (PendingStep(w) \/ CommitStep(w)) /\ UNCHANGED <<POLL_LIMIT, pending, elsewhere>>

\* The schedule keeps invoking the handler, which goes through its list, and
\* every call of a database or a model ends.
Fairness ==
    \A w \in Workers :
        WF_pollVars(Poll(w)) /\ WF_pollVars(TakeNext(w)) /\ WF_pollVars(Resolve(w))

PollSafety == PollInit /\ [][PollNext]_pollVars

PollSpec == PollSafety /\ Fairness

-----------------------------------------------------------------------------
\* The candidate has nothing to do with the answer of its subject.
Unrelated(b) ==
    IF b \in Others THEN others[b] = "unrelated"
    ELSE status[b] = "candidate" /\ Detection(b) = "no_conflict"

\* The poll never reaches b: unrelated candidates, of whatever subject, which no
\* resolution takes out of the way, fill it.
CrowdedOut(b) ==
    Cardinality({c \in Candidates : Older(c, b) /\ Unrelated(c)}) >= POLL_LIMIT

\* No candidate is forgotten: whatever became of the call that inserted it, a
\* crash, a stale decision, a lost race or an exhausted retry, and however often
\* the worker times out on others, in the end it is resolved, it has nothing to
\* do with the answer that stands, or older candidates of that kind, its own
\* subject's or other subjects', fill every poll. The last is the price of
\* listing them again and again, and one limit for all subjects.
CandidatesGetResolved ==
    \A b \in Ingests :
        []<>(status[b] = "candidate" => Unrelated(b) \/ CrowdedOut(b))
===============================================================================
