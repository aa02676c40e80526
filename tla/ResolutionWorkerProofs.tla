------------------------ MODULE ResolutionWorkerProofs ------------------------
(***************************************************************************)
(* The worker with its poll implements the workers of ConflictResolution,  *)
(* which take up any inserted belief at any time: so what is proved of     *)
(* those holds of it, for every limit and every order of the candidates.   *)
(***************************************************************************)
EXTENDS ResolutionWorker, ConflictResolutionProofs

\* What a worker has listed of the subject stays in the beliefs table, stale as
\* the list may be.
Known(b) == b \in Ingests => Inserted(b)

ListedInserted ==
    /\ pending \in [Workers -> Seq(Beliefs)]
    /\ \A w \in Workers : \A n \in DOMAIN pending[w] : Known(pending[w][n])

PollInv == IInv /\ ListedInserted

\* No step of the core deletes a belief.
LEMMA NothingDeleted ==
    ASSUME IInv, [Next]_vars, NEW b, Inserted(b)
    PROVE  Inserted(b)'
  <1>0. TypeOK'
    BY TypeStep DEF IInv
  <1>1. ASSUME NEW p \in Processes, Frame(p)
        PROVE  Inserted(b)'
    BY <1>1 DEF Frame, Inserted
  <1>2. ASSUME NEW i \in Ingests, IngestStep(i)
        PROVE  Inserted(b)'
    BY <1>0, <1>1, <1>2, IngestInv DEF Processes
  <1>3. ASSUME NEW w \in Workers, NEW c \in Ingests, PickCandidate(w, c)
        PROVE  Inserted(b)'
    BY <1>0, <1>1, <1>3, PickInv DEF Processes
  <1>4. ASSUME NEW p \in Processes,
               \/ PendingStep(p) \/ CommitStep(p)
               \/ SerializationFailure(p) \/ Abort(p)
        PROVE  Inserted(b)'
    BY <1>0, <1>1, <1>4, PendingInv, CommitInv, FaultInv
  <1>5. CASE TimePasses \/ (\E s \in LedgerStates : UpsertLedger(s)) \/ UNCHANGED vars
    BY <1>5 DEF TimePasses, UpsertLedger, Inserted, vars, beliefRows
  <1> QED
    BY <1>2, <1>3, <1>4, <1>5 DEF Next

\* What a poll lists are candidates.
LEMMA ListOfInserted ==
    ASSUME NEW list \in list_pending_candidates
    PROVE  /\ list \in Seq(Beliefs)
           /\ \A n \in DOMAIN list : Known(list[n])
  <1>1. PICK n \in 0..POLL_LIMIT : list \in [1..n -> Candidates]
    BY DEF list_pending_candidates
  <1>2. n \in Nat /\ list \in [1..n -> Beliefs]
    BY <1>1 DEF Candidates, PendingElsewhere, Beliefs
  <1>3. list \in Seq(Beliefs)
    BY <1>2, SeqDef
  <1>4. ASSUME NEW b \in Candidates, b \in Ingests
        PROVE  Inserted(b)
    BY <1>4, PollAssumption DEF Candidates, PendingElsewhere, Inserted
  <1> QED
    BY <1>1, <1>3, <1>4 DEF Known

\* Each step of a worker and its poll is a step of the core or leaves it alone.
LEMMA StepImplements ==
    ASSUME PollInv, [PollNext]_pollVars
    PROVE  [Next]_vars
  <1>1. ASSUME NEW w \in Workers, TakeOwn(w)
        PROVE  Next
    BY <1>1 DEF TakeOwn, Next
  <1>2. ASSUME NEW w \in Workers, Timeout(w)
        PROVE  Next
    BY <1>2 DEF Timeout, Next, Processes
  <1>3. ASSUME NEW w \in Workers, Poll(w) \/ TakeOther(w) \/ Setback(w)
        PROVE  UNCHANGED vars
    BY <1>3 DEF Poll, TakeOther, Setback
  <1>4. ASSUME NEW o \in Others,
               InsertElsewhere(o) \/ AnswerElsewhere(o) \/ ResolveElsewhere(o)
        PROVE  UNCHANGED vars
    BY <1>4 DEF InsertElsewhere, AnswerElsewhere, ResolveElsewhere
  <1> QED
    BY <1>1, <1>2, <1>3, <1>4 DEF PollNext, TakeNext, OwnSubject, pollVars

LEMMA PollInvInit == PollInit => PollInv
  <1> SUFFICES ASSUME PollInit
               PROVE  PollInv
    OBVIOUS
  <1>1. pending = [w \in Workers |-> << >>] /\ Init
    BY DEF PollInit
  <1>2. ListedInserted
    BY <1>1 DEF ListedInserted
  <1> QED
    BY <1>1, <1>2, InitInv DEF PollInv

LEMMA PollInvNext == PollInv /\ [PollNext]_pollVars => PollInv'
  <1> SUFFICES ASSUME PollInv, [PollNext]_pollVars
               PROVE  PollInv'
    OBVIOUS
  <1>1. [Next]_vars /\ IInv /\ ListedInserted
    BY StepImplements DEF PollInv
  <1>2. IInv'
    BY <1>1, NextInv
  <1>3. \A b : Known(b) => Known(b)'
    BY <1>1, NothingDeleted DEF Known
  <1>4. ASSUME UNCHANGED pending
        PROVE  ListedInserted'
    BY <1>1, <1>3, <1>4 DEF ListedInserted
  <1>5. ASSUME NEW w \in Workers, NEW list \in Seq(Beliefs),
               \A n \in DOMAIN list : Known(list[n]),
               pending' = [pending EXCEPT ![w] = list]
        PROVE  ListedInserted'
    BY <1>1, <1>3, <1>5 DEF ListedInserted
  <1>6. ASSUME NEW w \in Workers, Poll(w)
        PROVE  ListedInserted'
    BY <1>5, <1>6, ListOfInserted DEF Poll
  <1>7. ASSUME NEW w \in Workers, pending[w] # << >>,
               pending' = [pending EXCEPT ![w] = Tail(pending[w])]
        PROVE  ListedInserted'
    <2>1. /\ pending[w] \in Seq(Beliefs) /\ pending[w] # << >>
          /\ \A n \in DOMAIN pending[w] : Known(pending[w][n])
      BY <1>1, <1>7 DEF ListedInserted
    <2>2. /\ Tail(pending[w]) \in Seq(Beliefs)
          /\ \A n \in DOMAIN Tail(pending[w]) : Known(Tail(pending[w])[n])
      BY <2>1, HeadTailProperties
    <2> QED
      BY <1>5, <1>7, <2>2
  <1>8. ASSUME NEW w \in Workers, pending' = [pending EXCEPT ![w] = << >>]
        PROVE  ListedInserted'
    <2>1. << >> \in Seq(Beliefs) /\ DOMAIN << >> = {}
      OBVIOUS
    <2> QED
      BY <1>5, <1>8, <2>1
  <1>9. ASSUME NEW w \in Workers, TakeNext(w)
        PROVE  ListedInserted'
    BY <1>7, <1>9 DEF TakeNext, TakeOwn, TakeOther, AtOther
  <1>10. ASSUME NEW w \in Workers, Setback(w) \/ Timeout(w)
         PROVE  ListedInserted'
    BY <1>7, <1>8, <1>10 DEF Setback, Timeout, AtOther
  <1>11. ASSUME NEW o \in Others,
                InsertElsewhere(o) \/ AnswerElsewhere(o) \/ ResolveElsewhere(o)
         PROVE  UNCHANGED pending
    BY <1>11 DEF InsertElsewhere, AnswerElsewhere, ResolveElsewhere
  <1>12. ListedInserted'
    BY <1>4, <1>6, <1>9, <1>10, <1>11 DEF PollNext, OwnSubject, pollVars
  <1> QED
    BY <1>2, <1>12 DEF PollInv

\* The scheduled worker, whatever it has listed and however old its list is,
\* does nothing that the workers of ConflictResolution may not do.
THEOREM WorkerImplementsCore == PollSafety => Spec
  <1>1. PollInit => Init
    BY DEF PollInit
  <1>2. PollInv /\ [PollNext]_pollVars => [Next]_vars
    BY StepImplements
  <1> QED
    BY <1>1, <1>2, PollInvInit, PollInvNext, PTL DEF PollSafety, Spec

\* So with real polls too, limited and stale, two workers on one candidate never
\* make two beliefs canonical,
THEOREM PolledOneCanonical == PollSafety => []OneCanonical
  BY WorkerImplementsCore, OneCanonicalAlways, PTL

\* and a stale list never makes a decision about an older answer take effect.
THEOREM PolledDecisionsAudited == PollSafety => EveryDecisionIsAudited
  BY WorkerImplementsCore, EveryDecisionAudited, PTL
===============================================================================
