-------------------------- MODULE ConflictResolution --------------------------
(***************************************************************************)
(* One subject of the belief store, the ingest() calls that bring claims   *)
(* about it and the resolution workers that pick up pending candidates.    *)
(*                                                                         *)
(* A step is one database transaction (the store is serializable), or one  *)
(* arbitration, which runs outside any transaction.  Between two steps of  *)
(* a process everything it remembers may have gone stale; only the version *)
(* it expects protects what it writes.                                     *)
(*                                                                         *)
(* One subject is modelled: every statement that judges or commits a       *)
(* belief is keyed by one subject_key or by the belief.  Only the worker's *)
(* poll looks at all subjects at once; ResolutionWorker has the others.    *)
(***************************************************************************)
EXTENDS ConflictRules, Sequences

CONSTANTS
    Ingests,        \* ingest() calls; a call's belief bears the call's name
    Workers,        \* resolution workers; overlapping invocations are real
    None,           \* SQL NULL and Python None
    Texts,          \* claim texts, with their embeddings
    Claims,         \* claims a call may bring: [tier, confidence, text]
    Similarity,     \* cosine similarity, in percent, of every pair of texts
    LedgerStates,   \* states a system of record can report
    Confirms,       \* the ledger states a text's keywords match
    Volatilities,   \* volatility_for_new_subjects of the calls
    Verdicts,       \* verdicts and confidences the models answer with
    Confidences,
    MAX_RETRIES,    \* attempts of a commit before 40001 is raised
    MaxFaults       \* bound on serialization failures and crashes together

Processes == Ingests \cup Workers

ASSUME ProcessAssumption ==
    Ingests \cap Workers = {} /\ None \notin Processes

ASSUME ClaimAssumption ==
    /\ Claims \subseteq [tier : Int, confidence : 0..100, text : Texts]
    /\ None \notin Claims
    /\ Similarity \in [Texts \X Texts -> Int]

ASSUME LedgerAssumption ==
    /\ None \notin LedgerStates
    /\ Confirms \in [Texts -> SUBSET LedgerStates]

ASSUME ModelAssumption ==
    /\ Volatilities \subseteq {"stable", "volatile"}
    /\ Verdicts \subseteq VALID_VERDICTS /\ Confidences \subseteq 0..100

ASSUME BoundAssumption == MAX_RETRIES \in Nat \ {0} /\ MaxFaults \in Nat

VARIABLES
    (* the subjects row; version 0 stands for a row not inserted yet *)
    version, canonical_belief_id, volatility,
    (* the beliefs rows, one per call; "absent" until inserted *)
    status, superseded_by, claim, age,
    (* the resolutions table in commit order, and the ledger's row *)
    resolutions, ledger,
    (* what each process is doing and remembers *)
    pc, target, expected, existing, decision, attempt,
    (* serialization failures and crashes so far *)
    faults

subjectRow == <<version, canonical_belief_id, volatility>>
beliefRows == <<status, superseded_by, claim, age>>
locals     == <<target, expected, existing, decision, attempt>>
vars == <<subjectRow, beliefRows, resolutions, ledger, pc, locals, faults>>

-----------------------------------------------------------------------------
Undecided ==
    [winner |-> None, loser |-> None, method |-> "llm", verdict |-> "contradiction"]

Init ==
    /\ version = 0 /\ canonical_belief_id = None /\ volatility = "stable"
    /\ status = [b \in Ingests |-> "absent"]
    /\ superseded_by = [b \in Ingests |-> None]
    /\ claim = [b \in Ingests |-> None]
    /\ age = [b \in Ingests |-> "fresh"]
    /\ resolutions = << >>
    /\ ledger \in LedgerStates \cup {None}
    /\ pc = [p \in Processes |-> IF p \in Ingests THEN "start" ELSE "idle"]
    /\ target = [p \in Processes |-> None]
    /\ expected = [p \in Processes |-> 0]
    /\ existing = [p \in Processes |-> None]
    /\ decision = [p \in Processes |-> Undecided]
    /\ attempt = [p \in Processes |-> 1]
    /\ faults = 0

Goto(p, where) == pc' = [pc EXCEPT ![p] = where]

\* p's call is over, and its locals with it. A worker goes on to its next
\* candidate whatever the outcome: the handler catches every exception.
Return(p, outcome) ==
    /\ Goto(p, IF p \in Workers THEN "idle" ELSE outcome)
    /\ target' = [target EXCEPT ![p] = None]
    /\ expected' = [expected EXCEPT ![p] = 0]
    /\ existing' = [existing EXCEPT ![p] = None]
    /\ decision' = [decision EXCEPT ![p] = Undecided]
    /\ attempt' = [attempt EXCEPT ![p] = 1]

-----------------------------------------------------------------------------
(* Detection, rules and the ledger, as read in one snapshot. *)

\* Ages in seconds: an old claim is more than RECENCY_MULTIPLE times older
\* than a fresh one; claims of one age are not.
SecondsOf(a) == IF a = "fresh" THEN 1 ELSE 20

\* What the rules see of belief b, with `now` at time 0.
RuleCandidate(b) ==
    [tier |-> claim[b].tier, confidence |-> claim[b].confidence,
     observed_at |-> 0 - SecondsOf(age[b])]

\* Stage 1 for belief b against the belief that is canonical.
Detection(b) ==
    IF canonical_belief_id = None THEN "no_canonical"
    ELSE classify_similarity(
            Similarity[<<claim[b].text, claim[canonical_belief_id].text>>])

For(winner, loser, how, why) ==
    [winner |-> winner, loser |-> loser, method |-> how, verdict |-> why]

\* Stage 2: the rules' decision between the existing belief e and the new n.
RuleDecision(e, n) ==
    LET outcome == apply_rules(RuleCandidate(e), RuleCandidate(n), volatility, 0)
    IN  IF outcome = "new_wins" THEN For(n, e, "rule", "contradiction")
        ELSE IF outcome = "existing_wins" THEN For(e, n, "rule", "contradiction")
        ELSE Undecided

\* The ledger's word outranks the decision d of the rules.
LedgerOr(e, n, d) ==
    LET side == IF ledger = None THEN "undecided"
                ELSE ledger_winner(ledger \in Confirms[claim[e].text],
                                   ledger \in Confirms[claim[n].text])
    IN  IF side = "new" THEN For(n, e, "ledger_verification", "contradiction")
        ELSE IF side = "existing" THEN For(e, n, "ledger_verification", "contradiction")
        ELSE d

\* A decision is committed, no decision goes to the arbiter.
After(d) == IF d.winner = None THEN "arbitrate" ELSE "commit"

-----------------------------------------------------------------------------
(* ingest(), up to the commit. *)

\* First transaction: the subject row is there, its version is remembered.
OpenSubject(i) ==
    /\ pc[i] = "start"
    /\ \E c \in Claims : claim' = [claim EXCEPT ![i] = c]
    /\ age' = [age EXCEPT ![i] = "fresh"]
    /\ IF version = 0
       THEN version' = 1 /\ volatility' \in Volatilities
       ELSE UNCHANGED <<version, volatility>>
    /\ expected' = [expected EXCEPT ![i] = version']
    /\ target' = [target EXCEPT ![i] = i]
    /\ Goto(i, "detect")
    /\ UNCHANGED <<canonical_belief_id, status, superseded_by, resolutions,
                   ledger, existing, decision, attempt, faults>>

\* An ingest whose source is unknown raises: the subject row is rolled back.
UnknownSource(i) ==
    /\ pc[i] = "start"
    /\ Return(i, "error")
    /\ UNCHANGED <<subjectRow, beliefRows, resolutions, ledger, faults>>

InsertCandidate(i) == status' = [status EXCEPT ![i] = "candidate"]

\* Second transaction: detection, rules and the insertion commit together.
InsertFirst(i) ==
    /\ pc[i] = "detect" /\ Detection(i) = "no_canonical"
    /\ InsertCandidate(i)
    /\ Goto(i, "promote")
    /\ UNCHANGED <<subjectRow, superseded_by, claim, age, resolutions, ledger,
                   locals, faults>>

\* A duplicate is not stored: it refreshes the belief it repeats.
RefreshCanonical(i) ==
    /\ pc[i] = "detect" /\ Detection(i) = "duplicate"
    /\ age' = [age EXCEPT ![canonical_belief_id] = "fresh"]
    /\ Return(i, "done")
    /\ UNCHANGED <<subjectRow, status, superseded_by, claim, resolutions,
                   ledger, faults>>

InsertUnrelated(i) ==
    /\ pc[i] = "detect" /\ Detection(i) = "no_conflict"
    /\ InsertCandidate(i)
    /\ Return(i, "no_conflict")
    /\ UNCHANGED <<subjectRow, superseded_by, claim, age, resolutions, ledger,
                   faults>>

InsertConflicting(i) ==
    /\ pc[i] = "detect" /\ Detection(i) = "conflict"
    /\ InsertCandidate(i)
    /\ existing' = [existing EXCEPT ![i] = canonical_belief_id]
    /\ decision' = [decision EXCEPT ![i] = RuleDecision(canonical_belief_id, i)]
    /\ Goto(i, "verify")
    /\ UNCHANGED <<subjectRow, superseded_by, claim, age, resolutions, ledger,
                   target, expected, attempt, faults>>

\* Third transaction: the ledger is asked about the two claims.
VerifyAgainstLedger(i) ==
    /\ pc[i] = "verify"
    /\ LET d == LedgerOr(existing[i], i, decision[i])
       IN  decision' = [decision EXCEPT ![i] = d] /\ Goto(i, After(d))
    /\ UNCHANGED <<subjectRow, beliefRows, resolutions, ledger, target,
                   expected, existing, attempt, faults>>

-----------------------------------------------------------------------------
(* resolve_pending_candidate(), called by a worker, and by an ingest() that *)
(* lost the race to be first. One transaction reads the candidate, the      *)
(* subject, the canonical belief and the ledger.                            *)

\* A worker takes up a belief that a poll of its own, however long ago, listed
\* as pending: others may have resolved it before, and may still, until the
\* worker reads it again in StillPending.
PickCandidate(w, b) ==
    /\ pc[w] = "idle" /\ status[b] # "absent"
    /\ target' = [target EXCEPT ![w] = b]
    /\ Goto(w, "pending")
    /\ UNCHANGED <<subjectRow, beliefRows, resolutions, ledger, expected,
                   existing, decision, attempt, faults>>

\* Mutant: the status of the listed belief is not read again.
StillPending_unchecked(p) == pc[p] = "pending" /\ canonical_belief_id # target[p]

\* Mutant: a candidate of a subject without an answer is left alone.
StillPending_needs_answer(p) ==
    /\ pc[p] = "pending"
    /\ status[target[p]] = "candidate" /\ canonical_belief_id # None

\* The belief is still a candidate, and not the canonical one already.
StillPending(p) ==
    /\ pc[p] = "pending"
    /\ status[target[p]] = "candidate" /\ canonical_belief_id # target[p]

\* Someone else resolved it, or it is no conflict now: nothing to do.
SkipPending(p) ==
    /\ pc[p] = "pending"
    /\ StillPending(p) => Detection(target[p]) = "no_conflict"
    /\ Return(p, IF StillPending(p) THEN "no_conflict" ELSE "done")
    /\ UNCHANGED <<subjectRow, beliefRows, resolutions, ledger, faults>>

\* No canonical belief: the candidate is promoted on another connection while
\* this transaction, and with it this snapshot, stays open.
AdoptVacantSubject(p) ==
    /\ StillPending(p) /\ Detection(target[p]) = "no_canonical"
    /\ expected' = [expected EXCEPT ![p] = version]
    /\ Goto(p, "promote")
    /\ UNCHANGED <<subjectRow, beliefRows, resolutions, ledger, target,
                   existing, decision, attempt, faults>>

\* The candidate repeats the canonical belief: it is superseded by it, with no
\* new version and no resolutions row.
MergePending(p) ==
    /\ StillPending(p) /\ Detection(target[p]) = "duplicate"
    /\ status' = [status EXCEPT ![target[p]] = "superseded"]
    /\ superseded_by' = [superseded_by EXCEPT ![target[p]] = canonical_belief_id]
    /\ age' = [age EXCEPT ![canonical_belief_id] = "fresh"]
    /\ Return(p, "done")
    /\ UNCHANGED <<subjectRow, claim, resolutions, ledger, faults>>

JudgePending(p) ==
    /\ StillPending(p) /\ Detection(target[p]) = "conflict"
    /\ LET e == canonical_belief_id
           d == LedgerOr(e, target[p], RuleDecision(e, target[p]))
       IN  /\ existing' = [existing EXCEPT ![p] = e]
           /\ decision' = [decision EXCEPT ![p] = d]
           /\ Goto(p, After(d))
    /\ expected' = [expected EXCEPT ![p] = version]
    /\ UNCHANGED <<subjectRow, beliefRows, resolutions, ledger, target,
                   attempt, faults>>

\* A worker that lost the race reads the subject again in the transaction it
\* still has open: the snapshot shows no canonical belief, there is no claim
\* to load, and a TypeError ends the call.
RereadOldSnapshot(p) ==
    /\ pc[p] = "reread"
    /\ Return(p, "error")
    /\ UNCHANGED <<subjectRow, beliefRows, resolutions, ledger, faults>>

-----------------------------------------------------------------------------
(* Arbitration, outside any transaction. *)

\* The winner A names is the existing belief, B the candidate.
Arbitrate(p) ==
    /\ pc[p] = "arbitrate"
    /\ \E d \in ArbiterDecisions(Verdicts, Confidences,
                    claim[existing[p]].tier = claim[target[p]].tier) :
        LET winner == CASE d.winner = "A" -> existing[p]
                        [] d.winner = "B" -> target[p]
                        [] OTHER -> None
            loser  == CASE d.winner = "A" -> target[p]
                        [] d.winner = "B" -> existing[p]
                        [] OTHER -> None
        IN  /\ decision' = [decision EXCEPT ![p] = For(winner, loser, "llm", d.verdict)]
            /\ Goto(p, IF ~d.needs_human /\ winner # None THEN "commit" ELSE "contest")
    /\ UNCHANGED <<subjectRow, beliefRows, resolutions, ledger, target,
                   expected, existing, attempt, faults>>

-----------------------------------------------------------------------------
(* The three commits. Each is one transaction, retried on SQLSTATE 40001.   *)

\* Mutant: the UPDATE has no version in its WHERE clause.
VersionHolds_unchecked(p) == version # 0

\* The optimistic check: nobody has decided anything since p read the version.
VersionHolds(p) == version = expected[p]

\* Mutant: a decision leaves the version as it was.
NextVersion_kept(v) == v

NextVersion(v) == v + 1

\* Mutant: the blind promotion that commit_first_canonical replaced.
StillVacant_blind(p) == version # 0

\* No canonical belief, and the version p read.
StillVacant(p) == VersionHolds(p) /\ canonical_belief_id = None

\* commit_first_canonical: only a subject that has no canonical belief.
PromoteFirst(p) ==
    /\ pc[p] = "promote"
    /\ StillVacant(p)
    /\ version' = NextVersion(version)
    /\ canonical_belief_id' = target[p]
    /\ status' = [status EXCEPT ![target[p]] = "canonical"]
    /\ Return(p, "done")
    /\ UNCHANGED <<volatility, superseded_by, claim, age, resolutions, ledger,
                   faults>>

\* commit_first_canonical returns False: ingest() hands its candidate to
\* resolve_pending_candidate(), a worker reads on in its own transaction. (An
\* ingest() comes here once: a subject that has an answer is vacant no more.)
LoseFirst(p) ==
    /\ pc[p] = "promote"
    /\ ~StillVacant(p)
    /\ Goto(p, IF p \in Workers THEN "reread" ELSE "pending")
    /\ attempt' = [attempt EXCEPT ![p] = 1]
    /\ UNCHANGED <<subjectRow, beliefRows, resolutions, ledger, target,
                   expected, existing, decision, faults>>

\* Mutant: the loser's superseded_by is never written.
Supersede_unlinked(loser, winner) == superseded_by

\* superseded_by once the loser points to the winner.
Supersede(loser, winner) == [superseded_by EXCEPT ![loser] = winner]

\* Mutant: the subject keeps pointing to the belief it pointed to.
NewAnswer_kept(d) == canonical_belief_id

NewAnswer(d) == d.winner

\* commit_resolution: winner canonical, loser superseded, row logged.
CommitResolution(p) ==
    LET d == decision[p]
    IN  /\ pc[p] = "commit" /\ VersionHolds(p)
        /\ version' = NextVersion(version)
        /\ canonical_belief_id' = NewAnswer(d)
        /\ status' = [status EXCEPT ![d.winner] = "canonical",
                                    ![d.loser] = "superseded"]
        /\ superseded_by' = Supersede(d.loser, d.winner)
        /\ resolutions' = Append(resolutions, d)
        /\ Return(p, "done")
        /\ UNCHANGED <<volatility, claim, age, ledger, faults>>

\* commit_resolution raises StaleResolutionError, which no caller catches but
\* the worker's handler: the candidate stays as it is.
RaiseStale(p) ==
    /\ pc[p] = "commit" /\ ~VersionHolds(p)
    /\ Return(p, "stale")
    /\ UNCHANGED <<subjectRow, beliefRows, resolutions, ledger, faults>>

\* commit_contested: both beliefs marked, whatever the version is by now.
CommitContested(p) ==
    /\ pc[p] = "contest"
    /\ status' = [status EXCEPT ![existing[p]] = "contested",
                                ![target[p]] = "contested"]
    /\ resolutions' = Append(resolutions, decision[p])
    /\ Return(p, "contested")
    /\ UNCHANGED <<subjectRow, superseded_by, claim, age, ledger, faults>>

\* Mutant: one attempt too many.
MayRetry_late(p) == attempt[p] <= MAX_RETRIES

MayRetry(p) == attempt[p] < MAX_RETRIES

\* SQLSTATE 40001: the same commit is tried again, MAX_RETRIES times at most.
SerializationFailure(p) ==
    /\ pc[p] \in {"promote", "commit", "contest"}
    /\ faults < MaxFaults /\ faults' = faults + 1
    /\ IF MayRetry(p)
       THEN /\ attempt' = [attempt EXCEPT ![p] = @ + 1]
            /\ UNCHANGED <<pc, target, expected, existing, decision>>
       ELSE Return(p, "error")
    /\ UNCHANGED <<subjectRow, beliefRows, resolutions, ledger>>

-----------------------------------------------------------------------------
(* The environment. *)

Returned == {"done", "no_conflict", "contested", "stale", "error"}

\* The process dies, or an exception nobody catches ends the call: a lost
\* connection, a Lambda timeout, a Bedrock error, a 40001 outside the commits.
\* An open transaction leaves no trace.
Abort(p) ==
    /\ pc[p] \notin Returned \cup {"idle"}
    /\ faults < MaxFaults /\ faults' = faults + 1
    /\ Return(p, "error")
    /\ UNCHANGED <<subjectRow, beliefRows, resolutions, ledger>>

\* Long enough passes for every claim made so far to be old. Only the rules
\* of a volatile subject read ages, so it is left out for a stable one.
TimePasses ==
    /\ volatility = "volatile"
    /\ \E b \in Ingests : claim[b] # None /\ age[b] = "fresh"
    /\ age' = [b \in Ingests |-> IF claim[b] = None THEN age[b] ELSE "old"]
    /\ UNCHANGED <<subjectRow, status, superseded_by, claim, resolutions,
                   ledger, pc, locals, faults>>

\* The system of record moves on.
UpsertLedger(s) ==
    /\ ledger # s
    /\ ledger' = s
    /\ UNCHANGED <<subjectRow, beliefRows, resolutions, pc, locals, faults>>

-----------------------------------------------------------------------------
IngestStep(i) ==
    \/ OpenSubject(i) \/ UnknownSource(i)
    \/ InsertFirst(i) \/ RefreshCanonical(i) \/ InsertUnrelated(i)
    \/ InsertConflicting(i) \/ VerifyAgainstLedger(i)

PendingStep(p) ==
    \/ SkipPending(p) \/ AdoptVacantSubject(p) \/ MergePending(p)
    \/ JudgePending(p) \/ RereadOldSnapshot(p)

CommitStep(p) ==
    \/ Arbitrate(p) \/ PromoteFirst(p) \/ LoseFirst(p)
    \/ CommitResolution(p) \/ RaiseStale(p) \/ CommitContested(p)

Next ==
    \/ \E i \in Ingests : IngestStep(i)
    \/ \E w \in Workers, b \in Ingests : PickCandidate(w, b)
    \/ \E p \in Processes : PendingStep(p) \/ CommitStep(p)
    \/ \E p \in Processes : SerializationFailure(p) \/ Abort(p)
    \/ TimePasses
    \/ \E s \in LedgerStates : UpsertLedger(s)

Spec == Init /\ [][Next]_vars

-----------------------------------------------------------------------------
Statuses == {"absent", "candidate", "canonical", "contested", "superseded"}

Steps == Returned \cup {"start", "detect", "verify", "promote", "pending",
                        "reread", "arbitrate", "commit", "contest", "idle"}

Decisions ==
    [winner : Ingests \cup {None}, loser : Ingests \cup {None},
     method : {"rule", "ledger_verification", "llm"}, verdict : VALID_VERDICTS]

\* Every row and every local variable holds a value of its column or type.
TypeOK ==
    /\ version \in Nat
    /\ canonical_belief_id \in Ingests \cup {None}
    /\ volatility \in {"stable", "volatile"}
    /\ status \in [Ingests -> Statuses]
    /\ superseded_by \in [Ingests -> Ingests \cup {None}]
    /\ claim \in [Ingests -> Claims \cup {None}]
    /\ age \in [Ingests -> {"fresh", "old"}]
    /\ resolutions \in Seq(Decisions)
    /\ ledger \in LedgerStates \cup {None}
    /\ pc \in [Processes -> Steps]
    /\ target \in [Processes -> Ingests \cup {None}]
    /\ expected \in [Processes -> Nat]
    /\ existing \in [Processes -> Ingests \cup {None}]
    /\ decision \in [Processes -> Decisions]
    /\ attempt \in [Processes -> 1..MAX_RETRIES]
    /\ faults \in 0..MaxFaults

\* At most one belief of a subject is canonical, and it is the one the subject
\* row points to: search() and get_all(), which filter beliefs by status, agree
\* with as_of() and detection, which follow subjects.canonical_belief_id.
OneCanonical ==
    \A b \in Ingests : status[b] = "canonical" => canonical_belief_id = b

\* The belief a subject points to is canonical or, after an escalation,
\* contested: however many calls race, it is never one that was superseded,
\* nor a pending candidate the worker would have to resolve against itself.
AnswerIsStanding ==
    canonical_belief_id # None =>
        status[canonical_belief_id] \in {"canonical", "contested"}

\* Following superseded_by from any belief that lost or was merged ends, with
\* no circle, at the belief the subject points to: every retired claim is
\* accounted for by the answer that stands.
SupersessionEndsAtAnswer ==
    /\ \A S \in (SUBSET Ingests) \ {{}} : \E b \in S : superseded_by[b] \notin S
    /\ \A b \in Ingests :
        superseded_by[b] # None =>
            \/ superseded_by[b] = canonical_belief_id
            \/ superseded_by[superseded_by[b]] # None
    /\ \A b \in Ingests : status[b] = "superseded" => superseded_by[b] # None

\* A step that gives a version to a subject with an answer is audited.
DecisionIsAudited ==
    version' # version /\ canonical_belief_id # None =>
        LET row == resolutions'[Len(resolutions')]
        IN  /\ Len(resolutions') = Len(resolutions) + 1
            /\ row.winner = canonical_belief_id'
            /\ row.winner # row.loser
            /\ canonical_belief_id \in {row.winner, row.loser}

\* Once a subject has an answer, each new version comes with one resolutions
\* row, and that row pits the belief that was canonical at that very instant
\* against another: no decision made about an older answer takes effect.
EveryDecisionIsAudited == [][DecisionIsAudited]_vars

\* Only the ledger hands a subject over to a less authoritative source: by
\* rule or arbiter, the answer's authority tier never falls, in any
\* interleaving of calls that each compared against a different answer.
TierFallsOnlyToLedger ==
    [][canonical_belief_id # None =>
        \/ claim[canonical_belief_id'].tier >= claim[canonical_belief_id].tier
        \/ resolutions'[Len(resolutions')].method = "ledger_verification"]_vars

\* What the arbiter commits without a human is a refinement: rule 1 has settled
\* every conflict of unequal tiers before, and between equals nothing else
\* escapes escalation.
ArbiterCommitsOnlyRefinements ==
    [][LET row == resolutions'[Len(resolutions')]
       IN  /\ version' # version
           /\ resolutions' # resolutions
           /\ row.method = "llm"
           => row.verdict = "refinement"]_vars

\* An escalation that a human was asked about never ends unseen: it gives the
\* subject no new version, so a decision read before it may still close it, and
\* so may the next claim to arrive, but each leaves a resolutions row that names
\* the contested belief. No promotion, and no merging of a duplicate, picks up a
\* belief that another call escalated meanwhile.
EscalationEndsByDecision ==
    [][\A b \in Ingests :
        status[b] = "contested" /\ status'[b] # "contested" =>
            /\ Len(resolutions') = Len(resolutions) + 1
            /\ LET row == resolutions'[Len(resolutions')]
               IN  b \in {row.winner, row.loser}]_vars

\* A subject behaves as a versioned register: decisions are taken one at a
\* time, each against the answer of that moment, and a belief that was
\* superseded, by decision or by merging, is never the answer again nor
\* decided about again.
Register == INSTANCE AnswerRegister WITH
    Beliefs <- Ingests,
    answer  <- canonical_belief_id,
    retired <- {b \in Ingests : superseded_by[b] # None}

ImplementsRegister == Register!Spec

=============================================================================
