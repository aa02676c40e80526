----------------------------- MODULE Consolidation -----------------------------
(***************************************************************************)
(* The consolidation job, run at any moment on the subject that ingest()   *)
(* calls and workers are deciding about: it sweeps the pending candidates  *)
(* in one transaction and merges those that repeat the answer.             *)
(***************************************************************************)
EXTENDS ConflictResolution

Seqs == INSTANCE SequencesExt

CONSTANT TextLength     \* characters of each text

ASSUME LengthAssumption == TextLength \in [Texts -> Nat]

Candidates == {b \in Ingests : status[b] = "candidate"}

AreDuplicates(b, c) ==
    classify_similarity(Similarity[<<claim[b].text, claim[c].text>>]) = "duplicate"

\* Whether candidate a is longer than belief b or, at equal length, observed
\* later; ages decide that unless they are equal, then newer says.
more_complete(a, b, newer) ==
    LET la == TextLength[claim[a].text]
        lb == TextLength[claim[b].text]
    IN  IF la # lb THEN la > lb
        ELSE IF age[a] # age[b] THEN age[a] = "fresh"
        ELSE a \in newer

\* The locals and rows of the sweep so far.
Retire(sweep, loser, winner) ==
    [sweep EXCEPT !.status[loser] = "superseded",
                  !.superseded_by[loser] = winner]

\* One round of the loop: candidate c against the survivor.
Round(sweep, c, newer) ==
    LET s == sweep.survivor
    IN  IF s = None THEN [sweep EXCEPT !.survivor = c]
        ELSE IF ~AreDuplicates(c, s) THEN sweep
        ELSE IF more_complete(c, s, newer)
        THEN [Retire(sweep, s, c) EXCEPT !.survivor = c, !.promoted = TRUE]
        ELSE Retire(sweep, c, s)

BeforeSweep ==
    [survivor |-> canonical_belief_id, promoted |-> FALSE,
     status |-> status, superseded_by |-> superseded_by]

\* The sweep after each of its rounds, one for each row.
Rounds(rows, newer) ==
    LET after[n \in 0..Len(rows)] ==
            IF n = 0 THEN BeforeSweep ELSE Round(after[n - 1], rows[n], newer)
    IN  after

\* The whole sweep, the candidates taken in the order the database returns.
Sweep(rows, newer) == Rounds(rows, newer)[Len(rows)]

\* Mutant: a new answer does not give the subject a new version.
ConsolidatedVersion_kept(sweep) == version

ConsolidatedVersion(sweep) == IF sweep.promoted THEN version + 1 ELSE version

\* Mutant: the subject keeps pointing to the belief that was merged away.
ConsolidatedAnswer_kept(sweep) == canonical_belief_id

ConsolidatedAnswer(sweep) ==
    IF sweep.promoted THEN sweep.survivor ELSE canonical_belief_id

\* consolidate_subject() reads, merges and promotes in one transaction; no
\* resolutions row is written and no authority tier is compared.
Consolidate ==
    /\ version # 0
    /\ \E rows \in Seqs!SetToSeqs(Candidates), newer \in SUBSET Candidates :
        LET sweep == Sweep(rows, newer)
        IN  /\ version' = ConsolidatedVersion(sweep)
            /\ canonical_belief_id' = ConsolidatedAnswer(sweep)
            /\ status' = IF sweep.promoted
                         THEN [sweep.status EXCEPT ![sweep.survivor] = "canonical"]
                         ELSE sweep.status
            /\ superseded_by' = sweep.superseded_by
    /\ UNCHANGED <<volatility, claim, age, resolutions, ledger, pc, locals, faults>>

ConsolidatedNext == Next \/ Consolidate

ConsolidatedSpec == Init /\ [][ConsolidatedNext]_vars

-----------------------------------------------------------------------------
\* Consolidation, which checks no version, leaves the version check of the
\* decisions sound: one that takes effect is still about the answer of that
\* instant, and never about a belief consolidation has merged away since.
DecisionsAreAboutTheAnswer ==
    [][version' # version /\ resolutions' # resolutions =>
        LET row == resolutions'[Len(resolutions')]
        IN  canonical_belief_id \in {row.winner, row.loser}]_vars

\* consolidation.py's docstring: of two duplicates one is marked superseded,
\* and the survivor promoted to canonical if it was not canonical already.
SurvivorIsPromoted ==
    [][\A b \in Ingests :
        status[b] = "candidate" /\ status'[b] = "superseded" =>
            canonical_belief_id' # None]_vars
=============================================================================
