--------------------------------- MODULE Decay ---------------------------------
(***************************************************************************)
(* The decay job, run at any moment on the rows that calls, workers and    *)
(* consolidation are changing, and the beliefs that search() and get_all() *)
(* show.                                                                   *)
(***************************************************************************)
EXTENDS Consolidation

VARIABLE archived       \* the beliefs.archived column

decayVars == <<vars, archived>>

DecayInit == Init /\ archived = [b \in Ingests |-> FALSE]

\* Mutant: the status is not in the WHERE clause.
Expired_any_status(b) == status[b] # "absent"

Expired(b) == status[b] = "superseded"

\* apply_decay() archives the expired beliefs observed before its cutoff: a
\* claim may be any number of days old when the job runs.
apply_decay ==
    /\ \E aged \in SUBSET Ingests :
        archived' = [b \in Ingests |-> archived[b] \/ (Expired(b) /\ b \in aged)]
    /\ UNCHANGED vars

\* Every other statement leaves the column alone.
DecayNext == (ConsolidatedNext /\ UNCHANGED archived) \/ apply_decay

DecaySpec == DecayInit /\ [][DecayNext]_decayVars

-----------------------------------------------------------------------------
\* The rows that search() and get_all() return of the subject, before search()
\* orders and limits them.
Shown(include_superseded, include_archived) ==
    {b \in Ingests :
        /\ status[b] # "absent"
        /\ ~include_superseded => status[b] = "canonical"
        /\ include_superseded /\ ~include_archived => ~archived[b]}

\* as_of(): the belief the subject row points to.
AsOfCanonical == canonical_belief_id

\* Whatever search() and get_all() show by default is what as_of() calls
\* canonical, while decisions, escalations and both jobs change the rows.
ReadersAgree == Shown(FALSE, FALSE) \subseteq {AsOfCanonical}

\* Of a subject that has an answer, a belief that decay archived is settled:
\* no decision or merge that was in flight when it was archived makes it the
\* answer after all, where search() with superseded beliefs would not show it.
ArchivedIsSettled ==
    [][\A b \in Ingests :
        archived[b] /\ canonical_belief_id \notin {None, b} =>
            canonical_belief_id' # b]_decayVars
================================================================================
