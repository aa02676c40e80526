--------------------------- MODULE DocumentedClaims ---------------------------
(***************************************************************************)
(* What the repository's comments and docstrings say of ConflictResolution *)
(* and the code does not do: each property has a counterexample.           *)
(***************************************************************************)
EXTENDS Retrieval

\* concurrency_test.py says commit_contested() cannot cause a lost update:
\* then a belief that a committed decision superseded stays superseded.
EscalationUndoesNoDecision ==
    [][\A b \in Ingests :
        status[b] = "superseded" => status'[b] = "superseded"]_vars

\* resolve_pending_candidate says that a call which lost the race re-reads the
\* real current canonical and goes on to resolve the conflict with it.
LostRaceFallsThrough ==
    [][\A p \in Processes :
        pc[p] = "reread" /\ pc'[p] # "reread" =>
            \/ pc'[p] \in {"arbitrate", "commit"}
            \/ status'[target[p]] # "candidate"
            \/ Detection(target[p]) = "no_conflict"]_vars

\* history()'s docstring says each belief is annotated with the resolution that
\* decided its fate: a superseded one with the row in which it lost.
HistoryExplainsFate ==
    \A b \in Ingests :
        status[b] = "superseded" /\ RowsOf(b) # {} =>
            LET row == resolutions[ExplainingRow(b)]
            IN  row.loser = b /\ row.winner = superseded_by[b]
=============================================================================
