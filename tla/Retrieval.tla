------------------------------- MODULE Retrieval -------------------------------
(***************************************************************************)
(* What the client API reads from the rows of ConflictResolution: which    *)
(* beliefs get_all() and search() return, which one as_of() calls          *)
(* canonical, and by which resolutions row history() explains a belief.    *)
(***************************************************************************)
EXTENDS ConflictResolution

LOCAL INSTANCE SequencesExt

Names(row, b) == b \in {row.winner, row.loser}

\* The rows of the resolutions table that history() and as_of() look through
\* for belief b; rows of an arbiter without a winner name nobody.
RowsOf(b) == {n \in DOMAIN resolutions : Names(resolutions[n], b)}

\* history(): the oldest row that names the belief; 0 if there is none.
ExplainingRow(b) == SelectInSeq(resolutions, LAMBDA row : Names(row, b))

-----------------------------------------------------------------------------
\* The newest row that names the belief, which no reader looks for.
LatestRow(b) == CHOOSE n \in RowsOf(b) : \A m \in RowsOf(b) : m <= n

\* A belief that lost a decision is explained by the newest row that names it:
\* it is the loser there, to the belief it is superseded by. Escalations and
\* late decisions of other calls write rows too, but after the last of them a
\* belief that is superseded has lost in that very row.
LatestRowExplainsFate ==
    \A b \in Ingests :
        status[b] = "superseded" /\ RowsOf(b) # {} =>
            LET row == resolutions[LatestRow(b)]
            IN  row.loser = b /\ row.winner = superseded_by[b]
================================================================================
