---------------------------- MODULE AnswerRegister ----------------------------
(***************************************************************************)
(* What the store promises about one subject, with no processes and no     *)
(* races: a versioned register that holds the standing answer.  Every      *)
(* decision is taken against the answer of that moment, moves the version  *)
(* by one and retires one belief for good.                                 *)
(***************************************************************************)
EXTENDS Integers

CONSTANTS Beliefs, None

VARIABLES version, answer, retired

vars == <<version, answer, retired>>

Init == version = 0 /\ answer = None /\ retired = {}

Open == version = 0 /\ version' = 1 /\ UNCHANGED <<answer, retired>>

Challengers == Beliefs \ (retired \cup {answer})

First(b) ==
    /\ version = 1 /\ answer = None
    /\ version' = 2 /\ answer' = b
    /\ UNCHANGED retired

Overturn(b) ==
    /\ answer # None
    /\ version' = version + 1 /\ answer' = b
    /\ retired' = retired \cup {answer}

Uphold(b) ==
    /\ answer # None
    /\ version' = version + 1
    /\ retired' = retired \cup {b}
    /\ UNCHANGED answer

\* A duplicate of the answer is folded into it: no decision, no version.
Merge(b) ==
    /\ answer # None
    /\ retired' = retired \cup {b}
    /\ UNCHANGED <<version, answer>>

Next ==
    \/ Open
    \/ \E b \in Challengers : First(b) \/ Overturn(b) \/ Uphold(b) \/ Merge(b)

Spec == Init /\ [][Next]_vars
=============================================================================
