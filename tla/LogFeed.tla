------------------------------ MODULE LogFeed -------------------------------
(***************************************************************************)
(* What shipping log lines to Seq promises: a line that has been logged is *)
(* stored once or lost, never stored twice, and is stored together with at *)
(* most BatchSize - 1 others.                                              *)
(***************************************************************************)
EXTENDS Naturals, Sequences, Functions

CONSTANTS Lines, BatchSize

VARIABLES
    pending,  \* lines that may still be stored
    stored,   \* what Seq holds, in the order it took it in
    lost      \* lines that will never be stored

Init == pending = {} /\ stored = << >> /\ lost = {}

Log(l) ==
    /\ l \notin pending \cup Range(stored) \cup lost
    /\ pending' = pending \cup {l}
    /\ UNCHANGED <<stored, lost>>

Store ==
    \E n \in 1..BatchSize : \E batch \in [1..n -> pending] :
        /\ IsInjective(batch)
        /\ stored' = stored \o batch
        /\ pending' = pending \ Range(batch)
        /\ UNCHANGED lost

Lose ==
    \E gone \in SUBSET pending :
        /\ lost' = lost \cup gone
        /\ pending' = pending \ gone
        /\ UNCHANGED stored

Next == (\E l \in Lines : Log(l)) \/ Store \/ Lose

Spec == Init /\ [][Next]_<<pending, stored, lost>>

=============================================================================
