----------------------------- MODULE WorkQueue ------------------------------
(***************************************************************************)
(* What consuming a queue promises: messages are settled one by one in the *)
(* order of their arrival.  One that waits may be worked on any number of  *)
(* times, and one that is work is acknowledged only after it has been      *)
(* worked on.                                                              *)
(***************************************************************************)
EXTENDS Naturals, Sequences

CONSTANTS Messages, Work

VARIABLES
    backlog,   \* the messages that are not settled, in the order of arrival
    settled,   \* the settled ones in that order, each with its verdict
    executed   \* how often each message has been worked on

vars == <<backlog, settled, executed>>

Waits(m) == \E i \in DOMAIN backlog : backlog[i] = m

Init ==
    /\ backlog = << >> /\ settled = << >>
    /\ executed = [m \in Messages |-> 0]

Arrive(m) ==
    /\ ~Waits(m)
    /\ \A i \in DOMAIN settled : settled[i].msg # m
    /\ backlog' = Append(backlog, m)
    /\ UNCHANGED <<settled, executed>>

WorkOn(m) ==
    /\ Waits(m) /\ m \in Work
    /\ executed' = [executed EXCEPT ![m] = @ + 1]
    /\ UNCHANGED <<backlog, settled>>

Settle(how) ==
    /\ backlog # << >>
    /\ (how = "ack" /\ Head(backlog) \in Work) => executed[Head(backlog)] > 0
    /\ settled' = Append(settled, [msg |-> Head(backlog), how |-> how])
    /\ backlog' = Tail(backlog)
    /\ UNCHANGED executed

Next ==
    \/ \E m \in Messages : Arrive(m) \/ WorkOn(m)
    \/ \E how \in {"ack", "nack"} : Settle(how)

Spec == Init /\ [][Next]_vars

=============================================================================
