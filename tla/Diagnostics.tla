----------------------------- MODULE Diagnostics ----------------------------
(***************************************************************************)
(* The diagnostics actor                                                   *)
(* (engine-core/src/actors/diagnostics/diagnostics.rs): the executions of  *)
(* process_envelope tell it what they evaluated and where they failed; it  *)
(* keeps the latest evaluations and counts the errors, in memory.          *)
(***************************************************************************)
EXTENDS Naturals, Sequences

CONSTANTS
    Runs,         \* executions of process_envelope
    ErrorKinds,
    Capacity      \* recent_capacity, 50 in the code

VARIABLES
    mailbox,         \* messages sent with do_send, oldest first
    recent,          \* the latest evaluations, newest first
    error_counters

Init ==
    /\ mailbox = << >>
    /\ recent = << >>
    /\ error_counters = [kind \in ErrorKinds |-> 0]

(* RecordEvaluation and RecordError, and the run they are about. *)
Mail == [kind : {"evaluation"} \cup ErrorKinds, about : Runs]

(* do_send ignores the limit of the mailbox. *)
DoSend(mail) ==
    /\ mailbox' = Append(mailbox, mail)
    /\ UNCHANGED <<recent, error_counters>>

PushFront(run) == <<run>> \o recent

(* Faulty: evicts before the push. *)
KeptEvictingFirst(run) ==
    <<run>> \o SubSeq(recent, 1, IF Len(recent) > Capacity THEN Capacity ELSE Len(recent))

(* Faulty: evicts at the front. *)
KeptOldest(run) ==
    LET pushed == PushFront(run)
    IN IF Len(pushed) > Capacity THEN Tail(pushed) ELSE pushed

(* The entries that push_front and pop_back leave. *)
Kept(run) ==
    LET pushed == PushFront(run)
    IN SubSeq(pushed, 1, IF Len(pushed) > Capacity THEN Capacity ELSE Len(pushed))

(* The handlers of RecordEvaluation and RecordError. *)
Handle ==
    /\ mailbox # << >>
    /\ LET mail == Head(mailbox) IN
       IF mail.kind = "evaluation"
       THEN recent' = Kept(mail.about) /\ UNCHANGED error_counters
       ELSE /\ error_counters' = [error_counters EXCEPT ![mail.kind] = @ + 1]
            /\ UNCHANGED recent
    /\ mailbox' = Tail(mailbox)

(* Nothing of this is stored. *)
Restart ==
    /\ mailbox' = << >> /\ recent' = << >>
    /\ error_counters' = [kind \in ErrorKinds |-> 0]

(* The window never holds more than its capacity. *)
TypeOK ==
    /\ mailbox \in Seq(Mail)
    /\ recent \in Seq(Runs) /\ Len(recent) <= Capacity
    /\ error_counters \in [ErrorKinds -> Nat]

=============================================================================
