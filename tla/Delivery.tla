------------------------------ MODULE Delivery ------------------------------
(***************************************************************************)
(* The RabbitMQ consumer (http-gateway/src/rabbitmq_consumer.rs) and the   *)
(* process_envelope stages a delivery passes through                       *)
(* (http-gateway/src/pipeline.rs), seen from the queue: when a message is  *)
(* answered, recorded, acknowledged or given up.                           *)
(*                                                                         *)
(* One consumer task reads one queue.  The broker keeps what it has        *)
(* delivered until it is settled, and puts it back in front of the queue   *)
(* when the connection is lost.                                            *)
(***************************************************************************)
EXTENDS Naturals, Sequences, FiniteSets, Functions

CONSTANTS
    Messages,
    None,        \* Option::None
    KindOf,      \* Messages -> Kinds: how far the message can get
    FaultKinds,  \* the calls that may fail
    MaxFaults, MaxLosses

(* malformed: not a canonical envelope; invalid: validate_envelope objects;
   unmatched: no playbook; matched: the full pipeline; unsliceable: byte 500
   of the text is inside a character. *)
Kinds == {"malformed", "invalid", "unmatched", "matched", "unsliceable"}

Stages == {"parse", "lookup", "engine", "act", "record", "respond", "settle"}

(* What the loop body knows of the delivery it works on. *)
Work == [msg : Messages, stage : Stages, result : {None, "ok", "error"}]

ASSUME DeliveryAssumption ==
    /\ KindOf \in [Messages -> Kinds]
    /\ FaultKinds \subseteq {"lookup", "engine", "record", "respond"}
    /\ MaxFaults \in Nat /\ MaxLosses \in Nat
    /\ None \notin Work \cup {"ok", "error"}

VARIABLES
    arrived,   \* history: the messages in the order they were published
    ready,     \* the queue
    unacked,   \* deliveries the broker waits to see settled
    link,      \* the consumer task and its connection
    inbox,     \* deliveries the client library holds for consumer.next()
    current,   \* the delivery the loop body works on, or None
    settled,   \* messages the broker is done with, and how
    answers,   \* what the response queue got for each message
    records,   \* the statuses record_intake stored for each message
    executed,  \* how often a message ran actions and metrics
    faults,    \* history: the calls that failed
    losses     \* lost connections and crashes

broker == <<arrived, ready, unacked, settled>>
effects == <<answers, records, executed>>
vars == <<broker, link, inbox, current, effects, faults, losses>>

Links == {"down", "up", "lost", "dead"}

Working(stage) == current # None /\ current.stage = stage
Kind == KindOf[current.msg]
GoTo(stage) == current' = [current EXCEPT !.stage = stage]

(* Faulty: the result of the pipeline is not kept. *)
EndsWithoutResult(result) == current' = [current EXCEPT !.stage = "respond"]

Ends(result) == current' = [current EXCEPT !.stage = "respond", !.result = result]

(* A call of this kind fails while the current delivery is being handled. *)
Fails(kind) == /\ kind \in FaultKinds
               /\ Cardinality(faults) < MaxFaults
               /\ faults' = faults \cup {<<kind, current.msg>>}

(* record_intake is an insert whose error is ignored. *)
RecordIntake(status) ==
    \/ /\ records' = [records EXCEPT ![current.msg] = @ \cup {status}]
       /\ UNCHANGED faults
    \/ Fails("record") /\ UNCHANGED records

Init ==
    /\ arrived = << >> /\ ready = << >> /\ unacked = << >> /\ settled = << >>
    /\ link = "down" /\ inbox = << >> /\ current = None
    /\ answers = [m \in Messages |-> {}]
    /\ records = [m \in Messages |-> {}]
    /\ executed = [m \in Messages |-> 0]
    /\ faults = {} /\ losses = 0

-----------------------------------------------------------------------------
(* The broker and the connection.                                          *)

Arrive(m) ==
    /\ m \notin Range(arrived)
    /\ arrived' = Append(arrived, m)
    /\ ready' = Append(ready, m)
    /\ UNCHANGED <<unacked, settled, link, inbox, current, effects, faults, losses>>

(* consume_loop connects, declares its queues and subscribes. *)
Connect ==
    /\ link = "down"
    /\ link' = "up"
    /\ UNCHANGED <<broker, inbox, current, effects, faults, losses>>

(* Faulty: subscribes with no_ack, so that a delivery settles itself. *)
DeliverNoAck ==
    /\ link = "up" /\ ready # << >>
    /\ ready' = Tail(ready)
    /\ settled' = Append(settled, [msg |-> Head(ready), how |-> "ack"])
    /\ inbox' = Append(inbox, Head(ready))
    /\ UNCHANGED <<arrived, unacked, link, current, effects, faults, losses>>

(* No prefetch limit: the broker may deliver the whole queue. *)
Deliver ==
    /\ link = "up" /\ ready # << >>
    /\ ready' = Tail(ready)
    /\ unacked' = Append(unacked, Head(ready))
    /\ inbox' = Append(inbox, Head(ready))
    /\ UNCHANGED <<arrived, settled, link, current, effects, faults, losses>>

Requeue == ready' = unacked \o ready /\ unacked' = << >>

Loss == losses < MaxLosses /\ losses' = losses + 1

(* The deliveries in the inbox stay there and can still be worked on. *)
LoseConnection ==
    /\ link = "up"
    /\ Loss
    /\ link' = "lost"
    /\ Requeue
    /\ UNCHANGED <<arrived, settled, inbox, current, effects, faults>>

(* Faulty: the task ends with its stream and never connects again. *)
StreamEndsForGood ==
    /\ link = "lost" /\ current = None /\ inbox # << >>
    /\ inbox' = << >>
    /\ UNCHANGED <<broker, link, current, effects, faults, losses>>

(* consumer.next() is None, now or after some of the stale deliveries:
   run_with_retry sleeps and calls consume_loop again. *)
StreamEnds ==
    /\ link = "lost" /\ current = None
    /\ link' = "down"
    /\ inbox' = << >>
    /\ UNCHANGED <<broker, current, effects, faults, losses>>

(* The process dies and is started again. *)
Crash ==
    /\ Loss
    /\ link' = "down"
    /\ inbox' = << >> /\ current' = None
    /\ Requeue
    /\ UNCHANGED <<arrived, settled, effects, faults>>

-----------------------------------------------------------------------------
(* The body of the loop.                                                   *)

CanTake == link \in {"up", "lost"} /\ current = None /\ inbox # << >>

Take ==
    /\ CanTake /\ KindOf[Head(inbox)] # "unsliceable"
    /\ current' = [msg |-> Head(inbox), stage |-> "parse", result |-> None]
    /\ inbox' = Tail(inbox)
    /\ UNCHANGED <<broker, link, effects, faults, losses>>

(* The log line slices the text in the middle of a character: the task panics,
   and with it go the connection and the retry loop. *)
TakePanics ==
    /\ CanTake /\ KindOf[Head(inbox)] = "unsliceable"
    /\ link' = "dead"
    /\ inbox' = << >>
    /\ Requeue
    /\ UNCHANGED <<arrived, settled, current, effects, faults, losses>>

(* Faulty: "continue" without the nack. *)
ParseFailsNoNack ==
    /\ Working("parse") /\ Kind = "malformed"
    /\ current' = None
    /\ UNCHANGED <<broker, link, inbox, effects, faults, losses>>

ParseFails ==
    /\ Working("parse") /\ Kind = "malformed"
    /\ Ends("error")
    /\ UNCHANGED <<broker, link, inbox, effects, faults, losses>>

Reject ==
    /\ Working("parse") /\ Kind = "invalid"
    /\ RecordIntake("validation_failed")
    /\ Ends("error")
    /\ UNCHANGED <<broker, link, inbox, answers, executed, losses>>

Accept ==
    /\ Working("parse") /\ Kind \in {"unmatched", "matched"}
    /\ GoTo("lookup")
    /\ UNCHANGED <<broker, link, inbox, effects, faults, losses>>

(* build_tadpole_from_store returns an error: "?" leaves at once. *)
LookupFails ==
    /\ Working("lookup")
    /\ Fails("lookup")
    /\ Ends("error")
    /\ UNCHANGED <<broker, link, inbox, effects, losses>>

NoMatch ==
    /\ Working("lookup") /\ Kind = "unmatched"
    /\ RecordIntake("success")
    /\ Ends("ok")
    /\ UNCHANGED <<broker, link, inbox, answers, executed, losses>>

Matched ==
    /\ Working("lookup") /\ Kind = "matched"
    /\ GoTo("engine")
    /\ UNCHANGED <<broker, link, inbox, effects, faults, losses>>

EngineAnswers ==
    /\ Working("engine")
    /\ GoTo("act")
    /\ UNCHANGED <<broker, link, inbox, effects, faults, losses>>

(* The mailbox of the dispatcher or the orchestrator is closed; the record of
   that is an insert whose error is ignored, too. *)
EngineFails ==
    /\ Working("engine")
    /\ Fails("engine")
    /\ \/ \E status \in {"dispatcher_failed", "orchestrator_failed"} :
             records' = [records EXCEPT ![current.msg] = @ \cup {status}]
       \/ "record" \in FaultKinds /\ UNCHANGED records
    /\ Ends("error")
    /\ UNCHANGED <<broker, link, inbox, answers, executed, losses>>

(* Actions, action feed and metrics: their errors are logged, never returned. *)
Act ==
    /\ Working("act")
    /\ executed' = [executed EXCEPT ![current.msg] = @ + 1]
    /\ GoTo("record")
    /\ UNCHANGED <<broker, link, inbox, answers, records, faults, losses>>

RecordSuccess ==
    /\ Working("record")
    /\ RecordIntake("success")
    /\ Ends("ok")
    /\ UNCHANGED <<broker, link, inbox, answers, executed, losses>>

(* The broker drops the delivery with this tag. *)
Forget ==
    \E i \in DOMAIN unacked :
        /\ unacked[i] = current.msg
        /\ unacked' = [k \in 1 .. Len(unacked) - 1 |-> unacked[IF k < i THEN k ELSE k + 1]]

Answered == answers' = [answers EXCEPT ![current.msg] = @ \cup {current.result}]

(* Faulty: a response that cannot be published puts the message back. *)
RespondOrRequeue ==
    /\ Working("respond")
    /\ IF link = "up"
       THEN \/ Answered /\ GoTo("settle") /\ UNCHANGED <<faults, ready, unacked>>
            \/ /\ Fails("respond")
               /\ ready' = <<current.msg>> \o ready
               /\ Forget
               /\ current' = None
               /\ UNCHANGED answers
       ELSE GoTo("settle") /\ UNCHANGED <<answers, faults, ready, unacked>>
    /\ UNCHANGED <<arrived, settled, link, inbox, records, executed, losses>>

(* publish_response; nothing is published on a lost connection. *)
Respond ==
    /\ Working("respond")
    /\ IF link = "up"
       THEN \/ Answered /\ UNCHANGED faults
            \/ Fails("respond") /\ UNCHANGED answers
       ELSE UNCHANGED <<answers, faults>>
    /\ GoTo("settle")
    /\ UNCHANGED <<broker, link, inbox, records, executed, losses>>

Verdict == IF current.result = "ok" THEN "ack" ELSE "nack"

(* Faulty: an error is nacked with requeue. *)
SettleRequeueing ==
    /\ Working("settle")
    /\ current' = None
    /\ IF link # "up" THEN UNCHANGED <<unacked, ready, settled>>
       ELSE /\ Forget
            /\ IF Verdict = "ack"
               THEN /\ settled' = Append(settled, [msg |-> current.msg, how |-> "ack"])
                    /\ UNCHANGED ready
               ELSE ready' = <<current.msg>> \o ready /\ UNCHANGED settled
    /\ UNCHANGED <<arrived, link, inbox, effects, faults, losses>>

(* ack, or nack without requeue: the broker forgets the delivery.  On a lost
   connection both fail, which is logged. *)
Settle ==
    /\ Working("settle")
    /\ current' = None
    /\ IF link = "up"
       THEN /\ Forget
            /\ settled' = Append(settled, [msg |-> current.msg, how |-> Verdict])
       ELSE UNCHANGED <<unacked, settled>>
    /\ UNCHANGED <<arrived, ready, link, inbox, effects, faults, losses>>

LoopBody ==
    \/ Take \/ TakePanics \/ ParseFails \/ Reject \/ Accept
    \/ LookupFails \/ NoMatch \/ Matched \/ EngineAnswers \/ EngineFails
    \/ Act \/ RecordSuccess \/ Respond \/ Settle

Next ==
    \/ \E m \in Messages : Arrive(m)
    \/ Connect \/ Deliver \/ LoseConnection \/ StreamEnds \/ Crash
    \/ LoopBody

Spec == Init /\ [][Next]_vars

(* The broker accepts the connection some time and delivers; the runtime polls
   the task, whose calls end or fail; a lost connection is noticed. *)
FairSpec ==
    /\ Spec
    /\ WF_vars(Connect) /\ WF_vars(Deliver) /\ WF_vars(StreamEnds)
    /\ WF_vars(LoopBody)

-----------------------------------------------------------------------------
(* Properties.                                                             *)

(* Types; a delivery that is answered or settled has a result. *)
TypeOK ==
    /\ arrived \in Seq(Messages) /\ ready \in Seq(Messages)
    /\ unacked \in Seq(Messages) /\ inbox \in Seq(Messages)
    /\ link \in Links
    /\ current \in Work \cup {None}
    /\ settled \in Seq([msg : Messages, how : {"ack", "nack"}])
    /\ answers \in [Messages -> SUBSET {"ok", "error"}]
    /\ records \in [Messages -> SUBSET {"success", "validation_failed",
                                        "dispatcher_failed", "orchestrator_failed"}]
    /\ executed \in [Messages -> Nat]
    /\ faults \subseteq FaultKinds \X Messages
    /\ losses \in Nat
    /\ current # None =>
          (current.stage \in {"respond", "settle"} <=> current.result # None)

SettledAs(m, how) == \E i \in DOMAIN settled : settled[i] = [msg |-> m, how |-> how]
Settled(m) == \E i \in DOMAIN settled : settled[i].msg = m

InHand == (IF current = None THEN << >> ELSE <<current.msg>>) \o inbox

MessagesOf(s) == [i \in DOMAIN s |-> s[i].msg]

(* Every message has one keeper: what has arrived is, in this order, settled,
   outstanding or still in the queue, and on a live connection what the broker
   takes for outstanding is exactly what the loop still holds.  No path through
   the loop body leaves a delivery without its ack or nack. *)
EveryDeliveryIsHeld ==
    /\ arrived = MessagesOf(settled) \o unacked \o ready
    /\ unacked = IF link = "up" THEN InHand ELSE << >>

Queue == INSTANCE WorkQueue WITH
    Work <- {m \in Messages : KindOf[m] = "matched"},
    backlog <- unacked \o ready

(* Seen from outside the consumer is a queue that is worked off in order:
   through lost connections, redeliveries and errors no message overtakes
   another, none is settled twice, and none that matches is acked without its
   actions and metrics. *)
ImplementsWorkQueue == Queue!Spec

FailedOn(kinds, m) == \E k \in kinds : <<k, m>> \in faults

(* A message is acked only after the pipeline succeeded on it, with its intake
   record stored and its response published, and given up only for an error of
   its own; the calls whose errors the code ignores are the only exceptions. *)
SettledMeansHandled ==
    \A m \in Messages :
        /\ SettledAs(m, "ack") =>
              /\ "success" \in records[m] \/ FailedOn({"record"}, m)
              /\ "ok" \in answers[m] \/ FailedOn({"respond"}, m)
              /\ KindOf[m] = "matched" => executed[m] > 0
        /\ SettledAs(m, "nack") =>
              /\ "error" \in answers[m] \/ FailedOn({"respond"}, m)
              /\ KindOf[m] \in {"malformed", "invalid"} \/ FailedOn({"lookup", "engine"}, m)

(* Actions and metrics run again for a message only after a lost connection or
   a crash: never because a response, a record or an ack failed. *)
RepeatedOnlyAfterLoss == \A m \in Messages : executed[m] <= 1 + losses

(* Time and again everything that has arrived is settled, whatever calls fail
   and whatever connections are lost on the way (as long as losses stop), unless
   the task has panicked. *)
EverythingSettles ==
    []<>((\A m \in Range(arrived) : Settled(m)) \/ link = "dead")

(* "Publishes a response envelope for every message (success or error)": a
   message that has arrived is answered some time. *)
EveryMessageIsAnswered ==
    \A m \in Messages : m \in Range(arrived) ~> answers[m] # {}

=============================================================================
