--------------------------- MODULE DeliveryProofs ---------------------------
(***************************************************************************)
(* Proofs about Delivery, for any messages, kinds, faults and losses.      *)
(***************************************************************************)
EXTENDS Delivery, SequenceFacts, TLAPS

(* What the loop body may do to the delivery it works on. *)
LEMMA StaysWork ==
    ASSUME current \in Work, current # None, NEW stage \in Stages,
           NEW result \in {None, "ok", "error"}
    PROVE  /\ GoTo(stage) => /\ current' \in Work /\ current' # None
                             /\ current'.msg = current.msg /\ current'.stage = stage
                             /\ current'.result = current.result
           /\ current' = [current EXCEPT !.stage = stage, !.result = result] =>
                 /\ current' \in Work /\ current' # None
                 /\ current'.msg = current.msg /\ current'.stage = stage
                 /\ current'.result = result
  BY DeliveryAssumption DEF Work, GoTo

LEMMA ForgetType ==
    ASSUME unacked \in Seq(Messages), Forget
    PROVE  unacked' \in Seq(Messages)
  <1>1. PICK i \in DOMAIN unacked :
            unacked' = [k \in 1 .. Len(unacked) - 1 |-> unacked[IF k < i THEN k ELSE k + 1]]
    BY DEF Forget
  <1>2. /\ DOMAIN unacked = 1 .. Len(unacked) /\ Len(unacked) \in Nat
        /\ \A k \in 1 .. Len(unacked) : unacked[k] \in Messages
    BY LenProperties
  <1>3. Len(unacked) - 1 \in Nat
    BY <1>2
  <1>4. \A k \in 1 .. Len(unacked) - 1 :
            unacked[IF k < i THEN k ELSE k + 1] \in Messages
    BY <1>2
  <1> QED
    BY <1>1, <1>3, <1>4

LEMMA InitType == Init => TypeOK
  BY DeliveryAssumption DEF Init, TypeOK, Links

LEMMA RecordIntakeType ==
    ASSUME TypeOK, current # None,
           NEW status \in {"success", "validation_failed", "dispatcher_failed",
                           "orchestrator_failed"},
           RecordIntake(status)
    PROVE  /\ records' \in [Messages -> SUBSET {"success", "validation_failed",
                                         "dispatcher_failed", "orchestrator_failed"}]
           /\ faults' \subseteq FaultKinds \X Messages
           /\ faults \subseteq faults'
           /\ \A m \in Messages : records[m] \subseteq records'[m]
           /\ status \in records'[current.msg] \/ <<"record", current.msg>> \in faults'
  <1>0. current.msg \in Messages /\ faults \subseteq FaultKinds \X Messages
    BY DEF TypeOK, Work
  <1>1. records \in [Messages -> SUBSET {"success", "validation_failed",
                                         "dispatcher_failed", "orchestrator_failed"}]
    BY DEF TypeOK
  <1>2. CASE Fails("record") /\ UNCHANGED records
    <2>1. faults' = faults \cup {<<"record", current.msg>>} /\ "record" \in FaultKinds
      BY <1>2 DEF Fails
    <2> QED
      BY <1>0, <1>1, <1>2, <2>1
  <1>3. CASE records' = [records EXCEPT ![current.msg] = @ \cup {status}] /\ UNCHANGED faults
    BY <1>0, <1>1, <1>3
  <1> QED
    BY <1>2, <1>3 DEF RecordIntake

(* The actions of the loop body between taking a delivery and settling it. *)
Between ==
    \/ ParseFails \/ Reject \/ Accept \/ LookupFails \/ NoMatch \/ Matched
    \/ EngineAnswers \/ EngineFails \/ Act \/ RecordSuccess \/ Respond

Handles ==
    /\ current # None /\ current' # None /\ current'.msg = current.msg
    /\ UNCHANGED <<arrived, ready, unacked, settled, link, inbox, losses>>

(* They keep the delivery and leave the broker alone. *)
LEMMA BetweenHandles == TypeOK /\ Between => Handles /\ TypeOK'
  <1> SUFFICES ASSUME TypeOK, Between PROVE Handles /\ TypeOK'
    OBVIOUS
  <1> USE DEF TypeOK
  <1>0. ASSUME UNCHANGED <<broker, link, inbox, losses>>, current # None,
               executed' \in [Messages -> Nat],
               faults' \subseteq FaultKinds \X Messages,
               answers' \in [Messages -> SUBSET {"ok", "error"}],
               records' \in [Messages -> SUBSET {"success", "validation_failed",
                                            "dispatcher_failed", "orchestrator_failed"}],
               \/ \E stage \in {"lookup", "engine", "act", "record"} :
                     GoTo(stage) /\ current.result = None
               \/ \E result \in {"ok", "error"} : Ends(result)
               \/ GoTo("settle") /\ current.result # None
        PROVE  Handles /\ TypeOK'
    <2>1. current \in Work
      BY <1>0
    <2>2. /\ current' \in Work /\ current' # None /\ current'.msg = current.msg
          /\ current'.stage \in {"respond", "settle"} <=> current'.result # None
      <3>1. CASE \E stage \in {"lookup", "engine", "act", "record"} :
                    GoTo(stage) /\ current.result = None
        BY <1>0, <2>1, <3>1, StaysWork DEF Stages
      <3>2. CASE \E result \in {"ok", "error"} : Ends(result)
        <4>1. PICK result \in {"ok", "error"} : Ends(result)
          BY <3>2
        <4>2. None \notin {"ok", "error"}
          BY DeliveryAssumption
        <4> QED
          BY <1>0, <2>1, <4>1, <4>2, StaysWork DEF Stages, Ends
      <3>3. CASE GoTo("settle") /\ current.result # None
        BY <1>0, <2>1, <3>3, StaysWork DEF Stages
      <3> QED
        BY <1>0, <3>1, <3>2, <3>3
    <2> QED
      BY <1>0, <2>2 DEF broker, Handles
  <1>e. \A kind \in FaultKinds : Fails(kind) /\ current # None =>
            faults' \subseteq FaultKinds \X Messages
    BY DEF Fails, Work
  <1>k. \A kind : Fails(kind) => kind \in FaultKinds
    BY DEF Fails
  <1>1. CASE ParseFails
    BY <1>0, <1>1 DEF ParseFails, Working, effects
  <1>2. CASE Reject
    BY <1>0, <1>2, RecordIntakeType DEF Reject, Working
  <1>3. CASE Accept
    BY <1>0, <1>3 DEF Accept, Working, effects
  <1>4. CASE LookupFails
    BY <1>0, <1>4, <1>e, <1>k DEF LookupFails, Working, effects
  <1>5. CASE NoMatch
    BY <1>0, <1>5, RecordIntakeType DEF NoMatch, Working
  <1>6. CASE Matched
    BY <1>0, <1>6 DEF Matched, Working, effects
  <1>7. CASE EngineAnswers
    BY <1>0, <1>7 DEF EngineAnswers, Working, effects
  <1>8. CASE EngineFails
    <2>1. records' \in [Messages -> SUBSET {"success", "validation_failed",
                                         "dispatcher_failed", "orchestrator_failed"}]
      <3>1. CASE UNCHANGED records
        BY <3>1
      <3>2. ASSUME NEW status \in {"dispatcher_failed", "orchestrator_failed"},
                   records' = [records EXCEPT ![current.msg] = @ \cup {status}]
            PROVE  records' \in [Messages -> SUBSET {"success", "validation_failed",
                                         "dispatcher_failed", "orchestrator_failed"}]
        BY <3>2
      <3> QED
        BY <1>8, <3>1, <3>2 DEF EngineFails
    <2> QED
      BY <1>0, <1>8, <1>e, <1>k, <2>1 DEF EngineFails, Working
  <1>9. CASE Act
    <2>1. current.msg \in Messages
      BY <1>9 DEF Act, Working, Work
    <2>2. executed' \in [Messages -> Nat]
      BY <1>9, <2>1 DEF Act
    <2> QED
      BY <1>0, <1>9, <2>2 DEF Act, Working
  <1>10. CASE RecordSuccess
    BY <1>0, <1>10, RecordIntakeType DEF RecordSuccess, Working
  <1>11. CASE Respond
    <2>1. current \in Work /\ current.result \in {"ok", "error"}
      BY <1>11 DEF Respond, Working, Work
    <2>2. answers' \in [Messages -> SUBSET {"ok", "error"}]
      <3>1. current.msg \in Messages
        BY <2>1 DEF Work
      <3>2. CASE Answered
        BY <2>1, <3>1, <3>2 DEF Answered
      <3>3. CASE UNCHANGED answers
        BY <3>3
      <3> QED
        BY <1>11, <3>2, <3>3 DEF Respond
    <2>3. faults' \subseteq FaultKinds \X Messages
      BY <1>11, <1>e, <1>k DEF Respond, Working
    <2>4. UNCHANGED <<broker, link, inbox, losses>> /\ executed' = executed /\ records' = records
      BY <1>11 DEF Respond
    <2> QED
      BY <1>0, <1>11, <2>2, <2>3, <2>4 DEF Respond, Working
  <1> QED
    BY <1>1, <1>2, <1>3, <1>4, <1>5, <1>6, <1>7, <1>8, <1>9, <1>10, <1>11 DEF Between

LEMMA StepType == TypeOK /\ [Next]_vars => TypeOK'
  <1> SUFFICES ASSUME TypeOK, [Next]_vars PROVE TypeOK'
    OBVIOUS
  <1> USE DEF TypeOK, Links
  <1>h. \A s \in Seq(Messages) : s # << >> => Head(s) \in Messages /\ Tail(s) \in Seq(Messages)
    BY HeadTailProperties
  <1>1. ASSUME NEW m \in Messages, Arrive(m) PROVE TypeOK'
    BY <1>1 DEF Arrive, effects
  <1>2. CASE Connect
    BY <1>2 DEF Connect, broker, effects
  <1>3. CASE Deliver
    BY <1>3, <1>h DEF Deliver, effects
  <1>4. CASE LoseConnection
    BY <1>4 DEF LoseConnection, Requeue, Loss, effects
  <1>5. CASE StreamEnds
    BY <1>5 DEF StreamEnds, broker, effects
  <1>6. CASE Crash
    BY <1>6 DEF Crash, Requeue, Loss, effects
  <1>7. CASE Take
    <2>1. current' \in Work
      BY <1>7, <1>h DEF Take, CanTake, Work, Stages
    <2>2. current'.stage = "parse" /\ current'.result = None
      BY <1>7 DEF Take
    <2> QED
      BY <1>7, <1>h, <2>1, <2>2, DeliveryAssumption DEF Take, CanTake, broker, effects
  <1>8. CASE TakePanics
    BY <1>8 DEF TakePanics, Requeue, effects
  <1>9. CASE Between
    BY <1>9, BetweenHandles
  <1>10. CASE Settle
    <2>1. unacked' \in Seq(Messages)
      BY <1>10, ForgetType DEF Settle
    <2>2. [msg |-> current.msg, how |-> Verdict] \in [msg : Messages, how : {"ack", "nack"}]
      BY <1>10 DEF Settle, Working, Work, Verdict
    <2>3. settled' \in Seq([msg : Messages, how : {"ack", "nack"}])
      <3>1. CASE link = "up"
        <4>1. settled' = Append(settled, [msg |-> current.msg, how |-> Verdict])
          BY <1>10, <3>1 DEF Settle
        <4> DEFINE S == [msg : Messages, how : {"ack", "nack"}]
        <4>2. \A x \in S : Append(settled, x) \in Seq(S)
          BY ONLY settled \in Seq(S)
        <4> QED
          BY <2>2, <4>1, <4>2
      <3>2. CASE link # "up"
        BY <1>10, <3>2 DEF Settle
      <3> QED
        BY <3>1, <3>2
    <2> QED
      BY <1>10, <2>1, <2>3 DEF Settle, effects
  <1>11. CASE UNCHANGED vars
    BY <1>11 DEF vars, broker, effects
  <1> QED
    BY <1>1, <1>2, <1>3, <1>4, <1>5, <1>6, <1>7, <1>8, <1>9, <1>10, <1>11
    DEF Next, LoopBody, Between

(* TypeOK: among others, a delivery has a result exactly from the end of the
   pipeline on. *)
THEOREM DeliveryTypeCorrect == Spec => []TypeOK
  BY InitType, StepType, PTL DEF Spec

-----------------------------------------------------------------------------
(* Where messages are.                                                      *)

HeldInv ==
    /\ EveryDeliveryIsHeld
    /\ IsInjective(arrived)
    /\ IsInjective(InHand)
    /\ link \in {"down", "dead"} => current = None /\ inbox = << >>
    /\ link = "lost" => Range(InHand) \subseteq Range(ready)

(* A segment of a sequence without repetition has none. *)
LEMMA SegmentIsInjective ==
    ASSUME NEW S, NEW a \in Seq(S), NEW b \in Seq(S), NEW c \in Seq(S),
           IsInjective((a \o b) \o c)
    PROVE  IsInjective(b)
  <1> DEFINE s == (a \o b) \o c
  <1>1. /\ Len(a) \in Nat /\ Len(b) \in Nat /\ Len(c) \in Nat
        /\ DOMAIN b = 1 .. Len(b)
        /\ DOMAIN s = 1 .. Len(a) + Len(b) + Len(c)
    OBVIOUS
  <1>2. \A k \in 1 .. Len(b) : Len(a) + k \in DOMAIN s /\ s[Len(a) + k] = b[k]
    BY <1>1
  <1> HIDE DEF s
  <1>3. ASSUME NEW i \in 1 .. Len(b), NEW j \in 1 .. Len(b), b[i] = b[j]
        PROVE  i = j
    <2>1. s[Len(a) + i] = s[Len(a) + j]
      BY <1>2, <1>3
    <2>2. Len(a) + i = Len(a) + j
      BY <1>2, <2>1 DEF IsInjective, s
    <2> QED
      BY <1>1, <2>2
  <1> QED
    BY <1>1, <1>3 DEF IsInjective

LEMMA MessagesOfType ==
    ASSUME TypeOK
    PROVE  /\ MessagesOf(settled) \in Seq(Messages)
           /\ InHand \in Seq(Messages)
           /\ current = None => InHand = inbox
           /\ current # None => InHand = <<current.msg>> \o inbox
  <1>1. current # None => current.msg \in Messages
    BY DEF TypeOK, Work
  <1>2. inbox \in Seq(Messages)
    BY DEF TypeOK
  <1>3. << >> \o inbox = inbox
    BY <1>2, ConcatEmptySeq
  <1>4. MessagesOf(settled) \in Seq(Messages)
    <2>1. /\ DOMAIN settled = 1 .. Len(settled) /\ Len(settled) \in Nat
          /\ \A i \in 1 .. Len(settled) :
                settled[i] \in [msg : Messages, how : {"ack", "nack"}]
      <3> DEFINE S == [msg : Messages, how : {"ack", "nack"}]
      <3>1. settled \in Seq(S)
        BY DEF TypeOK
      <3> HIDE DEF S
      <3>2. /\ DOMAIN settled = 1 .. Len(settled) /\ Len(settled) \in Nat
            /\ \A i \in 1 .. Len(settled) : settled[i] \in S
        BY <3>1
      <3> QED
        BY <3>2 DEF S
    <2> QED
      BY <2>1 DEF MessagesOf
  <1> QED
    BY <1>1, <1>2, <1>3, <1>4 DEF InHand

LEMMA InitHeld == Init => HeldInv
  <1> SUFFICES ASSUME Init PROVE HeldInv
    OBVIOUS
  <1>1. MessagesOf(settled) = << >>
    BY DEF Init, MessagesOf
  <1>2. << >> \o << >> = << >>
    OBVIOUS
  <1>3. InHand = << >>
    BY <1>2 DEF Init, InHand
  <1> QED
    BY <1>1, <1>2, <1>3, EmptyRange DEF Init, HeldInv, EveryDeliveryIsHeld

LEMMA JoinedEitherWay ==
    \A a, b, c \in Seq(Messages) : (a \o b) \o c = a \o (b \o c)
  BY ConcatAssociative

(* What the broker has put back is in front of the queue. *)
LEMMA RequeueHeld ==
    ASSUME TypeOK, HeldInv, Requeue, UNCHANGED <<arrived, settled>>
    PROVE  /\ arrived' = MessagesOf(settled') \o unacked' \o ready'
           /\ unacked' = << >>
           /\ link = "up" => Range(InHand) \subseteq Range(ready')
           /\ ready' \in Seq(Messages)
  <1> DEFINE A == MessagesOf(settled)
  <1>1. /\ A \in Seq(Messages) /\ unacked \in Seq(Messages) /\ ready \in Seq(Messages)
        /\ settled' = settled /\ unacked' = << >> /\ ready' = unacked \o ready
        /\ arrived' = A \o unacked \o ready
    BY MessagesOfType DEF TypeOK, Requeue, HeldInv, EveryDeliveryIsHeld
  <1> HIDE DEF A
  <1>2. (A \o unacked) \o ready = (A \o << >>) \o (unacked \o ready)
    <2>1. A \o << >> = A
      BY <1>1, ConcatEmptySeq
    <2>2. (A \o unacked) \o ready = A \o (unacked \o ready)
      <3>1. A \in Seq(Messages) /\ unacked \in Seq(Messages) /\ ready \in Seq(Messages)
        BY <1>1
      <3> QED
        BY ONLY <3>1, JoinedEitherWay
    <2> QED
      BY <2>1, <2>2
  <1>3. MessagesOf(settled') = A
    BY <1>1 DEF A
  <1>4. Range(unacked \o ready) = Range(unacked) \cup Range(ready)
    BY <1>1, RangeConcatenation
  <1>5. unacked \o ready \in Seq(Messages)
    BY <1>1
  <1> QED
    BY <1>1, <1>2, <1>3, <1>4, <1>5 DEF HeldInv, EveryDeliveryIsHeld

(* On a live connection the loop settles the first outstanding delivery. *)
LEMMA ForgetFirst ==
    ASSUME TypeOK, HeldInv, Working("settle"), link = "up", Forget
    PROVE  unacked = <<current.msg>> \o inbox /\ unacked' = inbox
  <1>1. /\ unacked = <<current.msg>> \o inbox /\ current.msg \in Messages
        /\ inbox \in Seq(Messages) /\ unacked \in Seq(Messages)
        /\ IsInjective(unacked)
    BY MessagesOfType DEF TypeOK, HeldInv, EveryDeliveryIsHeld, Working, Work
  <1>2. /\ Len(unacked) = Len(inbox) + 1 /\ Len(inbox) \in Nat
        /\ unacked[1] = current.msg
        /\ \A k \in 1 .. Len(inbox) : unacked[k + 1] = inbox[k]
        /\ DOMAIN unacked = 1 .. Len(unacked)
    BY <1>1
  <1>3. PICK i \in DOMAIN unacked :
            /\ unacked[i] = current.msg
            /\ unacked' = [k \in 1 .. Len(unacked) - 1 |-> unacked[IF k < i THEN k ELSE k + 1]]
    BY DEF Forget
  <1>4. i = 1
    <2>1. 1 \in DOMAIN unacked
      BY <1>2
    <2> QED
      BY <1>1, <1>2, <1>3, <2>1 DEF IsInjective
  <1>5. unacked' = [k \in 1 .. Len(inbox) |-> inbox[k]]
    BY <1>2, <1>3, <1>4
  <1>6. unacked' = inbox
    <2>1. unacked' \in Seq(Messages) /\ Len(unacked') = Len(inbox)
      BY <1>1, <1>2, <1>5
    <2>2. \A k \in 1 .. Len(inbox) : unacked'[k] = inbox[k]
      BY <1>5
    <2> QED
      BY <1>1, <2>1, <2>2, SeqEqual
  <1> QED
    BY <1>1, <1>6

LEMMA StepHeld == TypeOK /\ TypeOK' /\ HeldInv /\ [Next]_vars => HeldInv'
  <1> SUFFICES ASSUME TypeOK, TypeOK', HeldInv, [Next]_vars PROVE HeldInv'
    OBVIOUS
  <1> DEFINE A == MessagesOf(settled)
  <1>a. /\ A \in Seq(Messages) /\ unacked \in Seq(Messages) /\ ready \in Seq(Messages)
        /\ arrived \in Seq(Messages) /\ inbox \in Seq(Messages) /\ InHand \in Seq(Messages)
        /\ arrived = (A \o unacked) \o ready
        /\ unacked = IF link = "up" THEN InHand ELSE << >>
    BY MessagesOfType DEF TypeOK, HeldInv, EveryDeliveryIsHeld
  <1>a1. A \in Seq(Messages) /\ unacked \in Seq(Messages) /\ ready \in Seq(Messages)
    BY <1>a
  <1>a2. A \o unacked \in Seq(Messages)
    BY <1>a1
  <1>b. settled' = settled => MessagesOf(settled') = A
    BY DEF MessagesOf
  <1>c. inbox' = inbox /\ (current' = current \/ Handles) => InHand' = InHand
    BY DEF InHand, Handles
  <1>d. current' = None /\ inbox' = << >> => InHand' = << >>
    <2>1. << >> \o << >> = << >>
      OBVIOUS
    <2> QED
      BY <2>1 DEF InHand
  <1> HIDE DEF A
  <1>1. ASSUME NEW m \in Messages, Arrive(m) PROVE HeldInv'
    <2>1. /\ arrived' = Append(arrived, m) /\ ready' = Append(ready, m) /\ m \notin Range(arrived)
          /\ settled' = settled /\ unacked' = unacked /\ link' = link
          /\ inbox' = inbox /\ current' = current
      BY <1>1 DEF Arrive
    <2>2. Append((A \o unacked) \o ready, m) = (A \o unacked) \o Append(ready, m)
      <3>1. \A s \in Seq(Messages) : Append(s, m) = s \o <<m>>
        BY AppendIsConcat, Zenon
      <3>2. <<m>> \in Seq(Messages)
        OBVIOUS
      <3>3. ((A \o unacked) \o ready) \o <<m>> = (A \o unacked) \o (ready \o <<m>>)
        BY ONLY <1>a1, <1>a2, <3>2
      <3>4. (A \o unacked) \o ready \in Seq(Messages)
        BY ONLY <1>a1, <1>a2
      <3> QED
        BY <1>a1, <3>1, <3>3, <3>4
    <2>3. IsInjective(arrived')
      BY <1>a, <2>1, AppendIsInjective DEF HeldInv
    <2>4. Range(ready') = Range(ready) \cup {m}
      BY <1>a, <2>1, RangeOfAppend
    <2> QED
      BY <1>a, <1>b, <1>c, <2>1, <2>2, <2>3, <2>4 DEF HeldInv, EveryDeliveryIsHeld
  <1>2. CASE Connect
    <2>1. UNCHANGED <<arrived, settled, ready, unacked, inbox, current>> /\ link' = "up"
          /\ link = "down"
      BY <1>2 DEF Connect, broker
    <2>2. InHand = << >>
      <3>1. << >> \o << >> = << >>
        OBVIOUS
      <3> QED
        BY <2>1, <3>1 DEF HeldInv, InHand
    <2> QED
      BY <1>a, <1>b, <1>c, <2>1, <2>2 DEF HeldInv, EveryDeliveryIsHeld
  <1>3. CASE Deliver
    <2> DEFINE h == Head(ready)
               t == Tail(ready)
    <2>1. /\ h \in Messages /\ t \in Seq(Messages) /\ ready = <<h>> \o t
          /\ <<h>> \in Seq(Messages)
      BY <1>3, <1>a, SplitHead DEF Deliver
    <2>2. /\ ready' = t /\ unacked' = Append(unacked, h) /\ inbox' = Append(inbox, h)
          /\ UNCHANGED <<arrived, settled, current, link>> /\ link = "up"
      BY <1>3 DEF Deliver
    <2>3. unacked' = unacked \o <<h>> /\ inbox' = inbox \o <<h>>
      BY <1>a, <2>1, <2>2, AppendIsConcat
    <2> HIDE DEF h, t
    <2>4. (A \o unacked) \o (<<h>> \o t) = (A \o (unacked \o <<h>>)) \o t
      <3>0. t \in Seq(Messages) /\ <<h>> \in Seq(Messages)
        BY <2>1
      <3>1. (A \o unacked) \o (<<h>> \o t) = ((A \o unacked) \o <<h>>) \o t
        BY ONLY <1>a2, <3>0
      <3>2. (A \o unacked) \o <<h>> = A \o (unacked \o <<h>>)
        BY ONLY <1>a1, <3>0
      <3> QED
        BY <3>1, <3>2
    <2>5. InHand' = InHand \o <<h>>
      <3> DEFINE c == IF current = None THEN << >> ELSE <<current.msg>>
      <3>1. c \in Seq(Messages)
        BY DEF TypeOK, Work
      <3>2. InHand = c \o inbox /\ InHand' = c \o (inbox \o <<h>>)
        BY <2>2, <2>3 DEF InHand
      <3> HIDE DEF c
      <3>3. c \o (inbox \o <<h>>) = (c \o inbox) \o <<h>>
        BY ONLY <1>a, <2>1, <3>1
      <3> QED
        BY <3>2, <3>3
    <2>6. unacked' = InHand' /\ unacked' \in Seq(Messages)
      BY <1>a, <2>1, <2>2, <2>3, <2>5
    <2>7. arrived' = (A \o unacked') \o ready'
      BY <1>a, <2>1, <2>2, <2>3, <2>4
    <2>8. IsInjective(unacked')
      BY <1>a, <2>1, <2>2, <2>6, <2>7, SegmentIsInjective DEF HeldInv
    <2> QED
      BY <1>b, <2>2, <2>6, <2>7, <2>8 DEF HeldInv, EveryDeliveryIsHeld
  <1>4. CASE LoseConnection
    <2>1. /\ Requeue /\ link = "up" /\ link' = "lost"
          /\ UNCHANGED <<arrived, settled, inbox, current>>
      BY <1>4 DEF LoseConnection
    <2> QED
      BY <1>c, <2>1, RequeueHeld DEF HeldInv, EveryDeliveryIsHeld
  <1>5. CASE StreamEnds
    <2>1. /\ UNCHANGED <<arrived, settled, ready, unacked, current>>
          /\ current = None /\ inbox' = << >> /\ link = "lost" /\ link' = "down"
      BY <1>5 DEF StreamEnds, broker
    <2> QED
      BY <1>a, <1>b, <1>d, <2>1, EmptyRange DEF HeldInv, EveryDeliveryIsHeld
  <1>6. CASE Crash
    <2>1. /\ Requeue /\ link' = "down" /\ inbox' = << >> /\ current' = None
          /\ UNCHANGED <<arrived, settled>>
      BY <1>6 DEF Crash
    <2> QED
      BY <1>d, <2>1, RequeueHeld, EmptyRange DEF HeldInv, EveryDeliveryIsHeld
  <1>7. CASE Take
    <2>1. /\ UNCHANGED <<arrived, settled, ready, unacked, link>>
          /\ current = None /\ inbox # << >> /\ link \in {"up", "lost"}
          /\ current'.msg = Head(inbox) /\ inbox' = Tail(inbox)
      BY <1>7 DEF Take, CanTake, broker
    <2>2. current' # None
      <3>1. current' \in Work
        BY <1>7, <1>a, HeadTailProperties DEF Take, CanTake, Work, Stages
      <3> QED
        BY <3>1, DeliveryAssumption
    <2>3. InHand' = InHand
      <3>1. inbox = <<Head(inbox)>> \o Tail(inbox)
        BY <1>a, <2>1, SplitHead
      <3>2. InHand' = <<Head(inbox)>> \o Tail(inbox)
        BY <2>1, <2>2 DEF InHand
      <3> QED
        BY <2>1, <3>1, <3>2, MessagesOfType
    <2> QED
      BY <1>a, <1>b, <2>1, <2>3 DEF HeldInv, EveryDeliveryIsHeld
  <1>8. CASE TakePanics
    <2>1. /\ Requeue /\ link' = "dead" /\ inbox' = << >> /\ current' = None
          /\ UNCHANGED <<arrived, settled>>
      BY <1>8 DEF TakePanics, CanTake
    <2> QED
      BY <1>d, <2>1, RequeueHeld, EmptyRange DEF HeldInv, EveryDeliveryIsHeld
  <1>9. CASE Between
    <2>1. Handles
      BY <1>9, BetweenHandles
    <2> QED
      BY <1>a, <1>b, <1>c, <2>1 DEF HeldInv, EveryDeliveryIsHeld, Handles
  <1>10. CASE Settle
    <2>1. /\ UNCHANGED <<arrived, ready, link, inbox>> /\ current' = None /\ current # None
          /\ Working("settle") /\ current.msg \in Messages
      BY <1>10 DEF Settle, Working, TypeOK, Work
    <2>2. /\ InHand' = inbox /\ InHand = <<current.msg>> \o inbox
          /\ Range(inbox) \subseteq Range(InHand) /\ IsInjective(inbox)
      <3>1. InHand = <<current.msg>> \o inbox
        BY <2>1, MessagesOfType
      <3>2. InHand' = << >> \o inbox
        BY <2>1 DEF InHand
      <3>3. << >> \o inbox = inbox
        BY <1>a, ConcatEmptySeq
      <3>4. InHand # << >> /\ Tail(InHand) = inbox
        BY ONLY <1>a, <2>1, <3>1
      <3>5. IsInjective(inbox) /\ Range(inbox) \subseteq Range(InHand)
        BY <1>a, <3>4, SplitHead DEF HeldInv
      <3> QED
        BY <3>1, <3>2, <3>3, <3>5
    <2>3. CASE link = "up"
      <3>1. /\ unacked = <<current.msg>> \o inbox /\ unacked' = inbox
            /\ settled' = Append(settled, [msg |-> current.msg, how |-> Verdict])
        BY <1>10, <2>1, <2>3, ForgetFirst DEF Settle
      <3>2. MessagesOf(settled') = A \o <<current.msg>>
        <4> DEFINE B == MessagesOf(settled')
        <4>1. /\ Len(settled') = Len(settled) + 1 /\ Len(settled) \in Nat
              /\ DOMAIN settled' = 1 .. Len(settled')
              /\ \A i \in 1 .. Len(settled) : settled'[i] = settled[i]
              /\ settled'[Len(settled) + 1].msg = current.msg
          <5> DEFINE x == [msg |-> current.msg, how |-> Verdict]
                     S == [msg : Messages, how : {"ack", "nack"}]
          <5>1. x \in S /\ x.msg = current.msg
            BY <2>1 DEF Verdict
          <5>2. settled \in Seq(S)
            BY DEF TypeOK
          <5> HIDE DEF x, S
          <5>3. settled' = Append(settled, x)
            BY <3>1 DEF x
          <5> QED
            BY <5>1, <5>2, <5>3
        <4>2. B \in Seq(Messages) /\ Len(B) = Len(settled) + 1
          <5>1. B = [i \in 1 .. Len(settled) + 1 |-> settled'[i].msg]
            BY <4>1 DEF MessagesOf
          <5>2. \A i \in 1 .. Len(settled) : settled'[i].msg = A[i]
            BY <4>1 DEF A, MessagesOf
          <5>3. Len(A) = Len(settled) /\ \A i \in 1 .. Len(A) : A[i] \in Messages
            BY <1>a, <4>1 DEF A, MessagesOf
          <5>4. \A i \in 1 .. Len(settled) + 1 : settled'[i].msg \in Messages
            BY <2>1, <4>1, <5>2, <5>3
          <5> QED
            BY <4>1, <5>1, <5>4
        <4>3. A \o <<current.msg>> \in Seq(Messages) /\ Len(A) = Len(settled)
              /\ Len(A \o <<current.msg>>) = Len(settled) + 1
          BY <1>a, <2>1, <4>1 DEF A, MessagesOf
        <4>4. \A i \in 1 .. Len(settled) + 1 : B[i] = (A \o <<current.msg>>)[i]
          BY <1>a, <2>1, <4>1, <4>3 DEF A, MessagesOf
        <4> QED
          BY <4>2, <4>3, <4>4, SeqEqual
      <3>3. A \o (<<current.msg>> \o inbox) = (A \o <<current.msg>>) \o inbox
        <4>1. <<current.msg>> \in Seq(Messages)
          BY <2>1
        <4> QED
          BY ONLY <1>a, <4>1
      <3>4. arrived' = MessagesOf(settled') \o unacked' \o ready'
        BY <1>a, <2>1, <3>1, <3>2, <3>3
      <3> QED
        BY <2>1, <2>2, <2>3, <3>1, <3>4 DEF HeldInv, EveryDeliveryIsHeld
    <2>4. CASE link # "up"
      <3>1. UNCHANGED <<unacked, settled>>
        BY <1>10, <2>4 DEF Settle
      <3> QED
        BY <1>a, <1>b, <2>1, <2>2, <2>4, <3>1 DEF HeldInv, EveryDeliveryIsHeld
    <2> QED
      BY <2>3, <2>4
  <1>11. CASE UNCHANGED vars
    BY <1>a, <1>b, <1>c, <1>11 DEF vars, broker, HeldInv, EveryDeliveryIsHeld
  <1> QED
    BY <1>1, <1>2, <1>3, <1>4, <1>5, <1>6, <1>7, <1>8, <1>9, <1>10, <1>11
    DEF Next, LoopBody, Between

(* EveryDeliveryIsHeld: a message is in one place, and the broker and the loop
   agree on what is outstanding. *)
THEOREM DeliveriesAreHeld == Spec => []EveryDeliveryIsHeld
  <1>1. Spec => []HeldInv
    BY DeliveryTypeCorrect, InitHeld, StepHeld, PTL DEF Spec
  <1>2. HeldInv => EveryDeliveryIsHeld
    BY DEF HeldInv
  <1> QED
    BY <1>1, <1>2, PTL

-----------------------------------------------------------------------------
(* What has been done for a message when it is settled.                     *)

AckEarned(m) ==
    /\ "success" \in records[m] \/ FailedOn({"record"}, m)
    /\ KindOf[m] = "matched" => executed[m] > 0

NackEarned(m) == KindOf[m] \in {"malformed", "invalid"} \/ FailedOn({"lookup", "engine"}, m)

AnsweredWith(result, m) == result \in answers[m] \/ FailedOn({"respond"}, m)

(* How far the pipeline is with the delivery it works on. *)
Progress ==
    current # None =>
        /\ current.stage = "lookup" => Kind \in {"unmatched", "matched"}
        /\ current.stage \in {"engine", "act", "record"} => Kind = "matched"
        /\ current.stage = "record" => executed[current.msg] > 0
        /\ current.result = "ok" => AckEarned(current.msg)
        /\ current.result = "error" => NackEarned(current.msg)
        /\ current.stage = "settle" /\ link = "up" =>
              AnsweredWith(current.result, current.msg)

HandledInv == Progress /\ SettledMeansHandled

(* Evidence is never taken back. *)
MoreEvidence ==
    /\ faults \subseteq faults'
    /\ \A m \in Messages :
          /\ records[m] \subseteq records'[m]
          /\ answers[m] \subseteq answers'[m]
          /\ executed[m] > 0 => executed'[m] > 0

LEMMA EvidenceStays ==
    ASSUME MoreEvidence, NEW m \in Messages
    PROVE  /\ AckEarned(m) => AckEarned(m)'
           /\ NackEarned(m) => NackEarned(m)'
           /\ \A result : AnsweredWith(result, m) => AnsweredWith(result, m)'
  BY DEF MoreEvidence, AckEarned, NackEarned, AnsweredWith, FailedOn

LEMMA SettledStaysHandled ==
    ASSUME SettledMeansHandled, MoreEvidence, settled' = settled
    PROVE  SettledMeansHandled'
  <1>1. \A m \in Messages :
            /\ SettledAs(m, "ack") => AckEarned(m) /\ AnsweredWith("ok", m)
            /\ SettledAs(m, "nack") => NackEarned(m) /\ AnsweredWith("error", m)
    BY DEF SettledMeansHandled, AckEarned, NackEarned, AnsweredWith
  <1>2. \A m \in Messages : \A how : SettledAs(m, how)' <=> SettledAs(m, how)
    BY DEF SettledAs
  <1>3. \A m \in Messages :
            /\ SettledAs(m, "ack")' => AckEarned(m)' /\ AnsweredWith("ok", m)'
            /\ SettledAs(m, "nack")' => NackEarned(m)' /\ AnsweredWith("error", m)'
    BY <1>1, <1>2, EvidenceStays
  <1> QED
    BY <1>3 DEF SettledMeansHandled, AckEarned, NackEarned, AnsweredWith

LEMMA FailsIsEvidence ==
    ASSUME NEW m \in Messages, m = current.msg, NEW kind, Fails(kind)
    PROVE  /\ faults \subseteq faults'
           /\ \A kinds : kind \in kinds => FailedOn(kinds, m)'
  BY DEF Fails, FailedOn

LEMMA InitHandled == Init => HandledInv
  BY DEF Init, HandledInv, Progress, SettledMeansHandled, SettledAs

(* Nothing but the effects of one stage changes. *)
LEMMA BetweenHandled == TypeOK /\ HandledInv /\ Between => HandledInv'
  <1> SUFFICES ASSUME TypeOK, HandledInv, Between PROVE HandledInv'
    OBVIOUS
  <1>a. current # None /\ current \in Work /\ current.msg \in Messages
    BY BetweenHandles DEF Handles, TypeOK, Work
  <1> PICK m \in Messages : m = current.msg
    BY <1>a
  <1>0. /\ Handles /\ TypeOK' /\ Kind = KindOf[m] /\ Kind' = Kind
        /\ current'.msg = m /\ link' = link /\ settled' = settled
    BY BetweenHandles DEF Handles, Kind
  <1>n. None \notin {"ok", "error"}
    BY DeliveryAssumption
  <1>t. /\ records \in [Messages -> SUBSET {"success", "validation_failed",
                                         "dispatcher_failed", "orchestrator_failed"}]
        /\ answers \in [Messages -> SUBSET {"ok", "error"}]
        /\ executed \in [Messages -> Nat]
    BY DEF TypeOK
  <1>1. ASSUME NEW stage \in Stages \ {"respond", "settle"}, GoTo(stage), MoreEvidence,
               stage = "lookup" => Kind \in {"unmatched", "matched"},
               stage \in {"engine", "act", "record"} => Kind = "matched",
               stage = "record" => executed'[m] > 0,
               current.result = None
        PROVE  HandledInv'
    <2>1. current'.stage = stage /\ current'.result = None
      BY <1>a, <1>1, StaysWork DEF Stages
    <2>2. SettledMeansHandled'
      BY <1>0, <1>1, SettledStaysHandled DEF HandledInv
    <2> QED
      BY <1>0, <1>1, <1>n, <2>1, <2>2 DEF HandledInv, Progress
  <1>2. ASSUME NEW result \in {"ok", "error"}, Ends(result), MoreEvidence,
               result = "ok" => AckEarned(m)',
               result = "error" => NackEarned(m)'
        PROVE  HandledInv'
    <2>1. current'.stage = "respond" /\ current'.result = result
      BY <1>a, <1>2, StaysWork DEF Stages, Ends
    <2>2. SettledMeansHandled'
      BY <1>0, <1>2, SettledStaysHandled DEF HandledInv
    <2>3. /\ AckEarned(current.msg)' <=> AckEarned(m)'
          /\ NackEarned(current.msg)' <=> NackEarned(m)'
      BY <1>0 DEF AckEarned, NackEarned, FailedOn
    <2> QED
      BY <1>2, <2>1, <2>2, <2>3 DEF HandledInv, Progress
  <1>p. /\ Working("lookup") => Kind \in {"unmatched", "matched"}
        /\ Working("engine") \/ Working("act") \/ Working("record") => Kind = "matched"
        /\ Working("record") => executed[m] > 0
        /\ current.stage \notin {"respond", "settle"} => current.result = None
    BY <1>a DEF HandledInv, Progress, Working, TypeOK
  <1>m. UNCHANGED <<answers, executed>> /\ faults \subseteq faults'
            /\ (\A n \in Messages : records[n] \subseteq records'[n])
        => MoreEvidence
    BY DEF MoreEvidence
  <1>u. UNCHANGED effects /\ UNCHANGED faults => MoreEvidence
    BY DEF effects, MoreEvidence
  <1>r. ASSUME NEW status \in {"success", "validation_failed"}, RecordIntake(status),
               UNCHANGED <<answers, executed>>
        PROVE  /\ MoreEvidence
               /\ status \in records'[m] \/ FailedOn({"record"}, m)'
    <2>1. /\ faults \subseteq faults'
          /\ \A n \in Messages : records[n] \subseteq records'[n]
          /\ status \in records'[m] \/ <<"record", m>> \in faults'
      BY <1>a, <1>r, RecordIntakeType
    <2> QED
      BY <1>m, <1>r, <2>1 DEF FailedOn
  <1>3. CASE ParseFails
    <2>1. NackEarned(m)'
      BY <1>0, <1>3 DEF ParseFails, NackEarned
    <2> QED
      BY <1>2, <1>3, <1>u, <2>1 DEF ParseFails
  <1>4. CASE Reject
    <2>1. NackEarned(m)'
      BY <1>0, <1>4 DEF Reject, NackEarned
    <2> QED
      BY <1>2, <1>4, <1>r, <2>1 DEF Reject
  <1>5. CASE Accept
    BY <1>1, <1>5, <1>u, <1>p DEF Accept, Working, Stages
  <1>6. CASE LookupFails
    <2>1. /\ NackEarned(m)' /\ MoreEvidence
      BY <1>6, <1>u, FailsIsEvidence DEF LookupFails, NackEarned, MoreEvidence, effects
    <2> QED
      BY <1>2, <1>6, <2>1 DEF LookupFails
  <1>7. CASE NoMatch
    <2>1. MoreEvidence /\ AckEarned(m)'
      BY <1>0, <1>7, <1>r DEF NoMatch, AckEarned
    <2> QED
      BY <1>2, <1>7, <2>1 DEF NoMatch
  <1>8. CASE Matched
    BY <1>1, <1>8, <1>u, <1>p DEF Matched, Working, Stages
  <1>9. CASE EngineAnswers
    BY <1>1, <1>9, <1>u, <1>p DEF EngineAnswers, Working, Stages
  <1>10. CASE EngineFails
    <2>1. NackEarned(m)' /\ faults \subseteq faults'
      BY <1>10, FailsIsEvidence DEF EngineFails, NackEarned
    <2>2. \A n \in Messages : records[n] \subseteq records'[n]
      BY <1>10, <1>t DEF EngineFails
    <2> QED
      BY <1>2, <1>10, <1>m, <2>1, <2>2 DEF EngineFails
  <1>11. CASE Act
    <2>1. executed' = [executed EXCEPT ![m] = @ + 1] /\ UNCHANGED <<answers, records, faults>>
      BY <1>11 DEF Act
    <2>2. MoreEvidence /\ executed'[m] > 0
      BY <1>t, <2>1 DEF MoreEvidence
    <2> QED
      BY <1>1, <1>11, <1>p, <2>2 DEF Act, Working, Stages
  <1>12. CASE RecordSuccess
    <2>1. MoreEvidence /\ AckEarned(m)'
      BY <1>0, <1>12, <1>p, <1>r DEF RecordSuccess, AckEarned
    <2> QED
      BY <1>2, <1>12, <2>1 DEF RecordSuccess
  <1>13. CASE Respond
    <2>1. /\ current'.stage = "settle" /\ current'.result = current.result
          /\ UNCHANGED <<records, executed>>
      BY <1>a, <1>13, StaysWork DEF Respond, Stages, TypeOK, Work
    <2> PICK result : result = current.result
      OBVIOUS
    <2>2. /\ MoreEvidence
          /\ link = "up" => AnsweredWith(result, m)'
      <3>1. CASE Answered /\ UNCHANGED faults
        <4>1. /\ result \in answers'[m]
              /\ \A n \in Messages : answers[n] \subseteq answers'[n]
          BY <1>t, <3>1 DEF Answered
        <4> QED
          BY <2>1, <3>1, <4>1 DEF MoreEvidence, AnsweredWith
      <3>2. CASE Fails("respond") /\ UNCHANGED answers
        BY <2>1, <3>2, FailsIsEvidence DEF MoreEvidence, AnsweredWith
      <3>3. CASE link # "up" /\ UNCHANGED <<answers, faults>>
        BY <2>1, <3>3 DEF MoreEvidence
      <3> QED
        BY <1>13, <3>1, <3>2, <3>3 DEF Respond
    <2>3. SettledMeansHandled'
      BY <1>0, <2>2, SettledStaysHandled DEF HandledInv
    <2>4. /\ AckEarned(m) => AckEarned(m)'
          /\ NackEarned(m) => NackEarned(m)'
      BY <2>2, EvidenceStays
    <2>5. /\ current'.result = "ok" => AckEarned(m)'
          /\ current'.result = "error" => NackEarned(m)'
      BY <1>a, <2>1, <2>4 DEF HandledInv, Progress
    <2>6. /\ AckEarned(current.msg)' <=> AckEarned(m)'
          /\ NackEarned(current.msg)' <=> NackEarned(m)'
          /\ AnsweredWith(current.result, current.msg)' <=> AnsweredWith(result, m)'
      BY <1>0, <2>1 DEF AckEarned, NackEarned, AnsweredWith, FailedOn
    <2>7. Progress'
      BY <1>0, <2>1, <2>2, <2>5, <2>6 DEF Progress
    <2> QED
      BY <2>3, <2>7 DEF HandledInv
  <1> QED
    BY <1>3, <1>4, <1>5, <1>6, <1>7, <1>8, <1>9, <1>10, <1>11, <1>12, <1>13 DEF Between

LEMMA StepHandled == TypeOK /\ HeldInv /\ HandledInv /\ [Next]_vars => HandledInv'
  <1> SUFFICES ASSUME TypeOK, HeldInv, HandledInv, [Next]_vars PROVE HandledInv'
    OBVIOUS
  <1>e. ASSUME UNCHANGED effects, UNCHANGED faults PROVE MoreEvidence
    BY <1>e DEF effects, MoreEvidence
  (* Steps that leave the pipeline alone, or drop the delivery it works on. *)
  <1>0. ASSUME UNCHANGED <<effects, faults, settled>>, current' \in {current, None},
               link' = "up" => link = "up" \/ current' = None
        PROVE  HandledInv'
    <2>1. SettledMeansHandled'
      BY <1>0, <1>e, SettledStaysHandled DEF HandledInv
    <2>2. Progress'
      BY <1>0 DEF HandledInv, Progress, effects, AckEarned, NackEarned, AnsweredWith,
                  FailedOn, Kind
    <2> QED
      BY <2>1, <2>2 DEF HandledInv
  <1>1. ASSUME NEW m \in Messages, Arrive(m) PROVE HandledInv'
    BY <1>0, <1>1 DEF Arrive
  <1>2. CASE Connect
    BY <1>0, <1>2 DEF Connect, broker, HeldInv
  <1>3. CASE Deliver
    BY <1>0, <1>3 DEF Deliver
  <1>4. CASE LoseConnection
    BY <1>0, <1>4 DEF LoseConnection
  <1>5. CASE StreamEnds
    BY <1>0, <1>5 DEF StreamEnds, broker
  <1>6. CASE Crash
    BY <1>0, <1>6 DEF Crash
  <1>7. CASE Take
    <2>1. /\ current'.stage = "parse" /\ current'.result = None
          /\ UNCHANGED <<effects, faults, settled>>
      BY <1>7 DEF Take, broker
    <2>2. SettledMeansHandled'
      BY <1>e, <2>1, SettledStaysHandled DEF HandledInv
    <2>3. None \notin {"ok", "error"}
      BY DeliveryAssumption
    <2> QED
      BY <2>1, <2>2, <2>3 DEF HandledInv, Progress
  <1>8. CASE TakePanics
    BY <1>0, <1>8 DEF TakePanics, CanTake
  <1>9. CASE Between
    BY <1>9, BetweenHandled
  <1>10. CASE Settle
    <2>1. UNCHANGED effects /\ UNCHANGED faults /\ current' = None
      BY <1>10 DEF Settle
    <2>2. CASE link # "up"
      BY <1>0, <1>10, <2>1, <2>2 DEF Settle
    <2>3. CASE link = "up"
      <3>a. current \in Work /\ current # None /\ current.msg \in Messages
            /\ current.stage = "settle" /\ current.result \in {"ok", "error"}
        BY <1>10 DEF Settle, Working, TypeOK, Work
      <3> PICK m \in Messages : m = current.msg
        BY <3>a
      <3> PICK how \in {"ack", "nack"} : how = Verdict
        BY DEF Verdict
      <3>1. settled' = Append(settled, [msg |-> m, how |-> how])
        BY <1>10, <2>3 DEF Settle
      <3>2. ASSUME NEW n \in Messages, NEW h \in {"ack", "nack"}, SettledAs(n, h)'
            PROVE  SettledAs(n, h) \/ (n = m /\ h = how)
        <4> DEFINE S == [msg : Messages, how : {"ack", "nack"}]
                   x == [msg |-> m, how |-> how]
                   y == [msg |-> n, how |-> h]
        <4>1. x \in S /\ settled \in Seq(S) /\ (y = x => n = m /\ h = how)
          BY DEF TypeOK
        <4>2. PICK i \in DOMAIN settled' : settled'[i] = y
          BY <3>2 DEF SettledAs
        <4>3. settled' = Append(settled, x)
          BY <3>1
        <4> HIDE DEF x, S, y
        <4>4. (i \in DOMAIN settled /\ settled[i] = y) \/ y = x
          BY ONLY <4>1, <4>2, <4>3, i \in DOMAIN settled'
        <4> QED
          BY <4>1, <4>4 DEF SettledAs, y
      <3>3. /\ how = "ack" => AckEarned(m) /\ AnsweredWith("ok", m)
            /\ how = "nack" => NackEarned(m) /\ AnsweredWith("error", m)
        BY <2>3, <3>a DEF HandledInv, Progress, Verdict
      <3>4. \A n \in Messages :
                /\ SettledAs(n, "ack") => AckEarned(n) /\ AnsweredWith("ok", n)
                /\ SettledAs(n, "nack") => NackEarned(n) /\ AnsweredWith("error", n)
        BY DEF HandledInv, SettledMeansHandled, AckEarned, NackEarned, AnsweredWith
      <3>5. \A n \in Messages :
                /\ SettledAs(n, "ack")' => AckEarned(n) /\ AnsweredWith("ok", n)
                /\ SettledAs(n, "nack")' => NackEarned(n) /\ AnsweredWith("error", n)
        BY <3>2, <3>3, <3>4
      <3>6. SettledMeansHandled'
        BY <2>1, <3>5 DEF SettledMeansHandled, AckEarned, NackEarned, AnsweredWith,
                          FailedOn, effects
      <3> QED
        BY <2>1, <3>6 DEF HandledInv, Progress
    <2> QED
      BY <2>2, <2>3
  <1>11. CASE UNCHANGED vars
    BY <1>0, <1>11 DEF vars, broker
  <1> QED
    BY <1>1, <1>2, <1>3, <1>4, <1>5, <1>6, <1>7, <1>8, <1>9, <1>10, <1>11
    DEF Next, LoopBody, Between

(* SettledMeansHandled: what is acked has been handled, and what is given up
   has an error of its own. *)
THEOREM SettlingIsEarned == Spec => []SettledMeansHandled
  <1>1. Spec => [](TypeOK /\ HeldInv)
    BY DeliveryTypeCorrect, InitHeld, StepHeld, PTL DEF Spec
  <1>2. Spec => []HandledInv
    BY <1>1, InitHandled, StepHandled, PTL DEF Spec
  <1>3. HandledInv => SettledMeansHandled
    BY DEF HandledInv
  <1> QED
    BY <1>2, <1>3, PTL

-----------------------------------------------------------------------------
(* How often a message is worked on.                                        *)

(* m has not got past Act since this connection was made. *)
Ahead(m) ==
    \/ m \in Range(inbox)
    \/ /\ current # None /\ current.msg = m
       /\ current.stage \in {"parse", "lookup", "engine", "act"}

Bounded(m) ==
    /\ executed[m] <= losses + 1
    /\ link \in {"down", "lost"} => executed[m] <= losses
    /\ link = "up" /\ (m \in Range(ready) \/ Ahead(m)) => executed[m] <= losses
    /\ link = "lost" /\ Ahead(m) => executed[m] + 1 <= losses
    /\ m \notin Range(arrived) => executed[m] = 0

BoundInv == \A m \in Messages : Bounded(m)

LEMMA InitBound == Init => BoundInv
  BY DEF Init, BoundInv, Bounded, Ahead

(* What the loop holds has arrived, and is not also in the queue of a live
   connection. *)
LEMMA WhatIsHeld ==
    ASSUME TypeOK, HeldInv
    PROVE  /\ Range(InHand) \subseteq Range(arrived)
           /\ Range(ready) \subseteq Range(arrived)
           /\ link = "up" => Range(InHand) \cap Range(ready) = {}
           /\ current # None => /\ current.msg \in Range(InHand)
                                /\ current.msg \notin Range(inbox)
                                /\ link \in {"up", "lost"}
  <1> DEFINE A == MessagesOf(settled)
  <1>1. /\ A \in Seq(Messages) /\ unacked \in Seq(Messages) /\ ready \in Seq(Messages)
        /\ InHand \in Seq(Messages) /\ inbox \in Seq(Messages)
        /\ arrived = (A \o unacked) \o ready
    BY MessagesOfType DEF TypeOK, HeldInv, EveryDeliveryIsHeld
  <1> HIDE DEF A
  <1>2. A \o unacked \in Seq(Messages)
    BY <1>1
  <1>3. Range(arrived) = Range(A \o unacked) \cup Range(ready)
    <2> DEFINE s == A \o unacked
    <2>0. s \in Seq(Messages) /\ ready \in Seq(Messages)
      BY <1>1, <1>2
    <2>1. Range(s \o ready) = Range(s) \cup Range(ready)
      <3> HIDE DEF s
      <3> QED
        BY <2>0, RangeConcatenation, Zenon
    <2> QED
      BY <1>1, <2>1
  <1>4. Range(A \o unacked) = Range(A) \cup Range(unacked)
    BY <1>1, RangeConcatenation
  <1>5. Range(A \o unacked) \cap Range(ready) = {}
    <2> DEFINE s == A \o unacked
    <2> SUFFICES ASSUME NEW i \in DOMAIN s, NEW j \in DOMAIN ready, s[i] = ready[j]
                 PROVE  FALSE
      BY DEF Range
    <2>1. /\ i \in 1 .. Len(s) /\ j \in 1 .. Len(ready) /\ Len(s) \in Nat /\ Len(ready) \in Nat
          /\ s \in Seq(Messages)
      BY <1>1, <1>2
    <2> HIDE DEF s
    <2>2. /\ DOMAIN (s \o ready) = 1 .. Len(s) + Len(ready)
          /\ (s \o ready)[i] = s[i] /\ (s \o ready)[Len(s) + j] = ready[j]
      BY <1>1, <2>1
    <2>3. IsInjective(s \o ready)
      BY <1>1 DEF HeldInv, s
    <2>4. i = Len(s) + j
      BY <2>1, <2>2, <2>3 DEF IsInjective
    <2> QED
      BY <2>1, <2>4
  <1>6. ASSUME current # None
        PROVE  current.msg \in Range(InHand) /\ current.msg \notin Range(inbox)
    <2>1. InHand = <<current.msg>> \o inbox /\ current.msg \in Messages
      BY <1>6, MessagesOfType DEF TypeOK, Work
    <2>2. InHand # << >> /\ Head(InHand) = current.msg /\ Tail(InHand) = inbox
      BY ONLY <1>1, <2>1
    <2> QED
      <3>1. IsInjective(InHand)
        BY DEF HeldInv
      <3>2. /\ Range(InHand) = Range(Tail(InHand)) \cup {Head(InHand)}
            /\ Head(InHand) \notin Range(Tail(InHand))
        BY <1>1, <2>2, <3>1, SplitHead, Zenon
      <3> QED
        BY <2>2, <3>2
  <1>7. link \in {"up", "lost"} \/ Range(InHand) = {}
    <2>1. link \in {"down", "dead"} => InHand = << >>
      <3>1. << >> \o << >> = << >>
        OBVIOUS
      <3> QED
        BY <3>1 DEF HeldInv, InHand
    <2> QED
      BY <2>1, EmptyRange DEF TypeOK, Links
  <1>8. /\ link = "up" => Range(InHand) \subseteq Range(A \o unacked)
        /\ link = "lost" => Range(InHand) \subseteq Range(ready)
    BY <1>4 DEF HeldInv, EveryDeliveryIsHeld
  <1> QED
    BY <1>3, <1>5, <1>6, <1>7, <1>8 DEF HeldInv, TypeOK, Links

LEMMA StepBound ==
    TypeOK /\ TypeOK' /\ HeldInv /\ BoundInv /\ [Next]_vars => BoundInv'
  <1> SUFFICES ASSUME TypeOK, TypeOK', HeldInv, BoundInv, [Next]_vars, NEW n \in Messages
               PROVE  Bounded(n)'
    BY DEF BoundInv
  <1>a. /\ executed \in [Messages -> Nat] /\ losses \in Nat /\ Bounded(n)
        /\ inbox \in Seq(Messages) /\ ready \in Seq(Messages) /\ arrived \in Seq(Messages)
    BY DEF TypeOK, BoundInv
  <1>l. Loss => losses' = losses + 1
    BY DEF Loss
  <1>q. Requeue => Range(ready) \subseteq Range(ready')
    <2>1. Range(unacked \o ready) = Range(unacked) \cup Range(ready)
      BY RangeConcatenation DEF TypeOK
    <2> QED
      BY <2>1 DEF Requeue
  <1>1. ASSUME NEW m \in Messages, Arrive(m) PROVE Bounded(n)'
    <2>1. /\ m \notin Range(arrived) /\ UNCHANGED <<link, inbox, current, executed, losses>>
          /\ Range(arrived') = Range(arrived) \cup {m} /\ Range(ready') = Range(ready) \cup {m}
      BY <1>1, <1>a, RangeOfAppend DEF Arrive, effects
    <2> QED
      BY <1>a, <2>1 DEF Bounded, Ahead
  <1>2. CASE Connect
    BY <1>a, <1>2 DEF Connect, broker, effects, Bounded
  <1>3. CASE Deliver
    <2>1. /\ UNCHANGED <<arrived, link, current, executed, losses>> /\ link = "up"
          /\ Head(ready) \in Range(ready) /\ Range(ready') \subseteq Range(ready)
          /\ Range(inbox') = Range(inbox) \cup {Head(ready)}
      <3>1. ready # << >> /\ ready' = Tail(ready) /\ inbox' = Append(inbox, Head(ready))
        BY <1>3 DEF Deliver
      <3>2. Head(ready) \in Messages /\ Range(ready) = Range(Tail(ready)) \cup {Head(ready)}
        BY <1>a, <3>1, SplitHead, Zenon
      <3>3. Range(Append(inbox, Head(ready))) = Range(inbox) \cup {Head(ready)}
        BY <1>a, <3>2, RangeOfAppend
      <3> QED
        BY <1>3, <3>1, <3>2, <3>3 DEF Deliver, effects
    <2> QED
      BY <1>a, <2>1 DEF Bounded, Ahead
  <1>4. CASE LoseConnection
    <2>1. /\ UNCHANGED <<arrived, inbox, current, executed>> /\ link = "up" /\ link' = "lost"
          /\ losses' = losses + 1
      BY <1>4, <1>l DEF LoseConnection, effects
    <2> QED
      BY <1>a, <2>1 DEF Bounded, Ahead
  <1>5. CASE StreamEnds
    BY <1>a, <1>5 DEF StreamEnds, broker, effects, Bounded
  <1>6. CASE Crash
    BY <1>a, <1>6, <1>l DEF Crash, effects, Bounded
  <1>7. CASE Take
    <2>1. /\ UNCHANGED <<arrived, ready, link, executed, losses>>
          /\ Head(inbox) \in Range(inbox) /\ Range(inbox') \subseteq Range(inbox)
          /\ current'.msg = Head(inbox)
      <3>1. Range(inbox) = Range(Tail(inbox)) \cup {Head(inbox)}
        BY <1>a, <1>7, SplitHead, Zenon DEF Take, CanTake
      <3> QED
        BY <1>7, <3>1 DEF Take, broker, effects
    <2>2. Ahead(n)' => Ahead(n)
      BY <2>1 DEF Ahead
    <2> QED
      BY <1>a, <2>1, <2>2 DEF Bounded
  <1>8. CASE TakePanics
    BY <1>a, <1>8 DEF TakePanics, effects, Bounded
  <1>9. CASE Between
    <2>1. Handles /\ current \in Work
      BY <1>9, BetweenHandles DEF Handles, TypeOK
    <2>2. /\ UNCHANGED <<arrived, ready, link, inbox, losses>>
          /\ current # None /\ current'.msg = current.msg
      BY <2>1 DEF Handles
    <2>3. CASE Act
      <3>1. executed' = [executed EXCEPT ![current.msg] = @ + 1] /\ current'.stage = "record"
            /\ current.stage = "act"
        BY <2>1, <2>2, <2>3, StaysWork DEF Act, Working, Stages
      <3>2. CASE n = current.msg
        <4>1. /\ Ahead(n) /\ ~Ahead(n)' /\ (link = "up" => n \notin Range(ready))
              /\ n \in Range(arrived) /\ link \in {"up", "lost"}
          BY <2>2, <3>1, <3>2, WhatIsHeld DEF Ahead
        <4>2. executed'[n] = executed[n] + 1
          BY <1>a, <3>1, <3>2
        <4> QED
          BY <1>a, <2>2, <4>1, <4>2 DEF Bounded
      <3>3. CASE n # current.msg
        <4>1. (Ahead(n)' => Ahead(n)) /\ executed'[n] = executed[n]
          BY <1>a, <2>2, <3>1, <3>3 DEF Ahead
        <4> QED
          BY <1>a, <2>2, <4>1 DEF Bounded
      <3> QED
        BY <3>2, <3>3
    <2>4. CASE ~Act
      <3>1. /\ executed' = executed
            /\ current'.stage \in {"parse", "lookup", "engine", "act"} =>
                  current.stage \in {"parse", "lookup", "engine", "act"}
        BY <1>9, <2>1, <2>2, <2>4, StaysWork
        DEF Between, ParseFails, Reject, Accept, LookupFails, NoMatch, Matched, EngineAnswers,
            EngineFails, RecordSuccess, Respond, Ends, Working, Stages, effects
      <3>2. Ahead(n)' => Ahead(n)
        BY <2>2, <3>1 DEF Ahead
      <3> QED
        BY <1>a, <2>2, <3>1, <3>2 DEF Bounded
    <2> QED
      BY <2>3, <2>4
  <1>10. CASE Settle
    <2>1. /\ UNCHANGED <<arrived, ready, link, inbox, executed, losses>> /\ current' = None
      BY <1>10 DEF Settle, effects
    <2> QED
      BY <1>a, <2>1 DEF Bounded, Ahead
  <1>11. CASE UNCHANGED vars
    BY <1>a, <1>11 DEF vars, broker, effects, Bounded, Ahead
  <1> QED
    BY <1>1, <1>2, <1>3, <1>4, <1>5, <1>6, <1>7, <1>8, <1>9, <1>10, <1>11
    DEF Next, LoopBody, Between

(* RepeatedOnlyAfterLoss: each time a message is worked on again has a lost
   connection or a crash of its own. *)
THEOREM RepetitionNeedsLoss == Spec => []RepeatedOnlyAfterLoss
  <1>1. Spec => [](TypeOK /\ HeldInv)
    BY DeliveryTypeCorrect, InitHeld, StepHeld, PTL DEF Spec
  <1>2. Spec => []BoundInv
    BY <1>1, InitBound, StepBound, PTL DEF Spec
  <1>3. TypeOK /\ BoundInv => RepeatedOnlyAfterLoss
    BY DEF TypeOK, BoundInv, Bounded, RepeatedOnlyAfterLoss
  <1> QED
    BY <1>1, <1>2, <1>3, PTL

-----------------------------------------------------------------------------
(* The refinement: the backlog is what is outstanding, then what waits.     *)

queueVars == <<unacked \o ready, settled, executed>>

LEMMA StepQueue ==
    ASSUME TypeOK, HeldInv, HandledInv, [Next]_vars
    PROVE  [Queue!Next]_queueVars
  <1> DEFINE Backlog == unacked \o ready
  <1>a. /\ unacked \in Seq(Messages) /\ ready \in Seq(Messages) /\ Backlog \in Seq(Messages)
        /\ inbox \in Seq(Messages)
    BY DEF TypeOK
  <1>t. unacked \in Seq(Messages) /\ ready \in Seq(Messages) /\ inbox \in Seq(Messages)
    BY <1>a
  <1>b. Range(Backlog) = Range(unacked) \cup Range(ready)
    BY <1>a, RangeConcatenation
  <1>c. ASSUME NEW m PROVE Queue!Waits(m) <=> m \in Range(Backlog)
    BY DEF Queue!Waits, Range
  <1>d. Range(Backlog) \subseteq Range(arrived)
        /\ \A i \in DOMAIN settled : settled[i].msg \in Range(arrived)
    <2> DEFINE A == MessagesOf(settled)
    <2>1. A \in Seq(Messages) /\ arrived = (A \o unacked) \o ready
      BY MessagesOfType DEF HeldInv, EveryDeliveryIsHeld
    <2>2. A \o Backlog = (A \o unacked) \o ready
      <3>1. A \in Seq(Messages) /\ unacked \in Seq(Messages) /\ ready \in Seq(Messages)
        BY <1>a, <2>1
      <3> HIDE DEF A
      <3> QED
        BY ONLY <3>1
    <2>3. Range(arrived) = Range(A) \cup Range(Backlog)
      <3>1. Range(A \o Backlog) = Range(A) \cup Range(Backlog)
        <4>1. A \in Seq(Messages) /\ Backlog \in Seq(Messages)
          BY <1>a, <2>1
        <4> HIDE DEF A, Backlog
        <4> QED
          BY <4>1, RangeConcatenation
      <3> QED
        BY <2>1, <2>2, <3>1
    <2>4. \A i \in DOMAIN settled : settled[i].msg \in Range(A)
      BY DEF MessagesOf, Range
    <2> QED
      BY <2>3, <2>4
  <1>s. Requeue => Backlog' = Backlog
    <2>1. << >> \o Backlog = Backlog
      BY <1>a, ConcatEmptySeq
    <2> QED
      BY <2>1 DEF Requeue
  <1>0. ASSUME Backlog' = Backlog, UNCHANGED <<settled, executed>> PROVE [Queue!Next]_queueVars
    BY <1>0 DEF queueVars
  <1>1. ASSUME NEW m \in Messages, Arrive(m) PROVE [Queue!Next]_queueVars
    <2>1. /\ ready' = Append(ready, m) /\ UNCHANGED <<unacked, settled, executed>>
          /\ m \notin Range(arrived)
      BY <1>1 DEF Arrive, effects
    <2>2. unacked \o Append(ready, m) = Append(Backlog, m)
      <3>1. \A s \in Seq(Messages) : Append(s, m) = s \o <<m>>
        BY AppendIsConcat, Zenon
      <3>2. <<m>> \in Seq(Messages)
        OBVIOUS
      <3>3. unacked \o (ready \o <<m>>) = (unacked \o ready) \o <<m>>
        BY ONLY <1>t, <3>2
      <3> QED
        BY <1>a, <3>1, <3>3
    <2>3. Queue!Arrive(m)
      BY <1>c, <1>d, <2>1, <2>2 DEF Queue!Arrive
    <2> QED
      BY <2>3 DEF Queue!Next
  <1>2. CASE Connect
    BY <1>0, <1>2 DEF Connect, broker, effects
  <1>3. CASE Deliver
    <2>1. /\ ready # << >> /\ ready' = Tail(ready) /\ unacked' = Append(unacked, Head(ready))
          /\ UNCHANGED <<settled, executed>>
      BY <1>3 DEF Deliver, effects
    <2>2. /\ Head(ready) \in Messages /\ Tail(ready) \in Seq(Messages)
          /\ ready = <<Head(ready)>> \o Tail(ready) /\ <<Head(ready)>> \in Seq(Messages)
      BY <1>a, <2>1, SplitHead
    <2> DEFINE h == <<Head(ready)>>
               t == Tail(ready)
    <2>3. Append(unacked, Head(ready)) = unacked \o h
      BY <1>a, <2>2, AppendIsConcat
    <2>4. h \in Seq(Messages) /\ t \in Seq(Messages) /\ ready = h \o t
      BY <2>2
    <2> HIDE DEF h, t
    <2>5. (unacked \o h) \o t = unacked \o (h \o t)
      BY ONLY <1>t, <2>4
    <2>6. Backlog' = Backlog
      BY <2>1, <2>3, <2>4, <2>5 DEF t
    <2> QED
      BY <1>0, <2>1, <2>6
  <1>4. CASE LoseConnection
    BY <1>0, <1>4, <1>s DEF LoseConnection, effects
  <1>5. CASE StreamEnds
    BY <1>0, <1>5 DEF StreamEnds, broker, effects
  <1>6. CASE Crash
    BY <1>0, <1>6, <1>s DEF Crash, effects
  <1>7. CASE Take
    BY <1>0, <1>7 DEF Take, broker, effects
  <1>8. CASE TakePanics
    BY <1>0, <1>8, <1>s DEF TakePanics, effects
  <1>9. CASE Between
    <2>1. Handles /\ TypeOK'
      BY <1>9, BetweenHandles
    <2>2. Backlog' = Backlog /\ settled' = settled
      BY <2>1 DEF Handles
    <2>3. CASE Act
      <3>1. current # None /\ current.stage = "act" /\ current \in Work
        BY <2>3 DEF Act, Working, TypeOK
      <3>2. Kind = "matched"
        BY <3>1 DEF HandledInv, Progress
      <3>3. current.msg \in Range(Backlog)
        BY <1>b, <3>1, WhatIsHeld DEF HeldInv, EveryDeliveryIsHeld
      <3>4. Queue!WorkOn(current.msg) /\ current.msg \in Messages
        BY <1>c, <2>2, <2>3, <3>1, <3>2, <3>3 DEF Queue!WorkOn, Act, Kind, Work
      <3> QED
        BY <3>4 DEF Queue!Next
    <2>4. CASE ~Act
      <3>1. executed' = executed
        BY <1>9, <2>4
        DEF Between, ParseFails, Reject, Accept, LookupFails, NoMatch, Matched, EngineAnswers,
            EngineFails, RecordSuccess, Respond, effects
      <3> QED
        BY <1>0, <2>2, <3>1
    <2> QED
      BY <2>3, <2>4
  <1>10. CASE Settle
    <2>1. CASE link # "up"
      BY <1>0, <1>10, <2>1 DEF Settle, effects
    <2>2. CASE link = "up"
      <3>1. /\ Working("settle") /\ current.msg \in Messages /\ Forget /\ executed' = executed
            /\ ready' = ready
            /\ settled' = Append(settled, [msg |-> current.msg, how |-> Verdict])
        BY <1>10, <2>2 DEF Settle, Working, TypeOK, Work, effects
      <3>2. unacked = <<current.msg>> \o inbox /\ unacked' = inbox
        BY <2>2, <3>1, ForgetFirst
      <3>3. <<current.msg>> \in Seq(Messages)
        BY <3>1
      <3>4. Backlog = <<current.msg>> \o (inbox \o ready) /\ inbox \o ready \in Seq(Messages)
        <4>1. (<<current.msg>> \o inbox) \o ready = <<current.msg>> \o (inbox \o ready)
          BY ONLY <1>t, <3>3
        <4> QED
          BY <1>a, <3>2, <4>1
      <3>5. Backlog # << >> /\ Head(Backlog) = current.msg /\ Tail(Backlog) = inbox \o ready
        BY ONLY <3>1, <3>3, <3>4
      <3>6. Verdict = "ack" /\ KindOf[current.msg] = "matched" => executed[current.msg] > 0
        BY <3>1 DEF Verdict, Working, HandledInv, Progress, AckEarned
      <3>7. Queue!Settle(Verdict)
        BY <3>1, <3>2, <3>5, <3>6 DEF Queue!Settle
      <3>8. Verdict \in {"ack", "nack"}
        BY DEF Verdict
      <3> QED
        BY <3>7, <3>8 DEF Queue!Next
    <2> QED
      BY <2>1, <2>2
  <1>11. CASE UNCHANGED vars
    BY <1>0, <1>11 DEF vars, broker, effects
  <1> QED
    BY <1>1, <1>2, <1>3, <1>4, <1>5, <1>6, <1>7, <1>8, <1>9, <1>10, <1>11
    DEF Next, LoopBody, Between

(* ImplementsWorkQueue: whatever connections are lost and whatever calls fail,
   the queue is worked off in the order of arrival. *)
THEOREM DeliveryImplementsWorkQueue == Spec => ImplementsWorkQueue
  <1>1. Init => Queue!Init
    <2>1. << >> \o << >> = << >>
      OBVIOUS
    <2> QED
      BY <2>1 DEF Init, Queue!Init
  <1>2. Spec => [](TypeOK /\ HeldInv)
    BY DeliveryTypeCorrect, InitHeld, StepHeld, PTL DEF Spec
  <1>3. Spec => []HandledInv
    BY <1>2, InitHandled, StepHandled, PTL DEF Spec
  <1>4. TypeOK /\ HeldInv /\ HandledInv /\ [Next]_vars => [Queue!Next]_queueVars
    BY StepQueue
  <1>5. [Queue!Next]_queueVars <=> [Queue!Next]_(Queue!vars)
    BY DEF queueVars, Queue!vars
  <1> QED
    BY <1>1, <1>2, <1>3, <1>4, <1>5, PTL DEF Spec, ImplementsWorkQueue, Queue!Spec

=============================================================================
