-------------------------- MODULE TelemetryProofs ---------------------------
(***************************************************************************)
(* Proofs about SeqLayer, for any lines, batch size and number of          *)
(* troubles: the flush task keeps the order, and the layer implements      *)
(* LogFeed.  And about Telemetry, for any runs and window: beside the      *)
(* diagnostics actor the log layer behaves as it does alone.               *)
(***************************************************************************)
EXTENDS Telemetry, SequenceFacts, TLAPS

-----------------------------------------------------------------------------
(* A non-empty sequence is a batch that LogFeed can store. *)
LEMMA BatchFits ==
    ASSUME NEW S, NEW s \in Seq(S), s # << >>, Len(s) <= BatchSize, NEW T, Range(s) \subseteq T
    PROVE  \E n \in 1..BatchSize : s \in [1..n -> T]
  <1>1. Len(s) \in Nat \ {0} /\ s \in [1..Len(s) -> S]
    BY EmptySeq, LenProperties
  <1>2. Len(s) \in 1..BatchSize
    BY <1>1, SeqAssumption
  <1>3. s \in [1..Len(s) -> T]
    BY <1>1 DEF Range
  <1> QED
    BY <1>2, <1>3

-----------------------------------------------------------------------------

LEMMA InitType == Init => TypeOK
  BY DEF Init, TypeOK, Phases

LEMMA StepType == TypeOK /\ [Next]_vars => TypeOK'
  <1> SUFFICES ASSUME TypeOK, [Next]_vars PROVE TypeOK'
    OBVIOUS
  <1> USE DEF TypeOK, Phases
  <1>0. \A s \in Seq(Lines) : Range(s) \subseteq Lines
    BY RangeOfSeq
  <1>1. ASSUME NEW line \in Lines, OnEvent(line) PROVE TypeOK'
    BY <1>1 DEF OnEvent
  <1>2. CASE Receive
    <2>1. Head(queue) \in Lines /\ Tail(queue) \in Seq(Lines)
      BY <1>2, HeadTailProperties DEF Receive
    <2> QED
      BY <1>2, <2>1 DEF Receive
  <1>3. CASE Drain
    <2>1. Head(queue) \in Lines /\ Tail(queue) \in Seq(Lines)
      BY <1>3, HeadTailProperties DEF Drain
    <2> QED
      BY <1>3, <2>1 DEF Drain
  <1>4. CASE Post
    BY <1>4 DEF Post
  <1>5. CASE Accepted
    BY <1>5 DEF Accepted, EndPost
  <1>6. CASE Refused
    BY <1>0, <1>6 DEF Refused, EndPost, Trouble
  <1>7. CASE ReplyRead
    BY <1>7 DEF ReplyRead
  <1>8. CASE Unanswered
    BY <1>0, <1>8 DEF Unanswered, SentUnanswered, EndPost, Trouble
  <1>9. ASSUME NEW batch \in wire, TakeIn(batch) PROVE TypeOK'
    BY <1>9 DEF TakeIn
  <1>10. ASSUME NEW batch \in wire, CutOff(batch) PROVE TypeOK'
    BY <1>0, <1>10 DEF CutOff
  <1>11. CASE Crash
    <2>1. CASE phase = "post"
      BY <1>0, <1>11, <2>1 DEF Crash, SentUnanswered, Trouble
    <2>2. CASE phase # "post"
      BY <1>0, <1>11, <2>2 DEF Crash, SentUnanswered, Trouble
    <2> QED
      BY <2>1, <2>2
  <1>12. CASE UNCHANGED vars
    BY <1>12 DEF vars
  <1> QED
    BY <1>1, <1>2, <1>3, <1>4, <1>5, <1>6, <1>7, <1>8, <1>9, <1>10, <1>11, <1>12
    DEF Next, Flusher, Network

(* TypeOK: the channel, the batch and what Seq holds are sequences of lines. *)
THEOREM SeqTypeCorrect == Spec => []TypeOK
  BY InitType, StepType, PTL DEF Spec

-----------------------------------------------------------------------------
(* The order of the flush task.                                            *)

(* The buffer holds a batch exactly while one is collected or posted, and
   without trouble nothing is on the wire. *)
OrderInv ==
    /\ LinesInOrder
    /\ phase \in {"wait", "reply"} <=> buffer = << >>
    /\ Len(buffer) <= BatchSize
    /\ troubles = 0 => wire = {}

LEMMA InitOrder == Init => OrderInv
  <1>1. << >> \o << >> \o << >> = << >> /\ Len(<< >>) = 0
    OBVIOUS
  <1>2. BatchSize \in Nat
    BY SeqAssumption
  <1> QED
    BY <1>1, <1>2 DEF Init, OrderInv, LinesInOrder

LEMMA StepOrder == TypeOK /\ OrderInv /\ [Next]_vars => OrderInv'
  <1> SUFFICES ASSUME TypeOK, OrderInv, [Next]_vars PROVE OrderInv'
    OBVIOUS
  <1> USE DEF TypeOK, Phases, OrderInv, LinesInOrder
  <1>e. \A s \in Seq(Lines) : s \o << >> = s /\ << >> \o s = s
    BY ConcatEmptySeq
  <1>b. BatchSize \in Nat \ {0}
    BY SeqAssumption
  <1>1. ASSUME NEW line \in Lines, OnEvent(line) PROVE OrderInv'
    <2> DEFINE before == gone \o buffer
    <2>0. \A s \in Seq(Lines) : Append(s, line) = s \o <<line>>
      BY AppendIsConcat, Zenon
    <2>1. /\ queue' = queue \o <<line>> /\ emitted' = emitted \o <<line>>
          /\ before \in Seq(Lines) /\ <<line>> \in Seq(Lines)
      BY <1>1, <2>0, ConcatProperties DEF OnEvent
    <2>2. (before \o queue) \o <<line>> = before \o (queue \o <<line>>)
      BY ONLY <2>1, queue \in Seq(Lines)
    <2>3. emitted' = gone' \o buffer' \o queue'
      BY <1>1, <2>1, <2>2 DEF OnEvent
    <2> QED
      BY <1>1, <2>3 DEF OnEvent
  <1>2. CASE Receive
    <2>1. /\ Head(queue) \in Lines /\ Tail(queue) \in Seq(Lines)
          /\ queue = <<Head(queue)>> \o Tail(queue)
      BY <1>2, SplitHead DEF Receive
    <2>2. buffer = << >> /\ buffer' = <<Head(queue)>> /\ queue' = Tail(queue) /\ gone' = gone
      BY <1>2 DEF Receive
    <2> DEFINE head == <<Head(queue)>>
    <2>3. gone \o queue = (gone \o head) \o Tail(queue)
      <3>1. head \in Seq(Lines)
        BY <2>1
      <3>2. gone \o (head \o Tail(queue)) = (gone \o head) \o Tail(queue)
        BY ONLY gone \in Seq(Lines), <2>1, <3>1
      <3> QED
        BY <2>1, <3>2
    <2>4. emitted' = gone' \o buffer' \o queue'
      BY <1>2, <1>e, <2>2, <2>3 DEF Receive
    <2>5. buffer' # << >> /\ Len(buffer') = 1
      BY <2>2
    <2> QED
      BY <1>2, <1>b, <2>4, <2>5 DEF Receive
  <1>3. CASE Drain
    <2>1. /\ Head(queue) \in Lines /\ Tail(queue) \in Seq(Lines)
          /\ queue = <<Head(queue)>> \o Tail(queue) /\ <<Head(queue)>> \in Seq(Lines)
      BY <1>3, SplitHead DEF Drain
    <2> DEFINE head == <<Head(queue)>>
    <2>2. buffer' = buffer \o head /\ queue' = Tail(queue) /\ gone' = gone
      BY <1>3, <2>1, AppendIsConcat DEF Drain
    <2>3. (gone \o buffer) \o (head \o Tail(queue)) = ((gone \o buffer) \o head) \o Tail(queue)
      <3>1. gone \o buffer \in Seq(Lines)
        BY ConcatProperties
      <3> QED
        BY ONLY <2>1, <3>1
    <2>4. (gone \o buffer) \o head = gone \o (buffer \o head)
      BY ONLY <2>1, gone \in Seq(Lines), buffer \in Seq(Lines)
    <2>5. emitted' = gone' \o buffer' \o queue'
      BY <1>3, <2>1, <2>2, <2>3, <2>4 DEF Drain
    <2>6. buffer' # << >> /\ Len(buffer') = Len(buffer) + 1
      BY <1>3, <2>1, AppendProperties DEF Drain
    <2>7. Len(buffer') <= BatchSize
      BY <1>3, <1>b, <2>6 DEF Drain
    <2> QED
      BY <1>3, <2>5, <2>6, <2>7 DEF Drain
  <1>4. CASE Post
    BY <1>4 DEF Post
  <1>5. ASSUME NEW next \in {"wait", "reply"}, phase = "post", EndPost(next)
        PROVE  /\ emitted' = gone' \o buffer' \o queue'
               /\ phase' \in {"wait", "reply"} /\ buffer' = << >> /\ Len(buffer') <= BatchSize
    <2>1. (gone \o buffer) \o << >> = gone \o buffer
      BY <1>e, ConcatProperties
    <2> QED
      BY <1>5, <1>b, <2>1 DEF EndPost
  <1>6. CASE Accepted
    BY <1>5, <1>6 DEF Accepted, EndPost
  <1>7. CASE Refused
    BY <1>5, <1>7 DEF Refused, Trouble
  <1>8. CASE ReplyRead
    BY <1>8 DEF ReplyRead
  <1>9. CASE Unanswered
    BY <1>5, <1>9 DEF Unanswered, Trouble
  <1>10. ASSUME NEW batch \in wire, TakeIn(batch) PROVE OrderInv'
    BY <1>10 DEF TakeIn
  <1>11. ASSUME NEW batch \in wire, CutOff(batch) PROVE OrderInv'
    BY <1>11 DEF CutOff
  <1>12. CASE Crash
    <2>1. emitted \o << >> \o << >> = emitted /\ Len(<< >>) = 0
      BY <1>e
    <2> QED
      BY <1>12, <1>b, <2>1 DEF Crash, Trouble
  <1>13. CASE UNCHANGED vars
    BY <1>13 DEF vars
  <1> QED
    BY <1>1, <1>2, <1>3, <1>4, <1>6, <1>7, <1>8, <1>9, <1>10, <1>11, <1>12, <1>13
    DEF Next, Flusher, Network

(* LinesInOrder: no line is skipped, doubled or reordered between on_event and
   the post, and without trouble Seq holds exactly what was posted. *)
THEOREM SeqKeepsOrder == Spec => []LinesInOrder
  <1>1. Spec => []TypeOK
    BY SeqTypeCorrect
  <1>2. Spec => []OrderInv
    BY <1>1, InitOrder, StepOrder, PTL DEF Spec
  <1>3. OrderInv => LinesInOrder
    BY DEF OrderInv
  <1> QED
    BY <1>2, <1>3, PTL

-----------------------------------------------------------------------------
(* The refinement.  A line is in one place: in the channel, in the buffer,  *)
(* in one batch on the wire, or settled; and it was logged.                 *)

UniqueInv ==
    /\ Pending \cup Range(stored) \cup lost \subseteq Range(emitted)
    /\ IsInjective(queue) /\ IsInjective(buffer)
    /\ Range(queue) \cap Range(buffer) = {}
    /\ \A batch \in wire :
          /\ batch # << >> /\ Len(batch) <= BatchSize /\ IsInjective(batch)
          /\ Range(batch) \cap (Range(queue) \cup Range(buffer)) = {}
          /\ \A other \in wire : other # batch => Range(batch) \cap Range(other) = {}

feedVars == <<Pending, stored, lost>>

LEMMA InitUnique == Init => UniqueInv /\ Feed!Init
  BY EmptyRange DEF Init, UniqueInv, Pending, Feed!Init

(* The instance brings the operators of Functions along. *)
LEMMA SameOperators ==
    ASSUME NEW f
    PROVE  Feed!Range(f) = Range(f) /\ Feed!IsInjective(f) = IsInjective(f)
  BY DEF Feed!Range, Range, Feed!IsInjective, IsInjective

(* Every step keeps lines in one place, and is a step of LogFeed. *)
LEMMA StepFeed ==
    ASSUME TypeOK, TypeOK', OrderInv, UniqueInv, [Next]_vars
    PROVE  UniqueInv' /\ [Feed!Next]_feedVars
  <1> DEFINE Wired == UNION {Range(batch) : batch \in wire}
  <1> USE DEF TypeOK
  <1>0. ASSUME feedVars' = feedVars PROVE [Feed!Next]_feedVars
    BY <1>0
  <1>1. ASSUME NEW line \in Lines, OnEvent(line) PROVE UniqueInv' /\ [Feed!Next]_feedVars
    <2>1. /\ Range(queue') = Range(queue) \cup {line}
          /\ Range(emitted') = Range(emitted) \cup {line}
      BY <1>1, RangeOfAppend DEF OnEvent
    <2>2. line \notin Pending \cup Range(stored) \cup lost
      BY <1>1 DEF OnEvent, UniqueInv
    <2>3. IsInjective(queue')
      BY <1>1, <2>2, AppendIsInjective DEF OnEvent, UniqueInv, Pending
    <2>4. Pending' = Pending \cup {line}
      BY <1>1, <2>1 DEF OnEvent, Pending
    <2>5. UniqueInv'
      BY <1>1, <2>1, <2>2, <2>3, <2>4 DEF OnEvent, UniqueInv, Pending
    <2>6. Feed!Log(line)
      BY <1>1, <2>2, <2>4, SameOperators DEF OnEvent, Feed!Log
    <2> QED
      BY <2>5, <2>6 DEF Feed!Next
  <1>2. CASE Receive
    <2>1. buffer = << >> /\ queue # << >> /\ queue' = Tail(queue) /\ buffer' = <<Head(queue)>>
      BY <1>2 DEF Receive, OrderInv
    <2>2. /\ Range(queue) = Range(queue') \cup {Head(queue)}
          /\ IsInjective(queue') /\ Head(queue) \notin Range(queue')
      BY <2>1, SplitHead DEF UniqueInv
    <2>3. Range(buffer) = {} /\ Range(buffer') = {Head(queue)} /\ IsInjective(buffer')
      BY <2>1, EmptyRange, SingletonRange
    <2>4. Pending' = Pending
      BY <1>2, <2>2, <2>3 DEF Receive, Pending
    <2>5. UniqueInv'
      BY <1>2, <2>2, <2>3, <2>4 DEF Receive, UniqueInv
    <2> QED
      BY <1>2, <2>4, <2>5 DEF Receive, feedVars
  <1>3. CASE Drain
    <2>1. queue # << >> /\ queue' = Tail(queue) /\ buffer' = Append(buffer, Head(queue))
      BY <1>3 DEF Drain
    <2>2. /\ Range(queue) = Range(queue') \cup {Head(queue)} /\ Head(queue) \in Lines
          /\ IsInjective(queue') /\ Head(queue) \notin Range(queue')
      BY <2>1, SplitHead DEF UniqueInv
    <2>3. Range(buffer') = Range(buffer) \cup {Head(queue)} /\ IsInjective(buffer')
      BY <2>1, <2>2, RangeOfAppend, AppendIsInjective DEF UniqueInv
    <2>4. Pending' = Pending
      BY <1>3, <2>2, <2>3 DEF Drain, Pending
    <2>5. UniqueInv'
      BY <1>3, <2>2, <2>3, <2>4 DEF Drain, UniqueInv
    <2> QED
      BY <1>3, <2>4, <2>5 DEF Drain, feedVars
  <1>4. CASE Post \/ ReplyRead
    BY <1>4 DEF Post, ReplyRead, UniqueInv, Pending, feedVars
  <1>5. ASSUME phase = "post" PROVE buffer # << >> /\ Len(buffer) <= BatchSize
    BY <1>5 DEF OrderInv
  <1>6. ASSUME NEW next, EndPost(next)
        PROVE  Range(buffer') = {} /\ IsInjective(buffer') /\ queue' = queue /\ emitted' = emitted
    BY <1>6, EmptyRange DEF EndPost
  <1>7. CASE Accepted
    <2>1. /\ Range(buffer') = {} /\ IsInjective(buffer') /\ queue' = queue
          /\ emitted' = emitted /\ wire' = wire /\ lost' = lost
      BY <1>6, <1>7 DEF Accepted
    <2>2. Range(stored') = Range(stored) \cup Range(buffer)
      BY <1>7, RangeConcatenation DEF Accepted
    <2>3. Pending' = Pending \ Range(buffer)
      BY <2>1 DEF Pending, UniqueInv
    <2>4. UniqueInv'
      BY <2>1, <2>2, <2>3 DEF UniqueInv, Pending
    <2>5. PICK n \in 1..BatchSize : buffer \in [1..n -> Pending]
      BY <1>5, <1>7, BatchFits DEF Accepted, Pending
    <2>6. Feed!Store
      BY <1>7, <2>1, <2>3, <2>5, SameOperators DEF Accepted, Feed!Store, UniqueInv
    <2> QED
      BY <2>4, <2>6 DEF Feed!Next
  <1>8. CASE Refused
    <2>1. /\ Range(buffer') = {} /\ IsInjective(buffer') /\ queue' = queue
          /\ emitted' = emitted /\ wire' = wire /\ stored' = stored
          /\ lost' = lost \cup Range(buffer)
      BY <1>6, <1>8 DEF Refused
    <2>2. Pending' = Pending \ Range(buffer) /\ Range(buffer) \subseteq Pending
      BY <2>1 DEF Pending, UniqueInv
    <2>3. UniqueInv'
      BY <2>1, <2>2 DEF UniqueInv, Pending
    <2>4. Feed!Lose
      BY <2>1, <2>2 DEF Feed!Lose
    <2> QED
      BY <2>3, <2>4 DEF Feed!Next
  <1>9. CASE Unanswered
    <2>1. /\ Range(buffer') = {} /\ IsInjective(buffer') /\ queue' = queue
          /\ emitted' = emitted /\ wire' = wire \cup {buffer}
          /\ stored' = stored /\ lost' = lost
      BY <1>6, <1>9 DEF Unanswered, SentUnanswered
    <2>2. Pending' = Pending
      BY <2>1 DEF Pending
    <2>3. buffer # << >> /\ Len(buffer) <= BatchSize
      BY <1>5, <1>9 DEF Unanswered
    <2>4. UniqueInv'
      BY <2>1, <2>2, <2>3 DEF UniqueInv
    <2> QED
      BY <2>1, <2>2, <2>4 DEF feedVars
  <1>10. ASSUME NEW batch \in wire, TakeIn(batch) \/ CutOff(batch)
         PROVE  /\ Pending' = Pending \ Range(batch)
                /\ Range(batch) \subseteq Pending
                /\ Range(batch) \subseteq Range(emitted)
                /\ \A b \in wire' : b \in wire /\ b # batch
    <2>1. /\ wire' = wire \ {batch}
          /\ queue' = queue /\ buffer' = buffer /\ emitted' = emitted
      BY <1>10 DEF TakeIn, CutOff
    <2> QED
      BY <2>1 DEF Pending, UniqueInv
  <1>11. ASSUME NEW batch \in wire, TakeIn(batch) PROVE UniqueInv' /\ [Feed!Next]_feedVars
    <2>1. batch \in Seq(Lines) /\ Range(stored') = Range(stored) \cup Range(batch)
      BY <1>11, RangeConcatenation DEF TakeIn
    <2>2. UniqueInv'
      BY <1>10, <1>11, <2>1 DEF TakeIn, UniqueInv
    <2>3. batch # << >> /\ Len(batch) <= BatchSize /\ IsInjective(batch)
      BY DEF UniqueInv
    <2>4. PICK n \in 1..BatchSize : batch \in [1..n -> Pending]
      BY <1>10, <1>11, <2>1, <2>3, BatchFits
    <2>5. Feed!Store
      BY <1>10, <1>11, <2>3, <2>4, SameOperators DEF TakeIn, Feed!Store
    <2> QED
      BY <2>2, <2>5 DEF Feed!Next
  <1>12. ASSUME NEW batch \in wire, CutOff(batch) PROVE UniqueInv' /\ [Feed!Next]_feedVars
    <2>1. UniqueInv'
      BY <1>10, <1>12 DEF CutOff, UniqueInv
    <2>2. Feed!Lose
      BY <1>10, <1>12 DEF CutOff, Feed!Lose
    <2> QED
      BY <2>1, <2>2 DEF Feed!Next
  <1>13. CASE Crash
    <2>1. /\ Range(queue') = {} /\ Range(buffer') = {} /\ IsInjective(queue') /\ IsInjective(buffer')
          /\ emitted' = emitted /\ stored' = stored
      BY <1>13, EmptyRange DEF Crash
    <2>2. CASE phase = "post"
      <3>1. wire' = wire \cup {buffer} /\ lost' = lost \cup Range(queue)
        BY <1>13, <2>2 DEF Crash, SentUnanswered
      <3>2. Pending' = Pending \ Range(queue) /\ Range(queue) \subseteq Pending
        BY <2>1, <3>1 DEF Pending, UniqueInv
      <3>3. UniqueInv'
        BY <1>5, <2>1, <2>2, <3>1, <3>2 DEF UniqueInv, Pending
      <3>4. Feed!Lose
        BY <2>1, <3>1, <3>2 DEF Feed!Lose
      <3> QED
        BY <3>3, <3>4 DEF Feed!Next
    <2>3. CASE phase # "post"
      <3> DEFINE died == Range(buffer) \cup Range(queue)
      <3>1. wire' = wire /\ lost' = lost \cup died
        BY <1>13, <2>3 DEF Crash
      <3>2. Pending' = Pending \ died /\ died \subseteq Pending
        BY <2>1, <3>1 DEF Pending, UniqueInv
      <3>3. UniqueInv'
        BY <2>1, <3>1, <3>2 DEF UniqueInv, Pending
      <3>4. Feed!Lose
        BY <2>1, <3>1, <3>2 DEF Feed!Lose
      <3> QED
        BY <3>3, <3>4 DEF Feed!Next
    <2> QED
      BY <2>2, <2>3
  <1>14. CASE UNCHANGED vars
    BY <1>14 DEF vars, UniqueInv, Pending, feedVars
  <1> QED
    BY <1>1, <1>2, <1>3, <1>4, <1>7, <1>8, <1>9, <1>11, <1>12, <1>13, <1>14
    DEF Next, Flusher, Network

(* ImplementsLogFeed: whatever is refused, times out or dies, a line reaches
   Seq at most once, in a batch of at most BatchSize. *)
THEOREM SeqImplementsLogFeed == Spec => ImplementsLogFeed
  <1>1. Spec => []TypeOK
    BY SeqTypeCorrect
  <1>2. Spec => []OrderInv
    BY <1>1, InitOrder, StepOrder, PTL DEF Spec
  <1>3. TypeOK /\ TypeOK' /\ OrderInv /\ UniqueInv /\ [Next]_vars => UniqueInv' /\ [Feed!Next]_feedVars
    BY StepFeed
  <1>4. Spec => []UniqueInv
    BY <1>1, <1>2, <1>3, InitUnique, PTL DEF Spec
  <1>5. Spec => Feed!Init /\ [][Feed!Next]_feedVars
    BY <1>1, <1>2, <1>3, <1>4, InitUnique, PTL DEF Spec
  <1> QED
    BY <1>5, PTL DEF ImplementsLogFeed, Feed!Spec, feedVars

-----------------------------------------------------------------------------
(* The order in Seq.  A stored line was posted or left on the wire, and what *)
(* is collected now was logged after everything the task is done with.      *)

OvertakeInv ==
    /\ IsInjective(emitted)
    /\ Range(stored) \subseteq Range(gone)
    /\ \A batch \in wire : Range(batch) \subseteq unanswered \cap Range(gone)
    /\ OvertakenOnlyUnanswered

LEMMA LoggedAtIndex ==
    ASSUME TypeOK, IsInjective(emitted), NEW i \in DOMAIN emitted
    PROVE  LoggedAt(emitted[i]) = i
  BY DEF LoggedAt, IsInjective

(* Where the lines of gone and of the buffer are in emitted. *)
LEMMA Positions ==
    ASSUME TypeOK, LinesInOrder, IsInjective(emitted)
    PROVE  /\ \A line \in Range(gone) : LoggedAt(line) \in 1..Len(gone)
           /\ \A k \in DOMAIN buffer : LoggedAt(buffer[k]) = Len(gone) + k
  <1>1. /\ emitted \in Seq(Lines) /\ gone \in Seq(Lines) /\ buffer \in Seq(Lines)
        /\ queue \in Seq(Lines) /\ emitted = (gone \o buffer) \o queue
    BY DEF TypeOK, LinesInOrder
  <1>2. /\ Len(gone) \in Nat /\ Len(buffer) \in Nat /\ Len(queue) \in Nat
        /\ Len(emitted) = Len(gone) + Len(buffer) + Len(queue)
        /\ DOMAIN gone = 1..Len(gone) /\ DOMAIN buffer = 1..Len(buffer)
        /\ DOMAIN emitted = 1..Len(emitted)
    BY <1>1
  <1>3. \A i \in 1..Len(gone) : emitted[i] = gone[i]
    BY <1>1, <1>2
  <1>4. \A k \in 1..Len(buffer) : emitted[Len(gone) + k] = buffer[k]
    BY <1>1, <1>2
  <1>5. \A i \in 1..Len(gone) : LoggedAt(gone[i]) = i
    BY <1>2, <1>3, LoggedAtIndex
  <1>6. \A k \in 1..Len(buffer) : LoggedAt(buffer[k]) = Len(gone) + k
    BY <1>2, <1>4, LoggedAtIndex
  <1> QED
    BY <1>2, <1>5, <1>6 DEF Range

LEMMA InitOvertake == Init => OvertakeInv
  BY EmptyRange DEF Init, OvertakeInv, OvertakenOnlyUnanswered

LEMMA StepOvertake ==
    ASSUME TypeOK, TypeOK', OrderInv, OrderInv', OvertakeInv, [Next]_vars
    PROVE  OvertakeInv'
  <1>0. LinesInOrder
    BY DEF OrderInv
  <1>1. ASSUME emitted' = emitted, unanswered \subseteq unanswered', stored' = stored
        PROVE  OvertakenOnlyUnanswered'
    BY <1>1 DEF OvertakeInv, OvertakenOnlyUnanswered, LoggedAt
  <1>2. ASSUME NEW line \in Lines, OnEvent(line) PROVE OvertakeInv'
    <2>1. /\ emitted' = Append(emitted, line) /\ stored' = stored /\ gone' = gone
          /\ wire' = wire /\ unanswered' = unanswered /\ line \notin Range(emitted)
          /\ emitted \in Seq(Lines)
      BY <1>2 DEF OnEvent, TypeOK
    <2>2. IsInjective(emitted')
      BY <2>1, AppendIsInjective DEF OvertakeInv
    <2>3. \A l \in Range(gone) : LoggedAt(l)' = LoggedAt(l)
      <3> SUFFICES ASSUME NEW l \in Range(gone) PROVE LoggedAt(l)' = LoggedAt(l)
        OBVIOUS
      <3>1. PICK i \in DOMAIN gone : gone[i] = l
        BY DEF Range
      <3>2. i \in 1..Len(emitted) /\ emitted[i] = l
        BY <1>0, <3>1 DEF TypeOK, LinesInOrder
      <3>3. emitted'[i] = l /\ i \in DOMAIN emitted'
        BY <2>1, <3>2
      <3>4. LoggedAt(l) = i
        BY <3>2, LoggedAtIndex DEF OvertakeInv, TypeOK
      <3>5. LoggedAt(l)' = i
        BY <2>2, <3>3 DEF LoggedAt, IsInjective
      <3> QED
        BY <3>4, <3>5
    <2>4. \A i \in DOMAIN stored : stored[i] \in Range(gone)
      BY DEF OvertakeInv, Range
    <2>5. OvertakenOnlyUnanswered'
      BY <2>1, <2>3, <2>4 DEF OvertakeInv, OvertakenOnlyUnanswered
    <2> QED
      BY <2>1, <2>2, <2>5 DEF OvertakeInv
  <1>3. CASE Receive \/ Drain \/ Post \/ ReplyRead
    <2>1. /\ emitted' = emitted /\ stored' = stored /\ gone' = gone
          /\ wire' = wire /\ unanswered' = unanswered
      BY <1>3 DEF Receive, Drain, Post, ReplyRead
    <2> QED
      BY <1>1, <2>1 DEF OvertakeInv
  <1>4. ASSUME NEW next, EndPost(next)
        PROVE  Range(gone') = Range(gone) \cup Range(buffer) /\ emitted' = emitted
    BY <1>4, RangeConcatenation DEF EndPost, TypeOK
  <1>5. CASE Accepted
    <2>1. /\ stored' = stored \o buffer /\ wire' = wire /\ unanswered' = unanswered
          /\ emitted' = emitted /\ Range(gone') = Range(gone) \cup Range(buffer)
          /\ stored \in Seq(Lines) /\ buffer \in Seq(Lines)
      BY <1>4, <1>5 DEF Accepted, TypeOK
    <2>2. Range(stored') = Range(stored) \cup Range(buffer)
      BY <2>1, RangeConcatenation
    <2>3. /\ \A l \in Range(gone) : LoggedAt(l) \in 1..Len(gone)
          /\ \A k \in DOMAIN buffer : LoggedAt(buffer[k]) = Len(gone) + k
      BY <1>0, Positions DEF OvertakeInv
    <2>4. ASSUME NEW i \in DOMAIN stored', NEW j \in DOMAIN stored', i < j,
                 LoggedAt(stored'[j]) < LoggedAt(stored'[i])
          PROVE  stored'[j] \in unanswered
      <3>1. /\ Len(stored) \in Nat /\ Len(buffer) \in Nat /\ Len(gone) \in Nat
            /\ DOMAIN stored' = 1..(Len(stored) + Len(buffer))
            /\ DOMAIN stored = 1..Len(stored) /\ DOMAIN buffer = 1..Len(buffer)
        BY <2>1 DEF TypeOK
      <3>2. CASE j <= Len(stored)
        <4>1. /\ i \in DOMAIN stored /\ j \in DOMAIN stored
              /\ stored'[i] = stored[i] /\ stored'[j] = stored[j]
          BY <2>1, <2>4, <3>1, <3>2
        <4> QED
          BY <2>4, <4>1 DEF OvertakeInv, OvertakenOnlyUnanswered
      <3>3. CASE j > Len(stored)
        <4>1. j - Len(stored) \in DOMAIN buffer /\ stored'[j] = buffer[j - Len(stored)]
          BY <2>1, <3>1, <3>3
        <4>2. LoggedAt(stored'[j]) = Len(gone) + (j - Len(stored))
          BY <2>3, <4>1
        <4>3. CASE i <= Len(stored)
          <5>1. i \in DOMAIN stored /\ stored'[i] = stored[i]
            BY <2>1, <3>1, <4>3
          <5>2. stored'[i] \in Range(gone)
            BY <5>1 DEF OvertakeInv, Range
          <5>3. LoggedAt(stored'[i]) \in 1..Len(gone)
            BY <2>3, <5>2
          <5> QED
            BY <2>4, <3>1, <4>1, <4>2, <5>3
        <4>4. CASE i > Len(stored)
          <5>1. i - Len(stored) \in DOMAIN buffer /\ stored'[i] = buffer[i - Len(stored)]
            BY <2>1, <3>1, <4>4
          <5>2. LoggedAt(stored'[i]) = Len(gone) + (i - Len(stored))
            BY <2>3, <5>1
          <5> QED
            BY <2>4, <3>1, <4>2, <5>2
        <4> QED
          BY <3>1, <4>3, <4>4
      <3> QED
        BY <3>1, <3>2, <3>3
    <2>5. OvertakenOnlyUnanswered'
      BY <2>1, <2>4 DEF OvertakenOnlyUnanswered, LoggedAt
    <2> QED
      BY <2>1, <2>2, <2>5 DEF OvertakeInv
  <1>6. CASE Refused
    <2>1. /\ stored' = stored /\ wire' = wire /\ unanswered' = unanswered
          /\ emitted' = emitted /\ Range(gone') = Range(gone) \cup Range(buffer)
      BY <1>4, <1>6 DEF Refused
    <2> QED
      BY <1>1, <2>1 DEF OvertakeInv
  <1>7. CASE Unanswered
    <2>1. /\ stored' = stored /\ wire' = wire \cup {buffer}
          /\ unanswered' = unanswered \cup Range(buffer)
          /\ emitted' = emitted /\ Range(gone') = Range(gone) \cup Range(buffer)
      BY <1>4, <1>7 DEF Unanswered, SentUnanswered
    <2> QED
      BY <1>1, <2>1 DEF OvertakeInv
  <1>8. ASSUME NEW batch \in wire, TakeIn(batch) PROVE OvertakeInv'
    <2>1. /\ stored' = stored \o batch /\ wire' = wire \ {batch} /\ unanswered' = unanswered
          /\ emitted' = emitted /\ gone' = gone
          /\ stored \in Seq(Lines) /\ batch \in Seq(Lines)
      BY <1>8 DEF TakeIn, TypeOK
    <2>2. Range(stored') = Range(stored) \cup Range(batch)
      BY <2>1, RangeConcatenation
    <2>3. ASSUME NEW i \in DOMAIN stored', NEW j \in DOMAIN stored', i < j,
                 LoggedAt(stored'[j]) < LoggedAt(stored'[i])
          PROVE  stored'[j] \in unanswered
      <3>1. /\ Len(stored) \in Nat /\ Len(batch) \in Nat
            /\ DOMAIN stored' = 1..(Len(stored) + Len(batch))
            /\ DOMAIN stored = 1..Len(stored) /\ DOMAIN batch = 1..Len(batch)
        BY <2>1
      <3>2. CASE j <= Len(stored)
        <4>1. /\ i \in DOMAIN stored /\ j \in DOMAIN stored
              /\ stored'[i] = stored[i] /\ stored'[j] = stored[j]
          BY <2>1, <2>3, <3>1, <3>2
        <4> QED
          BY <2>3, <4>1 DEF OvertakeInv, OvertakenOnlyUnanswered
      <3>3. CASE j > Len(stored)
        <4>1. j - Len(stored) \in DOMAIN batch /\ stored'[j] = batch[j - Len(stored)]
          BY <2>1, <3>1, <3>3
        <4>2. stored'[j] \in Range(batch)
          BY <4>1 DEF Range
        <4> QED
          BY <4>2 DEF OvertakeInv
      <3> QED
        BY <3>1, <3>2, <3>3
    <2>4. OvertakenOnlyUnanswered'
      BY <2>1, <2>3 DEF OvertakenOnlyUnanswered, LoggedAt
    <2> QED
      BY <2>1, <2>2, <2>4 DEF OvertakeInv
  <1>9. ASSUME NEW batch \in wire, CutOff(batch) PROVE OvertakeInv'
    <2>1. /\ stored' = stored /\ wire' = wire \ {batch} /\ unanswered' = unanswered
          /\ emitted' = emitted /\ gone' = gone
      BY <1>9 DEF CutOff
    <2> QED
      BY <1>1, <2>1 DEF OvertakeInv
  <1>10. CASE Crash
    <2>1. Range(gone) \subseteq Range(emitted) /\ Range(buffer) \subseteq Range(emitted)
      <3>1. /\ gone \in Seq(Lines) /\ buffer \in Seq(Lines) /\ queue \in Seq(Lines)
            /\ gone \o buffer \in Seq(Lines) /\ emitted = (gone \o buffer) \o queue
        BY <1>0 DEF TypeOK, LinesInOrder
      <3>2. Range(emitted) = Range(gone \o buffer) \cup Range(queue)
        BY <3>1, RangeConcatenation
      <3>3. Range(gone \o buffer) = Range(gone) \cup Range(buffer)
        BY <3>1, RangeConcatenation
      <3> QED
        BY <3>2, <3>3
    <2>2. emitted' = emitted /\ stored' = stored /\ gone' = emitted
      BY <1>10 DEF Crash
    <2>3. \/ wire' = wire /\ unanswered' = unanswered
          \/ wire' = wire \cup {buffer} /\ unanswered' = unanswered \cup Range(buffer)
      BY <1>10 DEF Crash, SentUnanswered
    <2>4. OvertakenOnlyUnanswered'
      BY <1>1, <2>2, <2>3
    <2> QED
      BY <2>1, <2>2, <2>3, <2>4 DEF OvertakeInv
  <1>11. CASE UNCHANGED vars
    BY <1>1, <1>11 DEF vars, OvertakeInv
  <1> QED
    BY <1>2, <1>3, <1>5, <1>6, <1>7, <1>8, <1>9, <1>10, <1>11 DEF Next, Flusher, Network

(* OvertakenOnlyUnanswered: Seq takes lines in out of order only around a post
   that timed out or broke off. *)
THEOREM OrderInSeq == Spec => []OvertakenOnlyUnanswered
  <1>1. Spec => []TypeOK
    BY SeqTypeCorrect
  <1>2. Spec => []OrderInv
    BY <1>1, InitOrder, StepOrder, PTL DEF Spec
  <1>3. TypeOK /\ TypeOK' /\ OrderInv /\ OrderInv' /\ OvertakeInv /\ [Next]_vars => OvertakeInv'
    BY StepOvertake
  <1>4. Spec => []OvertakeInv
    BY <1>1, <1>2, <1>3, InitOvertake, PTL DEF Spec
  <1>5. OvertakeInv => OvertakenOnlyUnanswered
    BY DEF OvertakeInv
  <1> QED
    BY <1>4, <1>5, PTL

-----------------------------------------------------------------------------
(* The diagnostics actor beside it.                                          *)

LEMMA TelemetryInitType == TelemetryInit => TelemetryTypeOK
  <1> SUFFICES ASSUME TelemetryInit PROVE TelemetryTypeOK
    OBVIOUS
  <1>1. TypeOK
    BY InitType DEF TelemetryInit
  <1>2. Diag!TypeOK
    BY TelemetryAssumption DEF TelemetryInit, Diag!Init, Diag!TypeOK
  <1> QED
    BY <1>1, <1>2 DEF TelemetryInit, TelemetryTypeOK

(* A step of the whole is a step of the log layer or leaves it alone. *)
LEMMA StepOfLayer == TelemetryTypeOK /\ [TelemetryNext]_telemetryVars => [Next]_vars
  <1> SUFFICES ASSUME TelemetryTypeOK, [TelemetryNext]_telemetryVars PROVE [Next]_vars
    OBVIOUS
  <1>1. ASSUME NEW r \in Runs, RecordEvaluation(r) \/ RecordError(r) PROVE UNCHANGED vars
    BY <1>1 DEF RecordEvaluation, RecordError, seqVars
  <1>2. ASSUME NEW r \in Runs, Warn(r) PROVE Next
    BY <1>2, TelemetryAssumption DEF Warn, Next
  <1>3. CASE HandleMail
    <2>1. mailbox \in Seq(Diag!Mail) /\ mailbox # << >>
      BY <1>3 DEF HandleMail, Diag!Handle, TelemetryTypeOK, Diag!TypeOK
    <2>2. Head(mailbox) \in Diag!Mail
      BY <2>1, HeadTailProperties
    <2>3. Head(mailbox).about \in Runs
      BY <2>2 DEF Diag!Mail
    <2> QED
      BY <1>3, <2>3, TelemetryAssumption DEF HandleMail, Next
  <1>4. CASE Ship
    BY <1>4 DEF Ship, Next
  <1>5. CASE ProcessCrash
    BY <1>5 DEF ProcessCrash, Next
  <1>6. CASE UNCHANGED telemetryVars
    BY <1>6 DEF telemetryVars, seqVars
  <1> QED
    BY <1>1, <1>2, <1>3, <1>4, <1>5, <1>6 DEF TelemetryNext

LEMMA DoSendType ==
    ASSUME NEW r \in Runs, Diag!TypeOK, Record(r) PROVE Diag!TypeOK'
  BY TelemetryAssumption DEF Record, Diag!DoSend, Diag!TypeOK, Diag!Mail

(* The window keeps its bound. *)
LEMMA HandleType == Diag!TypeOK /\ Diag!Handle => Diag!TypeOK'
  <1> SUFFICES ASSUME Diag!TypeOK, Diag!Handle PROVE Diag!TypeOK'
    OBVIOUS
  <1> USE DEF Diag!TypeOK
  <1>0. Capacity \in Nat
    BY TelemetryAssumption
  <1>1. mailbox # << >> /\ mailbox' = Tail(mailbox)
    BY DEF Diag!Handle
  <1>2. /\ Head(mailbox) \in Diag!Mail /\ mailbox' \in Seq(Diag!Mail)
    BY <1>1, HeadTailProperties
  <1> DEFINE mail == Head(mailbox)
  <1>3. CASE mail.kind = "evaluation"
    <2> DEFINE pushed == <<mail.about>> \o recent
               n == IF Len(pushed) > Capacity THEN Capacity ELSE Len(pushed)
    <2>1. pushed \in Seq(Runs) /\ Len(pushed) \in Nat
      BY <1>2 DEF Diag!Mail
    <2>2. n \in Nat /\ n <= Len(pushed) /\ n <= Capacity
      BY <1>0, <2>1
    <2>3. SubSeq(pushed, 1, n) \in Seq(Runs) /\ Len(SubSeq(pushed, 1, n)) = n
      BY ONLY <2>1, <2>2
    <2>4. recent' = SubSeq(pushed, 1, n) /\ error_counters' = error_counters
      BY <1>3 DEF Diag!Handle, Diag!Kept, Diag!PushFront
    <2> QED
      BY <1>2, <2>2, <2>3, <2>4
  <1>4. CASE mail.kind # "evaluation"
    <2>1. mail.kind \in ErrorKinds
      BY <1>2, <1>4 DEF Diag!Mail
    <2>2. recent' = recent
          /\ error_counters' = [error_counters EXCEPT ![mail.kind] = @ + 1]
      BY <1>4 DEF Diag!Handle
    <2> QED
      BY <1>2, <2>1, <2>2
  <1> QED
    BY <1>3, <1>4

LEMMA TelemetryStepType ==
    TelemetryTypeOK /\ [TelemetryNext]_telemetryVars => TelemetryTypeOK'
  <1> SUFFICES ASSUME TelemetryTypeOK, [TelemetryNext]_telemetryVars PROVE TelemetryTypeOK'
    OBVIOUS
  <1>0. TypeOK'
    BY StepOfLayer, StepType DEF TelemetryTypeOK
  <1>d. ASSUME UNCHANGED diagVars PROVE Diag!TypeOK'
    BY <1>d DEF diagVars, TelemetryTypeOK, Diag!TypeOK
  <1>1. ASSUME NEW r \in Runs, RecordEvaluation(r) \/ RecordError(r) PROVE TelemetryTypeOK'
    BY <1>0, <1>1, DoSendType DEF RecordEvaluation, RecordError, TelemetryTypeOK
  <1>2. ASSUME NEW r \in Runs, Warn(r) PROVE TelemetryTypeOK'
    BY <1>0, <1>d, <1>2 DEF Warn, TelemetryTypeOK
  <1>3. CASE HandleMail
    BY <1>0, <1>3, HandleType DEF HandleMail, runVars, TelemetryTypeOK
  <1>4. CASE Ship
    BY <1>0, <1>d, <1>4 DEF Ship, runVars, TelemetryTypeOK
  <1>5. CASE ProcessCrash
    <2>1. Diag!TypeOK'
      BY <1>5, TelemetryAssumption DEF ProcessCrash, Diag!Restart, Diag!TypeOK
    <2>2. Len(emitted) \in Nat
      BY DEF TelemetryTypeOK, TypeOK
    <2> QED
      BY <1>0, <1>5, <2>1, <2>2 DEF ProcessCrash, TelemetryTypeOK
  <1>6. CASE UNCHANGED telemetryVars
    BY <1>0, <1>d, <1>6 DEF telemetryVars, runVars, TelemetryTypeOK
  <1> QED
    BY <1>1, <1>2, <1>3, <1>4, <1>5, <1>6 DEF TelemetryNext

(* TelemetryTypeOK: among others, the window of the actor keeps its bound. *)
THEOREM WindowIsBounded == TelemetrySpec => []TelemetryTypeOK
  BY TelemetryInitType, TelemetryStepType, PTL DEF TelemetrySpec

(* The log layer inside the process is the log layer of SeqLayer, so that what
   is proved of that holds here: the order of the task, the order in Seq, and
   that each line is stored at most once. *)
THEOREM TelemetryImplementsSeqLayer ==
    TelemetrySpec => /\ Spec /\ ImplementsLogFeed
                     /\ []LinesInOrder /\ []OvertakenOnlyUnanswered
  <1>1. TelemetryInit => Init
    BY DEF TelemetryInit
  <1>2. TelemetrySpec => Spec
    BY <1>1, StepOfLayer, WindowIsBounded, PTL DEF TelemetrySpec, Spec
  <1> QED
    BY <1>2, SeqKeepsOrder, OrderInSeq, SeqImplementsLogFeed, PTL

-----------------------------------------------------------------------------
(* The window and the counters.                                              *)

(* What makes SnapshotAgreesWithLog inductive: a message is of the kind that its
   run came to. *)
MailFits ==
    /\ \A k \in DOMAIN mailbox : mailbox[k].kind = OutcomeOf[mailbox[k].about]
    /\ began <= Len(emitted)

AgreeInv == TelemetryTypeOK /\ MailFits /\ SnapshotAgreesWithLog

(* Sets of positions are finite, and so is what is counted of them. *)
LEMMA PositionsAreFinite ==
    ASSUME NEW m \in Nat, NEW n \in Nat, NEW S \in SUBSET (m .. n)
    PROVE  /\ IsFiniteSet(S) /\ Cardinality(S) \in Nat
           /\ \A i : Since(i, S) \in Nat /\ Since(i, S) <= Cardinality(S)
           /\ \A i \in S : Since(i, S) > 0
  <1>1. IsFiniteSet(S) /\ Cardinality(S) \in Nat
    <2>1. IsFiniteSet(m .. n)
      BY FS_Interval
    <2>2. IsFiniteSet(S)
      BY <2>1, FS_Subset
    <2> QED
      BY <2>2, FS_CardinalityType
  <1>2. ASSUME NEW i
        PROVE  /\ Since(i, S) \in Nat /\ Since(i, S) <= Cardinality(S)
               /\ i \in S => Since(i, S) > 0
    <2> DEFINE T == {j \in S : j >= i}
    <2>1. T \in SUBSET S
      OBVIOUS
    <2>2. IsFiniteSet(T) /\ Cardinality(T) <= Cardinality(S) /\ Cardinality(T) \in Nat
      <3> HIDE DEF T
      <3> QED
        BY <1>1, <2>1, FS_Subset, FS_CardinalityType
    <2>3. ASSUME i \in S
          PROVE  Cardinality(T) # 0
      <3>1. i \in T
        BY <2>3
      <3> HIDE DEF T
      <3> QED
        BY <2>2, <3>1, FS_EmptySet
    <2> QED
      BY <2>2, <2>3 DEF Since
  <1> QED
    BY <1>1, <1>2

(* A position behind all others makes every count greater by one. *)
LEMMA LaterPosition ==
    ASSUME NEW m \in Nat, NEW n \in Nat, NEW S \in SUBSET (m .. n)
    PROVE  LET T == S \cup {n + 1}
           IN  /\ Cardinality(T) = Cardinality(S) + 1
               /\ Since(n + 1, T) = 1
               /\ \A i \in S : Since(i, T) = Since(i, S) + 1
  <1> DEFINE T == S \cup {n + 1}
  <1>1. IsFiniteSet(S) /\ n + 1 \notin S
    BY PositionsAreFinite
  <1>2. Cardinality(T) = Cardinality(S) + 1
    BY <1>1, FS_AddElement
  <1>3. Since(n + 1, T) = 1
    <2>1. {j \in T : j >= n + 1} = {n + 1}
      <3>1. \A j \in S : j \in Int /\ ~(j >= n + 1)
        OBVIOUS
      <3>2. \A j : j \in T <=> j \in S \/ j = n + 1
        OBVIOUS
      <3>3. n + 1 >= n + 1
        OBVIOUS
      <3> HIDE DEF T
      <3> QED
        BY <3>1, <3>2, <3>3
    <2>2. Cardinality({n + 1}) = 1
      BY FS_EmptySet, FS_AddElement
    <2> QED
      BY <2>1, <2>2 DEF Since
  <1>4. ASSUME NEW i \in S
        PROVE  Since(i, T) = Since(i, S) + 1
    <2> DEFINE U == {j \in S : j >= i}
    <2>1. {j \in T : j >= i} = U \cup {n + 1}
      <3>1. i \in Int /\ n + 1 >= i
        OBVIOUS
      <3> QED
        BY <3>1
    <2>2. U \in SUBSET (m .. n) /\ n + 1 \notin U
      <3>1. U \subseteq S
        OBVIOUS
      <3> HIDE DEF U
      <3> QED
        BY <1>1, <3>1
    <2> HIDE DEF U
    <2>3. IsFiniteSet(U)
      BY <2>2, PositionsAreFinite
    <2>4. Cardinality(U \cup {n + 1}) = Cardinality(U) + 1
      BY <2>2, <2>3, FS_AddElement
    <2> QED
      BY <2>1, <2>4 DEF Since, U
  <1> QED
    BY <1>2, <1>3, <1>4

LEMMA LoggedIsBounded ==
    ASSUME TelemetryTypeOK, NEW kind
    PROVE  /\ Len(emitted) \in Nat /\ began + 1 \in Nat
           /\ LoggedAs(kind) \in SUBSET (began + 1 .. Len(emitted))
  BY DEF TelemetryTypeOK, TypeOK, LoggedAs

(* A line that the actor does not log changes nothing, one that it logs is added
   to those of its kind. *)
LEMMA LoggedStep ==
    ASSUME TelemetryTypeOK, began <= Len(emitted), NEW line \in Lines,
           emitted' = Append(emitted, line), began' = began, NEW kind
    PROVE  /\ LoggedAs(kind)' =
                  IF line[1] = "diagnostics" /\ OutcomeOf[line[2]] = kind
                  THEN LoggedAs(kind) \cup {Len(emitted) + 1} ELSE LoggedAs(kind)
           /\ \A i \in LoggedAs(kind) : emitted'[i] = emitted[i]
           /\ emitted'[Len(emitted) + 1] = line
  <1> DEFINE L == Len(emitted)
  <1>1. emitted \in Seq(Lines) /\ L \in Nat /\ began \in Nat /\ began <= L
    BY DEF TelemetryTypeOK, TypeOK
  <1>2. /\ Len(emitted') = L + 1 /\ emitted'[L + 1] = line
        /\ \A i \in 1 .. L : emitted'[i] = emitted[i]
    BY <1>1, AppendProperties
  <1>3. began + 1 .. L + 1 = (began + 1 .. L) \cup {L + 1}
    BY <1>1
  <1>4. \A i \in began + 1 .. L : i \in 1 .. L
    BY <1>1
  <1> HIDE DEF L
  <1>5. LoggedAs(kind) = {i \in began + 1 .. L :
                             emitted[i][1] = "diagnostics" /\ OutcomeOf[emitted[i][2]] = kind}
    BY DEF LoggedAs, L
  <1>6. LoggedAs(kind)' = {i \in began + 1 .. L + 1 :
                             emitted'[i][1] = "diagnostics" /\ OutcomeOf[emitted'[i][2]] = kind}
    BY <1>2 DEF LoggedAs
  <1> QED
    BY <1>2, <1>3, <1>4, <1>5, <1>6 DEF L

(* Appending a message keeps each message of the kind of its run. *)
LEMMA RecordFits ==
    ASSUME TelemetryTypeOK, MailFits, NEW r \in Runs, Record(r), emitted' = emitted,
           began' = began
    PROVE  MailFits'
  <1>1. mailbox \in Seq(Diag!Mail)
    BY DEF TelemetryTypeOK, Diag!TypeOK
  <1> DEFINE mail == [kind |-> OutcomeOf[r], about |-> r]
  <1>2. mailbox' = Append(mailbox, mail)
    BY DEF Record, Diag!DoSend
  <1>3. mail \in Diag!Mail /\ mail.kind = OutcomeOf[mail.about]
    BY TelemetryAssumption DEF Diag!Mail
  <1> HIDE DEF mail
  <1>4. ASSUME NEW k \in DOMAIN mailbox'
        PROVE  mailbox'[k].kind = OutcomeOf[mailbox'[k].about]
    <2>1. k \in 1 .. Len(mailbox) + 1
      BY <1>1, <1>2, <1>3, AppendProperties
    <2>2. CASE k = Len(mailbox) + 1
      BY <1>1, <1>2, <1>3, <2>2, AppendProperties
    <2>3. CASE k # Len(mailbox) + 1
      <3>1. k \in 1 .. Len(mailbox) /\ k \in DOMAIN mailbox
        BY <1>1, <2>1, <2>3
      <3>2. mailbox'[k] = mailbox[k]
        BY <1>1, <1>2, <1>3, <3>1, AppendProperties
      <3> QED
        BY <3>1, <3>2 DEF MailFits
    <2> QED
      BY <2>2, <2>3
  <1> QED
    BY <1>4 DEF MailFits

(* A step that logs nothing for the actor leaves window and counters right. *)
LEMMA AgreeUnchanged ==
    ASSUME SnapshotAgreesWithLog, emitted' = emitted, began' = began,
           recent' = recent, error_counters' = error_counters
    PROVE  SnapshotAgreesWithLog'
  <1>1. \A kind : LoggedAs(kind)' = LoggedAs(kind)
    BY DEF LoggedAs
  <1> QED
    BY <1>1 DEF SnapshotAgreesWithLog, Since

(* The line of a failing stage is none of the actor. *)
LEMMA WarnAgrees ==
    ASSUME TelemetryTypeOK, MailFits, SnapshotAgreesWithLog, NEW r \in Runs, Warn(r)
    PROVE  SnapshotAgreesWithLog' /\ MailFits'
  <1> DEFINE line == <<"pipeline", r>>
  <1>1. /\ line \in Lines /\ line[1] # "diagnostics"
        /\ emitted' = Append(emitted, line) /\ began' = began /\ mailbox' = mailbox
        /\ recent' = recent /\ error_counters' = error_counters
    BY TelemetryAssumption DEF Warn, OnEvent, diagVars
  <1> HIDE DEF line
  <1>2. began <= Len(emitted) /\ Len(emitted) \in Nat /\ began \in Nat
    BY LoggedIsBounded DEF MailFits, TelemetryTypeOK
  <1>3. \A kind : /\ LoggedAs(kind)' = LoggedAs(kind)
                  /\ \A i \in LoggedAs(kind) : emitted'[i] = emitted[i]
    BY <1>1, <1>2, LoggedStep
  <1>4. Len(emitted') = Len(emitted) + 1
    BY <1>1, AppendProperties DEF TelemetryTypeOK, TypeOK
  <1>5. MailFits'
    BY <1>1, <1>2, <1>4 DEF MailFits
  <1>6. SnapshotAgreesWithLog'
    BY <1>1, <1>3 DEF SnapshotAgreesWithLog, Since
  <1> QED
    BY <1>5, <1>6

(* What the push leaves in the window: the new run, and behind it as much of the
   old ones as there is room for. *)
LEMMA WindowStep ==
    ASSUME Diag!TypeOK, NEW r \in Runs
    PROVE  LET w == Diag!Kept(r)
           IN  /\ w \in Seq(Runs)
               /\ Len(w) = IF Len(recent) < Capacity THEN Len(recent) + 1 ELSE Capacity
               /\ 1 <= Capacity => w[1] = r
               /\ \A j \in 1 .. Len(recent) : j + 1 <= Capacity => w[j + 1] = recent[j]
  <1> DEFINE pushed == <<r>> \o recent
             m == IF Len(pushed) > Capacity THEN Capacity ELSE Len(pushed)
             w == SubSeq(pushed, 1, m)
  <1>1. recent \in Seq(Runs) /\ Len(recent) \in Nat /\ Len(recent) <= Capacity /\ Capacity \in Nat
    BY TelemetryAssumption DEF Diag!TypeOK
  <1>2. /\ pushed \in Seq(Runs) /\ Len(pushed) = Len(recent) + 1 /\ pushed[1] = r
        /\ \A j \in 1 .. Len(recent) : pushed[j + 1] = recent[j]
    BY <1>1
  <1> HIDE DEF pushed
  <1>3. m \in Nat /\ m <= Len(pushed)
        /\ m = IF Len(recent) < Capacity THEN Len(recent) + 1 ELSE Capacity
    BY <1>1, <1>2
  <1> HIDE DEF m
  <1>4. w \in Seq(Runs) /\ Len(w) = m /\ \A i \in 1 .. m : w[i] = pushed[i]
    BY <1>2, <1>3
  <1> HIDE DEF w
  <1>5. ASSUME 1 <= Capacity PROVE w[1] = r
    <2>1. 1 \in 1 .. m
      BY <1>1, <1>3, <1>5
    <2> QED
      BY <1>2, <1>4, <2>1
  <1>6. ASSUME NEW j \in 1 .. Len(recent), j + 1 <= Capacity PROVE w[j + 1] = recent[j]
    <2>1. j + 1 \in 1 .. m
      BY <1>1, <1>3, <1>6
    <2> QED
      BY <1>2, <1>4, <2>1
  <1>7. Diag!Kept(r) = w
    BY DEF Diag!Kept, Diag!PushFront, w, m, pushed
  <1> QED
    BY <1>3, <1>4, <1>5, <1>6, <1>7

(* The actor logs what it counts: a line of the kind of the message. *)
LEMMA HandleLogs ==
    ASSUME TelemetryTypeOK, MailFits, HandleMail
    PROVE  LET mail == Head(mailbox) IN
           /\ mail \in Diag!Mail /\ mail.about \in Runs
           /\ began <= Len(emitted) /\ Len(emitted) \in Nat /\ began \in Nat
           /\ Len(emitted') = Len(emitted) + 1
           /\ emitted'[Len(emitted) + 1][2] = mail.about
           /\ \A kind :
                  /\ LoggedAs(kind)' = IF mail.kind = kind
                                       THEN LoggedAs(kind) \cup {Len(emitted) + 1}
                                       ELSE LoggedAs(kind)
                  /\ \A i \in LoggedAs(kind) : emitted'[i] = emitted[i]
  <1> DEFINE mail == Head(mailbox)
             line == <<"diagnostics", mail.about>>
  <1>1. mailbox \in Seq(Diag!Mail) /\ mailbox # << >>
    BY DEF HandleMail, Diag!Handle, TelemetryTypeOK, Diag!TypeOK
  <1>2. mail \in Diag!Mail /\ mail = mailbox[1] /\ 1 \in DOMAIN mailbox
    BY <1>1, HeadTailProperties
  <1>3. mail.about \in Runs /\ mail.kind = OutcomeOf[mail.about]
    BY <1>2 DEF Diag!Mail, MailFits
  <1>4. emitted' = Append(emitted, line) /\ began' = began
    BY DEF HandleMail, OnEvent, runVars
  <1> HIDE DEF mail
  <1>5. line \in Lines /\ line[1] = "diagnostics" /\ line[2] = mail.about
    BY <1>3, TelemetryAssumption
  <1> HIDE DEF line
  <1>6. began <= Len(emitted) /\ Len(emitted) \in Nat /\ began \in Nat
        /\ Len(emitted') = Len(emitted) + 1
    BY <1>4, <1>5, LoggedIsBounded, AppendProperties DEF MailFits, TelemetryTypeOK, TypeOK
  <1>7. /\ emitted'[Len(emitted) + 1] = line
        /\ \A kind :
              /\ LoggedAs(kind)' = IF mail.kind = kind
                                   THEN LoggedAs(kind) \cup {Len(emitted) + 1}
                                   ELSE LoggedAs(kind)
              /\ \A i \in LoggedAs(kind) : emitted'[i] = emitted[i]
    <2>1. ASSUME NEW kind
          PROVE  /\ emitted'[Len(emitted) + 1] = line
                 /\ LoggedAs(kind)' = IF line[1] = "diagnostics" /\ OutcomeOf[line[2]] = kind
                                      THEN LoggedAs(kind) \cup {Len(emitted) + 1}
                                      ELSE LoggedAs(kind)
                 /\ \A i \in LoggedAs(kind) : emitted'[i] = emitted[i]
      BY <1>4, <1>5, <1>6, LoggedStep
    <2>2. \A kind : (line[1] = "diagnostics" /\ OutcomeOf[line[2]] = kind) <=> mail.kind = kind
      BY <1>3, <1>5
    <2> QED
      BY <2>1, <2>2
  <1>8. emitted'[Len(emitted) + 1][2] = mail.about
    BY <1>5, <1>7
  <1> QED
    BY <1>2, <1>3, <1>6, <1>7, <1>8, Zenon DEF mail

(* The rest of the mailbox is as it was. *)
LEMMA HandleFits ==
    ASSUME TelemetryTypeOK, MailFits, HandleMail PROVE MailFits'
  <1>1. mailbox \in Seq(Diag!Mail) /\ mailbox # << >> /\ mailbox' = Tail(mailbox)
        /\ began' = began
    BY DEF HandleMail, Diag!Handle, TelemetryTypeOK, Diag!TypeOK, runVars
  <1>2. ASSUME NEW k \in DOMAIN mailbox'
        PROVE  mailbox'[k].kind = OutcomeOf[mailbox'[k].about]
    <2>1. mailbox'[k] = mailbox[k + 1] /\ k + 1 \in DOMAIN mailbox
      BY <1>1, <1>2, HeadTailProperties
    <2> QED
      BY <2>1 DEF MailFits
  <1>3. began <= Len(emitted) /\ Len(emitted) \in Nat /\ began \in Nat
        /\ Len(emitted') = Len(emitted) + 1
    BY HandleLogs
  <1>4. began' <= Len(emitted')
    BY <1>1, <1>3
  <1> QED
    BY <1>2, <1>4 DEF MailFits

(* An evaluation worked in: the window and the log both have one more. *)
LEMMA EvaluationAgrees ==
    ASSUME TelemetryTypeOK, MailFits, SnapshotAgreesWithLog, HandleMail,
           Head(mailbox).kind = "evaluation"
    PROVE  SnapshotAgreesWithLog'
  <1> DEFINE r == Head(mailbox).about
             L == Len(emitted)
             E == LoggedAs("evaluation")
             F == E \cup {L + 1}
             n == Cardinality(E)
  <1>1. r \in Runs /\ Head(mailbox).kind = "evaluation" /\ Diag!TypeOK
    BY HandleLogs DEF TelemetryTypeOK
  <1>2. began + 1 \in Nat /\ L \in Nat /\ E \in SUBSET (began + 1 .. L)
    BY LoggedIsBounded
  <1>3. /\ LoggedAs("evaluation")' = F /\ \A i \in E : emitted'[i] = emitted[i]
        /\ emitted'[L + 1][2] = r
    BY <1>1, HandleLogs
  <1>4. \A kind \in ErrorKinds : LoggedAs(kind)' = LoggedAs(kind)
    <2>1. \A kind \in ErrorKinds : kind # "evaluation"
      BY TelemetryAssumption
    <2> QED
      BY <1>1, <2>1, HandleLogs
  <1>5. recent' = Diag!Kept(r) /\ error_counters' = error_counters
    BY <1>1 DEF HandleMail, Diag!Handle
  <1>6. /\ Len(recent) = IF n < Capacity THEN n ELSE Capacity
        /\ \A i \in E : Since(i, E) <= Capacity => recent[Since(i, E)] = emitted[i][2]
        /\ \A kind \in ErrorKinds : error_counters[kind] = Cardinality(LoggedAs(kind))
    BY DEF SnapshotAgreesWithLog
  <1> HIDE DEF E, L, r
  <1>7. /\ n \in Nat /\ Cardinality(F) = n + 1 /\ Since(L + 1, F) = 1
        /\ \A i \in E : /\ Since(i, F) = Since(i, E) + 1
                        /\ Since(i, E) \in Nat /\ Since(i, E) > 0 /\ Since(i, E) <= n
    BY <1>2, PositionsAreFinite, LaterPosition
  <1>8. /\ Len(recent') = IF Len(recent) < Capacity THEN Len(recent) + 1 ELSE Capacity
        /\ 1 <= Capacity => recent'[1] = r
        /\ \A j \in 1 .. Len(recent) : j + 1 <= Capacity => recent'[j + 1] = recent[j]
    BY <1>1, <1>5, WindowStep
  <1>9. Capacity \in Nat
    BY TelemetryAssumption
  <1> HIDE DEF n
  <1>10. Len(recent') = IF n + 1 < Capacity THEN n + 1 ELSE Capacity
    BY <1>6, <1>7, <1>8, <1>9
  <1>11. ASSUME NEW i \in F, Since(i, F) <= Capacity
         PROVE  recent'[Since(i, F)] = emitted'[i][2]
    <2>1. CASE i \in E
      <3> DEFINE j == Since(i, E)
      <3>1. j \in 1 .. Len(recent) /\ j + 1 <= Capacity /\ Since(i, F) = j + 1
        <4>1. j \in Nat /\ j > 0 /\ j <= n /\ Since(i, F) = j + 1
          BY <1>7, <2>1
        <4>2. j + 1 <= Capacity
          BY <1>11, <4>1
        <4> HIDE DEF j
        <4> QED
          BY <1>6, <1>7, <1>9, <4>1, <4>2
      <3>2. recent'[j + 1] = recent[j] /\ recent[j] = emitted[i][2]
        BY <1>6, <1>8, <1>9, <2>1, <3>1
      <3> QED
        BY <1>3, <2>1, <3>1, <3>2
    <2>2. CASE i = L + 1
      BY <1>3, <1>7, <1>8, <1>11, <2>2
    <2> QED
      BY <2>1, <2>2
  <1>12. \A kind \in ErrorKinds : error_counters'[kind] = Cardinality(LoggedAs(kind)')
    BY <1>4, <1>5, <1>6
  <1> HIDE DEF F
  <1>13. Len(recent') = IF Cardinality(F) < Capacity THEN Cardinality(F) ELSE Capacity
    BY <1>7, <1>10
  <1> QED
    BY <1>3, <1>11, <1>12, <1>13 DEF SnapshotAgreesWithLog, Since

(* An error worked in: its counter and the log both have one more. *)
LEMMA ErrorAgrees ==
    ASSUME TelemetryTypeOK, MailFits, SnapshotAgreesWithLog, HandleMail,
           Head(mailbox).kind # "evaluation"
    PROVE  SnapshotAgreesWithLog'
  <1> DEFINE k == Head(mailbox).kind
             L == Len(emitted)
  <1>1. k \in ErrorKinds /\ k # "evaluation"
    BY HandleLogs DEF Diag!Mail
  <1>2. recent' = recent /\ error_counters' = [error_counters EXCEPT ![k] = @ + 1]
        /\ error_counters \in [ErrorKinds -> Nat]
    BY <1>1 DEF HandleMail, Diag!Handle, TelemetryTypeOK, Diag!TypeOK
  <1>3. \A kind :
           /\ LoggedAs(kind)' = IF k = kind THEN LoggedAs(kind) \cup {L + 1} ELSE LoggedAs(kind)
           /\ \A i \in LoggedAs(kind) : emitted'[i] = emitted[i]
    BY HandleLogs
  <1>4. Cardinality(LoggedAs(k) \cup {L + 1}) = Cardinality(LoggedAs(k)) + 1
    BY LoggedIsBounded, LaterPosition
  <1> HIDE DEF k, L
  <1>5. /\ LoggedAs("evaluation")' = LoggedAs("evaluation")
        /\ \A i \in LoggedAs("evaluation") : emitted'[i] = emitted[i]
    BY <1>1, <1>3
  <1>6. ASSUME NEW kind \in ErrorKinds
        PROVE  error_counters'[kind] = Cardinality(LoggedAs(kind)')
    <2>1. error_counters[kind] = Cardinality(LoggedAs(kind))
      BY DEF SnapshotAgreesWithLog
    <2> QED
      BY <1>1, <1>2, <1>3, <1>4, <2>1
  <1> QED
    BY <1>2, <1>5, <1>6 DEF SnapshotAgreesWithLog, Since

LEMMA AgreeInit == TelemetryInit => AgreeInv
  <1> SUFFICES ASSUME TelemetryInit PROVE AgreeInv
    OBVIOUS
  <1>1. TelemetryTypeOK
    BY TelemetryInitType
  <1>2. /\ mailbox = << >> /\ recent = << >> /\ emitted = << >> /\ began = 0
        /\ error_counters = [kind \in ErrorKinds |-> 0]
    BY DEF TelemetryInit, Init, Diag!Init
  <1>3. \A kind : LoggedAs(kind) = {} /\ Cardinality(LoggedAs(kind)) = 0
    BY <1>2, FS_EmptySet DEF LoggedAs
  <1>4. MailFits
    BY <1>2 DEF MailFits
  <1>5. SnapshotAgreesWithLog
    BY <1>2, <1>3, TelemetryAssumption DEF SnapshotAgreesWithLog
  <1> QED
    BY <1>1, <1>4, <1>5 DEF AgreeInv

LEMMA AgreeStep == AgreeInv /\ [TelemetryNext]_telemetryVars => AgreeInv'
  <1> SUFFICES ASSUME AgreeInv, [TelemetryNext]_telemetryVars PROVE AgreeInv'
    OBVIOUS
  <1>t. TelemetryTypeOK /\ MailFits /\ SnapshotAgreesWithLog
    BY DEF AgreeInv
  <1>0. TelemetryTypeOK'
    BY <1>t, TelemetryStepType
  <1>1. ASSUME NEW r \in Runs, RecordEvaluation(r) \/ RecordError(r)
        PROVE  MailFits' /\ SnapshotAgreesWithLog'
    <2>1. /\ Record(r) /\ emitted' = emitted /\ began' = began
          /\ recent' = recent /\ error_counters' = error_counters
      BY <1>1 DEF RecordEvaluation, RecordError, seqVars, vars, Record, Diag!DoSend
    <2> QED
      BY <1>t, <2>1, RecordFits, AgreeUnchanged
  <1>2. ASSUME NEW r \in Runs, Warn(r) PROVE MailFits' /\ SnapshotAgreesWithLog'
    BY <1>t, <1>2, WarnAgrees
  <1>3. ASSUME HandleMail PROVE MailFits' /\ SnapshotAgreesWithLog'
    BY <1>t, <1>3, HandleFits, EvaluationAgrees, ErrorAgrees
  <1>4. ASSUME emitted' = emitted, UNCHANGED diagVars, UNCHANGED runVars
        PROVE  MailFits' /\ SnapshotAgreesWithLog'
    BY <1>t, <1>4, AgreeUnchanged DEF diagVars, runVars, MailFits
  <1>5. ASSUME Ship PROVE MailFits' /\ SnapshotAgreesWithLog'
    <2>1. emitted' = emitted
      BY <1>5 DEF Ship, Flusher, Network, Receive, Drain, Post, Accepted, Refused,
                  ReplyRead, Unanswered, EndPost, TakeIn, CutOff
    <2> QED
      BY <1>4, <1>5, <2>1 DEF Ship
  <1>6. ASSUME ProcessCrash PROVE MailFits' /\ SnapshotAgreesWithLog'
    <2>1. /\ mailbox' = << >> /\ recent' = << >> /\ emitted' = emitted
          /\ began' = Len(emitted) /\ error_counters' = [kind \in ErrorKinds |-> 0]
      BY <1>6 DEF ProcessCrash, Crash, Diag!Restart
    <2>2. Len(emitted) \in Nat
      BY <1>t, LoggedIsBounded
    <2>3. \A kind : LoggedAs(kind)' = {} /\ Cardinality(LoggedAs(kind)') = 0
      <3>1. Len(emitted) + 1 .. Len(emitted) = {}
        BY <2>2
      <3>2. \A kind : LoggedAs(kind)' = {}
        BY <2>1, <3>1 DEF LoggedAs
      <3> QED
        BY <3>2, FS_EmptySet
    <2>4. MailFits'
      BY <2>1, <2>2 DEF MailFits
    <2>5. SnapshotAgreesWithLog'
      BY <2>1, <2>3, TelemetryAssumption DEF SnapshotAgreesWithLog
    <2> QED
      BY <2>4, <2>5
  <1>7. ASSUME UNCHANGED telemetryVars PROVE MailFits' /\ SnapshotAgreesWithLog'
    BY <1>4, <1>7 DEF telemetryVars, seqVars, vars
  <1> QED
    BY <1>0, <1>1, <1>2, <1>3, <1>5, <1>6, <1>7 DEF TelemetryNext, AgreeInv

(* SnapshotAgreesWithLog: the snapshot of the actor and the log tell one story. *)
THEOREM SnapshotAndLogAgree == TelemetrySpec => []SnapshotAgreesWithLog
  <1>1. AgreeInv => SnapshotAgreesWithLog
    BY DEF AgreeInv
  <1> QED
    BY <1>1, AgreeInit, AgreeStep, PTL DEF TelemetrySpec

=============================================================================
