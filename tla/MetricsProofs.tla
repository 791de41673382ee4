--------------------------- MODULE MetricsProofs ----------------------------
(***************************************************************************)
(* Proofs about Metrics, for any workers, events, thresholds, faults and   *)
(* crashes: what the collection holds and what a breach rests on.          *)
(***************************************************************************)
EXTENDS Metrics, FiniteSetTheorems, TLAPS

RunType == [event : Events \cup {None}, stage : Stages, time : Nat,
            index : Nat, threshold : 1 .. Len(Thresholds) + 1,
            total : Nat, found : Seq(NoticeType)]

LEMMA LenThresholds == Len(Thresholds) \in Nat /\ DOMAIN Thresholds = 1 .. Len(Thresholds)
  BY MetricsAssumption

LEMMA IdleRunType == IdleRun \in RunType /\ IdleRun.stage = "idle" /\ IdleRun.event = None
  BY LenThresholds DEF IdleRun, RunType, Stages

LEMMA MetricsOfType ==
    ASSUME NEW e \in Events
    PROVE  /\ MetricsOf[e] \in Seq(Metric) /\ Len(MetricsOf[e]) \in Nat
           /\ DOMAIN MetricsOf[e] = 1 .. Len(MetricsOf[e])
           /\ \A i \in DOMAIN MetricsOf[e] : MetricsOf[e][i] \in Metric
           /\ Len(MetricsOf[e]) <= MaxMetrics
  BY MetricsAssumption

LEMMA ThresholdType ==
    ASSUME NEW t \in DOMAIN Thresholds
    PROVE  Thresholds[t] \in Threshold
  BY MetricsAssumption

(* What a worker goes on with when a step is done. *)
GoodRun(r) ==
    /\ r \in RunType
    /\ r.stage # "idle" => r.event \in Events
    /\ r.stage \in {"check", "upsert"} => r.index \in DOMAIN MetricsOf[r.event]
    /\ r.stage = "upsert" => r.threshold \in DOMAIN Thresholds /\ Applies(r)

LEMMA NextRuns ==
    ASSUME NEW r, GoodRun(r), r.stage # "idle"
    PROVE  /\ GoodRun(IdleRun)
           /\ r.stage = "insert" => GoodRun(AtMetric(r, 1)) /\ AtMetric(r, 1).stage # "insert"
           /\ r.stage = "check" => /\ GoodRun(AtMetric(r, r.index + 1))
                                   /\ AtMetric(r, r.index + 1).stage # "insert"
           /\ r.stage \in {"check", "upsert"} /\ r.threshold \in DOMAIN Thresholds =>
                 /\ GoodRun(NextCheck(r)) /\ NextCheck(r).stage = "check"
                 /\ NextCheck(r).event = r.event
           /\ \A i : AtMetric(r, i).event \in {r.event, None}
  <1>1. GoodRun(IdleRun)
    BY IdleRunType DEF GoodRun
  <1>2. r.event \in Events /\ r \in RunType
    BY DEF GoodRun
  <1>3. ASSUME NEW i \in Nat \ {0}
        PROVE  GoodRun(AtMetric(r, i)) /\ AtMetric(r, i).stage # "insert"
    <2>1. CASE i > Len(MetricsOf[r.event])
      BY <1>1, <2>1, IdleRunType DEF AtMetric
    <2>2. CASE ~(i > Len(MetricsOf[r.event]))
      <3> DEFINE s == [r EXCEPT !.stage = "check", !.index = i, !.threshold = 1, !.total = 0,
                                !.found = << >>]
      <3>1. s \in RunType /\ s.stage = "check" /\ s.index = i /\ s.event = r.event
        <4>1. << >> \in Seq(NoticeType) /\ 1 \in 1 .. Len(Thresholds) + 1 /\ "check" \in Stages
          BY LenThresholds DEF Stages
        <4> QED
          BY <1>2, <4>1 DEF RunType
      <3>2. i \in DOMAIN MetricsOf[r.event]
        BY <1>2, <2>2, MetricsOfType
      <3> QED
        BY <1>2, <2>2, <3>1, <3>2 DEF AtMetric, GoodRun
    <2> QED
      BY <2>1, <2>2
  <1>4. r.stage = "check" => r.index + 1 \in Nat \ {0}
    BY <1>2 DEF RunType
  <1>5. ASSUME r.stage \in {"check", "upsert"}, r.threshold \in DOMAIN Thresholds
        PROVE  /\ GoodRun(NextCheck(r)) /\ NextCheck(r).stage = "check"
               /\ NextCheck(r).event = r.event
    <2>1. /\ NextCheck(r) \in RunType /\ NextCheck(r).stage = "check"
          /\ NextCheck(r).index = r.index /\ NextCheck(r).event = r.event
      <3>1. r.threshold + 1 \in 1 .. Len(Thresholds) + 1 /\ "check" \in Stages
        BY <1>5, LenThresholds DEF Stages
      <3> QED
        BY <1>2, <3>1 DEF NextCheck, RunType
    <2> QED
      BY <1>2, <1>5, <2>1 DEF GoodRun
  <1>6. \A i : AtMetric(r, i).event \in {r.event, None}
    BY <1>2, IdleRunType DEF AtMetric, RunType
  <1> QED
    BY <1>1, <1>3, <1>4, <1>5, <1>6

-----------------------------------------------------------------------------
(* Types.                                                                  *)

Runs == run \in [Workers -> RunType] /\ \A w \in Workers : GoodRun(run[w])

Data ==
    /\ responses \subseteq [id : Nat, event : Events, time : Nat]
    /\ IsFiniteSet(responses)
    /\ breaches \subseteq Events \X DOMAIN Thresholds
    /\ published \in Seq(NoticeType)
    /\ now \in Nat /\ faults \in Nat /\ crashes \in Nat /\ runs \in Nat
    /\ begun \in [Events -> Nat]
    /\ stored \subseteq [event : Events, index : Nat, time : Nat]
    /\ overlapped \subseteq Events

LEMMA TypeOfParts == Runs /\ Data => TypeOK
  BY DEF Runs, Data, TypeOK, RunType, GoodRun, At

LEMMA TotalType ==
    ASSUME NEW r, IsFiniteSet(responses)
    PROVE  Total(r) \in Nat
  <1>1. IsFiniteSet(InWindow(r))
    BY FS_Subset DEF InWindow
  <1>2. IsFiniteSet(InWindow(r) \X (1 .. MaxMetrics))
    <2>1. IsFiniteSet(1 .. MaxMetrics)
      BY MetricsAssumption, FS_Interval
    <2> QED
      BY <1>1, <2>1, FS_Product
  <1>3. IsFiniteSet({p \in InWindow(r) \X (1 .. MaxMetrics) :
                       /\ p[2] \in DOMAIN MetricsOf[p[1].event]
                       /\ MetricsOf[p[1].event][p[2]] = MetricAt(r)})
    BY <1>2, FS_Subset
  <1> QED
    BY <1>3, FS_CardinalityType DEF Total

LEMMA NoticeTyped ==
    ASSUME NEW r, GoodRun(r), r.stage = "upsert"
    PROVE  Notice(r) \in NoticeType /\ BreachKey(r) \in Events \X DOMAIN Thresholds
  <1>1. r \in RunType /\ r.event \in Events /\ r.threshold \in DOMAIN Thresholds
        /\ r.index \in DOMAIN MetricsOf[r.event]
    BY DEF GoodRun
  <1>2. MetricAt(r).rule \in Rules
    BY <1>1, MetricsOfType DEF MetricAt, Metric
  <1> QED
    BY <1>1, <1>2 DEF Notice, NoticeType, BreachKey, RunType

LEMMA InsertedTyped ==
    ASSUME Data, NEW r, GoodRun(r), r.stage = "insert", Inserted(r)
    PROVE  /\ responses' \subseteq [id : Nat, event : Events, time : Nat]
           /\ IsFiniteSet(responses')
           /\ stored' \subseteq [event : Events, index : Nat, time : Nat]
  <1> DEFINE n == Cardinality({d \in responses : d.event = r.event})
             new == {[event |-> r.event, index |-> k, time |-> r.time] :
                         k \in DOMAIN MetricsOf[r.event]}
  <1>1. r.event \in Events /\ r.time \in Nat
    BY DEF GoodRun, RunType
  <1>2. n \in Nat
    <2>1. IsFiniteSet({d \in responses : d.event = r.event})
      BY FS_Subset DEF Data
    <2> QED
      BY <2>1, FS_CardinalityType
  <1>3. responses' = responses \cup {[id |-> n, event |-> r.event, time |-> r.time]}
        /\ stored' = stored \cup new
    BY DEF Inserted
  <1>4. new \subseteq [event : Events, index : Nat, time : Nat]
    <2>1. DOMAIN MetricsOf[r.event] \subseteq Nat
      BY <1>1, MetricsOfType
    <2> QED
      BY <1>1, <2>1
  <1>5. IsFiniteSet(responses')
    BY <1>3, FS_AddElement DEF Data
  <1> HIDE DEF n, new
  <1> QED
    BY <1>1, <1>2, <1>3, <1>4, <1>5 DEF Data

(* How a worker's step leaves the runs typed. *)
LEMMA RunReplaced ==
    ASSUME Runs, NEW w \in Workers, NEW r, GoodRun(r), run' = [run EXCEPT ![w] = r]
    PROVE  Runs' /\ run'[w] = r /\ \A v \in Workers \ {w} : run'[v] = run[v]
  <1>1. r \in RunType
    BY DEF GoodRun
  <1>2. run' \in [Workers -> RunType]
    BY <1>1 DEF Runs
  <1>3. run'[w] = r /\ \A v \in Workers \ {w} : run'[v] = run[v]
    BY DEF Runs
  <1>4. \A v \in Workers : GoodRun(run'[v])
    BY <1>3 DEF Runs
  <1> QED
    BY <1>2, <1>3, <1>4 DEF Runs

(* What the invariants see of a worker's step. *)
Others(w) == \A v \in Workers \ {w} : run'[v] = run[v]

Deletes(w) == /\ At(w, "delete") /\ responses' \subseteq responses /\ stored' = stored
              /\ \/ /\ responses' = {d \in responses : d.event # run[w].event}
                    /\ run'[w].stage = "insert" /\ run'[w].event = run[w].event
                 \/ run'[w].stage # "insert" /\ faults' # 0

Inserts(w) == /\ At(w, "insert") /\ run'[w].stage # "insert"
              /\ \/ Inserted(run[w])
                 \/ UNCHANGED <<responses, stored>> /\ faults' # 0

Leaves(w) == /\ run[w].stage \in {"check", "upsert"} /\ run'[w].stage # "insert"
             /\ UNCHANGED <<responses, stored>>

Shape(w) ==
    /\ Runs' /\ Data' /\ Others(w) /\ UNCHANGED overlapped
    /\ run'[w].event \in {run[w].event, None}
    /\ Deletes(w) \/ Inserts(w) \/ Leaves(w)

LEMMA StepShape ==
    ASSUME Runs, Data, NEW w \in Workers, Step(w)
    PROVE  Shape(w)
  <1>1. GoodRun(run[w])
    BY DEF Runs
  <1>2. /\ run[w].stage # "idle" => GoodRun(IdleRun)
        /\ IdleRun.stage = "idle" /\ IdleRun.event = None
    BY <1>1, NextRuns, IdleRunType
  <1>3. ASSUME NEW r, GoodRun(r), run' = [run EXCEPT ![w] = r], r.event \in {run[w].event, None},
               Data', UNCHANGED overlapped,
               run'[w] = r => Deletes(w) \/ Inserts(w) \/ Leaves(w)
        PROVE  Shape(w)
    <2>1. Runs' /\ run'[w] = r /\ Others(w)
      BY <1>3, RunReplaced DEF Others
    <2> QED
      BY <1>3, <2>1 DEF Shape
  <1>4. ASSUME Aborts(w), run[w].stage # "idle"
        PROVE  /\ faults' # 0 /\ faults' \in Nat /\ run' = [run EXCEPT ![w] = IdleRun]
               /\ UNCHANGED <<now, runs, begun, overlapped, crashes>>
    BY <1>4 DEF Aborts, Data
  <1>5. CASE DeleteOld(w)
    <2> DEFINE r == [run[w] EXCEPT !.stage = "insert"]
    <2>1. GoodRun(r) /\ r.event = run[w].event /\ r.stage = "insert"
      BY <1>1, <1>5 DEF DeleteOld, At, GoodRun, RunType, Stages
    <2>2. run' = [run EXCEPT ![w] = r]
      BY <1>5 DEF DeleteOld
    <2>3. responses' = {d \in responses : d.event # run[w].event}
          /\ breaches' \subseteq breaches
      BY <1>5 DEF DeleteOld, Deleted
    <2>4. IsFiniteSet(responses')
      BY <2>3, FS_Subset DEF Data
    <2>5. Data'
      BY <1>5, <2>3, <2>4 DEF DeleteOld, Data, history
    <2>6. UNCHANGED <<overlapped, stored>>
      BY <1>5 DEF DeleteOld, history
    <2>7. run'[w] = r => Deletes(w)
      BY <1>5, <2>1, <2>3, <2>6 DEF DeleteOld, Deletes
    <2> HIDE DEF r
    <2> QED
      BY <1>3, <2>1, <2>2, <2>5, <2>6, <2>7
  <1>6. CASE DeleteFails(w)
    <2>1. At(w, "delete") /\ Aborts(w) /\ UNCHANGED <<published, stored>>
      BY <1>6 DEF DeleteFails
    <2>2. run[w].stage # "idle"
      BY <2>1 DEF At
    <2>3. responses' \subseteq responses /\ breaches' \subseteq breaches
      BY <1>6 DEF DeleteFails, Deleted, db
    <2>4. IsFiniteSet(responses')
      BY <2>3, FS_Subset DEF Data
    <2>5. Data'
      BY <1>4, <2>1, <2>2, <2>3, <2>4 DEF Data
    <2>6. run'[w] = IdleRun => Deletes(w)
      BY <1>2, <1>4, <2>1, <2>2, <2>3 DEF Deletes
    <2> QED
      BY <1>2, <1>3, <1>4, <2>1, <2>2, <2>5, <2>6
  <1>7. CASE InsertResponse(w)
    <2> DEFINE r == AtMetric(run[w], 1)
    <2>1. /\ At(w, "insert") /\ Inserted(run[w]) /\ run' = [run EXCEPT ![w] = r]
          /\ UNCHANGED <<breaches, published, now, runs, begun, overlapped, faults, crashes>>
      BY <1>7 DEF InsertResponse
    <2>2. GoodRun(r) /\ r.stage # "insert" /\ r.event \in {run[w].event, None}
      BY <1>1, <2>1, NextRuns DEF At
    <2>3. Data'
      BY <1>1, <2>1, InsertedTyped DEF Data, At
    <2>4. run'[w] = r => Inserts(w)
      BY <2>1, <2>2 DEF Inserts
    <2> HIDE DEF r
    <2> QED
      BY <1>3, <2>1, <2>2, <2>3, <2>4
  <1>8. CASE InsertFails(w)
    <2>1. /\ At(w, "insert") /\ Aborts(w) /\ UNCHANGED <<breaches, published>>
          /\ Inserted(run[w]) \/ UNCHANGED <<responses, stored>>
      BY <1>8 DEF InsertFails
    <2>2. run[w].stage # "idle"
      BY <2>1 DEF At
    <2>3. Data'
      BY <1>1, <1>4, <2>1, <2>2, InsertedTyped DEF Data, At
    <2>4. run'[w] = IdleRun => Inserts(w)
      BY <1>2, <1>4, <2>1, <2>2 DEF Inserts
    <2> QED
      BY <1>2, <1>3, <1>4, <2>1, <2>2, <2>3, <2>4
  <1>9. ASSUME NEW r, GoodRun(r), run' = [run EXCEPT ![w] = r], r.event \in {run[w].event, None},
               r.stage # "insert", run[w].stage \in {"check", "upsert"},
               breaches' \subseteq Events \X DOMAIN Thresholds,
               published' \in Seq(NoticeType), faults' \in Nat,
               UNCHANGED <<responses, now, history, crashes>>
        PROVE  Shape(w)
    <2>1. Data' /\ UNCHANGED <<overlapped, stored>>
      BY <1>9 DEF Data, history
    <2>2. run'[w] = r => Leaves(w)
      BY <1>9, <2>1 DEF Leaves
    <2> QED
      BY <1>3, <1>9, <2>1, <2>2
  <1>10. ASSUME Aborts(w), run[w].stage \in {"check", "upsert"}, UNCHANGED <<responses, stored>>,
                breaches' \subseteq Events \X DOMAIN Thresholds, published' \in Seq(NoticeType)
         PROVE  Shape(w)
    BY <1>2, <1>4, <1>9, <1>10 DEF history
  <1>11. CASE Skip(w)
    <2>1. /\ run[w].stage = "check" /\ run[w].threshold \in DOMAIN Thresholds
          /\ run' = [run EXCEPT ![w] = NextCheck(run[w])]
          /\ UNCHANGED <<db, published, now, history, faults, crashes>>
      BY <1>11 DEF Skip, Checking, At
    <2>2. /\ GoodRun(NextCheck(run[w])) /\ NextCheck(run[w]).stage = "check"
          /\ NextCheck(run[w]).event = run[w].event
      BY <1>1, <2>1, NextRuns
    <2> QED
      BY <1>9, <2>1, <2>2 DEF db, Data
  <1>12. CASE Sum(w)
    <2> DEFINE r == [run[w] EXCEPT !.stage = "upsert", !.total = Total(run[w])]
    <2>1. /\ run[w].stage = "check" /\ run[w].threshold \in DOMAIN Thresholds
          /\ Applies(run[w])
          /\ run' = [run EXCEPT ![w] = NextCheck(run[w])] \/ run' = [run EXCEPT ![w] = r]
          /\ UNCHANGED <<db, published, now, history, faults, crashes>>
      BY <1>12 DEF Sum, Checking, At
    <2>2. /\ GoodRun(NextCheck(run[w])) /\ NextCheck(run[w]).stage = "check"
          /\ NextCheck(run[w]).event = run[w].event
      BY <1>1, <2>1, NextRuns
    <2>3. GoodRun(r) /\ r.stage = "upsert" /\ r.event = run[w].event
      <3>1. Total(run[w]) \in Nat
        BY TotalType DEF Data
      <3>2. /\ r \in RunType /\ r.event = run[w].event /\ r.threshold = run[w].threshold
            /\ r.index = run[w].index /\ r.stage = "upsert"
        BY <1>1, <3>1 DEF GoodRun, RunType, Stages
      <3>3. Applies(r)
        BY <2>1, <3>2 DEF Applies, MetricAt
      <3> QED
        BY <1>1, <2>1, <3>2, <3>3 DEF GoodRun
    <2> HIDE DEF r
    <2> QED
      BY <1>9, <2>1, <2>2, <2>3 DEF db, Data
  <1>13. CASE Upsert(w)
    <2> DEFINE c == NextCheck(run[w])
               f == [c EXCEPT !.found = Append(@, Notice(run[w]))]
    <2>1. /\ run[w].stage = "upsert" /\ breaches' = breaches \cup {BreachKey(run[w])}
          /\ run' = [run EXCEPT ![w] = c] \/ run' = [run EXCEPT ![w] = f]
          /\ UNCHANGED <<responses, published, now, history, faults, crashes>>
      BY <1>13 DEF Upsert, At
    <2>2. GoodRun(c) /\ c.stage = "check" /\ c.event = run[w].event
      BY <1>1, <2>1, NextRuns DEF GoodRun
    <2>3. Notice(run[w]) \in NoticeType /\ BreachKey(run[w]) \in Events \X DOMAIN Thresholds
      BY <1>1, <2>1, NoticeTyped
    <2>4. GoodRun(f) /\ f.stage = "check" /\ f.event = run[w].event
      <3>1. c \in RunType
        BY <2>2 DEF GoodRun
      <3>2. Append(c.found, Notice(run[w])) \in Seq(NoticeType)
        BY <2>3, <3>1 DEF RunType
      <3> HIDE DEF c
      <3>3. /\ f \in RunType /\ f.stage = c.stage /\ f.event = c.event /\ f.index = c.index
            /\ f.threshold = c.threshold
        BY <3>1, <3>2 DEF RunType
      <3> QED
        BY <2>2, <3>3 DEF GoodRun
    <2> HIDE DEF c, f
    <2> QED
      BY <1>9, <2>1, <2>2, <2>3, <2>4 DEF Data
  <1>14. CASE Publish(w)
    <2> DEFINE r == [run[w] EXCEPT !.found = Tail(@)]
    <2>1. /\ run[w].stage = "check" /\ run[w].found # << >>
          /\ published' = Append(published, Head(run[w].found))
          /\ run' = [run EXCEPT ![w] = r]
          /\ UNCHANGED <<db, now, history, faults, crashes>>
      BY <1>14 DEF Publish, ChecksDone, At
    <2>2. /\ run[w] \in RunType /\ run[w].found \in Seq(NoticeType)
          /\ Head(run[w].found) \in NoticeType /\ Tail(run[w].found) \in Seq(NoticeType)
      BY <1>1, <2>1 DEF GoodRun, RunType
    <2>3. GoodRun(r) /\ r.stage = "check" /\ r.event = run[w].event
      <3>1. /\ r \in RunType /\ r.stage = run[w].stage /\ r.event = run[w].event
            /\ r.index = run[w].index /\ r.threshold = run[w].threshold
        BY <2>2 DEF RunType
      <3> QED
        BY <1>1, <2>1, <3>1 DEF GoodRun
    <2>4. published' \in Seq(NoticeType)
      BY <2>1, <2>2 DEF Data
    <2> HIDE DEF r
    <2> QED
      BY <1>9, <2>1, <2>3, <2>4 DEF db, Data
  <1>15. CASE NextMetric(w)
    <2>1. /\ run[w].stage = "check"
          /\ run' = [run EXCEPT ![w] = AtMetric(run[w], run[w].index + 1)]
          /\ UNCHANGED <<db, published, now, history, faults, crashes>>
      BY <1>15 DEF NextMetric, ChecksDone, At
    <2>2. /\ GoodRun(AtMetric(run[w], run[w].index + 1))
          /\ AtMetric(run[w], run[w].index + 1).stage # "insert"
          /\ AtMetric(run[w], run[w].index + 1).event \in {run[w].event, None}
      BY <1>1, <2>1, NextRuns
    <2> QED
      BY <1>9, <2>1, <2>2 DEF db, Data
  <1>16. CASE SumFails(w)
    BY <1>10, <1>16 DEF SumFails, Checking, At, db, Data
  <1>17. CASE UpsertFails(w)
    <2>1. run[w].stage = "upsert" /\ Aborts(w) /\ UNCHANGED <<responses, published, stored>>
          /\ breaches' \in {breaches, breaches \cup {BreachKey(run[w])}}
      BY <1>17 DEF UpsertFails, At
    <2>2. BreachKey(run[w]) \in Events \X DOMAIN Thresholds
      BY <1>1, <2>1, NoticeTyped
    <2> QED
      BY <1>10, <2>1, <2>2 DEF Data
  <1>18. CASE PublishFails(w)
    <2>1. /\ run[w].stage = "check" /\ run[w].found # << >> /\ Aborts(w) /\ UNCHANGED <<db, stored>>
          /\ published' \in {published, Append(published, Head(run[w].found))}
      BY <1>18 DEF PublishFails, ChecksDone, At
    <2>2. Head(run[w].found) \in NoticeType
      BY <1>1, <2>1 DEF GoodRun, RunType
    <2>3. published' \in Seq(NoticeType)
      BY <2>1, <2>2 DEF Data
    <2> QED
      BY <1>10, <2>1, <2>3 DEF db, Data
  <1> QED
    BY <1>5, <1>6, <1>7, <1>8, <1>11, <1>12, <1>13, <1>14, <1>15, <1>16, <1>17, <1>18 DEF Step

(* What the invariants see of the steps that are not a worker's. *)
BeginShape(w, e) ==
    /\ At(w, "idle") /\ Runs' /\ Data' /\ Others(w) /\ UNCHANGED <<responses, stored, published>>
    /\ \/ run'[w] = run[w]
       \/ /\ run'[w].event = e /\ run'[w].stage = "delete" /\ run'[w].found = << >>
    /\ overlapped \subseteq overlapped'
    /\ (\E v \in Workers \ {w} : run[v].event = e) => e \in overlapped'

LEMMA BeginStep ==
    ASSUME Runs, Data, NEW w \in Workers, NEW e \in Events, Begin(w, e)
    PROVE  BeginShape(w, e)
  <1> DEFINE r == [IdleRun EXCEPT !.event = e, !.stage = "delete", !.time = now]
  <1>1. /\ At(w, "idle") /\ runs' = runs + 1 /\ begun' = [begun EXCEPT ![e] = @ + 1]
        /\ run' = run \/ run' = [run EXCEPT ![w] = r]
        /\ overlapped' = IF \E v \in Workers \ {w} : run[v].event = e
                         THEN overlapped \cup {e} ELSE overlapped
        /\ UNCHANGED <<db, published, now, stored, faults, crashes>>
    BY DEF Begin
  <1>2. GoodRun(r) /\ r.event = e /\ r.stage = "delete" /\ r.found = << >>
    <2>1. r \in RunType /\ r.event = e /\ r.stage = "delete" /\ r.found = << >>
      <3>1. IdleRun \in RunType /\ IdleRun.found = << >>
        BY IdleRunType DEF IdleRun
      <3>2. e \in Events \cup {None} /\ "delete" \in Stages /\ now \in Nat
        BY DEF Stages, Data
      <3> QED
        BY <3>1, <3>2 DEF RunType
    <2> HIDE DEF r
    <2> QED
      BY <2>1 DEF GoodRun
  <1>3. /\ Runs' /\ Others(w)
        /\ \/ run'[w] = run[w]
           \/ run'[w].event = e /\ run'[w].stage = "delete" /\ run'[w].found = << >>
    <2>1. CASE run' = run
      BY <2>1 DEF Runs, Others
    <2>2. CASE run' = [run EXCEPT ![w] = r]
      BY <1>2, <2>2, RunReplaced DEF Others
    <2> QED
      BY <1>1, <2>1, <2>2
  <1>4. /\ overlapped' \subseteq Events /\ overlapped \subseteq overlapped'
        /\ (\E v \in Workers \ {w} : run[v].event = e) => e \in overlapped'
    BY <1>1 DEF Data
  <1>5. Data'
    BY <1>1, <1>4 DEF Data, db
  <1> QED
    BY <1>1, <1>3, <1>4, <1>5 DEF BeginShape, db

CrashShape == /\ Runs' /\ Data' /\ UNCHANGED <<responses, stored, published, overlapped>>
              /\ crashes' # 0
              /\ \A w \in Workers : run'[w] = IdleRun

LEMMA CrashStep ==
    ASSUME Runs, Data, Crash
    PROVE  CrashShape
  <1>1. /\ crashes' = crashes + 1 /\ run' = [w \in Workers |-> IdleRun]
        /\ UNCHANGED <<db, published, now, history, faults>>
    BY DEF Crash
  <1>2. GoodRun(IdleRun)
    BY IdleRunType DEF GoodRun
  <1>3. Runs' /\ \A w \in Workers : run'[w] = IdleRun
    BY <1>1, <1>2, IdleRunType DEF Runs
  <1> QED
    BY <1>1, <1>3 DEF CrashShape, Data, db, history

LEMMA TickStep ==
    ASSUME Runs, Data, Tick \/ UNCHANGED vars
    PROVE  Runs' /\ Data' /\ UNCHANGED <<responses, stored, published, overlapped, run, faults, crashes>>
  BY DEF Tick, vars, Runs, Data, db, history

LEMMA TypesAtInit == Init => Runs /\ Data
  <1> SUFFICES ASSUME Init PROVE Runs /\ Data
    OBVIOUS
  <1>1. Runs
    BY IdleRunType DEF Init, Runs, GoodRun
  <1>2. Data
    BY FS_EmptySet DEF Init, Data
  <1> QED
    BY <1>1, <1>2

LEMMA TypesStep == Runs /\ Data /\ [Next]_vars => Runs' /\ Data'
  <1> SUFFICES ASSUME Runs, Data, [Next]_vars PROVE Runs' /\ Data'
    OBVIOUS
  <1>1. CASE Tick \/ UNCHANGED vars
    BY <1>1, TickStep
  <1>2. CASE Crash
    BY <1>2, CrashStep DEF CrashShape
  <1>3. ASSUME NEW w \in Workers, NEW e \in Events, Begin(w, e) PROVE Runs' /\ Data'
    BY <1>3, BeginStep DEF BeginShape
  <1>4. ASSUME NEW w \in Workers, Step(w) PROVE Runs' /\ Data'
    BY <1>4, StepShape DEF Shape
  <1> QED
    BY <1>1, <1>2, <1>3, <1>4 DEF Next

LEMMA Typed == Spec => [](Runs /\ Data)
  BY TypesAtInit, TypesStep, PTL DEF Spec

(* A run that checks is always at a metric of its event and at a threshold
   that applies to it when it writes the breach (metric_manager.rs:417-479). *)
THEOREM MetricsTypeCorrect == Spec => []TypeOK
  BY Typed, TypeOfParts, PTL

-----------------------------------------------------------------------------
(* One document per event, unless two runs of it overlapped.               *)

Alone == \A v, w \in Workers :
    (v # w /\ run[v].event = run[w].event /\ run[v].event # None) => run[v].event \in overlapped

Cleared == \A w \in Workers :
    (At(w, "insert") /\ run[w].event \notin overlapped)
        => \A d \in responses : d.event # run[w].event

LEMMA AloneStep == Runs /\ Data /\ Alone /\ [Next]_vars => Alone'
  <1> SUFFICES ASSUME Runs, Data, Alone, [Next]_vars PROVE Alone'
    OBVIOUS
  <1>1. CASE Tick \/ UNCHANGED vars
    BY <1>1, TickStep DEF Alone
  <1>2. CASE Crash
    BY <1>2, CrashStep, IdleRunType DEF CrashShape, Alone
  <1>3. ASSUME NEW w \in Workers, NEW e \in Events, Begin(w, e) PROVE Alone'
    BY <1>3, BeginStep DEF BeginShape, Alone, Others
  <1>4. ASSUME NEW w \in Workers, Step(w) PROVE Alone'
    BY <1>4, StepShape DEF Shape, Alone, Others
  <1> QED
    BY <1>1, <1>2, <1>3, <1>4 DEF Next

OneDocument == Alone /\ Cleared /\ CountedTwiceOnlyFromOverlap

LEMMA OneDocumentStep == Runs /\ Data /\ OneDocument /\ [Next]_vars => OneDocument'
  <1> SUFFICES ASSUME Runs, Data, OneDocument, [Next]_vars
               PROVE  Cleared' /\ CountedTwiceOnlyFromOverlap'
    BY AloneStep DEF OneDocument
  <1> USE DEF OneDocument
  <1>1. CASE Tick \/ UNCHANGED vars
    BY <1>1, TickStep DEF Cleared, CountedTwiceOnlyFromOverlap, At
  <1>2. CASE Crash
    BY <1>2, CrashStep, IdleRunType DEF CrashShape, Cleared, CountedTwiceOnlyFromOverlap, At
  <1>3. ASSUME NEW w \in Workers, NEW e \in Events, Begin(w, e)
        PROVE  Cleared' /\ CountedTwiceOnlyFromOverlap'
    <2>1. BeginShape(w, e)
      BY <1>3, BeginStep
    <2>2. Cleared'
      BY <2>1 DEF BeginShape, Cleared, Others, At
    <2>3. CountedTwiceOnlyFromOverlap'
      BY <2>1 DEF BeginShape, CountedTwiceOnlyFromOverlap
    <2> QED
      BY <2>2, <2>3
  <1>4. ASSUME NEW w \in Workers, Step(w)
        PROVE  Cleared' /\ CountedTwiceOnlyFromOverlap'
    <2>1. Shape(w)
      BY <1>4, StepShape
    <2>2. UNCHANGED overlapped /\ Others(w)
      BY <2>1 DEF Shape
    <2>3. CASE Deletes(w)
      BY <2>2, <2>3 DEF Deletes, Cleared, CountedTwiceOnlyFromOverlap, Others, At
    <2>4. CASE Leaves(w)
      BY <2>2, <2>4 DEF Leaves, Cleared, CountedTwiceOnlyFromOverlap, Others, At
    <2>5. CASE Inserts(w)
      <3>1. /\ run[w].stage = "insert" /\ run'[w].stage # "insert"
            /\ Inserted(run[w]) \/ UNCHANGED responses
        BY <2>5 DEF Inserts, At
      <3>2. PICK new : /\ responses' \subseteq responses \cup {new}
                       /\ new.event = run[w].event
        <4> DEFINE x == [id |-> Cardinality({d \in responses : d.event = run[w].event}),
                         event |-> run[w].event, time |-> run[w].time]
        <4>1. x.event = run[w].event /\ responses' \subseteq responses \cup {x}
          BY <3>1 DEF Inserted
        <4> HIDE DEF x
        <4> QED
          BY <4>1
      <3>3. run[w].event \in Events /\ run[w].event # None
        BY <3>1, MetricsAssumption DEF Runs, GoodRun
      <3>4. CountedTwiceOnlyFromOverlap'
        <4> SUFFICES ASSUME NEW d \in responses', NEW other \in responses',
                            d # other, d.event = other.event
                     PROVE  d.event \in overlapped
          BY <2>2 DEF CountedTwiceOnlyFromOverlap
        <4>1. CASE d \in responses /\ other \in responses
          BY <4>1 DEF CountedTwiceOnlyFromOverlap
        <4>2. CASE d \notin responses \/ other \notin responses
          <5>1. d.event = run[w].event /\ (d \in responses \/ other \in responses)
            BY <3>2, <4>2
          <5> QED
            BY <3>1, <5>1 DEF Cleared, At
        <4> QED
          BY <4>1, <4>2
      <3>5. Cleared'
        <4> SUFFICES ASSUME NEW v \in Workers, run'[v].stage = "insert",
                            run'[v].event \notin overlapped, NEW d \in responses'
                     PROVE  d.event # run'[v].event
          BY <2>2 DEF Cleared, At
        <4>1. v # w /\ run'[v] = run[v]
          BY <2>2, <3>1 DEF Others
        <4>2. run[v].event # run[w].event
          BY <3>3, <4>1 DEF Alone
        <4> QED
          BY <3>2, <4>1, <4>2 DEF Cleared, At
      <3> QED
        BY <3>4, <3>5
    <2> QED
      BY <2>1, <2>3, <2>4, <2>5 DEF Shape
  <1> QED
    BY <1>1, <1>2, <1>3, <1>4 DEF Next

LEMMA OneDocumentAtInit == Init => OneDocument
  BY IdleRunType DEF Init, OneDocument, Alone, Cleared, CountedTwiceOnlyFromOverlap, At

LEMMA OneDocumentAlways == Spec => [](Runs /\ Data /\ OneDocument)
  BY Typed, OneDocumentAtInit, OneDocumentStep, PTL DEF Spec

(* However often an event is redelivered, and wherever its earlier runs failed
   or crashed, delete_many and insert_one leave it counted once, unless two
   runs of it overlapped (metric_store.rs:176-230). *)
THEOREM CountedOnce == Spec => []CountedTwiceOnlyFromOverlap
  BY OneDocumentAlways, PTL DEF OneDocument

-----------------------------------------------------------------------------
(* Nothing is lost without a failure.                                      *)

LEMMA NothingLostStep == Runs /\ Data /\ NoMetricsLost /\ [Next]_vars => NoMetricsLost'
  <1> SUFFICES ASSUME Runs, Data, NoMetricsLost, [Next]_vars,
                      faults' = 0, crashes' = 0, NEW s \in stored'
               PROVE  \/ \E d \in responses' : d.event = s.event
                      \/ \E w \in Workers : At(w, "insert")' /\ run'[w].event = s.event
    BY DEF NoMetricsLost
  <1>0. faults = 0 /\ crashes = 0
    <2>1. faults \in Nat /\ crashes \in Nat
      BY DEF Data
    <2>2. faults' \in {faults, faults + 1} /\ crashes' \in {crashes, crashes + 1}
      <3>1. CASE Tick \/ UNCHANGED vars
        BY <3>1, TickStep
      <3>2. CASE Crash
        BY <3>2 DEF Crash
      <3>3. CASE \E w \in Workers, e \in Events : Begin(w, e)
        BY <3>3 DEF Begin
      <3>4. ASSUME NEW w \in Workers, Step(w)
            PROVE  faults' \in {faults, faults + 1} /\ crashes' = crashes
        <4>1. CASE \/ DeleteOld(w) \/ InsertResponse(w) \/ Skip(w) \/ Sum(w) \/ Upsert(w)
                   \/ Publish(w) \/ NextMetric(w)
          BY <4>1 DEF DeleteOld, InsertResponse, Skip, Sum, Upsert, Publish, NextMetric
        <4>2. CASE \/ DeleteFails(w) \/ InsertFails(w) \/ SumFails(w) \/ UpsertFails(w)
                   \/ PublishFails(w)
          <5>1. Aborts(w)
            BY <4>2 DEF DeleteFails, InsertFails, SumFails, UpsertFails, PublishFails
          <5> QED
            BY <5>1 DEF Aborts
        <4> QED
          BY <3>4, <4>1, <4>2 DEF Step
      <3> QED
        BY <3>1, <3>2, <3>3, <3>4 DEF Next
    <2> QED
      BY <2>1, <2>2
  <1>1. \A x \in stored : \/ \E d \in responses : d.event = x.event
                          \/ \E w \in Workers : At(w, "insert") /\ run[w].event = x.event
    BY <1>0 DEF NoMetricsLost
  <1>2. CASE Tick \/ UNCHANGED vars
    BY <1>1, <1>2, TickStep DEF At
  <1>3. CASE Crash
    BY <1>3, CrashStep DEF CrashShape
  <1>4. ASSUME NEW w \in Workers, NEW e \in Events, Begin(w, e)
        PROVE  \/ \E d \in responses' : d.event = s.event
               \/ \E v \in Workers : At(v, "insert")' /\ run'[v].event = s.event
    BY <1>1, <1>4, BeginStep DEF BeginShape, Others, At
  <1>5. ASSUME NEW w \in Workers, Step(w)
        PROVE  \/ \E d \in responses' : d.event = s.event
               \/ \E v \in Workers : At(v, "insert")' /\ run'[v].event = s.event
    <2>1. Shape(w)
      BY <1>5, StepShape
    <2>2. CASE Deletes(w)
      BY <1>1, <2>1, <2>2 DEF Shape, Deletes, Others, At
    <2>3. CASE Leaves(w)
      BY <1>1, <2>1, <2>3 DEF Shape, Leaves, Others, At
    <2>4. CASE Inserts(w)
      <3>1. At(w, "insert") /\ Inserted(run[w])
        BY <2>4 DEF Inserts
      <3>2. \/ s \in stored
            \/ s.event = run[w].event
        BY <3>1 DEF Inserted
      <3>3. /\ responses \subseteq responses'
            /\ \E d \in responses' : d.event = run[w].event
        <4> DEFINE x == [id |-> Cardinality({d \in responses : d.event = run[w].event}),
                         event |-> run[w].event, time |-> run[w].time]
        <4>1. x.event = run[w].event /\ responses' = responses \cup {x}
          BY <3>1 DEF Inserted
        <4> HIDE DEF x
        <4> QED
          BY <4>1
      <3> QED
        BY <1>1, <2>1, <3>2, <3>3 DEF Shape, Others, At
    <2> QED
      BY <2>1, <2>2, <2>3, <2>4 DEF Shape
  <1> QED
    BY <1>2, <1>3, <1>4, <1>5 DEF Next

LEMMA NothingLostAtInit == Init => NoMetricsLost
  BY DEF Init, NoMetricsLost

(* As long as no call fails and the process stays up, a delete is followed by
   its insert: concurrent runs do not erase each other's metrics for good. *)
THEOREM NothingLost == Spec => []NoMetricsLost
  BY Typed, NothingLostAtInit, NothingLostStep, PTL DEF Spec

-----------------------------------------------------------------------------
(* A breach rests on as many stored metrics as it reports.                 *)

Shown(S) == {<<s.event, s.index>> : s \in S}

Earned(n) == \/ n.observed <= Cardinality(Shown(Evidence(n)))
             \/ \E s \in Evidence(n) : s.event \in overlapped

DocumentsStored ==
    \A d \in responses : \A k \in DOMAIN MetricsOf[d.event] :
        [event |-> d.event, index |-> k, time |-> d.time] \in stored

LEMMA ShownFinite ==
    ASSUME NEW S, IsFiniteSet(S)
    PROVE  IsFiniteSet(Shown(S)) /\ Cardinality(Shown(S)) \in Nat
  <1> DEFINE f == [s \in S |-> <<s.event, s.index>>]
  <1>1. f \in Surjection(S, Shown(S))
    BY DEF Surjection, Shown
  <1> QED
    BY <1>1, FS_Surjection, FS_CardinalityType

LEMMA EarnedStays ==
    ASSUME NEW n, n.observed \in Nat, Earned(n), IsFiniteSet(stored'), stored \subseteq stored',
           overlapped \subseteq overlapped'
    PROVE  Earned(n)'
  <1> DEFINE E == Evidence(n)
             F == Evidence(n)'
  <1>1. E \subseteq F /\ F \subseteq stored'
    BY DEF Evidence
  <1>2. IsFiniteSet(F)
    BY <1>1, FS_Subset
  <1>3. IsFiniteSet(E)
    BY <1>1, <1>2, FS_Subset
  <1>4. Shown(E) \subseteq Shown(F)
    BY <1>1 DEF Shown
  <1>5. Cardinality(Shown(E)) <= Cardinality(Shown(F))
        /\ Cardinality(Shown(E)) \in Nat /\ Cardinality(Shown(F)) \in Nat
    BY <1>2, <1>3, <1>4, ShownFinite, FS_Subset
  <1>6. (\E s \in E : s.event \in overlapped) => (\E s \in F : s.event \in overlapped')
    BY <1>1
  <1> HIDE DEF E, F
  <1>7. n.observed <= Cardinality(Shown(E)) \/ \E s \in E : s.event \in overlapped
    BY DEF Earned, E
  <1>8. n.observed <= Cardinality(Shown(F)) \/ \E s \in F : s.event \in overlapped'
    BY <1>5, <1>6, <1>7
  <1> QED
    BY <1>8 DEF Earned, F, Shown

LEMMA MinuteIsEarlier == ASSUME NEW t \in Nat PROVE StoredTime(t) \in Nat /\ StoredTime(t) <= t
  BY MetricsAssumption DEF StoredTime

(* What sum_metric_values counts for a breach is evidence for it. *)
LEMMA SumIsEvidence ==
    ASSUME Data, CountedTwiceOnlyFromOverlap, DocumentsStored, IsFiniteSet(stored),
           NEW r, GoodRun(r), r.stage = "upsert", r.total = Total(r)
    PROVE  Earned(Notice(r))
  <1> DEFINE n == Notice(r)
             P == {p \in InWindow(r) \X (1 .. MaxMetrics) :
                      /\ p[2] \in DOMAIN MetricsOf[p[1].event]
                      /\ MetricsOf[p[1].event][p[2]] = MetricAt(r)}
             E == Evidence(n)
             f == [p \in P |-> <<p[1].event, p[2]>>]
  <1>1. /\ n.event = r.event /\ n.threshold = r.threshold /\ n.rule = MetricAt(r).rule
        /\ n.observed = Total(r) /\ n.time = r.time
    BY DEF Notice
  <1>2. /\ r \in RunType /\ r.event \in Events /\ r.index \in DOMAIN MetricsOf[r.event]
        /\ r.threshold \in DOMAIN Thresholds /\ Applies(r)
    BY DEF GoodRun
  <1>3. MetricAt(r) = [type |-> Thresholds[r.threshold].type, rule |-> MetricAt(r).rule]
    <2>1. MetricAt(r) \in Metric /\ MetricAt(r).type = Thresholds[r.threshold].type
      BY <1>2, MetricsOfType DEF MetricAt, Applies, AppliesTo
    <2> QED
      BY <2>1 DEF Metric
  <1>4. ASSUME NEW p \in P
        PROVE  [event |-> p[1].event, index |-> p[2], time |-> p[1].time] \in E
    <2> DEFINE d == p[1]
               s == [event |-> d.event, index |-> p[2], time |-> d.time]
    <2>1. /\ d \in responses /\ TenantOf[d.event] = TenantOf[r.event]
          /\ StoredTime(d.time) >= r.time - Thresholds[r.threshold].window
          /\ p[2] \in DOMAIN MetricsOf[d.event] /\ MetricsOf[d.event][p[2]] = MetricAt(r)
      BY DEF InWindow
    <2>2. d.time \in Nat /\ r.time \in Nat /\ Thresholds[r.threshold].window \in Nat
      BY <1>2, <2>1, ThresholdType DEF Data, RunType, Threshold
    <2>3. d.time >= r.time - Thresholds[r.threshold].window
      BY <2>1, <2>2, MinuteIsEarlier
    <2>4. s \in stored
      BY <2>1 DEF DocumentsStored
    <2>5. s.event = d.event /\ s.index = p[2] /\ s.time = d.time
      OBVIOUS
    <2> HIDE DEF d, s, n
    <2>6. s \in E
      BY <1>1, <1>3, <2>1, <2>3, <2>4, <2>5 DEF Evidence
    <2> QED
      BY <2>6 DEF s, d
  <1>5. IsFiniteSet(E)
    <2>1. E \subseteq stored
      BY DEF Evidence
    <2> QED
      BY <2>1, FS_Subset
  <1>6. IsFiniteSet(Shown(E)) /\ Cardinality(Shown(E)) \in Nat
    BY <1>5, ShownFinite
  <1>7. CASE \A s \in E : s.event \notin overlapped
    <2>1. f \in [P -> Shown(E)]
      <3>1. ASSUME NEW p \in P PROVE <<p[1].event, p[2]>> \in Shown(E)
        <4> DEFINE s == [event |-> p[1].event, index |-> p[2], time |-> p[1].time]
        <4>1. s \in E /\ s.event = p[1].event /\ s.index = p[2]
          BY <1>4
        <4> HIDE DEF s, E, P
        <4>2. <<s.event, s.index>> \in Shown(E)
          BY <4>1 DEF Shown
        <4> QED
          BY <4>1, <4>2
      <3> HIDE DEF P, E
      <3> QED
        BY <3>1
    <2>2. ASSUME NEW p \in P, NEW q \in P, f[p] = f[q] PROVE p = q
      <3>1. p[1].event = q[1].event /\ p[2] = q[2]
        BY <2>2
      <3>2. p[1] \in responses /\ q[1] \in responses
        BY DEF InWindow
      <3>3. p[1].event \notin overlapped
        BY <1>4, <1>7
      <3>4. p[1] = q[1]
        BY <3>1, <3>2, <3>3 DEF CountedTwiceOnlyFromOverlap
      <3> QED
        BY <3>1, <3>4
    <2>3. f \in Injection(P, Shown(E))
      BY <2>1, <2>2 DEF Injection, IsInjective
    <2>4. Cardinality(P) <= Cardinality(Shown(E))
      BY <1>6, <2>3, FS_Injection
    <2> QED
      BY <1>1, <2>4 DEF Earned, Total
  <1>8. CASE \E s \in E : s.event \in overlapped
    BY <1>8 DEF Earned
  <1> QED
    BY <1>7, <1>8

Standing(r) == /\ \A i \in DOMAIN r.found : Earned(r.found[i])
               /\ r.stage = "upsert" => Earned(Notice(r))

AllEarned(notices) == \A i \in DOMAIN notices : Earned(notices[i])

Evidenced ==
    /\ DocumentsStored /\ IsFiniteSet(stored)
    /\ AllEarned(published)
    /\ \A w \in Workers : Standing(run[w])

LEMMA StandingGoesOn ==
    ASSUME NEW r, GoodRun(r), Standing(r)
    PROVE  /\ Standing(IdleRun)
           /\ Standing(NextCheck(r))
           /\ \A i : Standing(AtMetric(r, i))
  <1>1. Standing(IdleRun)
    BY DEF Standing, IdleRun
  <1>2. r \in RunType
    BY DEF GoodRun
  <1>3. NextCheck(r).found = r.found /\ NextCheck(r).stage = "check"
    BY <1>2 DEF NextCheck, RunType
  <1>4. Standing(NextCheck(r))
    BY <1>3 DEF Standing
  <1>5. ASSUME NEW i PROVE Standing(AtMetric(r, i))
    <2>1. CASE i > Len(MetricsOf[r.event])
      BY <1>1, <2>1 DEF AtMetric
    <2>2. CASE ~(i > Len(MetricsOf[r.event]))
      <3>1. AtMetric(r, i).found = << >> /\ AtMetric(r, i).stage = "check"
        BY <1>2, <2>2 DEF AtMetric, RunType
      <3> QED
        BY <3>1 DEF Standing
    <2> QED
      BY <2>1, <2>2
  <1> QED
    BY <1>1, <1>4, <1>5

LEMMA NewNoticesEarned ==
    ASSUME Runs, Data, OneDocument, Evidenced, NEW w \in Workers, Step(w)
    PROVE  Standing(run'[w]) /\ AllEarned(published')
  <1> DEFINE r == run[w]
  <1>1. GoodRun(r) /\ r \in RunType /\ Standing(r) /\ AllEarned(published)
        /\ r.found \in Seq(NoticeType) /\ published \in Seq(NoticeType)
    BY DEF Runs, Evidenced, Data, GoodRun, RunType
  <1>2. run \in [Workers -> RunType]
    BY DEF Runs
  <1>3. ASSUME NEW x, run' = [run EXCEPT ![w] = x] PROVE run'[w] = x
    BY <1>2, <1>3
  <1>4. Standing(IdleRun) /\ Standing(NextCheck(r)) /\ \A i : Standing(AtMetric(r, i))
    BY <1>1, StandingGoesOn
  <1>5. ASSUME r.found # << >>
        PROVE  Earned(Head(r.found)) /\ AllEarned(Tail(r.found))
    <2>1. /\ Head(r.found) = r.found[1] /\ 1 \in DOMAIN r.found
          /\ \A i \in DOMAIN Tail(r.found) : /\ i + 1 \in DOMAIN r.found
                                             /\ Tail(r.found)[i] = r.found[i + 1]
      BY <1>1, <1>5
    <2> QED
      BY <1>1, <2>1 DEF Standing, AllEarned
  <1>6. ASSUME NEW s \in Seq(NoticeType), AllEarned(s), NEW n \in NoticeType, Earned(n)
        PROVE  AllEarned(Append(s, n))
    <2>1. \A i \in DOMAIN Append(s, n) : \/ i \in DOMAIN s /\ Append(s, n)[i] = s[i]
                                         \/ Append(s, n)[i] = n
      OBVIOUS
    <2> QED
      BY <1>6, <2>1 DEF AllEarned
  <1>7. r.found # << >> => Head(r.found) \in NoticeType
    BY <1>1
  <1>8. CASE DeleteOld(w)
    <2>1. run' = [run EXCEPT ![w] = [r EXCEPT !.stage = "insert"]] /\ published' = published
      BY <1>8 DEF DeleteOld
    <2>2. run'[w].found = r.found /\ run'[w].stage = "insert"
      BY <1>1, <1>3, <2>1 DEF RunType
    <2> QED
      BY <1>1, <2>1, <2>2 DEF Standing
  <1>9. CASE InsertResponse(w) \/ NextMetric(w)
    BY <1>1, <1>3, <1>4, <1>9 DEF InsertResponse, NextMetric
  <1>10. CASE Skip(w)
    BY <1>1, <1>3, <1>4, <1>10 DEF Skip
  <1>11. CASE Sum(w)
    <2> DEFINE x == [r EXCEPT !.stage = "upsert", !.total = Total(r)]
    <2>1. /\ run' = [run EXCEPT ![w] = NextCheck(r)] \/ run' = [run EXCEPT ![w] = x]
          /\ published' = published
          /\ r.stage = "check" /\ r.threshold \in DOMAIN Thresholds /\ Applies(r)
      BY <1>11 DEF Sum, Checking, At
    <2>2. /\ x.found = r.found /\ x.stage = "upsert" /\ x.total = Total(r) /\ x.event = r.event
          /\ x.threshold = r.threshold /\ x.index = r.index /\ x.time = r.time
      BY <1>1 DEF RunType
    <2>3. Total(r) \in Nat
      BY TotalType DEF Data
    <2>4. x \in RunType
      BY <1>1, <2>3 DEF RunType, Stages
    <2> HIDE DEF x, r
    <2>5. MetricAt(x) = MetricAt(r) /\ InWindow(x) = InWindow(r) /\ (Applies(x) <=> Applies(r))
      BY <2>2 DEF MetricAt, InWindow, Applies
    <2>6. Total(x) = Total(r)
      BY <2>5 DEF Total
    <2>7. GoodRun(x)
      BY <1>1, <2>1, <2>2, <2>4, <2>5 DEF GoodRun
    <2>8. Earned(Notice(x))
      BY <2>2, <2>6, <2>7, SumIsEvidence DEF Evidenced, OneDocument
    <2>9. Standing(x)
      BY <1>1, <2>2, <2>8 DEF Standing
    <2> QED
      BY <1>1, <1>3, <1>4, <2>1, <2>9
  <1>12. CASE Upsert(w)
    <2> DEFINE c == NextCheck(r)
               x == [c EXCEPT !.found = Append(@, Notice(r))]
    <2>1. /\ r.stage = "upsert" /\ published' = published
          /\ run' = [run EXCEPT ![w] = c] \/ run' = [run EXCEPT ![w] = x]
      BY <1>12 DEF Upsert, At
    <2>2. Notice(r) \in NoticeType /\ Earned(Notice(r))
      BY <1>1, <2>1, NoticeTyped DEF Standing
    <2>3. c.stage = "check" /\ x.stage = "check" /\ x.found = Append(r.found, Notice(r))
      BY <1>1 DEF NextCheck, RunType
    <2>4. AllEarned(r.found)
      BY <1>1 DEF Standing, AllEarned
    <2>5. AllEarned(x.found)
      BY <1>1, <1>6, <2>2, <2>3, <2>4
    <2>6. Standing(x)
      BY <2>3, <2>5 DEF Standing, AllEarned
    <2> HIDE DEF c, x, r
    <2> QED
      BY <1>1, <1>3, <1>4, <2>1, <2>6 DEF c
  <1>13. CASE Publish(w)
    <2> DEFINE x == [r EXCEPT !.found = Tail(@)]
    <2>1. /\ r.stage = "check" /\ r.found # << >>
          /\ published' = Append(published, Head(r.found)) /\ run' = [run EXCEPT ![w] = x]
      BY <1>13 DEF Publish, ChecksDone, At
    <2>2. x.found = Tail(r.found) /\ x.stage = "check"
      BY <1>1, <2>1 DEF RunType
    <2>3. Standing(x)
      BY <1>5, <2>1, <2>2 DEF Standing, AllEarned
    <2> HIDE DEF x, r
    <2>4. AllEarned(published')
      BY <1>1, <1>5, <1>6, <1>7, <2>1
    <2> QED
      BY <1>3, <2>1, <2>3, <2>4
  <1>14. CASE DeleteFails(w) \/ InsertFails(w) \/ SumFails(w) \/ UpsertFails(w)
    <2>1. run' = [run EXCEPT ![w] = IdleRun] /\ published' = published
      BY <1>14 DEF DeleteFails, InsertFails, SumFails, UpsertFails, Aborts
    <2> QED
      BY <1>1, <1>3, <1>4, <2>1
  <1>15. CASE PublishFails(w)
    <2>1. /\ run' = [run EXCEPT ![w] = IdleRun] /\ r.found # << >>
          /\ published' = published \/ published' = Append(published, Head(r.found))
      BY <1>15 DEF PublishFails, Aborts, ChecksDone
    <2> HIDE DEF r
    <2>2. AllEarned(published')
      BY <1>1, <1>5, <1>6, <1>7, <2>1
    <2> QED
      BY <1>3, <1>4, <2>1, <2>2
  <1> QED
    BY <1>8, <1>9, <1>10, <1>11, <1>12, <1>13, <1>14, <1>15 DEF Step

LEMMA StoredGrows ==
    ASSUME Data, IsFiniteSet(stored), DocumentsStored, NEW r, GoodRun(r), r.stage = "insert",
           Inserted(r)
    PROVE  stored \subseteq stored' /\ IsFiniteSet(stored') /\ DocumentsStored'
  <1> DEFINE K == DOMAIN MetricsOf[r.event]
             new == {[event |-> r.event, index |-> k, time |-> r.time] : k \in K}
             f == [k \in K |-> [event |-> r.event, index |-> k, time |-> r.time]]
             x == [id |-> Cardinality({d \in responses : d.event = r.event}),
                   event |-> r.event, time |-> r.time]
  <1>1. stored' = stored \cup new /\ responses' = responses \cup {x}
    BY DEF Inserted
  <1>2. IsFiniteSet(new)
    <2>1. r.event \in Events
      BY DEF GoodRun
    <2>2. IsFiniteSet(K)
      BY <2>1, MetricsOfType, FS_Interval
    <2>3. f \in Surjection(K, new)
      BY DEF Surjection
    <2> HIDE DEF f, new, K
    <2> QED
      BY <2>2, <2>3, FS_Surjection
  <1>3. IsFiniteSet(stored')
    BY <1>1, <1>2, FS_Union
  <1>4. x.event = r.event /\ x.time = r.time
    OBVIOUS
  <1>5. \A k \in K : [event |-> r.event, index |-> k, time |-> r.time] \in new
    OBVIOUS
  <1> HIDE DEF x, new
  <1>6. DocumentsStored'
    BY <1>1, <1>4, <1>5 DEF DocumentsStored
  <1> QED
    BY <1>1, <1>3, <1>6

(* Notices that were earned before a step are earned after it. *)
LEMMA EvidencedAfter ==
    ASSUME Runs', Data', DocumentsStored', IsFiniteSet(stored'),
           stored \subseteq stored', overlapped \subseteq overlapped',
           AllEarned(published'), \A w \in Workers : Standing(run'[w])
    PROVE  Evidenced'
  <1>1. ASSUME NEW n \in NoticeType, Earned(n) PROVE Earned(n)'
    <2>1. n.observed \in Nat
      BY DEF NoticeType
    <2> QED
      BY <1>1, <2>1, EarnedStays
  <1>2. AllEarned(published)'
    <2> SUFFICES ASSUME NEW i \in DOMAIN published' PROVE Earned(published[i])'
      BY DEF AllEarned
    <2>1. PICK n \in NoticeType : n = published'[i]
      BY DEF Data
    <2>2. Earned(n)'
      BY <1>1, <2>1 DEF AllEarned
    <2> QED
      BY <2>1, <2>2 DEF Earned, Evidence, Shown
  <1>3. ASSUME NEW w \in Workers PROVE Standing(run[w])'
    <2>1. GoodRun(run'[w]) /\ run'[w] \in RunType /\ Standing(run'[w])
      BY DEF Runs
    <2>2. ASSUME NEW i \in DOMAIN run'[w].found PROVE Earned(run[w].found[i])'
      <3>1. PICK n \in NoticeType : n = run'[w].found[i]
        BY <2>1 DEF RunType
      <3>2. Earned(n)'
        BY <1>1, <2>1, <3>1 DEF Standing
      <3> QED
        BY <3>1, <3>2 DEF Earned, Evidence, Shown
    <2>3. ASSUME run'[w].stage = "upsert" PROVE Earned(Notice(run[w]))'
      <3>1. PICK n \in NoticeType : n = Notice(run'[w])
        BY <2>1, <2>3, NoticeTyped
      <3>2. Earned(n)'
        BY <1>1, <2>1, <2>3, <3>1 DEF Standing
      <3>3. n = Notice(run[w])'
        BY <3>1 DEF Notice, MetricAt
      <3> QED
        BY <3>2, <3>3 DEF Earned, Evidence, Shown
    <2> QED
      BY <2>2, <2>3 DEF Standing
  <1> QED
    BY <1>2, <1>3 DEF Evidenced

LEMMA EvidencedStep == Runs /\ Data /\ OneDocument /\ Evidenced /\ [Next]_vars => Evidenced'
  <1> SUFFICES ASSUME Runs, Data, OneDocument, Evidenced, [Next]_vars PROVE Evidenced'
    OBVIOUS
  <1>0. /\ DocumentsStored /\ IsFiniteSet(stored) /\ AllEarned(published)
        /\ \A w \in Workers : Standing(run[w]) /\ GoodRun(run[w])
        /\ Standing(IdleRun)
    BY DEF Evidenced, Runs, Standing, IdleRun
  <1>1. CASE Tick \/ UNCHANGED vars
    <2>1. Runs' /\ Data' /\ UNCHANGED <<responses, stored, published, overlapped, run>>
      BY <1>1, TickStep
    <2> QED
      BY <1>0, <2>1, EvidencedAfter DEF DocumentsStored
  <1>2. CASE Crash
    BY <1>0, <1>2, CrashStep, EvidencedAfter DEF CrashShape, DocumentsStored
  <1>3. ASSUME NEW w \in Workers, NEW e \in Events, Begin(w, e) PROVE Evidenced'
    <2>1. BeginShape(w, e)
      BY <1>3, BeginStep
    <2>2. Standing(run'[w])
      BY <1>0, <2>1 DEF BeginShape, Standing
    <2> QED
      BY <1>0, <2>1, <2>2, EvidencedAfter DEF BeginShape, Others, DocumentsStored
  <1>4. ASSUME NEW w \in Workers, Step(w) PROVE Evidenced'
    <2>1. Shape(w)
      BY <1>4, StepShape
    <2>2. Standing(run'[w]) /\ AllEarned(published')
      BY <1>4, NewNoticesEarned
    <2>3. stored \subseteq stored' /\ IsFiniteSet(stored') /\ DocumentsStored'
      <3>1. CASE Deletes(w)
        BY <1>0, <3>1 DEF Deletes, DocumentsStored
      <3>2. CASE Leaves(w)
        BY <1>0, <3>2 DEF Leaves, DocumentsStored
      <3>3. CASE Inserts(w)
        <4>1. CASE Inserted(run[w])
          BY <1>0, <3>3, <4>1, StoredGrows DEF Inserts, At
        <4>2. CASE UNCHANGED <<responses, stored>>
          BY <1>0, <4>2 DEF DocumentsStored
        <4> QED
          BY <3>3, <4>1, <4>2 DEF Inserts
      <3> QED
        BY <2>1, <3>1, <3>2, <3>3 DEF Shape
    <2> QED
      BY <1>0, <2>1, <2>2, <2>3, EvidencedAfter DEF Shape, Others
  <1> QED
    BY <1>1, <1>2, <1>3, <1>4 DEF Next

LEMMA EvidencedAtInit == Init => Evidenced
  BY FS_EmptySet DEF Init, Evidenced, DocumentsStored, AllEarned, Standing, IdleRun

LEMMA EvidencedAlways == Spec => []Evidenced
  BY OneDocumentAlways, EvidencedAtInit, EvidencedStep, PTL DEF Spec

(* A published breach never reports more than was stored: for any thresholds,
   redeliveries, failures and crashes, either as many different evaluations of
   the rule were stored for the tenant within the window, or an event among
   them was recorded by two runs at once (metric_store.rs:295-348). *)
THEOREM BreachesAreEarned == Spec => []BreachIsEarned
  <1>1. Evidenced => BreachIsEarned
    BY DEF Evidenced, AllEarned, Earned, Shown, BreachIsEarned
  <1> QED
    BY <1>1, EvidencedAlways, PTL

-----------------------------------------------------------------------------
(* No more breaches of a threshold than recordings of the event.  A        *)
(* recording may delete the breach document of its event once; that lets    *)
(* one breach of each threshold through, whichever worker finds it.        *)

(* The breaches a run has found are of its event and of different thresholds,
   which it has checked. *)
Ordered(r) ==
    /\ r.stage \notin {"check", "upsert"} => r.found = << >>
    /\ \A i \in DOMAIN r.found : /\ r.found[i].event = r.event
                                 /\ r.found[i].threshold < r.threshold
    /\ \A i, j \in DOMAIN r.found : r.found[i].threshold = r.found[j].threshold => i = j

AllOrdered == \A w \in Workers : Ordered(run[w])

(* A run may yet delete the breach document, or has a breach to publish. *)
Holds(r, e, t) ==
    r.event = e /\ (r.stage = "delete" \/ \E i \in DOMAIN r.found : r.found[i].threshold = t)

Holders(e, t) == {w \in Workers : Holds(run[w], e, t)}

PastDelete(r, e) == r.event = e /\ r.stage # "delete"

Bit(condition) == IF condition THEN 1 ELSE 0

(* The next run of the event to find a breach would be the first to note it. *)
Open(e, t) == Bit(<<e, t>> \notin breaches /\ \E w \in Workers : PastDelete(run[w], e))

Budget == \A e \in Events, t \in DOMAIN Thresholds :
    /\ IsFiniteSet(Holders(e, t))
    /\ Cardinality(Notices(e, t)) + Cardinality(Holders(e, t)) + Open(e, t) <= begun[e]

LEMMA OrderedGoesOn ==
    ASSUME NEW r, GoodRun(r), Ordered(r)
    PROVE  /\ Ordered(IdleRun)
           /\ r.stage = "check" => Ordered(NextCheck(r))
           /\ \A i : Ordered(AtMetric(r, i))
           /\ r.stage = "upsert" =>
                 Ordered(NextCheck(r)) /\ Ordered([NextCheck(r) EXCEPT !.found = Append(@, Notice(r))])
  <1>1. Ordered(IdleRun)
    BY DEF Ordered, IdleRun
  <1>2. r \in RunType /\ r.found \in Seq(NoticeType) /\ r.threshold \in Nat
        /\ \A i \in DOMAIN r.found : r.found[i].threshold \in Nat
    <2>1. r \in RunType /\ r.found \in Seq(NoticeType)
      BY DEF GoodRun, RunType
    <2>2. r.threshold \in Nat
      BY <2>1, LenThresholds DEF RunType
    <2>3. ASSUME NEW i \in DOMAIN r.found PROVE r.found[i].threshold \in Nat
      <3>1. r.found[i] \in NoticeType
        BY <2>1
      <3> QED
        BY <3>1, LenThresholds DEF NoticeType
    <2> QED
      BY <2>1, <2>2, <2>3
  <1>3. /\ NextCheck(r).found = r.found /\ NextCheck(r).stage = "check"
        /\ NextCheck(r).event = r.event /\ NextCheck(r).threshold = r.threshold + 1
    BY <1>2 DEF NextCheck, RunType
  <1>4. Ordered(NextCheck(r))
    BY <1>2, <1>3 DEF Ordered
  <1>5. ASSUME NEW i PROVE Ordered(AtMetric(r, i))
    <2>1. CASE i > Len(MetricsOf[r.event])
      BY <1>1, <2>1 DEF AtMetric
    <2>2. CASE ~(i > Len(MetricsOf[r.event]))
      <3>1. AtMetric(r, i).found = << >>
        BY <1>2, <2>2 DEF AtMetric, RunType
      <3> QED
        BY <3>1 DEF Ordered
    <2> QED
      BY <2>1, <2>2
  <1>6. ASSUME r.stage = "upsert"
        PROVE  Ordered([NextCheck(r) EXCEPT !.found = Append(@, Notice(r))])
    <2> DEFINE n == Notice(r)
               c == NextCheck(r)
               x == [c EXCEPT !.found = Append(@, n)]
    <2>1. n.event = r.event /\ n.threshold = r.threshold /\ n \in NoticeType
      BY <1>6, NoticeTyped DEF Notice
    <2>2. /\ x.found = Append(r.found, n) /\ x.stage = "check"
          /\ x.event = r.event /\ x.threshold = r.threshold + 1
      <3>1. c \in RunType
        BY <1>6, NextRuns DEF GoodRun
      <3> QED
        BY <1>3, <3>1 DEF RunType
    <2> HIDE DEF x, c, n
    <2>3. \A i \in DOMAIN x.found : \/ i \in DOMAIN r.found /\ x.found[i] = r.found[i]
                                    \/ i = Len(r.found) + 1 /\ x.found[i] = n
      BY <1>2, <2>1, <2>2
    <2>4. \A i \in DOMAIN x.found : x.found[i].event = r.event
                                    /\ x.found[i].threshold < r.threshold + 1
      BY <1>2, <2>1, <2>3 DEF Ordered
    <2>5. \A i, j \in DOMAIN x.found : x.found[i].threshold = x.found[j].threshold => i = j
      BY <1>2, <2>1, <2>3 DEF Ordered
    <2>6. Ordered(x)
      BY <2>2, <2>4, <2>5 DEF Ordered
    <2> QED
      BY <2>6 DEF x, c, n
  <1> QED
    BY <1>1, <1>4, <1>5, <1>6

(* What the budget sees of a worker's step. *)
Clears(w) == /\ run[w].stage = "delete" /\ run'[w].stage # "delete" /\ run'[w].found = << >>
             /\ run'[w].event \in {run[w].event, None}
             /\ \A b \in breaches : b[1] # run[w].event => b \in breaches'
             /\ published' = published

Keeps(w) == /\ run[w].stage # "delete" /\ published' = published /\ breaches \subseteq breaches'
            /\ \/ run'[w] = IdleRun
               \/ /\ run'[w].event = run[w].event /\ run'[w].stage # "delete"
                  /\ run'[w].found \in {run[w].found, << >>}

Finds(w) == /\ run[w].stage = "upsert" /\ BreachKey(run[w]) \notin breaches
            /\ breaches' = breaches \cup {BreachKey(run[w])} /\ published' = published
            /\ run'[w].event = run[w].event /\ run'[w].stage = "check"
            /\ run'[w].found = Append(run[w].found, Notice(run[w]))

Sends(w) == /\ run[w].stage = "check" /\ run[w].found # << >> /\ breaches' = breaches
            /\ published' = Append(published, Head(run[w].found))
            /\ \/ run'[w] = IdleRun
               \/ /\ run'[w].event = run[w].event /\ run'[w].stage = "check"
                  /\ run'[w].found = Tail(run[w].found)

Effect(w) == /\ Ordered(run'[w]) /\ begun' = begun
             /\ Clears(w) \/ Keeps(w) \/ Finds(w) \/ Sends(w)

LEMMA StepEffect ==
    ASSUME Runs, Data, AllOrdered, NEW w \in Workers, Step(w)
    PROVE  Effect(w)
  <1> DEFINE r == run[w]
  <1>1. GoodRun(r) /\ r \in RunType /\ Ordered(r) /\ r.found \in Seq(NoticeType)
    BY DEF Runs, AllOrdered, GoodRun, RunType
  <1>2. ASSUME NEW x, run' = [run EXCEPT ![w] = x] PROVE run'[w] = x
    BY <1>2 DEF Runs
  <1>3. /\ Ordered(IdleRun)
        /\ r.stage = "check" => Ordered(NextCheck(r))
        /\ \A i : Ordered(AtMetric(r, i))
        /\ r.stage = "upsert" =>
              /\ Ordered(NextCheck(r))
              /\ Ordered([NextCheck(r) EXCEPT !.found = Append(@, Notice(r))])
    BY <1>1, OrderedGoesOn
  <1>4. /\ IdleRun.stage = "idle" /\ IdleRun.event = None /\ IdleRun.found = << >>
        /\ NextCheck(r).found = r.found /\ NextCheck(r).stage = "check"
        /\ NextCheck(r).event = r.event
    BY <1>1 DEF IdleRun, NextCheck, RunType
  <1>5. ASSUME NEW i PROVE \/ AtMetric(r, i) = IdleRun
                           \/ /\ AtMetric(r, i).event = r.event /\ AtMetric(r, i).stage = "check"
                              /\ AtMetric(r, i).found = << >>
    BY <1>1 DEF AtMetric, RunType
  <1> HIDE DEF r
  <1>6. CASE DeleteOld(w) \/ DeleteFails(w)
    <2>1. /\ r.stage = "delete" /\ published' = published /\ begun' = begun
          /\ \A b \in breaches : b[1] # r.event => b \in breaches'
          /\ \/ run' = [run EXCEPT ![w] = [r EXCEPT !.stage = "insert"]]
             \/ run' = [run EXCEPT ![w] = IdleRun]
      BY <1>6 DEF r, DeleteOld, DeleteFails, Deleted, Aborts, At, db, history
    <2>2. CASE run' = [run EXCEPT ![w] = IdleRun]
      BY <1>2, <1>3, <1>4, <2>1, <2>2 DEF Effect, Clears, r
    <2>3. CASE run' = [run EXCEPT ![w] = [r EXCEPT !.stage = "insert"]]
      <3>1. run'[w].stage = "insert" /\ run'[w].found = r.found /\ run'[w].event = r.event
        BY <1>1, <1>2, <2>3 DEF RunType
      <3>2. r.found = << >>
        BY <1>1, <2>1 DEF Ordered
      <3>3. Ordered(run'[w])
        BY <3>1, <3>2 DEF Ordered
      <3> QED
        BY <2>1, <3>1, <3>2, <3>3 DEF Effect, Clears, r
    <2> QED
      BY <2>1, <2>2, <2>3
  <1>7. CASE InsertResponse(w) \/ NextMetric(w)
    <2>1. /\ r.stage # "delete" /\ UNCHANGED <<published, begun, breaches>>
          /\ \E i : run' = [run EXCEPT ![w] = AtMetric(r, i)]
      BY <1>7 DEF r, InsertResponse, NextMetric, ChecksDone, At, db, history
    <2>2. PICK i : run'[w] = AtMetric(r, i)
      BY <1>2, <2>1
    <2> QED
      BY <1>3, <1>5, <2>1, <2>2 DEF Effect, Keeps, r
  <1>8. CASE Skip(w)
    <2>1. /\ r.stage = "check" /\ UNCHANGED <<published, begun, breaches>>
          /\ run' = [run EXCEPT ![w] = NextCheck(r)]
      BY <1>8 DEF r, Skip, Checking, At, db, history
    <2> QED
      BY <1>2, <1>3, <1>4, <2>1 DEF Effect, Keeps, r
  <1>9. CASE Sum(w)
    <2> DEFINE x == [r EXCEPT !.stage = "upsert", !.total = Total(r)]
    <2>1. /\ r.stage = "check" /\ UNCHANGED <<published, begun, breaches>>
          /\ run' = [run EXCEPT ![w] = NextCheck(r)] \/ run' = [run EXCEPT ![w] = x]
      BY <1>9 DEF r, Sum, Checking, At, db, history
    <2>2. x.stage = "upsert" /\ x.event = r.event /\ x.found = r.found /\ x.threshold = r.threshold
      BY <1>1 DEF RunType
    <2> HIDE DEF x
    <2>3. Ordered(x)
      BY <1>1, <2>2 DEF Ordered
    <2> QED
      BY <1>2, <1>3, <1>4, <2>1, <2>2, <2>3 DEF Effect, Keeps, r
  <1>10. CASE Upsert(w)
    <2> DEFINE x == [NextCheck(r) EXCEPT !.found = Append(@, Notice(r))]
    <2>1. /\ r.stage = "upsert" /\ UNCHANGED <<published, begun>>
          /\ breaches' = breaches \cup {BreachKey(r)}
          /\ \/ run' = [run EXCEPT ![w] = NextCheck(r)]
             \/ BreachKey(r) \notin breaches /\ run' = [run EXCEPT ![w] = x]
      BY <1>10 DEF r, Upsert, At, history
    <2>2. x.stage = "check" /\ x.event = r.event /\ x.found = Append(r.found, Notice(r))
      <3>1. NextCheck(r) \in RunType
        BY <1>1, <2>1, NextRuns DEF GoodRun
      <3> QED
        BY <1>4, <3>1 DEF RunType
    <2>3. Ordered(x)
      BY <1>3, <2>1
    <2> HIDE DEF x
    <2> QED
      BY <1>2, <1>3, <1>4, <2>1, <2>2, <2>3 DEF Effect, Keeps, Finds, r
  <1>11. CASE Publish(w)
    <2> DEFINE x == [r EXCEPT !.found = Tail(@)]
    <2>1. /\ r.stage = "check" /\ r.found # << >> /\ UNCHANGED <<begun, breaches>>
          /\ published' = Append(published, Head(r.found)) /\ run' = [run EXCEPT ![w] = x]
      BY <1>11 DEF r, Publish, ChecksDone, At, db, history
    <2>2. /\ x.stage = "check" /\ x.event = r.event /\ x.found = Tail(r.found)
          /\ x.threshold = r.threshold
      BY <1>1, <2>1 DEF RunType
    <2> HIDE DEF x
    <2>3. \A i \in DOMAIN Tail(r.found) : /\ i + 1 \in DOMAIN r.found
                                          /\ Tail(r.found)[i] = r.found[i + 1]
      BY <1>1, <2>1
    <2>4. \A i, j \in DOMAIN Tail(r.found) : i + 1 = j + 1 => i = j
      BY <1>1, <2>1
    <2>5. Ordered(x)
      BY <1>1, <2>1, <2>2, <2>3, <2>4 DEF Ordered
    <2> QED
      BY <1>2, <2>1, <2>2, <2>5 DEF Effect, Sends, r
  <1>12. CASE InsertFails(w) \/ SumFails(w) \/ UpsertFails(w) \/ PublishFails(w)
    <2>1. /\ r.stage # "delete" /\ begun' = begun /\ run' = [run EXCEPT ![w] = IdleRun]
          /\ \/ published' = published /\ breaches \subseteq breaches'
             \/ /\ r.stage = "check" /\ r.found # << >> /\ breaches' = breaches
                /\ published' = Append(published, Head(r.found))
      BY <1>12 DEF r, InsertFails, SumFails, UpsertFails, PublishFails, Aborts, Checking,
                   ChecksDone, At, db
    <2> QED
      BY <1>2, <1>3, <2>1 DEF Effect, Keeps, Sends, r
  <1> QED
    BY <1>6, <1>7, <1>8, <1>9, <1>10, <1>11, <1>12 DEF Step

LEMMA OrderedStep == Runs /\ Data /\ AllOrdered /\ [Next]_vars => AllOrdered'
  <1> SUFFICES ASSUME Runs, Data, AllOrdered, [Next]_vars PROVE AllOrdered'
    OBVIOUS
  <1>1. CASE Tick \/ UNCHANGED vars
    BY <1>1, TickStep DEF AllOrdered, Ordered
  <1>2. Ordered(IdleRun)
    BY DEF Ordered, IdleRun
  <1>3. CASE Crash
    BY <1>2, <1>3, CrashStep DEF CrashShape, AllOrdered, Ordered
  <1>4. ASSUME NEW w \in Workers, NEW e \in Events, Begin(w, e) PROVE AllOrdered'
    BY <1>4, BeginStep DEF BeginShape, Others, AllOrdered, Ordered
  <1>5. ASSUME NEW w \in Workers, Step(w) PROVE AllOrdered'
    BY <1>5, StepEffect, StepShape DEF Effect, Shape, Others, AllOrdered, Ordered
  <1> QED
    BY <1>1, <1>3, <1>4, <1>5 DEF Next

LEMMA NoticesFinite ==
    ASSUME Data, NEW e, NEW t
    PROVE  IsFiniteSet(Notices(e, t)) /\ Cardinality(Notices(e, t)) \in Nat
  <1>1. DOMAIN published = 1 .. Len(published) /\ Len(published) \in Nat
    BY DEF Data
  <1>2. IsFiniteSet(DOMAIN published)
    BY <1>1, FS_Interval
  <1>3. Notices(e, t) \subseteq DOMAIN published
    BY DEF Notices
  <1> QED
    BY <1>2, <1>3, FS_Subset, FS_CardinalityType

(* One more notice of the same event and threshold, or none. *)
LEMMA NoticesGrow ==
    ASSUME Data, NEW n \in NoticeType, published' = Append(published, n), NEW e, NEW t
    PROVE  /\ Cardinality(Notices(e, t)') <= Cardinality(Notices(e, t)) + 1
           /\ Cardinality(Notices(e, t)') # Cardinality(Notices(e, t))
                 => n.event = e /\ n.threshold = t
  <1> DEFINE k == Len(published) + 1
  <1>1. /\ DOMAIN published' = DOMAIN published \cup {k} /\ k \notin DOMAIN published
        /\ \A i \in DOMAIN published : published'[i] = published[i]
        /\ published'[k] = n
    BY DEF Data
  <1> HIDE DEF k
  <1>2. Notices(e, t)' = {i \in DOMAIN published' : published'[i].event = e
                                                    /\ published'[i].threshold = t}
    BY DEF Notices
  <1>3. CASE n.event = e /\ n.threshold = t
    <2>1. Notices(e, t)' = Notices(e, t) \cup {k}
      BY <1>1, <1>2, <1>3 DEF Notices
    <2>2. Cardinality(Notices(e, t)') <= Cardinality(Notices(e, t)) + 1
      <3> DEFINE N == Notices(e, t)
      <3>1. IsFiniteSet(N) /\ Cardinality(N) \in Nat
        BY NoticesFinite
      <3> HIDE DEF N
      <3>2. Cardinality(N \cup {k}) \in {Cardinality(N), Cardinality(N) + 1}
        BY <3>1, FS_AddElement
      <3>3. Cardinality(N \cup {k}) <= Cardinality(N) + 1
        BY <3>1, <3>2
      <3> QED
        BY <2>1, <3>3 DEF N
    <2> QED
      BY <1>3, <2>2
  <1>4. CASE ~(n.event = e /\ n.threshold = t)
    <2>1. Notices(e, t)' = Notices(e, t)
      BY <1>1, <1>2, <1>4 DEF Notices
    <2> QED
      BY <2>1, NoticesFinite
  <1> QED
    BY <1>3, <1>4

LEMMA HoldersChange ==
    ASSUME NEW w \in Workers, Others(w), NEW e, NEW t, IsFiniteSet(Holders(e, t))
    PROVE  /\ IsFiniteSet(Holders(e, t)')
           /\ Cardinality(Holders(e, t)) \in Nat /\ Cardinality(Holders(e, t)') \in Nat
           /\ Cardinality(Holders(e, t)') + Bit(Holds(run[w], e, t))
                = Cardinality(Holders(e, t)) + Bit(Holds(run'[w], e, t))
  <1> DEFINE H == Holders(e, t)
             I == {v \in Workers : Holds(run'[v], e, t)}
             K == H \ {w}
  <1>1. Holders(e, t)' = I
    BY DEF Holders, Holds
  <1>2. H = IF Holds(run[w], e, t) THEN K \cup {w} ELSE K
    BY DEF Holders
  <1>3. I = IF Holds(run'[w], e, t) THEN K \cup {w} ELSE K
    <2>1. \A v \in Workers \ {w} : v \in I <=> v \in H
      BY DEF Others, Holders
    <2>2. w \in I <=> Holds(run'[w], e, t)
      OBVIOUS
    <2>3. I \subseteq Workers /\ K \subseteq Workers
      BY DEF Holders
    <2> HIDE DEF H, I
    <2> QED
      BY <2>1, <2>2, <2>3
  <1>4. w \notin K /\ IsFiniteSet(K)
    BY FS_Subset
  <1> HIDE DEF H, I, K
  <1>5. /\ Cardinality(K) \in Nat /\ Cardinality(K \cup {w}) = Cardinality(K) + 1
        /\ IsFiniteSet(K \cup {w})
    BY <1>4, FS_AddElement, FS_CardinalityType
  <1>6. Cardinality(H) = Cardinality(K) + Bit(Holds(run[w], e, t))
    BY <1>2, <1>5 DEF Bit
  <1>7. Cardinality(I) = Cardinality(K) + Bit(Holds(run'[w], e, t)) /\ IsFiniteSet(I)
    BY <1>3, <1>4, <1>5 DEF Bit
  <1>8. Bit(Holds(run[w], e, t)) \in Nat /\ Bit(Holds(run'[w], e, t)) \in Nat
    BY DEF Bit
  <1> QED
    BY <1>1, <1>5, <1>6, <1>7, <1>8 DEF H

LEMMA NoticesStay ==
    ASSUME published' = published, NEW e, NEW t
    PROVE  Notices(e, t)' = Notices(e, t)
  BY DEF Notices

(* Deleting the breach document closes the run's own hold; finding a breach
   holds it but leaves nothing open; publishing it ends the hold. *)
LEMMA BudgetOfStep ==
    ASSUME Runs, Data, AllOrdered, NEW w \in Workers, Others(w), Effect(w),
           NEW e \in Events, NEW t \in DOMAIN Thresholds
    PROVE  Cardinality(Notices(e, t)') + Bit(Holds(run'[w], e, t)) + Open(e, t)'
             <= Cardinality(Notices(e, t)) + Bit(Holds(run[w], e, t)) + Open(e, t)
  <1> DEFINE n == Cardinality(Notices(e, t))
             m == Cardinality(Notices(e, t)')
             h == Bit(Holds(run[w], e, t))
             i == Bit(Holds(run'[w], e, t))
             o == Open(e, t)
             p == Open(e, t)'
  <1>1. n \in Nat /\ h \in 0 .. 1 /\ i \in 0 .. 1 /\ o \in 0 .. 1 /\ p \in 0 .. 1
    BY NoticesFinite DEF Bit, Open
  <1>2. published' = published => m = n
    BY NoticesStay
  <1>3. Ordered(run[w]) /\ run[w] \in RunType /\ GoodRun(run[w])
        /\ run[w].found \in Seq(NoticeType)
    BY DEF AllOrdered, Runs, RunType
  <1>4. e # None /\ IdleRun.event = None /\ IdleRun.found = << >>
    BY MetricsAssumption DEF IdleRun
  <1>5. p = Bit(<<e, t>> \notin breaches' /\ \E v \in Workers : PastDelete(run'[v], e))
    BY DEF Open, PastDelete
  <1>6. ASSUME <<e, t>> \in breaches => <<e, t>> \in breaches',
               PastDelete(run'[w], e) => PastDelete(run[w], e)
        PROVE  p <= o
    <2>1. \A v \in Workers : PastDelete(run'[v], e) => PastDelete(run[v], e)
      BY <1>6 DEF Others
    <2> QED
      BY <1>5, <1>6, <2>1 DEF Open, Bit
  <1>7. ASSUME Holds(run'[w], e, t) => Holds(run[w], e, t)
        PROVE  i <= h
    BY <1>7 DEF Bit
  <1> HIDE DEF n, m, h, i, o, p
  <1>8. CASE Clears(w)
    <2>1. m = n /\ ~Holds(run'[w], e, t) /\ i = 0
      BY <1>2, <1>8 DEF Clears, Holds, Bit, i
    <2>2. CASE run[w].event = e
      <3>1. h = 1
        BY <1>8, <2>2 DEF Clears, Holds, Bit, h
      <3> QED
        BY <1>1, <2>1, <3>1 DEF n, m, h, i, o, p
    <2>3. CASE run[w].event # e
      <3>1. p <= o
        BY <1>4, <1>6, <1>8, <2>3 DEF Clears, PastDelete
      <3> QED
        BY <1>1, <2>1, <3>1 DEF n, m, h, i, o, p
    <2> QED
      BY <2>2, <2>3
  <1>9. CASE Keeps(w)
    <2>1. m = n
      BY <1>2, <1>9 DEF Keeps
    <2>2. Holds(run'[w], e, t) => Holds(run[w], e, t)
      BY <1>4, <1>9 DEF Keeps, Holds
    <2>3. p <= o
      BY <1>4, <1>6, <1>9 DEF Keeps, PastDelete
    <2> QED
      BY <1>1, <1>7, <2>1, <2>2, <2>3 DEF n, m, h, i, o, p
  <1>10. CASE Finds(w)
    <2> DEFINE k == Notice(run[w])
    <2>1. /\ m = n /\ run'[w].found = Append(run[w].found, k) /\ k \in NoticeType
          /\ k.threshold = run[w].threshold
          /\ run[w].stage = "upsert" /\ run'[w].stage = "check" /\ run'[w].event = run[w].event
          /\ BreachKey(run[w]) = <<run[w].event, run[w].threshold>>
      BY <1>2, <1>3, <1>10, NoticeTyped DEF Finds, Notice, BreachKey
    <2>2. \A j \in DOMAIN run'[w].found : \/ j \in DOMAIN run[w].found
                                             /\ run'[w].found[j] = run[w].found[j]
                                          \/ run'[w].found[j] = k
      BY <1>3, <2>1
    <2> HIDE DEF k
    <2>3. p <= o
      BY <1>6, <1>10, <2>1 DEF Finds, PastDelete
    <2>4. CASE run[w].event = e /\ run[w].threshold = t
      <3>1. o = 1
        BY <1>10, <2>1, <2>4 DEF Finds, Open, PastDelete, Bit, o
      <3>2. p = 0
        BY <1>5, <1>10, <2>1, <2>4 DEF Finds, Bit
      <3> QED
        BY <1>1, <2>1, <3>1, <3>2 DEF n, m, h, i, o, p
    <2>5. CASE ~(run[w].event = e /\ run[w].threshold = t)
      <3>1. Holds(run'[w], e, t) => Holds(run[w], e, t)
        BY <2>1, <2>2, <2>5 DEF Holds
      <3> QED
        BY <1>1, <1>7, <2>1, <2>3, <3>1 DEF n, m, h, i, o, p
    <2> QED
      BY <2>4, <2>5
  <1>11. CASE Sends(w)
    <2> DEFINE k == Head(run[w].found)
    <2>1. /\ k \in NoticeType /\ k = run[w].found[1] /\ 1 \in DOMAIN run[w].found
          /\ run[w].stage = "check" /\ breaches' = breaches /\ published' = Append(published, k)
      BY <1>3, <1>11 DEF Sends
    <2>2. \A j \in DOMAIN Tail(run[w].found) :
             /\ j + 1 \in DOMAIN run[w].found /\ j + 1 # 1
             /\ Tail(run[w].found)[j] = run[w].found[j + 1]
      BY <1>3, <1>11 DEF Sends
    <2> HIDE DEF k
    <2>3. m \in Nat /\ m <= n + 1 /\ (m # n => k.event = e /\ k.threshold = t)
      <3>1. m \in Nat
        <4>1. m = Cardinality({j \in DOMAIN published' : published'[j].event = e
                                                          /\ published'[j].threshold = t})
          BY DEF m, Notices
        <4>2. published' \in Seq(NoticeType)
          BY <2>1 DEF Data
        <4>3. IsFiniteSet(DOMAIN published')
          BY <4>2, FS_Interval
        <4>4. IsFiniteSet({j \in DOMAIN published' : published'[j].event = e
                                                      /\ published'[j].threshold = t})
          BY <4>3, FS_Subset
        <4> QED
          BY <4>1, <4>4, FS_CardinalityType
      <3> QED
        BY <2>1, <3>1, NoticesGrow DEF m, n
    <2>4. p <= o
      BY <1>4, <1>6, <1>11, <2>1 DEF Sends, PastDelete
    <2>5. Holds(run'[w], e, t) => Holds(run[w], e, t)
      BY <1>4, <1>11, <2>2 DEF Sends, Holds
    <2>6. CASE k.event = e /\ k.threshold = t
      <3>1. Holds(run[w], e, t)
        BY <1>3, <2>1, <2>6 DEF Ordered, Holds
      <3>2. ~Holds(run'[w], e, t)
        <4>1. CASE run'[w] = IdleRun
          BY <1>4, <4>1 DEF Holds
        <4>2. CASE run'[w].stage = "check" /\ run'[w].found = Tail(run[w].found)
          <5>1. ASSUME NEW j \in DOMAIN Tail(run[w].found)
                PROVE  Tail(run[w].found)[j].threshold # t
            BY <1>3, <2>1, <2>2, <2>6 DEF Ordered
          <5> QED
            BY <4>2, <5>1 DEF Holds
        <4> QED
          BY <1>11, <4>1, <4>2 DEF Sends
      <3>3. h = 1 /\ i = 0
        BY <3>1, <3>2 DEF Bit, h, i
      <3> QED
        BY <1>1, <2>3, <2>4, <3>3 DEF n, m, h, i, o, p
    <2>7. CASE ~(k.event = e /\ k.threshold = t)
      BY <1>1, <1>7, <2>3, <2>4, <2>5, <2>7 DEF n, m, h, i, o, p
    <2> QED
      BY <2>6, <2>7
  <1> QED
    BY <1>8, <1>9, <1>10, <1>11 DEF Effect

LEMMA BudgetAtInit == Init => AllOrdered /\ Budget
  <1> SUFFICES ASSUME Init PROVE AllOrdered /\ Budget
    OBVIOUS
  <1>1. \A w \in Workers : run[w] = IdleRun
    BY DEF Init
  <1>2. Ordered(IdleRun) /\ IdleRun.event = None
    BY DEF Ordered, IdleRun
  <1>3. AllOrdered
    BY <1>1, <1>2 DEF AllOrdered
  <1>4. ASSUME NEW e \in Events, NEW t \in DOMAIN Thresholds
        PROVE  /\ IsFiniteSet(Holders(e, t))
               /\ Cardinality(Notices(e, t)) + Cardinality(Holders(e, t)) + Open(e, t) <= begun[e]
    <2>1. e # None
      BY MetricsAssumption
    <2>2. Holders(e, t) = {} /\ Open(e, t) = 0
      BY <1>1, <1>2, <2>1 DEF Holders, Holds, Open, PastDelete, Bit
    <2>3. Notices(e, t) = {} /\ begun[e] = 0
      BY DEF Init, Notices
    <2> QED
      BY <2>2, <2>3, FS_EmptySet
  <1> QED
    BY <1>3, <1>4 DEF Budget

LEMMA BudgetStep == Runs /\ Data /\ AllOrdered /\ Budget /\ [Next]_vars => Budget'
  <1> SUFFICES ASSUME Runs, Data, AllOrdered, Budget, [Next]_vars,
                      NEW e \in Events, NEW t \in DOMAIN Thresholds
               PROVE  /\ IsFiniteSet(Holders(e, t)')
                      /\ Cardinality(Notices(e, t)') + Cardinality(Holders(e, t)') + Open(e, t)'
                           <= begun'[e]
    BY DEF Budget
  <1> DEFINE n == Cardinality(Notices(e, t))
             m == Cardinality(Notices(e, t)')
             h == Cardinality(Holders(e, t))
             i == Cardinality(Holders(e, t)')
             o == Open(e, t)
             p == Open(e, t)'
  <1>1. /\ IsFiniteSet(Holders(e, t)) /\ n + h + o <= begun[e]
        /\ n \in Nat /\ h \in Nat /\ o \in 0 .. 1 /\ p \in 0 .. 1 /\ begun[e] \in Nat
    <2>1. IsFiniteSet(Holders(e, t)) /\ n + h + o <= begun[e] /\ begun[e] \in Nat
      BY DEF Budget, Data
    <2>2. n \in Nat /\ h \in Nat
      BY <2>1, NoticesFinite, FS_CardinalityType
    <2>3. o \in 0 .. 1
      BY DEF Open, Bit
    <2>4. p \in 0 .. 1
      BY DEF Open, Bit
    <2> QED
      BY <2>1, <2>2, <2>3, <2>4
  <1>2. published' = published => m = n
    BY NoticesStay
  <1>3. m \in Nat
    <2>1. DOMAIN published' = 1 .. Len(published') /\ Len(published') \in Nat
      <3>1. Data'
        BY TypesStep
      <3> QED
        BY <3>1 DEF Data
    <2> DEFINE N == {j \in DOMAIN published' : published'[j].event = e
                                                /\ published'[j].threshold = t}
    <2>2. IsFiniteSet(DOMAIN published')
      BY <2>1, FS_Interval
    <2>3. IsFiniteSet(N)
      BY <2>2, FS_Subset
    <2> QED
      BY <2>3, FS_CardinalityType DEF Notices
  <1>4. p = Bit(<<e, t>> \notin breaches' /\ \E v \in Workers : PastDelete(run'[v], e))
    BY DEF Open, PastDelete
  <1>5. e # None /\ IdleRun.event = None
    BY MetricsAssumption DEF IdleRun
  <1> HIDE DEF n, m, h, i, o, p
  <1>6. CASE Tick \/ UNCHANGED vars
    <2>1. UNCHANGED <<breaches, published, run, begun>>
      BY <1>6 DEF Tick, vars, db, history
    <2>2. Holders(e, t)' = Holders(e, t) /\ Open(e, t)' = Open(e, t)
      BY <2>1 DEF Holders, Holds, Open, PastDelete
    <2> QED
      BY <1>1, <1>2, <2>1, <2>2 DEF n, m, h, i, o, p
  <1>7. CASE Crash
    <2>1. published' = published /\ begun' = begun /\ \A w \in Workers : run'[w] = IdleRun
      BY <1>7, CrashStep DEF CrashShape, Crash, history
    <2>2. Holders(e, t)' = {} /\ p = 0
      BY <1>4, <1>5, <2>1 DEF Holders, Holds, PastDelete, Bit
    <2>3. IsFiniteSet(Holders(e, t)') /\ i = 0
      BY <2>2, FS_EmptySet DEF i
    <2> QED
      BY <1>1, <1>2, <2>1, <2>2, <2>3 DEF n, m, h, i, o, p
  <1>8. ASSUME NEW w \in Workers, NEW f \in Events, Begin(w, f)
        PROVE  IsFiniteSet(Holders(e, t)') /\ m + i + p <= begun'[e]
    <2>1. BeginShape(w, f)
      BY <1>8, BeginStep
    <2>2. /\ UNCHANGED <<published, breaches>>
          /\ begun' = [begun EXCEPT ![f] = @ + 1]
          /\ At(w, "idle") /\ Others(w)
      BY <1>8, <2>1 DEF Begin, BeginShape, db
    <2>3. begun'[e] = IF e = f THEN begun[e] + 1 ELSE begun[e]
      BY <2>2 DEF Data
    <2>4. PastDelete(run'[w], e) => PastDelete(run[w], e)
      BY <2>1 DEF BeginShape, PastDelete
    <2>5. p <= o
      <3>1. \A v \in Workers : PastDelete(run'[v], e) => PastDelete(run[v], e)
        BY <2>2, <2>4 DEF Others
      <3> QED
        BY <1>4, <2>2, <3>1 DEF Open, Bit, o
    <2>6. e # f => (Holds(run'[w], e, t) => Holds(run[w], e, t))
      BY <2>1 DEF BeginShape, Holds
    <2>7. /\ IsFiniteSet(Holders(e, t)') /\ i \in Nat
          /\ i + Bit(Holds(run[w], e, t)) = h + Bit(Holds(run'[w], e, t))
      BY <1>1, <2>2, HoldersChange DEF h, i
    <2>8. Bit(Holds(run[w], e, t)) \in 0 .. 1 /\ Bit(Holds(run'[w], e, t)) \in 0 .. 1
      BY DEF Bit
    <2>9. e # f => Bit(Holds(run'[w], e, t)) <= Bit(Holds(run[w], e, t))
      BY <2>6 DEF Bit
    <2>10. i <= IF e = f THEN h + 1 ELSE h
      BY <1>1, <2>7, <2>8, <2>9
    <2>11. m = n
      BY <1>2, <2>2
    <2> QED
      BY <1>1, <2>3, <2>5, <2>7, <2>10, <2>11
  <1>9. ASSUME NEW w \in Workers, Step(w)
        PROVE  IsFiniteSet(Holders(e, t)') /\ m + i + p <= begun'[e]
    <2>1. Others(w) /\ Effect(w) /\ begun' = begun
      BY <1>9, StepShape, StepEffect DEF Shape, Effect
    <2>2. m + Bit(Holds(run'[w], e, t)) + p <= n + Bit(Holds(run[w], e, t)) + o
      BY <2>1, BudgetOfStep DEF n, m, o, p
    <2>3. /\ IsFiniteSet(Holders(e, t)') /\ i \in Nat
          /\ i + Bit(Holds(run[w], e, t)) = h + Bit(Holds(run'[w], e, t))
      BY <1>1, <2>1, HoldersChange DEF h, i
    <2>4. Bit(Holds(run[w], e, t)) \in 0 .. 1 /\ Bit(Holds(run'[w], e, t)) \in 0 .. 1
      BY DEF Bit
    <2>5. m + i + p <= n + h + o
      BY <1>1, <1>3, <2>2, <2>3, <2>4
    <2> QED
      BY <1>1, <1>3, <2>1, <2>3, <2>5
  <1> QED
    BY <1>6, <1>7, <1>8, <1>9 DEF Next, m, i, p

LEMMA BudgetAlways == Spec => [](Runs /\ Data /\ AllOrdered /\ Budget)
  BY Typed, BudgetAtInit, OrderedStep, BudgetStep, PTL DEF Spec

(* However many rules of an event breach a threshold, and whatever fails or
   crashes between the upsert of a breach and its publication, its breach is
   published at most once for every time the outcome was handed over
   (metric_manager.rs:417-479, 559-640, metric_store.rs:192-212). *)
THEOREM BreachesAreCounted == Spec => []OneBreachPerRun
  <1>1. Data /\ Budget => OneBreachPerRun
    <2> SUFFICES ASSUME Data, Budget, NEW e \in Events, NEW t \in DOMAIN Thresholds
                 PROVE  Cardinality(Notices(e, t)) <= begun[e]
      BY DEF OneBreachPerRun
    <2>1. /\ Cardinality(Notices(e, t)) + Cardinality(Holders(e, t)) + Open(e, t) <= begun[e]
          /\ IsFiniteSet(Holders(e, t))
      BY DEF Budget
    <2>2. Cardinality(Notices(e, t)) \in Nat /\ Cardinality(Holders(e, t)) \in Nat
          /\ Open(e, t) \in 0 .. 1 /\ begun[e] \in Nat
      BY <2>1, NoticesFinite, FS_CardinalityType DEF Open, Bit, Data
    <2> QED
      BY <2>1, <2>2
  <1> QED
    BY <1>1, BudgetAlways, PTL

=============================================================================
