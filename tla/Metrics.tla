------------------------------ MODULE Metrics ------------------------------
(***************************************************************************)
(* MetricManager (http-gateway/src/metric_manager.rs) on MongoMetricStore  *)
(* (http-gateway/src/metric_store.rs): what an event's outcome leaves in   *)
(* the metrics collection and which threshold breaches are published.      *)
(*                                                                         *)
(* Workers are the concurrent executions of process_envelope.  One step is *)
(* one call to MongoDB or RabbitMQ.                                        *)
(***************************************************************************)
EXTENDS Integers, Sequences, FiniteSets

CONSTANTS
    Workers, Events, Tenants,
    Rules,       \* pairs of a playbook id and a rule id
    None,        \* Option::None
    TenantOf,    \* Events -> Tenants
    MetricsOf,   \* Events -> the metrics of its evaluations and new actions
    Thresholds,  \* the configured thresholds, in order
    MaxMetrics,  \* the most metrics one event has
    Minute,      \* clock ticks in a minute
    MaxTime, MaxRuns, MaxFaults, MaxCrashes

MetricTypes == {"rule.pass", "rule.fail", "rule.inconclusive", "action.triggered"}

Metric == [type : MetricTypes, rule : Rules]

(* "rules" are those that the playbook and rule filters of a threshold admit;
   "tenants" likewise. *)
Threshold == [type : MetricTypes, window : Nat, max : Nat,
              rules : SUBSET Rules, tenants : SUBSET Tenants]

ASSUME MetricsAssumption ==
    /\ TenantOf \in [Events -> Tenants]
    /\ MetricsOf \in [Events -> Seq(Metric)]
    /\ MaxMetrics \in Nat /\ \A e \in Events : Len(MetricsOf[e]) <= MaxMetrics
    /\ Thresholds \in Seq(Threshold)
    /\ Minute \in Nat \ {0} /\ None \notin Events
    /\ MaxTime \in Nat /\ MaxRuns \in Nat /\ MaxFaults \in Nat /\ MaxCrashes \in Nat

VARIABLES
    responses,   \* the documents with a header: one call's metrics each, with
                 \* an _id among those of the same event
    breaches,    \* the dedupe keys of the breach documents
    published,   \* the breach events sent to the KPI queue
    run,         \* what each worker is doing
    now,
    runs,        \* history: how many outcomes were handed over
    begun,       \* history: how often each event was handed over
    stored,      \* history: every metric an insert has put into the collection
    overlapped,  \* history: events two workers were recording at the same time
    faults, crashes

db == <<responses, breaches>>
history == <<runs, begun, stored, overlapped>>
vars == <<db, published, run, now, history, faults, crashes>>

Stages == {"idle", "delete", "insert", "check", "upsert"}

(* index: the metric being checked; threshold: the one it is compared with;
   total: what sum_metric_values returned; found: breach events to publish. *)
IdleRun == [event |-> None, stage |-> "idle", time |-> 0, index |-> 0,
            threshold |-> 1, total |-> 0, found |-> << >>]

At(w, stage) == run[w].stage = stage
MetricAt(r) == MetricsOf[r.event][r.index]

(* MetricThreshold::applies_to. *)
AppliesTo(t, e, metric) == /\ Thresholds[t].type = metric.type
                           /\ TenantOf[e] \in Thresholds[t].tenants
                           /\ metric.rule \in Thresholds[t].rules

Applies(r) == AppliesTo(r.threshold, r.event, MetricAt(r))

(* format_metric_timestamp and parse_metric_timestamp: to the minute. *)
StoredTime(t) == (t \div Minute) * Minute

(* The documents of the tenant in the window, as stored. *)
InWindow(r) ==
    {d \in responses :
        /\ TenantOf[d.event] = TenantOf[r.event]
        /\ StoredTime(d.time) >= r.time - Thresholds[r.threshold].window}

(* Faulty: the query does not narrow the rule. *)
TotalOfType(r) ==
    Cardinality({p \in InWindow(r) \X (1 .. MaxMetrics) :
                    /\ p[2] \in DOMAIN MetricsOf[p[1].event]
                    /\ MetricsOf[p[1].event][p[2]].type = MetricAt(r).type})

(* sum_metric_values: a response document stores the value 1 for every metric,
   and no threshold query asks for the type of the breach documents. *)
Total(r) ==
    Cardinality({p \in InWindow(r) \X (1 .. MaxMetrics) :
                    /\ p[2] \in DOMAIN MetricsOf[p[1].event]
                    /\ MetricsOf[p[1].event][p[2]] = MetricAt(r)})

Init ==
    /\ responses = {} /\ breaches = {} /\ published = << >>
    /\ run = [w \in Workers |-> IdleRun]
    /\ now = 0
    /\ runs = 0 /\ begun = [e \in Events |-> 0] /\ stored = {} /\ overlapped = {}
    /\ faults = 0 /\ crashes = 0

Tick == /\ now < MaxTime
        /\ now' = now + 1
        /\ UNCHANGED <<db, published, run, history, faults, crashes>>

(* The loop over the metrics reaches the i-th, or record_pipeline_outcome is
   over. *)
AtMetric(r, i) ==
    IF i > Len(MetricsOf[r.event]) THEN IdleRun
    ELSE [r EXCEPT !.stage = "check", !.index = i, !.threshold = 1, !.total = 0,
                   !.found = << >>]

(* Faulty: goes on with the next threshold as if it were breached too. *)
NextCheckKeepingStage(r) == [r EXCEPT !.threshold = @ + 1]

(* The thresholds of a metric are evaluated before any breach is published. *)
NextCheck(r) == [r EXCEPT !.threshold = @ + 1, !.stage = "check", !.total = 0]

(* process_envelope hands over the outcome of an event; without metrics the
   store returns at once. *)
Begin(w, e) ==
    /\ At(w, "idle") /\ runs < MaxRuns
    /\ runs' = runs + 1
    /\ begun' = [begun EXCEPT ![e] = @ + 1]
    /\ run' = IF MetricsOf[e] = << >> THEN run
              ELSE [run EXCEPT ![w] = [IdleRun EXCEPT !.event = e, !.stage = "delete",
                                                      !.time = now]]
    /\ overlapped' = IF \E v \in Workers \ {w} : run[v].event = e
                     THEN overlapped \cup {e} ELSE overlapped
    /\ UNCHANGED <<db, published, now, stored, faults, crashes>>

(* Faulty: the filter misses the documents with a header. *)
DeletedFlatOnly(e) ==
    /\ responses' = responses
    /\ breaches' = {b \in breaches : b[1] # e}

(* Faulty: the filter matches the tenant. *)
DeletedOfTenant(e) ==
    /\ responses' = {d \in responses : TenantOf[d.event] # TenantOf[e]}
    /\ breaches' = {b \in breaches : b[1] # e}

(* delete_many: the response and the breach documents of the event. *)
Deleted(e) ==
    /\ responses' = {d \in responses : d.event # e}
    /\ breaches' = {b \in breaches : b[1] # e}

DeleteOld(w) ==
    /\ At(w, "delete")
    /\ Deleted(run[w].event)
    /\ run' = [run EXCEPT ![w].stage = "insert"]
    /\ UNCHANGED <<published, now, history, faults, crashes>>

Inserted(r) ==
    /\ responses' = responses \cup {[id |-> Cardinality({d \in responses : d.event = r.event}),
                                     event |-> r.event, time |-> r.time]}
    /\ stored' = stored \cup {[event |-> r.event, index |-> k, time |-> r.time] :
                                  k \in DOMAIN MetricsOf[r.event]}

(* insert_one of the response; every metric then counts as newly inserted. *)
InsertResponse(w) ==
    /\ At(w, "insert")
    /\ Inserted(run[w])
    /\ run' = [run EXCEPT ![w] = AtMetric(run[w], 1)]
    /\ UNCHANGED <<breaches, published, now, runs, begun, overlapped, faults, crashes>>

Checking(w) == At(w, "check") /\ run[w].threshold \in DOMAIN Thresholds

Skip(w) ==
    /\ Checking(w) /\ ~Applies(run[w])
    /\ run' = [run EXCEPT ![w] = NextCheck(run[w])]
    /\ UNCHANGED <<db, published, now, history, faults, crashes>>

Sum(w) ==
    /\ Checking(w) /\ Applies(run[w])
    /\ LET total == Total(run[w]) IN
       run' = [run EXCEPT ![w] =
                 IF total < Thresholds[run[w].threshold].max THEN NextCheck(run[w])
                 ELSE [run[w] EXCEPT !.stage = "upsert", !.total = total]]
    /\ UNCHANGED <<db, published, now, history, faults, crashes>>

BreachKey(r) == <<r.event, r.threshold>>

Notice(r) == [event |-> r.event, threshold |-> r.threshold,
              rule |-> MetricAt(r).rule, observed |-> r.total, time |-> r.time]

(* Faulty: a breach document that exists counts as upserted. *)
UpsertAlwaysNew(w) ==
    /\ At(w, "upsert")
    /\ breaches' = breaches \cup {BreachKey(run[w])}
    /\ run' = [run EXCEPT ![w] =
                 [NextCheck(run[w]) EXCEPT !.found = Append(@, Notice(run[w]))]]
    /\ UNCHANGED <<responses, published, now, history, faults, crashes>>

(* upsert_metric of the breach; only a new document makes a breach event. *)
Upsert(w) ==
    /\ At(w, "upsert")
    /\ breaches' = breaches \cup {BreachKey(run[w])}
    /\ run' = [run EXCEPT ![w] =
                 IF BreachKey(run[w]) \in breaches THEN NextCheck(run[w])
                 ELSE [NextCheck(run[w]) EXCEPT !.found = Append(@, Notice(run[w]))]]
    /\ UNCHANGED <<responses, published, now, history, faults, crashes>>

ChecksDone(w) == At(w, "check") /\ run[w].threshold \notin DOMAIN Thresholds

Publish(w) ==
    /\ ChecksDone(w) /\ run[w].found # << >>
    /\ published' = Append(published, Head(run[w].found))
    /\ run' = [run EXCEPT ![w].found = Tail(@)]
    /\ UNCHANGED <<db, now, history, faults, crashes>>

NextMetric(w) ==
    /\ ChecksDone(w) /\ run[w].found = << >>
    /\ run' = [run EXCEPT ![w] = AtMetric(run[w], run[w].index + 1)]
    /\ UNCHANGED <<db, published, now, history, faults, crashes>>

(* A call returns an error, and "?" leaves record_pipeline_outcome; the effect
   of the call may still have happened. *)
Aborts(w) == /\ faults < MaxFaults
             /\ faults' = faults + 1
             /\ run' = [run EXCEPT ![w] = IdleRun]
             /\ UNCHANGED <<now, runs, begun, overlapped, crashes>>

DeleteFails(w) == /\ At(w, "delete")
                  /\ Aborts(w)
                  /\ Deleted(run[w].event) \/ UNCHANGED db
                  /\ UNCHANGED <<published, stored>>

InsertFails(w) == /\ At(w, "insert")
                  /\ Aborts(w)
                  /\ Inserted(run[w]) \/ UNCHANGED <<responses, stored>>
                  /\ UNCHANGED <<breaches, published>>

SumFails(w) == /\ Checking(w) /\ Applies(run[w])
               /\ Aborts(w)
               /\ UNCHANGED <<db, published, stored>>

UpsertFails(w) == /\ At(w, "upsert")
                  /\ Aborts(w)
                  /\ breaches' \in {breaches, breaches \cup {BreachKey(run[w])}}
                  /\ UNCHANGED <<responses, published, stored>>

PublishFails(w) == /\ ChecksDone(w) /\ run[w].found # << >>
                   /\ Aborts(w)
                   /\ published' \in {published, Append(published, Head(run[w].found))}
                   /\ UNCHANGED <<db, stored>>

Crash == /\ crashes < MaxCrashes
         /\ crashes' = crashes + 1
         /\ run' = [w \in Workers |-> IdleRun]
         /\ UNCHANGED <<db, published, now, history, faults>>

Step(w) ==
    \/ DeleteOld(w) \/ InsertResponse(w) \/ Skip(w) \/ Sum(w) \/ Upsert(w)
    \/ Publish(w) \/ NextMetric(w)
    \/ DeleteFails(w) \/ InsertFails(w) \/ SumFails(w) \/ UpsertFails(w)
    \/ PublishFails(w)

Next ==
    \/ Tick \/ Crash
    \/ \E w \in Workers, e \in Events : Begin(w, e)
    \/ \E w \in Workers : Step(w)

Spec == Init /\ [][Next]_vars

-----------------------------------------------------------------------------
(* Properties.                                                             *)

NoticeType == [event : Events, threshold : DOMAIN Thresholds, rule : Rules,
               observed : Nat, time : Nat]

(* Types; a run that checks is at one of its event's metrics. *)
TypeOK ==
    /\ responses \subseteq [id : Nat, event : Events, time : Nat]
    /\ breaches \subseteq Events \X DOMAIN Thresholds
    /\ published \in Seq(NoticeType)
    /\ run \in [Workers -> [event : Events \cup {None}, stage : Stages, time : Nat,
                            index : Nat, threshold : 1 .. Len(Thresholds) + 1,
                            total : Nat, found : Seq(NoticeType)]]
    /\ now \in Nat /\ faults \in Nat /\ crashes \in Nat /\ runs \in Nat
    /\ begun \in [Events -> Nat]
    /\ stored \subseteq [event : Events, index : Nat, time : Nat]
    /\ overlapped \subseteq Events
    /\ \A w \in Workers :
          /\ ~At(w, "idle") => run[w].event \in Events
          /\ At(w, "check") \/ At(w, "upsert") => run[w].index \in DOMAIN MetricsOf[run[w].event]
          /\ At(w, "upsert") => run[w].threshold \in DOMAIN Thresholds /\ Applies(run[w])

(* An event's metrics are counted twice only if two runs recorded that event
   at the same time: delete_many and insert_one replace whatever an earlier
   delivery, failed or not, has left. *)
CountedTwiceOnlyFromOverlap ==
    \A d, other \in responses :
        (d # other /\ d.event = other.event) => d.event \in overlapped

(* Without errors and crashes, no event loses its metrics: once stored they
   are in the collection, except while a run of the same event is between its
   delete and its insert. *)
NoMetricsLost ==
    (faults = 0 /\ crashes = 0) => \A s \in stored :
        \/ \E d \in responses : d.event = s.event
        \/ \E w \in Workers : At(w, "insert") /\ run[w].event = s.event

(* The metrics of any event, ever stored, that a notice may count. *)
Evidence(n) ==
    {s \in stored : /\ TenantOf[s.event] = TenantOf[n.event]
                    /\ MetricsOf[s.event][s.index]
                          = [type |-> Thresholds[n.threshold].type, rule |-> n.rule]
                    /\ s.time >= n.time - Thresholds[n.threshold].window}

(* A published breach is earned: as many different evaluations of the rule as
   it reports were stored for the tenant within the window.  Redelivery of the
   same failure never adds up to a breach. *)
BreachIsEarned ==
    \A i \in DOMAIN published :
        LET seen == Evidence(published[i]) IN
        \/ published[i].observed <= Cardinality({<<s.event, s.index>> : s \in seen})
        \/ \E s \in seen : s.event \in overlapped

Notices(e, t) == {i \in DOMAIN published : published[i].event = e /\ published[i].threshold = t}

(* A breach of a threshold by an event is published at most once for every
   time its outcome is recorded, however many of its rules breach it. *)
OneBreachPerRun ==
    \A e \in Events, t \in DOMAIN Thresholds :
        Cardinality(Notices(e, t)) <= begun[e]

(* "only check thresholds for newly inserted records": recording an event that
   is already recorded publishes no second breach for it. *)
OneBreachPerEvent ==
    \A e \in Events, t \in DOMAIN Thresholds : Cardinality(Notices(e, t)) <= 1

=============================================================================
