-------------------------- MODULE MetricDocuments --------------------------
(***************************************************************************)
(* How the metrics of an event are written and read again: the records     *)
(* built from its evaluations and new actions (http-gateway/src/           *)
(* metric_manager.rs), the response document they are stored as, what      *)
(* metric_store.rs makes of that document, and the responses of the        *)
(* listing endpoints.  Names, reasons and other metadata are left out.     *)
(***************************************************************************)
EXTENDS Integers, Sequences, FiniteSets, SequencesExt, Sorting

CONSTANTS
    None,    \* Option::None
    Empty,   \* an empty string
    Minute   \* clock ticks in a minute

RuleTypes == {"PASS", "FAIL", "INCONCLUSIVE"}

(* A record is [type, event, playbook, rule, action, time].                  *)

RuleMetrics(event, evaluations, time) ==
    [i \in DOMAIN evaluations |->
        [type |-> evaluations[i].status, event |-> event, playbook |-> evaluations[i].playbook,
         rule |-> evaluations[i].rule, action |-> None, time |-> time]]

ActionMetrics(event, actions, time) ==
    [i \in DOMAIN actions |->
        [type |-> "action.triggered", event |-> event, playbook |-> actions[i].playbook,
         rule |-> actions[i].rule, action |-> actions[i].action, time |-> time]]

(* The two builders read the clock one after the other. *)
MetricsOfOutcome(event, outcome) ==
    RuleMetrics(event, outcome.evaluations, outcome.time)
        \o ActionMetrics(event, outcome.actions, outcome.time + outcome.delay)

(* Faulty: a breach is stored under the type that its threshold counts. *)
BreachMetricOfSource(record, time) == [record EXCEPT !.action = None, !.time = time]

BreachMetric(record, time) ==
    [record EXCEPT !.type = "kpi.threshold_breach", !.action = None, !.time = time]

-----------------------------------------------------------------------------
(* format_metric_timestamp: to the minute. *)
Written(time) == (time \div Minute) * Minute

CountOf(records, types) == Cardinality({i \in DOMAIN records : records[i].type \in types})

Least(S) == CHOOSE x \in S : \A y \in S : x <= y

PlaybooksAt(records, positions) ==
    LET found == SelectAt(records, positions)
    IN  [k \in DOMAIN found |-> found[k].playbook]

(* Faulty: drops a playbook only next to itself. *)
PlaybooksDedup(records) ==
    PlaybooksAt(records, {i \in DOMAIN records :
        /\ records[i].playbook # None
        /\ i > 1 => records[i - 1].playbook # records[i].playbook})

(* The playbooks in the order in which they first appear. *)
PlaybooksOf(records) ==
    PlaybooksAt(records, {i \in DOMAIN records :
        /\ records[i].playbook # None
        /\ \A j \in 1 .. (i - 1) : records[j].playbook # records[i].playbook})

Shown(r) == [type |-> r.type, rule |-> r.rule, action |-> r.action, time |-> Written(r.time)]

EntriesOf(records, pb, types) ==
    LET mine == SelectAt(records, {i \in DOMAIN records : records[i].playbook = pb
                                                            /\ records[i].type \in types})
    IN  [i \in DOMAIN mine |-> Shown(mine[i])]

Result(records, pb) ==
    [playbook |-> pb, rules |-> EntriesOf(records, pb, RuleTypes),
     actions_triggered |-> EntriesOf(records, pb, {"action.triggered"})]

Header(event, records, now) ==
    [event_id |-> event,
     timestamp |-> Written(IF records = << >> THEN now
                           ELSE Least({records[i].time : i \in DOMAIN records})),
     total_playbooks_triggered |-> Len(PlaybooksOf(records)),
     total_rules_triggered |-> CountOf(records, RuleTypes),
     total_no_action_triggered |-> CountOf(records, {"action.triggered"}),
     total_no_of_success |-> CountOf(records, {"PASS"}),
     total_no_of_failure |-> CountOf(records, {"FAIL"}),
     status |-> IF CountOf(records, {"FAIL"}) > 0 THEN "fail" ELSE "success"]

FormatResponse(event, records, now) ==
    LET pbs == PlaybooksOf(records)
    IN  [header |-> Header(event, records, now),
         results |-> [k \in DOMAIN pbs |-> Result(records, pbs[k])]]

(* Without records the response names no event. *)
FormatAll(records, now) ==
    LET events == {records[i].event : i \in DOMAIN records}
    IN  FormatResponse(IF \E e \in events : events = {e} THEN records[1].event ELSE None,
                       records, now)

-----------------------------------------------------------------------------
(* Reading a document: an empty string is no value. *)
Read(value) == IF value = Empty THEN None ELSE value

(* Faulty: every record has the timestamp of the header. *)
ReadEntryAtHeader(header, pb, entry) ==
    [type |-> entry.type, event |-> header.event_id, playbook |-> Read(pb),
     rule |-> Read(entry.rule), action |-> Read(entry.action), time |-> header.timestamp]

ReadEntry(header, pb, entry) ==
    [type |-> entry.type, event |-> header.event_id, playbook |-> Read(pb),
     rule |-> Read(entry.rule), action |-> Read(entry.action), time |-> entry.time]

Flatten(document) ==
    FlattenSeq([k \in DOMAIN document.results |->
        LET result  == document.results[k]
            entries == result.rules \o result.actions_triggered
        IN  [i \in DOMAIN entries |-> ReadEntry(document.header, result.playbook, entries[i])]])

(* The records of all documents found, the latest first; the sort is stable. *)
LatestFirst(records) == StableSort(records, LAMBDA r, q : r.time > q.time)

(* GET /metrics/{event_id} and GET /metrics. *)
MetricsByEventId(event, found, now) == FormatResponse(event, LatestFirst(found), now)
AllMetrics(found, now) == FormatAll(LatestFirst(found), now)

=============================================================================
