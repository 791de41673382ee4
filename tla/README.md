# Formal models of the Tadpole engine

TLA+ models of the event-governance engine in this repository: an HTTP and
RabbitMQ gateway (`src/http-gateway`) that runs every event through a pipeline
of playbooks and rules (`src/engine-core`), records it, creates follow-up
actions and publishes metrics. The models are translated from the Rust source;
TLC checks them on small instances and TLAPS proves the central invariants for
all instances.

## 1. The system

`process_envelope` (`pipeline.rs`) is the whole pipeline for one event. It runs
in the RabbitMQ consumer task, one message at a time, and in any number of
HTTP workers at once. Everything it shares lives outside the process, in
MongoDB and RabbitMQ; the actors it calls hold no state that matters to a
decision. What it logs goes through a channel to Seq, and what it evaluates or
fails at is also told to a diagnostics actor in memory.

| Component | State | Operations | What makes it correct | Hard part |
|---|---|---|---|---|
| RabbitMQ consumer (`rabbitmq_consumer.rs`) | connection, prefetched deliveries, current delivery | take, parse, run, respond, ack/nack, reconnect | every delivery is settled once, in order, after its work | lost connections, crashes, errors on each path |
| Rule selection (`build_tadpole_from_store`) | the tadpole being built | match playbooks, load rules, sort, assign | the ordered rules are those of the matched playbooks | two lookups of a collection others edit |
| Dispatcher, rule handler, orchestrator (`engine-core/src/actors`) | the tadpole's evaluations | find snapshot and key, compare, evaluate rules in order, stop, aggregate | stops where Fail_First says; a PASS is earned; a key finds its value | shared rules, empty results, closed mailboxes, four ways to find a key |
| Assigner actor, expressions (`assigner.rs`, `simple_expr.rs`) | a static configuration | read, validate, match, order; evaluate a conjunction | the same rules as the store mode would give; critical first | absent sort keys, rules with two names |
| Action builder and store (`action_builder.rs`, `action_store.rs`, `action_template.rs`) | the `actions` collection | bindings, templates, legacy, top-up; find, insert, assign | one action per key, none forgotten | find-then-insert across workers, partial failure, redelivery |
| Work router (`work_router.rs`) | routing table | resolve an action to an assignee | the most specific route wins | precedence of six keys |
| Action feed (`action_feed_publisher.rs`) | the feed queue | publish a batch | every new action once | errors and crashes before the publish |
| Metrics (`metric_manager.rs`, `metric_store.rs`, `metric_publisher.rs`) | the metrics collection, the KPI queue | replace an event's metrics, check thresholds, publish breaches, list | a breach is earned and reported once; nothing recorded is lost or doubled in a document | redelivery, concurrent replacement, time windows |
| Intake store (`mongo_store.rs`) | intake records, event logs | insert, list, look up | every request is recorded | error paths that skip the record |
| Diagnostics actor (`diagnostics.rs`) | mailbox, recent evaluations, error counters | record, snapshot | the window is bounded and agrees with the log | the limit, restarts, concurrent runs |
| Seq layer (`seq_layer.rs`) | log channel, batch, posts under way | log, collect, post | order kept, each line stored at most once, batches bounded | posts that time out, refusals, crashes |
| ULID, envelope model, validation, hashing | none | conversions | — | — |

`PROJECT.json` lists all components with their status, and the hazards at the
lines where they bite.

## 2. Modules

Decisions and rules:

* `Decisions` — the three-valued decision and its two aggregations
  (`aggregate_decision`, `summarize_playbook`). Used by most others.
* `Conditions` (EXTENDS Decisions) — the boolean rule handler as operators:
  `compare_values`, a single check, the combination under `All` and `Any`.
* `Snapshots` — how that handler finds a snapshot and, in it, the value of a
  key: by name, by path, without the object type, or described by the object.
* `RuleEngine` (EXTENDS Conditions) — one event from lookup to decision.
  `Match`, `Load`, `Assign` are `build_tadpole_from_store`; `Evaluate`,
  `HandlerFails`, `FinishDispatch` the dispatcher's loop; `Orchestrate` the
  orchestrator. `Edit` changes the active rules between any two steps.
* `RuleVerdict` — the abstract specification: a plan is fixed once, and its
  outcome decided in one step. `RuleEngine!ImplementsVerdict` is the refinement,
  with the plan read off `ordered` and the outcome off `result`.
* `Assigner` — the static mode: the three forms of a configuration, validation,
  triggers and expressions of a playbook, the order of its rules, and beside it
  the trigger query of the store mode. `Sorting` has the stable sort and the
  filter of a list that it and `MetricDocuments` use.

Actions:

* `ActionBuilder` (EXTENDS Decisions) — the action stage. A run of
  `process_envelope` is a record with its call (`bindings`, `templates`,
  `legacy`, `topUp`, `publish`) and the phase within it (`lookup`, `find`,
  `insert`, `route`). `NextStage` is the cascade of `pipeline.rs:828-1068`.
  A step is one store call, so workers, errors and crashes fall between the
  find and the insert.
* `ActionDocuments` — an action as a document of the collection, and its copy
  that is published.
* `WorkRouter` — the keys of a request in their order, and `Resolve`.

Intake and metrics:

* `Delivery` — the consumer and the broker: queue, outstanding deliveries,
  prefetched inbox, the stages of the loop body, responses and intake records.
* `WorkQueue` — the abstract queue: messages are settled one by one in the order
  of arrival, after being worked on. `Delivery!ImplementsWorkQueue` is the
  refinement; the backlog is what is outstanding, followed by what is queued.
* `Metrics` — the metric manager on the Mongo store: delete, insert, sum,
  upsert, publish, with a clock and the truncation of stored timestamps.
* `MetricDocuments` — the records an outcome yields, the response document they
  are kept in, what is read from it again, and the listings of the API.

Telemetry:

* `SeqLayer` — channel, batch, the post of a batch with all its endings, crash.
* `LogFeed` — the abstract feed: a line is stored once or lost, with at most
  `BatchSize - 1` others. `SeqLayer!ImplementsLogFeed` is the refinement.
* `Diagnostics` — the actor's mailbox, window and counters.
* `Telemetry` (EXTENDS SeqLayer, INSTANCE Diagnostics) — the composition: runs
  log and record errors or record evaluations, the actor logs what it handles,
  and the process takes all of it down when it dies.

Functions: `PureFunctions` (EXTENDS Assigner, INSTANCE of Conditions,
Snapshots, WorkRouter, MetricDocuments, ActionDocuments) evaluates the pure
operators: a behaviour picks an input of one of them and computes its result,
so that a property speaks about an input and its outcome. The inputs are
constants, about which it assumes what the code's types and parsers ensure: of
the outcomes that are recorded, that rules and actions belong to a playbook and
that nothing is recorded in the future (`OutcomesAssumption`).

Proofs: `ActionBuilderProofs`, `RuleEngineProofs`, `DeliveryProofs`,
`MetricsProofs`, `TelemetryProofs` (with `SeqLayer`), `FunctionProofs`,
`MetricDocumentProofs`, and `SequenceFacts` with lemmas about naturals, recursion
on them, sorting, sequences and the order of sets of positions.

`MC*` are instances for TLC.

Each definition names the code it models through `PROJECT.json` "map". A
definition introduced by "Faulty:" is not part of a model: it is the form a
plausible bug would give the definition below it, and shows that the properties
notice.

`ActionBuilder`, `Delivery` and `Metrics` are separate views of
`process_envelope`. The action stage and the metrics return no error to the
pipeline, so for `Delivery` they are the one step `Act`. An `ActionBuilder` or
`Metrics` worker may begin any event at any time and any number of times within
the bounds, which includes every order in which the consumer and the HTTP
workers run them and every redelivery: a safety property of these modules holds
for whatever `Delivery` does.

## 3. Abstractions

* Idempotency hashes are the tuples they are computed from (SHA-256 taken as
  injective). Template ids and rule ids are disjoint (`IdsAssumption`); a
  template named like a rule would share keys with it.
* An insert that is in flight when the process dies is either applied before
  the crash or never. An insert, publish or delete that fails may have taken
  effect or not. A batch posted to Seq without an answer may be taken in later.
* The action builder, the feed publisher and the metrics publisher are
  configured; a missing template store behaves like an empty one.
* In `ActionBuilder` the router may answer any assignee; `WorkRouter` says which.
  A name contains no colon, so that a key of the routing table is a tuple.
* An event with no evaluations passes, so the branch of
  `create_actions_for_failure` for that case cannot run.
* `process_envelope` passes no expression, so a rule without conditions is
  INCONCLUSIVE there. `Assigner` has the rules of the static mode, which have
  expressions. The text of an expression is taken as already split into terms.
* The object type of an event is put into a regular expression unescaped
  (`mongo_store.rs:499-503`). What a text finds as a pattern is the constant
  `Found` of `Assigner`, what trimming leaves of it the constant `Trimmed`; about
  both, `TriggersAssumption` says something of literal texts only (`Literal`:
  without blanks and metacharacters), which find themselves in any case. Texts
  have no line breaks.
* Keys are sequences of the parts between their dots; blanks around a key are
  left out.
* Event logs, texts, reasons and layouts are left out. The time of a metric is
  kept because windows depend on it.
* An event yields the same metrics whenever it is recorded (`MetricsOf`); in the
  code a redelivery evaluates edited rules afresh and may create fewer actions.
  Event ids are unique across tenants, as ULIDs are; `delete_many` goes by the
  event id alone (`metric_store.rs:201-206`).
* A Mongo upsert is atomic. (Without a unique index MongoDB may insert twice
  when two upserts of one key collide; `Metrics` does not explore that.)
* The client library may keep or drop prefetched deliveries of a lost
  connection: `StreamEnds` may come while the inbox is not empty. The broker
  requeues in the original order.
* The flush interval of the Seq layer only wakes its task: whatever has been
  taken from the channel is posted before the task waits again, so the buffer is
  empty whenever the interval ends. The channel is never closed, because the
  global subscriber owns its sender.
* `GetDiagnostics` reads and is never sent by the gateway.

## 4. What the runs show

Passing runs:

| Run | Instance | Shows |
|---|---|---|
| `action_races` | 2 workers, 2 events of one object, 3 deliveries, 1 fault, 1 crash | duplicate keys need overlapping runs; nothing is fed twice; a completed top-up covers every failed rule |
| `action_healthy` | 2 workers, 3 deliveries, no faults, fairness | no orphans, feed and store agree, every failing rule reaches the feed |
| `functions` | rules of ≤ 2 conditions on all snapshots of 2 keys; configurations of ≤ 3 rules; expressions of ≤ 3 terms; triggers of both modes on types such as "Contract", " Contract", "C++" and "A.B"; all routing tables over 7 keys; keys of ≤ 3 parts in nested snapshots; new actions with every optional field and duration; two events with ≤ 2 evaluations and ≤ 2 actions | see below |
| `rule_decision` | 2 playbooks sharing a rule, 3 rules, 1 edit, 1 fault | stop rule, earned PASS, agreement with the summaries, refinement of `RuleVerdict` |
| `delivery` | 5 messages of 5 kinds, 1 fault, 1 loss, fairness | custody, handled before settled, repeats only after losses, refinement of `WorkQueue` (which has the order); the queue is worked off unless the task panics |
| `metrics` | 2 workers, 3 events, 2 tenants, 3 recordings, 2 thresholds, 2 instants, 1 fault, 1 crash | double counts need overlap; breaches are earned; one per recording; without faults replacing documents loses nothing |
| `telemetry` | 3 evaluations and an error, window and batches of 2, 2 failing posts or crashes, fairness | order of the log, overtaking only by batches that got no answer, refinement of `LogFeed`, snapshot and log agree through restarts, the backlog is worked off |

What `functions` checks:

* conditions: De Morgan's laws between `All` and `Any`; better evidence never
  worsens a rule;
* lookup: a rule finds the same value however it spells the object type and
  whether or not its key begins with it; an object that describes a field adds
  this one key and changes no other;
* static mode: every rule once, critical rules first and each kind by its
  numbers, stable; an expression decides on evidence; an event of a literal type
  matches in the store if and only if the static mode matches a spelling of it;
* routing: the most specific route that the configuration has for the tenant;
* documents: the collection has the action that is published; metrics survive
  storage; the listings show what was stored.

Runs that find a statement of the repository violated (`PROJECT.json`
"findings" quotes it):

| Run | Instance | Shows |
|---|---|---|
| `action_redelivery` | 1 worker, an event delivered twice | the second delivery falls through to the next tier, whose key is another one |
| `action_child` | 1 worker, a parent and a child that fail | the top-up creates the child action that suppression skipped |
| `rule_fail_first` | a `Fail_First` playbook matched second | it goes on after its critical failure |
| `delivery_panic` | 2 messages, one that the log line cannot slice | the message behind it is never answered |
| `metrics_redelivery` | 1 worker, an event recorded twice | its breach is published twice |

Met while modelling and visible in the modules, without a run of their own:

* Two concurrent executions of one object may both find no action and both
  insert (`action_builder.rs:231`/`283`, `550`/`604`, `688`/`749`, no unique
  index), while `docs/FILE_AND_FLOW_GUIDE.md:126` says the builder "checks the
  store, and inserts only if no existing record is found."
  `DuplicatesOnlyFromOverlap` says that this is the only source of duplicates.
* An error of `insert_action` drops the actions the call has already stored
  (`action_builder.rs:604`): they are not published, and a redelivery finds and
  skips them (`pipeline.rs:1070`: "Publish created actions to the actions queue
  for downstream consumers."). A crash before the publish does the same. Hence
  `NoActionOrphaned` holds without faults.
* A failing `update_action_assignment` is logged and the action is published with
  the assignment the document does not have (`action_builder.rs:410-425`). Hence
  `FeedAgreesWithStore` holds without faults.
* An event none of whose rules is evaluated passes, while the summaries of its
  playbooks are INCONCLUSIVE (`orchestrator.rs:22` and `43`). Hence the condition
  of `DecisionAgreesWithSummaries`.
* The object type of an event is a pattern for the store and a text for the
  assigner (`mongo_store.rs:500`, `assigner.rs:208`). "C++" equals the type of a
  playbook and is a pattern that does not match it, "Contract (Draft)" likewise,
  "A.B" matches "AxB" as well; a type with blanks around it is trimmed in one
  mode only, and a kind with blanks in a playbook never matches in the store. See
  `StoreMatches`, and `Literal` in `StoreMatchesWhatConfigMatches`.
* A failing lookup, or an actor that is gone, nacks the message without requeue
  (`rabbitmq_consumer.rs:338`): an error that might have passed gives the event
  up. `SettledMeansHandled` names these errors, and no others.
* A failing rule or playbook lookup leaves `process_envelope` by the `?` of
  `pipeline.rs:673`, before any `record_intake`, while `README.md:117` says "The
  intake API records each request/response to MongoDB." See `Delivery!LookupFails`.
* A key the snapshot lacks makes a check FAIL (`boolean_handler.rs:236`);
  `docs/decisions.md:17-18` keeps FAIL for conditions that evaluated to false
  and INCONCLUSIVE for rules that "could not be evaluated". See `Check`.
* A key qualified by its object type is looked up as a path only: `risk.score`
  finds a field with that dotted name, `contract.risk.score` does not; and an
  object that describes `risk` is not found under `contract.risk`. A key
  `contract.amount` on an object that describes another field finds that
  field's `amount`. See `ValueOf` and the conditions of `SpellingDoesNotMatter`.
* Metric timestamps are stored to the minute (`metric_store.rs:279`) but
  compared with a window in milliseconds, so an event inside the window of
  "rule_failures_3_in_5m" (`metric_manager.rs:127-130`) may be left out. See
  `StoredTime`; `BreachIsEarned` says that none outside it is counted.
* The metrics of an event are deleted before they are inserted again
  (`metric_store.rs:207-209`); an insert that fails, or a crash before it, loses
  them. Hence `NoMetricsLost` holds without faults.
* A breach is stored before it is published, and the `?` of a failing publish
  leaves `record_pipeline_outcome` (`metric_manager.rs:437`): the breach is not
  published, and the remaining metrics are not checked. The key of a breach has
  no rule (`metric_manager.rs:584-590`), so of several rules of an event that
  breach a threshold only the first is reported. `BreachIsEarned` and
  `OneBreachPerRun` bound what is published from above.
* An empty string of a stored document is read back as no value
  (`metric_store.rs:271`), and a record without a playbook is in no result of a
  listing (`metric_manager.rs:218-225`). So a playbook with an empty id is in the
  document of an event and not in its listing; hence the condition on names in
  `ListingsShowWhatWasStored`. See `Read` and `PlaybooksOf`.
* `seq_layer.rs:4-6` speaks of a few retries and the comment at line 178 of a
  full channel; a batch is posted once, and the channel is unbounded.
* `docs/FILE_AND_FLOW_GUIDE.md:64` ("calls AssignerActor") and
  `docs/TESTING.md:71-105` describe the static mode; `main` starts the assigner
  with an empty list and `process_envelope` never calls it. The modes differ:
  the static one puts critical rules first, the store one goes by `order_seq`
  only (`pipeline.rs:500-502`), and the assigner reads an execution mode but
  does not put it on the tadpole. An empty expression matches every event, and
  ids of playbooks are not checked for duplicates.
* The order of the terms of an expression decides between FAIL and INCONCLUSIVE
  when one is false and another cannot be evaluated. See `DecidedOnEvidence`.

Bounds. Two workers and two runs of one object are the least that race; a third
run is the redelivery after the race. One fault reaches every error path, since
each is entered by a single failing call. Two playbooks with a common rule and
two references of equal order reach every branch of the assignment loop. One
message of each kind visits every path of the consumer's loop, and one loss puts
a redelivery between any two of its steps. Three evaluations overflow a window
of two, seven lines make several batches of two with a rest, and two troubles
put a late batch and a crash in one behaviour. Three rules are the least that
show whether a sort is stable; integers of three bits wrap as those of 32 do.
Every counter that could grow without end (`MaxRuns`, `MaxFaults`, `MaxCrashes`,
`MaxEdits`, `MaxLosses`, `MaxTroubles`, `MaxTime`) is named in its module, and
behaviours stop when they are used up, which is why deadlock is not checked.

Fairness. `ActionBuilder!FairSpec`: the runtime polls every task and a store
call ends or errors, so a worker with a step takes one. `Delivery!FairSpec`: the
broker accepts a connection some time and delivers, a lost connection is
noticed, and the task is polled; `run_with_retry` loops for ever. Nothing
assumes that messages arrive, that connections stay up, or that calls succeed.
`delivery_panic` uses the same fairness: the message behind the panic is never
answered although everything that can still run does.
`Telemetry!FairTelemetry`: the runtime polls the diagnostics actor and the flush
task, and a post ends: the client gives up after five seconds
(`seq_layer.rs:258-262`); the reply of a server that refuses is read without
that limit, so the assumption includes that such a server sends it whole.

## 5. What is proved

`ActionBuilderProofs`, from `ConstantsAssumption` and `IdsAssumption`, for any
number of workers, events, faults and crashes:

* `TypeCorrect` — `TypeOK`, inductive by itself; one step per action.
* `DuplicatesNeedOverlap` — `DuplicatesOnlyFromOverlap`. It is not inductive:
  between the find and the insert the key must still be free. The invariant adds
  `OverlapRecorded` (two active runs of one object are in `overlapped`),
  `InsertIsFresh` (a run about to insert has a free key, or its object
  overlapped) and `KeyNamesObject` (a key determines its object).
* `OneConsumerNoDuplicates` — with one worker no object ever overlaps, so keys
  are unique.

* `NothingFedTwice` — `FeedAtMostOnce`. What a run has created and not yet
  published belongs to no other run (`OneOwner`) and is on no message of the
  feed (`PublishedIsGone`); an insert adds an id that is new.
* `NothingOrphaned`, `FeedIsStored` — `NoActionOrphaned` and
  `FeedAgreesWithStore` as long as no call fails and nothing crashes (`Calm`).
  Every stored action is on the feed or owned by a run, and a run holds only
  actions whose assignment is stored.
* `ReviewIsCovered` — `ReviewCovered`. While a top-up runs, each failing rule is
  covered by an action or its candidate is still ahead (`ToppingUp`); that an
  action found under a candidate's key covers the candidate needs that keys tell
  the kinds of actions apart (`KeysTell`, `Fits`). The first candidate left is
  a least element, from the well-foundedness of `<` on the naturals.

`RuleEngineProofs`, from `PlaybookAssumption` and `NoneAssumption`, for any
playbooks, rules and edits:

* `RuleTypeCorrect`, `StopsExactlyThere`, `PassesAreEarned`,
  `DecisionIsWorstSummary`. The invariant ties each evaluation to its place in
  `ordered`, says that no earlier evaluation is a critical failure, that a
  shorter list of evaluations ends in one, and that the tadpole holds exactly
  the references of the playbooks assigned so far.
* `EngineImplementsVerdict` — every step is a step of `RuleVerdict` or a stutter
  under the refinement mapping; the plan is fixed by `SendToDispatcher`, the
  outcome by `Orchestrate`, an early return or a failure.

`DeliveryProofs`, from `DeliveryAssumption`, for any messages, faults and losses:

* `DeliveryTypeCorrect`, `DeliveriesAreHeld` — arrivals are the settled, the
  outstanding and the queued ones, in order; a live connection has outstanding
  what the loop and its inbox hold.
* `SettlingIsEarned`, `RepetitionNeedsLoss` — the first by tying the stage of the
  current delivery to what has been done for it; the second by counting, for each
  message, one execution per loss and one for the delivery being worked on.
* `DeliveryImplementsWorkQueue` — every step is a step of `WorkQueue` or a
  stutter; a requeue does not change the backlog, by `DeliveriesAreHeld`.

`MetricsProofs`, from `MetricsAssumption`:

* `MetricsTypeCorrect`.
* `CountedOnce` — `CountedTwiceOnlyFromOverlap`, strengthened by: a run alone
  with its event stays so (`Alone`), and between its delete and its insert the
  collection has no document of it (`Cleared`).
* `NothingLost` — `NoMetricsLost`.
* `BreachesAreEarned` — `BreachIsEarned`, strengthened by: a total that a run
  holds is evidenced (`Evidenced`). The counted pairs of a document and a metric
  are mapped injectively to what was stored, and the cardinality follows.
* `BreachesAreCounted` — `OneBreachPerRun`, strengthened by a budget (`Budget`): for
  an event and a threshold, the breaches published, the runs that may yet delete
  the breach document or hold a breach to publish, and one if the document is
  missing while a run of the event is past its delete, are together at most the
  recordings begun. It needs that a run holds at most one breach per threshold
  (`AllOrdered`).

`TelemetryProofs`, from `SeqAssumption` and `TelemetryAssumption`, for any batch
size, window and number of troubles:

* `SeqTypeCorrect`, `SeqKeepsOrder`, `OrderInSeq` — what was logged is what is
  gone, then the batch, then the channel; two stored lines are in the wrong order
  only if the post of the earlier one was not answered.
* `SeqImplementsLogFeed` — the refinement: the pending lines are those in the
  channel, in the batch and on the wire, which are disjoint from the stored.
* `WindowIsBounded`; `TelemetryImplementsSeqLayer` — the composition does to the
  log layer what `SeqLayer` specifies, so its theorems hold for it.
* `SnapshotAndLogAgree` — `SnapshotAgreesWithLog`, strengthened by `MailFits`: a
  message in the mailbox is of the kind its run came to, and the process began no
  later than the log ends. A line logged by the actor is a position behind all
  others of its kind, so every count from a position on grows by one as the
  window shifts by one (`LaterPosition`, `WindowStep`).

`FunctionProofs`, for all rules, snapshots, configurations, expressions,
playbooks, routing tables, actions and payloads that satisfy the assumptions of
`PureFunctions` (operators and key types the gateway knows, lists that are
sequences, numbers in the range of their type, triggers the store accepts, new
actions that have their mandatory fields and no assignment). An outcome is
always computed from an input of the constants (`InputOK`, `Computed`), and what
the computation does is a lemma about the operators:

* `AllAndAnyAreDual`, `EvidenceIsMonotone` — `LogicsAreDual` and
  `BetterEvidenceNeverHurts`: the complement of an operator negates its check;
  the sets of passing and failing checks grow and shrink together with ranks.
* `RulesAssignedOnceInOrder` — `AssignedOnceInOrder`. The places of a stable sort
  are a bijection that keeps the order of keys and positions (`SequenceFacts`,
  `Places`); the loop of `assign_for_codex` is a recursive function whose
  invariant says where the rules of each playbook are in `ordered`.
* `ExpressionsNeedEvidence`, `RoutesAreMostSpecific`, `StoreHasPublished`,
  `DescriptionsAddOneKey` — the properties of these parts.
* `ModesAgreeOnTriggers` — `StoreMatchesWhatConfigMatches`, about events whose
  object type is literal; that the pattern of such a type finds it in any case,
  and nothing else, is assumed of MongoDB (`TriggersAssumption`).
* `SpellingIsIndifferent` — `SpellingDoesNotMatter`: a path that begins with the
  object type leads nowhere in a plain object, so the lookup without it decides.

`MetricDocumentProofs`, about the same specification, for all outcomes of two
events, every time of recording and every length of a minute:

* `MetricsAreKept` — `MetricsSurviveStorage`. What is read back is an arrangement
  of what was recorded (`Arranges`): a pairing of the positions of both lists
  that keeps the order within a playbook and a kind. A filter lists a set of
  positions in its order (`Enumerates`); the lists of one playbook and of the
  other kinds and playbooks come from disjoint positions, so joining them keeps
  an arrangement (`ArrangedJoin`); every playbook is listed once
  (`PlaybooksListed`). The document is flattened by induction on its results.
* `ListingsAgree` — `ListingsShowWhatWasStored`. A list that shows the stored
  form of every record once, the records of one playbook and kind in their order,
  and besides them only breaches of playbooks it has (`Shows`), yields the
  document of the records (`DocumentsAlike`); the records found and sorted are
  such a list, because the rules of an event have one time and its actions have
  one, and the sort keeps the order of ties. The sums need that a breach is of no
  kind that a header counts and that counts survive joining and sorting.

Induction on naturals is done by sets: a set that has 0 and with a number the
next one contains them all (`ContainsNat`), which follows from the
well-foundedness of `<`. A recursive function has a solution by it (`Iteration`).

Only model-checked: liveness (`FailingRulesReachFeed`, `EverythingSettles`,
`BacklogIsWorkedOff`), which is beyond the prover; and that the violations of
section 4 do occur, which needs a behaviour and not a proof.

## 6. Not modelled

The read-only endpoints for intake records, event logs and templates; the
validation, hashing and serde types of envelopes (whether a message is valid is
a kind of message in `Delivery`); ULIDs; configuration from the environment;
event logs, names and the texts of reasons; the governance conclusion that a
response carries; URL validation and message layout of the publishers; the Rust
test crate.

## 7. Plan

1. Done: decisions, rule engine, actions, delivery, metrics, telemetry, the
   static mode, routing and documents; proofs of every safety property that a
   run checks.
2. A composition of `Delivery` with `ActionBuilder` in one state space, which
   would add to the safety argument of section 2 that an acked event has an
   action for each failing rule unless a store call failed.
3. The envelope conclusions and the intake records as documents, once a property
   is about them.
