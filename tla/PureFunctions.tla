---------------------------- MODULE PureFunctions ----------------------------
(***************************************************************************)
(* The pure functions that a decision and its follow-up go through: the    *)
(* conditions of a rule, the expressions and the assignment of the static  *)
(* mode, the triggers of both modes, the routing of an action and the      *)
(* documents its metrics are kept in.  A behaviour picks an input of one   *)
(* of them and computes its result.                                        *)
(***************************************************************************)
EXTENDS Assigner

CONSTANTS
    Keys, Texts, NaN, NumberIn, BoolIn, PartOf, Epsilon,   \* of Conditions
    NoName, Default, Channels,                             \* of WorkRouter
    Empty, Folded,                                         \* of Snapshots
    Minute, Now,                                           \* of MetricDocuments
    Mandatory, Optional, Half                              \* of ActionDocuments

Rule == INSTANCE Conditions

Router == INSTANCE WorkRouter

Snap == INSTANCE Snapshots

Doc == INSTANCE MetricDocuments WITH Empty <- NoName

Act == INSTANCE ActionDocuments

-----------------------------------------------------------------------------
(* The inputs.                                                               *)

CONSTANTS
    Conditionals,    \* rules with conditions
    RuleSnapshots,   \* what their keys have in an event
    EventHead,       \* the head of an event
    Wires,           \* configurations of the static mode
    Exprs,           \* expressions, or None
    Triggers,        \* pairs [pb, head] of a playbook with a trigger and a head
    Literal,         \* object types without blanks or regex metacharacters
    RoutingTables, Requests,
    Events,          \* two events
    Outcomes, OtherOutcomes,                               \* and what they leave
    Payloads,        \* the snapshots of an event, by name
    LookedFor,       \* keys of conditions, in parts
    Spellings,       \* names of object types
    JsonValues,      \* the values in payloads and those within them
    NewActions, Routes

IsSeq(s) == s \in Seq(Range(s))

(* Operators and key types are those the gateway knows; numbers are parsed. *)
ASSUME RulesAssumption ==
    /\ NumberIn \in [Texts -> Int \cup {NaN, None}]
    /\ \A rule \in Conditionals :
          /\ rule.logic \in {"All", "Any"}
          /\ rule.conditions \in Seq([key : Keys, op : Rule!Operators,
                                      expected : Rule!Value \cup {None},
                                      keyType : Rule!KeyTypes])
    /\ \A s \in RuleSnapshots : s.fields \in [Keys -> Rule!Value \cup {None}]

(* Every form of a configuration has lists; a number is a u32. *)
ASSUME WiresAssumption ==
    /\ MaxOrder \in Nat
    /\ \A wire \in Wires : \A c \in DOMAIN Codices(wire) :
          LET pbs == Codices(wire)[c].playbooks
          IN  /\ IsSeq(pbs)
              /\ \A p \in DOMAIN pbs :
                    /\ IsSeq(pbs[p].rules)
                    /\ \A rule \in Range(pbs[p].rules) :
                          /\ rule.is_critical \in BOOLEAN
                          /\ rule.order_seq \in 0 .. MaxOrder \cup {None}

ASSUME ExprsAssumption == \A expr \in Exprs : expr = None \/ IsSeq(expr)

(* A kind is normalized in lower case, blanks are blanks in any case, and what
   is in the store has a trigger.  As a pattern, a literal text stands for
   itself in any case; of other texts nothing is assumed. *)
ASSUME TriggersAssumption ==
    /\ DOMAIN KindOf \subseteq DOMAIN Lower /\ None \notin DOMAIN KindOf
    /\ \A t, u \in DOMAIN KindOf : Lower[t] = Lower[u] =>
          KindOf[t] = KindOf[u] /\ (Trimmed[t] = t <=> Trimmed[u] = u)
    /\ None \notin Literal /\ Literal \subseteq DOMAIN Lower
    /\ \A t \in Literal :
          Trimmed[t] = t /\ Found[t] = {u \in DOMAIN Lower : Lower[u] = Lower[t]}
    /\ \A t \in Triggers :
          /\ t.pb.trigger # None /\ t.pb.trigger.object_type # None
          /\ Range(t.pb.trigger.change_kind) \subseteq DOMAIN KindOf
          /\ t.head.change_kind \in DOMAIN KindOf \cup {None}

(* A key of the table is <<tenant, name>> or <<name>>; every entry goes by its
   key, so that a route shows which entry was taken. *)
ASSUME RoutesAssumption ==
    /\ \A table \in RoutingTables : \A key \in DOMAIN table :
          /\ IsSeq(key) /\ Len(key) \in 1 .. 2
          /\ table[key].id = key
    /\ \A table \in RoutingTables, request \in Requests :
          {NoName, request.responsible_user} \cap DOMAIN table = {}

(* A new action has its mandatory fields, is not assigned, and its duration is
   a u32. *)
ASSUME ActionsAssumption ==
    /\ Half \in Nat \ {0}
    /\ \A action \in NewActions :
          /\ action \in [Act!Fields -> Range(action)]
          /\ \A f \in Mandatory : action[f] # None
          /\ action[Act!Duration] \in 0 .. 2 * Half - 1 \cup {None}
          /\ \A f \in {"assigned_to_type", "assigned_to_id", "assigned_to_name"} :
                action[f] = None
    /\ \A route \in Routes :
          DOMAIN route = {"assigned_to_type", "assigned_to_id", "assigned_to_name"}

(* Evaluations and actions have a playbook, perhaps an empty name; nothing is
   recorded in the future. *)
ASSUME OutcomesAssumption ==
    /\ Minute \in Nat \ {0} /\ Now \in Nat /\ None # NoName
    /\ \A o \in Outcomes \cup OtherOutcomes :
          /\ IsSeq(o.evaluations) /\ IsSeq(o.actions)
          /\ o.time \in Nat /\ o.delay \in Nat /\ o.time + o.delay <= Now
          /\ \A e \in Range(o.evaluations) : e.status \in Doc!RuleTypes /\ e.playbook # None
          /\ \A a \in Range(o.actions) : a.playbook # None

(* A snapshot can describe a field by its name and its value. *)
DescriptionFields == {"object_key", "value", "amount"}

Description(key, field) ==
    [name \in {<<"object_key">>, <<field>>} |->
        IF name = <<field>> THEN Rule!Number(5) ELSE [type |-> "string", text |-> key]]

Extended(object, description) ==
    Snap!Object([name \in DOMAIN object.fields \cup DOMAIN description |->
        IF name \in DOMAIN object.fields THEN object.fields[name] ELSE description[name]])

(* Values are None or JSON values, whose fields are such values; a key is split
   into at least one part. *)
ASSUME PayloadsAssumption ==
    /\ None \notin JsonValues
    /\ \A v \in JsonValues : v.type = "object" =>
          \A name \in DOMAIN v.fields : v.fields[name] \in JsonValues
    /\ \A list \in Payloads : IsSeq(list) /\ \A i \in DOMAIN list : list[i].value \in JsonValues
    /\ \A key \in LookedFor : IsSeq(key) /\ key # << >>
    /\ \A key \in LookedFor, field \in {"value", "amount"} :
          None \notin Range(Description(key, field))
    /\ Empty \notin Spellings

VARIABLES input, outcome

vars == <<input, outcome>>

-----------------------------------------------------------------------------
Init ==
    /\ outcome = None
    /\ \/ \E rule \in Conditionals, snapshot \in RuleSnapshots :
             input = [of |-> "rule", rule |-> rule, snapshot |-> snapshot]
       \/ \E wire \in Wires : input = [of |-> "config", wire |-> wire]
       \/ \E expr \in Exprs : input = [of |-> "expr", expr |-> expr]
       \/ \E t \in Triggers : input = [of |-> "trigger", pb |-> t.pb, head |-> t.head]
       \/ \E routes \in RoutingTables, request \in Requests :
             input = [of |-> "route", routes |-> routes, request |-> request]
       \/ \E first \in Outcomes, second \in OtherOutcomes :
             input = [of |-> "metrics", outcomes |-> <<first, second>>]
       \/ \E action \in NewActions, route \in Routes :
             input = [of |-> "action", action |-> action, route |-> route]
       \/ \E list \in Payloads, type \in Spellings, key \in LookedFor :
             input = [of |-> "key", list |-> list, type |-> type, key |-> key]

Load ==
    /\ input.of = "config"
    /\ outcome' = IF ConfigIsValid(input.wire)
                  THEN [tadpoles |-> AssignAll(Codices(input.wire), EventHead)]
                  ELSE [rejected |-> TRUE]

Decide ==
    /\ input.of = "rule"
    /\ outcome' = [status |-> Rule!RuleStatus(input.rule, input.snapshot)]

Evaluate == input.of = "expr" /\ outcome' = [status |-> ExprStatus(input.expr, EventHead)]

Match ==
    /\ input.of = "trigger"
    /\ outcome' = [static |-> Matches(input.pb, input.head),
                   stored |-> StoreMatches(input.pb, input.head)]

Route ==
    /\ input.of = "route"
    /\ outcome' = [route |-> Router!Resolve(input.routes, input.request)]

Recorded(i) == Doc!MetricsOfOutcome(Events[i], input.outcomes[i])

(* Both events are recorded, and the first record breaches a threshold.  An
   event without metrics leaves no document. *)
Store ==
    /\ input.of = "metrics"
    /\ LET document(i) == Doc!FormatResponse(Events[i], Recorded(i), Now)
            records(i)  == IF Recorded(i) = << >> THEN << >> ELSE Doc!Flatten(document(i))
            breach      == IF Recorded(1) = << >> THEN << >>
                           ELSE <<Doc!BreachMetric(Recorded(1)[1], Now)>>
        IN  outcome' = [documents |-> [i \in 1 .. 2 |-> document(i)],
                        records |-> [i \in 1 .. 2 |-> records(i)],
                        one |-> Doc!MetricsByEventId(Events[1], records(1) \o breach, Now),
                        all |-> Doc!AllMetrics(records(1) \o breach \o records(2), Now)]

(* The action is inserted, routed and read by its hash. *)
Keep ==
    /\ input.of = "action"
    /\ LET doc == Act!RecordToDoc(input.action)
       IN  outcome' = [inserted |-> Act!DocToRecord(doc),
                       routed |-> Act!DocToRecord(Act!UpdateAssignment(doc, input.route)),
                       published |-> Act!ApplyRouting(input.action, input.route)]

Find ==
    /\ input.of = "key"
    /\ outcome' = [found |-> Snap!ValueOf(Snap!SnapshotOf(input.list, input.type),
                                          input.type, input.key)]

Next == /\ outcome = None
        /\ UNCHANGED input
        /\ Decide \/ Load \/ Evaluate \/ Match \/ Route \/ Store \/ Keep \/ Find

Spec == Init /\ [][Next]_vars

-----------------------------------------------------------------------------
Done(of) == outcome # None /\ input.of = of

Complement == [eq |-> "neq", neq |-> "eq", gt |-> "lte", lte |-> "gt",
               lt |-> "gte", gte |-> "lt"]

Dual(r) ==
    [logic |-> IF r.logic = "All" THEN "Any" ELSE "All",
     conditions |-> [i \in DOMAIN r.conditions |->
                        [r.conditions[i] EXCEPT !.op = Complement[@]]]]

(* Where De Morgan's laws can be expected: every key has a value, no value is
   NaN, and every operator has a complement. *)
Dualizable(rule, fields) ==
    \A c \in Range(rule.conditions) :
        /\ c.op \in DOMAIN Complement
        /\ fields[c.key] # None /\ Rule!AsNumber(fields[c.key]) # NaN
        /\ c.expected # None => Rule!AsNumber(c.expected) # NaN

(* A rule that requires all conditions and the rule that accepts any of their
   complements contradict each other: one passes where the other fails, and
   both are inconclusive together (boolean_handler.rs, compare_values and the
   two arms of RuleLogic). *)
LogicsAreDual ==
    (Done("rule") /\ Dualizable(input.rule, input.snapshot.fields)) =>
        Rule!RuleStatus(Dual(input.rule), input.snapshot) = Rule!Negated(outcome.status)

(* s is at least as good for the rule as t: no single check of it is worse. *)
AtLeast(s, t) ==
    \A c \in Range(input.rule.conditions) :
        Rank(Rule!Check(c, s.fields)) >= Rank(Rule!Check(c, t.fields))

(* Better evidence never makes the decision on a rule worse: counting passes,
   failures and inconclusive checks is monotone for both logics. *)
BetterEvidenceNeverHurts ==
    (Done("rule") /\ input.snapshot.form = "object") =>
        \A s \in RuleSnapshots : s.form = "object" /\ AtLeast(s, input.snapshot) =>
            Rank(Rule!RuleStatus(input.rule, s)) >= Rank(outcome.status)

(* Where a tadpole has a rule of a playbook. *)
Positions(t, pb, rule) ==
    {i \in DOMAIN t.ordered : /\ t.ordered[i].playbook = pb.id
                              /\ t.ordered[i].rule = EffectiveRuleId(rule)}

(* The n-th rule of a playbook comes before the m-th: critical before others,
   then by number, the unnumbered last, then as they are written. *)
Precedes(pb, n, m) ==
    LET r == pb.rules[n]  s == pb.rules[m]
    IN  \/ r.is_critical /\ ~s.is_critical
        \/ /\ r.is_critical = s.is_critical
           /\ \/ /\ r.order_seq # None /\ r.order_seq < MaxOrder
                 /\ s.order_seq # None => r.order_seq < s.order_seq
              \/ r.order_seq = s.order_seq /\ n < m

(* The rules of a matched playbook are all in the tadpole, each once whether it
   is named by its rule_id or by its id and nothing else under the name of the
   playbook, the critical ones first, each kind by order_seq with the unnumbered
   last, and rules of one place in the order of the configuration (assigner.rs,
   validate and assign_for_codex).  Playbooks of one name are left out. *)
AssignedOnceInOrder ==
    Done("config") /\ "tadpoles" \in DOMAIN outcome =>
        \A c \in DOMAIN outcome.tadpoles :
            LET t   == outcome.tadpoles[c]
                pbs == Codices(input.wire)[c].playbooks
            IN  \A p \in DOMAIN pbs :
                    /\ pbs[p].id \in Range(t.assigned)
                    /\ \A q \in DOMAIN pbs : pbs[q].id = pbs[p].id => q = p
                    => /\ \A n \in DOMAIN pbs[p].rules :
                             \E i \in DOMAIN t.ordered : Positions(t, pbs[p], pbs[p].rules[n]) = {i}
                       /\ \A i \in DOMAIN t.ordered : t.ordered[i].playbook = pbs[p].id =>
                             \E rule \in Range(pbs[p].rules) : i \in Positions(t, pbs[p], rule)
                       /\ \A n, m \in DOMAIN pbs[p].rules : Precedes(pbs[p], n, m) =>
                             \A i \in Positions(t, pbs[p], pbs[p].rules[n]),
                                j \in Positions(t, pbs[p], pbs[p].rules[m]) : i < j

(* A rule is decided by its expression only on evidence: it passes when every
   term holds, fails only on a term that is false and is left to a person only
   for a term that cannot be evaluated, wherever in the expression that is
   (simple_expr.rs, eval_head_expr; boolean_handler.rs). *)
DecidedOnEvidence ==
    Done("expr") /\ input.expr # None =>
        LET said == {EvalTerm(t, EventHead) : t \in Range(input.expr)}
        IN  /\ outcome.status = "PASS" <=> said \subseteq {"true"}
            /\ outcome.status = "FAIL" => "false" \in said
            /\ outcome.status = "INCONCLUSIVE" => "error" \in said

(* The ways to spell what an event says has changed: its type in any case, its
   kind in any form and case, without blanks.  A trigger sees nothing else. *)
Respelled(head) ==
    [changed_object_type : {t \in DOMAIN Lower : SameIgnoringCase(t, head.changed_object_type)},
     change_kind : {k \in DOMAIN KindOf : KindOf[k] = KindOf[head.change_kind] /\ Trimmed[k] = k}]

(* The two modes agree on triggers up to spelling: an event of a literal object
   type and a kind the gateway knows matches a playbook in the store if and
   only if it matches the playbook in the static configuration however it is
   spelled (assigner.rs, assign_for_codex; mongo_store.rs,
   find_matched_playbooks).  An event of type "C++" is not literal: its type
   equals that of a playbook and does not match it as a pattern. *)
StoreMatchesWhatConfigMatches ==
    LET head == input.head
    IN  /\ Done("trigger")
        /\ head.changed_object_type \in Literal
        /\ head.change_kind # None /\ KindOf[head.change_kind] # None
        => (outcome.stored <=> \E other \in Respelled(head) : Matches(input.pb, other))

(* The route of an action is as specific as the configuration has it: a route
   that all tenants share is used for a role or a task only if the tenant has
   none of its own, another tenant's never, and the fallback queue only without
   a default route, even for a role nobody has (work_router.rs, resolve). *)
RouteIsMostSpecific ==
    Done("route") =>
        LET taken == outcome.route.id
            role  == input.request.responsible_role
        IN  /\ taken \in DOMAIN input.routes =>
                  /\ Len(taken) = 2 => taken[1] = input.request.tenant
                  /\ \A name \in ({role} \ {NoName}) \cup {input.request.task_type} :
                        taken = <<name>> => <<input.request.tenant, name>> \notin DOMAIN input.routes
            /\ outcome.route.fallback => <<Default>> \notin DOMAIN input.routes

Stored(r) ==
    [type |-> r.type, event |-> r.event, playbook |-> Doc!Read(r.playbook),
     rule |-> Doc!Read(r.rule), action |-> Doc!Read(r.action), time |-> Doc!Written(r.time)]

Occurrences(r, records) == Cardinality({i \in DOMAIN records : records[i] = r})

(* What is read back from the document of an event is what was recorded, as
   often as it was recorded and each metric with its own time to the minute,
   so that a threshold sums what the pipeline did (metric_manager.rs,
   format_metric_response; metric_store.rs, flatten_metric_response_document). *)
MetricsSurviveStorage ==
    Done("metrics") =>
        \A i \in 1 .. 2 :
            LET recorded == [k \in DOMAIN Recorded(i) |-> Stored(Recorded(i)[k])]
            IN  /\ Len(outcome.records[i]) = Len(recorded)
                /\ \A r \in Range(recorded) :
                      Occurrences(r, outcome.records[i]) = Occurrences(r, recorded)

(* The listings show what was stored, although the records come back in another
   order and breaches are among them: that of an event shows its document, if no
   name in it is empty, and that of all events adds the documents up, fails if
   one of them fails and names an event only if it is the only one
   (intake_api.rs, metrics_by_event_id and metrics). *)
ListingsShowWhatWasStored ==
    Done("metrics") =>
        LET all    == outcome.all.header
            of(i)  == outcome.documents[i].header
        IN  /\ /\ Recorded(1) # << >>
               /\ \A r \in Range(Recorded(1)) : NoName \notin {r.playbook, r.rule, r.action}
               => /\ outcome.one.header = of(1)
                  /\ Range(outcome.one.results) = Range(outcome.documents[1].results)
            /\ all.total_rules_triggered = of(1).total_rules_triggered + of(2).total_rules_triggered
            /\ all.total_no_action_triggered =
                  of(1).total_no_action_triggered + of(2).total_no_action_triggered
            /\ all.total_no_of_failure = of(1).total_no_of_failure + of(2).total_no_of_failure
            /\ all.status = "fail" <=> \E i \in 1 .. 2 : of(i).status = "fail"
            /\ all.event_id # None =>
                  \A i \in 1 .. 2 : Recorded(i) # << >> => all.event_id = Events[i]

(* The snapshot that input names, an object without a field of its type's name
   and without the description of a field; names have no dots. *)
PlainObject ==
    LET object == Snap!SnapshotOf(input.list, input.type)
    IN  /\ object # None /\ object.type = "object"
        /\ \A name \in DOMAIN object.fields :
              /\ Len(name) = 1 /\ name[1] # Empty /\ ~Snap!SameName(name[1], input.type)
              /\ name[1] # "object_key"

(* A rule finds the same value however it spells the object type and whether or
   not its key begins with it (resolve_snapshot, resolve_object_key_value), in
   every plain object that is the only snapshot of its type. *)
SpellingDoesNotMatter ==
    /\ Done("key") /\ PlainObject
    /\ ~Snap!SameName(input.key[1], input.type)
    /\ \A i, j \in DOMAIN input.list :
          Snap!SameName(input.list[i].name, input.type)
              /\ Snap!SameName(input.list[j].name, input.type) => i = j
    => \A type, name \in Spellings :
          Snap!SameName(type, input.type) /\ Snap!SameName(name, input.type) =>
              Snap!ValueOf(Snap!SnapshotOf(input.list, type), type, <<name>> \o input.key)
                  = outcome.found

(* A sender that describes a field instead of having it is understood alike: a
   snapshot extended by a description of a key has a value for that key, has
   its own wherever it had one, and none for any other key
   (resolve_object_key_value, object_key and value or amount). *)
DescriptionAddsOneKey ==
    LET object == Snap!SnapshotOf(input.list, input.type)
    IN  /\ Done("key")
        /\ object # None /\ object.type = "object"
        /\ \A part \in DescriptionFields :
              <<part>> \notin DOMAIN object.fields /\ part \notin Range(input.key)
        => \A key \in LookedFor, field \in {"value", "amount"} :
              LET extended == Extended(object, Description(key, field))
              IN  Snap!ValueOf(extended, input.type, input.key) =
                      IF outcome.found # None \/ key # input.key
                      THEN outcome.found ELSE Rule!Number(5)

(* The collection has the action that is published: what a later event finds
   under the key is the record that went to the feed, its assignment and its
   escalation included, and before the assignment is stored it is the record
   that was inserted (action_store.rs; action_builder.rs, route_action and
   apply_routing). *)
StoreHasWhatIsPublished ==
    Done("action") =>
        /\ outcome.inserted = input.action
        /\ outcome.routed = outcome.published

=============================================================================
