--------------------------- MODULE ActionBuilder ---------------------------
(***************************************************************************)
(* Action creation: what process_envelope does once the decision is known  *)
(* (http-gateway/src/pipeline.rs, "pipeline.actions" and                   *)
(* "pipeline.action_feed") with the calls it makes into ActionBuilder      *)
(* (http-gateway/src/action_builder.rs).                                   *)
(*                                                                         *)
(* Workers are the concurrent executions of process_envelope: the RabbitMQ *)
(* consumer task and the HTTP workers.  They share the Mongo collection    *)
(* "actions" and the action feed queue.  One step is one call to the       *)
(* store, so that other workers, store errors and process crashes fall     *)
(* between the lookup of an idempotency hash and the insert.               *)
(***************************************************************************)
EXTENDS Decisions, Naturals, Sequences

CONSTANTS
    Workers,         \* concurrent executions of process_envelope
    Events,          \* the canonical envelopes that can be delivered
    Objects,         \* (tenant, object type, object id): the prefix of every key
    Playbooks, Rules, Templates,
    ObjectTypes,     \* the object_type a rule carries
    None,            \* Option::None; also the rule id "none"
    ObjectOf,        \* Events -> Objects
    EvalsOf,         \* Events -> result.evaluations
    MatchedPlaybooks,\* Events -> the playbook ids of result.playbooks
    ParentOf,        \* ObjectTypes -> the part before the first dot, or None
    StoredTemplates, \* the templates the template collection holds
    TemplateInfo,    \* Templates -> trigger criteria and associations
    MaxRuns, MaxFaults, MaxCrashes  \* bounds of the exploration

Evaluation == [playbook : Playbooks, rule : Rules, status : Status,
               template : Templates \cup {None},
               objectType : ObjectTypes \cup {None}]

(* trigger: the decision the template fires on; objects: those whose tenant
   and type it matches; empty sets of associations mean "no restriction". *)
TemplateRecord == [trigger : Status \cup {"MANUAL"}, objects : SUBSET Objects,
                   active : BOOLEAN, playbooks : SUBSET Playbooks,
                   rules : SUBSET Rules]

ASSUME ConstantsAssumption ==
    /\ None \notin Rules \cup Templates \cup ObjectTypes \cup Events
    /\ ObjectOf \in [Events -> Objects]
    /\ EvalsOf \in [Events -> Seq(Evaluation)]
    /\ MatchedPlaybooks \in [Events -> SUBSET Playbooks]
    /\ ParentOf \in [ObjectTypes -> ObjectTypes \cup {None}]
    /\ StoredTemplates \subseteq Templates
    /\ TemplateInfo \in [Templates -> TemplateRecord]
    /\ MaxRuns \in Nat /\ MaxFaults \in Nat /\ MaxCrashes \in Nat

(* A template id and a rule id are never the same string, so the six-part keys
   of create_actions_from_templates and create_actions_for_failure differ. *)
ASSUME IdsAssumption == Rules \cap Templates = {}

VARIABLES
    actions,     \* the "actions" collection, in insertion order
    feed,        \* the batches published to the action feed queue
    run,         \* what each worker is doing
    begun,       \* runs started so far
    faults,      \* calls to MongoDB or RabbitMQ that returned an error
    crashes,     \* process crashes
    overlapped   \* history: objects two runs were handling at the same time

vars == <<actions, feed, run, begun, faults, crashes, overlapped>>

-----------------------------------------------------------------------------
(* What one evaluation result asks for.                                    *)

Evals(e) == EvalsOf[e]
Decision(e) == AggregateDecision(Evals(e))

(* Positions of the evaluations a reviewer has to see. *)
Failing(e) == {i \in DOMAIN Evals(e) : NeedsReview(Evals(e)[i].status)}

Pair(x) == <<x.playbook, x.rule>>

Bound(e) == {i \in Failing(e) : Evals(e)[i].template # None}

(* Parent/child suppression of create_actions_from_rule_bindings: another
   bound evaluation, of a different rule, is about the parent object. *)
Suppressed(e, i) ==
    /\ Evals(e)[i].objectType # None
    /\ ParentOf[Evals(e)[i].objectType] # None
    /\ \E j \in Bound(e) :
          /\ Evals(e)[j].rule # Evals(e)[i].rule
          /\ Evals(e)[j].objectType = ParentOf[Evals(e)[i].objectType]

(* A candidate is an action a call may still have to create; "pos" is its
   place in the loop of that call. *)
Candidate(pos, pb, rule, tmpl) ==
    [pos |-> pos, playbook |-> pb, rule |-> rule, template |-> tmpl]

BindingCandidates(e, loaded) ==
    {Candidate(i, Evals(e)[i].playbook, Evals(e)[i].rule, Evals(e)[i].template) :
        i \in {j \in Bound(e) : Evals(e)[j].template \in loaded /\ ~Suppressed(e, j)}}

(* find_templates_by_trigger. *)
Triggered(e) ==
    {t \in StoredTemplates : /\ TemplateInfo[t].active
                             /\ TemplateInfo[t].trigger = Decision(e)
                             /\ ObjectOf[e] \in TemplateInfo[t].objects}

(* resolve_playbook_ids. *)
ResolvePlaybooks(e, t) ==
    LET info == TemplateInfo[t] IN
    IF info.playbooks # {} THEN info.playbooks \cap MatchedPlaybooks[e]
    ELSE IF info.rules # {}
         THEN {Evals(e)[i].playbook :
                  i \in {j \in DOMAIN Evals(e) : Evals(e)[j].rule \in info.rules}}
         ELSE MatchedPlaybooks[e]

(* find_first_rule_for_playbook. *)
FirstRule(e, pb) ==
    LET hits == {i \in DOMAIN Evals(e) : /\ Evals(e)[i].playbook = pb
                                         /\ Evals(e)[i].status = Decision(e)}
        first == {i \in hits : \A j \in hits : i <= j}
    IN  IF first = {} THEN None ELSE Evals(e)[CHOOSE i \in first : TRUE].rule

(* The cursor of the template collection and the hash sets of playbook ids
   have no order: every candidate has position 0. *)
TemplateCandidates(e) ==
    UNION {{Candidate(0, pb, FirstRule(e, pb), t) : pb \in ResolvePlaybooks(e, t)} :
              t \in Triggered(e)}

(* Faulty: asks only for the rules that failed. *)
ReviewCandidatesFailOnly(e, covered) ==
    {Candidate(i, Evals(e)[i].playbook, Evals(e)[i].rule, None) :
        i \in {j \in Failing(e) : /\ Evals(e)[j].status = "FAIL"
                                  /\ Pair(Evals(e)[j]) \notin covered}}

(* create_actions_for_failure_excluding: one candidate per (playbook, rule)
   that needs review and is not in covered, at its first evaluation. *)
ReviewCandidates(e, covered) ==
    {Candidate(i, Evals(e)[i].playbook, Evals(e)[i].rule, None) :
        i \in {j \in Failing(e) :
                  /\ Pair(Evals(e)[j]) \notin covered
                  /\ \A k \in Failing(e) :
                        k < j => Pair(Evals(e)[k]) # Pair(Evals(e)[j])}}

-----------------------------------------------------------------------------
(* The state of a run.                                                     *)

CallStages == {"bindings", "templates", "legacy", "topUp"}
Stages == {"idle", "publish"} \cup CallStages
Phases == {"lookup", "find", "insert", "route"}

(* event: the envelope; stage and phase: which ActionBuilder call is running
   and what it does next; todo: candidates left to that call; cur, id: the
   candidate being inserted and the action being routed; fresh: the call's
   own "created" vector; created: created_actions of the pipeline; bindErr:
   the bindings call failed; toppedUp: the top-up call returned Ok. *)
IdleRun == [event |-> None, stage |-> "idle", phase |-> "lookup", todo |-> {},
            cur |-> None, id |-> 0, fresh |-> {}, created |-> {},
            bindErr |-> FALSE, toppedUp |-> FALSE]

Active(w) == run[w].stage # "idle"
Object(r) == ObjectOf[r.event]

(* The idempotency key; its hash is injective on the keys that occur. *)
Key(r, c) ==
    CASE r.stage = "bindings"  -> <<Object(r), c.playbook, c.rule, c.template>>
      [] r.stage = "templates" -> <<Object(r), c.playbook, c.template>>
      [] OTHER                 -> <<Object(r), c.playbook, c.rule>>

(* Faulty: the lookup does not see the newest document. *)
StoredStale(key) == \E i \in 1 .. (Len(actions) - 1) : actions[i].key = key

Stored(key) == \E i \in DOMAIN actions : actions[i].key = key

Record(r, c) == [key |-> Key(r, c), object |-> Object(r), event |-> r.event,
                 playbook |-> c.playbook, rule |-> c.rule,
                 template |-> c.template, assigned |-> FALSE]

Covered(r) == {Pair(actions[i]) : i \in r.created}

CandidatesOf(r, loaded) ==
    CASE r.stage = "bindings"  -> BindingCandidates(r.event, loaded)
      [] r.stage = "templates" -> TemplateCandidates(r.event)
      [] r.stage = "legacy"    -> ReviewCandidates(r.event, {})
      [] r.stage = "topUp"     -> ReviewCandidates(r.event, Covered(r))

NextCandidates(r) == {c \in r.todo : \A d \in r.todo : c.pos <= d.pos}

(* Faulty: no top-up after an earlier call created something. *)
NextStageNoTopUp(r, ok) ==
    LET some == ok /\ r.fresh # {}
    IN  CASE r.stage = "bindings"  -> IF some THEN "publish" ELSE "templates"
          [] r.stage = "templates" -> IF some THEN "publish" ELSE "legacy"
          [] OTHER                 -> "publish"

(* The cascade of process_envelope: rule bindings, else templates, else the
   legacy path; then the top-up for decisions that need review. *)
NextStage(r, ok) ==
    LET review == NeedsReview(Decision(r.event))
        afterCreation == IF review THEN "topUp" ELSE "publish"
        some == ok /\ r.fresh # {}
    IN  CASE r.stage = "bindings"  -> IF some THEN afterCreation ELSE "templates"
          [] r.stage = "templates" -> IF ~some /\ review /\ (ok \/ ~r.bindErr)
                                      THEN "legacy" ELSE afterCreation
          [] r.stage = "legacy"    -> afterCreation
          [] OTHER                 -> "publish"

(* Faulty: the top-up replaces created_actions instead of extending it. *)
EndedReplacing(r, ok) ==
    [r EXCEPT !.stage = NextStage(r, ok), !.phase = "lookup",
              !.todo = {}, !.cur = None, !.id = 0, !.fresh = {},
              !.created = IF ok THEN r.fresh ELSE r.created,
              !.bindErr = r.bindErr \/ (r.stage = "bindings" /\ ~ok),
              !.toppedUp = r.stage = "topUp" /\ ok]

(* The call returns: Ok(created) hands its vector over, Err drops it. *)
Ended(r, ok) ==
    [r EXCEPT !.stage = NextStage(r, ok), !.phase = "lookup",
              !.todo = {}, !.cur = None, !.id = 0, !.fresh = {},
              !.created = IF ok THEN r.created \cup r.fresh ELSE r.created,
              !.bindErr = r.bindErr \/ (r.stage = "bindings" /\ ~ok),
              !.toppedUp = r.stage = "topUp" /\ ok]

-----------------------------------------------------------------------------
CanFault == faults < MaxFaults
Fault == CanFault /\ faults' = faults + 1

Init ==
    /\ actions = << >>
    /\ feed = << >>
    /\ run = [w \in Workers |-> IdleRun]
    /\ begun = 0 /\ faults = 0 /\ crashes = 0
    /\ overlapped = {}

(* A delivery, a redelivery or an HTTP request reaches the action stage;
   route_to_action_builder is always true. *)
Begin(w, e) ==
    /\ ~Active(w)
    /\ begun < MaxRuns
    /\ begun' = begun + 1
    /\ run' = [run EXCEPT ![w] = [IdleRun EXCEPT !.event = e, !.stage = "bindings"]]
    /\ overlapped' =
          IF \E v \in Workers \ {w} : Active(v) /\ Object(run[v]) = ObjectOf[e]
          THEN overlapped \cup {ObjectOf[e]} ELSE overlapped
    /\ UNCHANGED <<actions, feed, faults, crashes>>

InCall(w, phase) == run[w].stage \in CallStages /\ run[w].phase = phase

(* The reads of the template store.  find_template_by_id failing only makes
   that template "not found"; the set of templates lost that way is "missed". *)
Lookup(w) ==
    /\ InCall(w, "lookup")
    /\ \E missed \in SUBSET StoredTemplates :
          /\ IF missed = {} THEN UNCHANGED faults
             ELSE run[w].stage = "bindings" /\ Fault
          /\ run' = [run EXCEPT ![w] =
                [@ EXCEPT !.phase = "find",
                          !.todo = CandidatesOf(run[w], StoredTemplates \ missed)]]
    /\ UNCHANGED <<actions, feed, begun, crashes, overlapped>>

(* find_templates_by_trigger returns an error. *)
LookupFails(w) ==
    /\ InCall(w, "lookup") /\ run[w].stage = "templates"
    /\ Fault
    /\ run' = [run EXCEPT ![w] = Ended(run[w], FALSE)]
    /\ UNCHANGED <<actions, feed, begun, crashes, overlapped>>

(* Faulty: an existing action is returned to the caller like a new one. *)
FindReturningExisting(w) ==
    /\ InCall(w, "find")
    /\ \E c \in NextCandidates(run[w]) :
          run' = [run EXCEPT ![w] =
                    IF Stored(Key(run[w], c))
                    THEN [@ EXCEPT !.todo = run[w].todo \ {c},
                                   !.fresh = run[w].fresh \cup
                                     {i \in DOMAIN actions :
                                         actions[i].key = Key(run[w], c)}]
                    ELSE [@ EXCEPT !.todo = run[w].todo \ {c},
                                   !.phase = "insert", !.cur = c]]
    /\ UNCHANGED <<actions, feed, begun, faults, crashes, overlapped>>

(* find_by_idempotency_hash: an existing action is skipped, not returned. *)
Find(w) ==
    /\ InCall(w, "find")
    /\ \E c \in NextCandidates(run[w]) :
          run' = [run EXCEPT ![w] =
                    IF Stored(Key(run[w], c))
                    THEN [@ EXCEPT !.todo = run[w].todo \ {c}]
                    ELSE [@ EXCEPT !.todo = run[w].todo \ {c},
                                   !.phase = "insert", !.cur = c]]
    /\ UNCHANGED <<actions, feed, begun, faults, crashes, overlapped>>

FindFails(w) ==
    /\ InCall(w, "find") /\ run[w].todo # {}
    /\ Fault
    /\ run' = [run EXCEPT ![w] = Ended(run[w], FALSE)]
    /\ UNCHANGED <<actions, feed, begun, crashes, overlapped>>

(* Faulty: remembers the position before the insert. *)
InsertStaleId(w) ==
    /\ InCall(w, "insert")
    /\ actions' = Append(actions, Record(run[w], run[w].cur))
    /\ run' = [run EXCEPT ![w] =
                 [@ EXCEPT !.phase = "route", !.id = Len(actions)]]
    /\ UNCHANGED <<feed, begun, faults, crashes, overlapped>>

(* insert_action: no unique index, so the insert never conflicts. *)
Insert(w) ==
    /\ InCall(w, "insert")
    /\ actions' = Append(actions, Record(run[w], run[w].cur))
    /\ run' = [run EXCEPT ![w] =
                 [@ EXCEPT !.phase = "route", !.id = Len(actions) + 1]]
    /\ UNCHANGED <<feed, begun, faults, crashes, overlapped>>

(* insert_action returns an error; a lost reply leaves the document behind. *)
InsertFails(w) ==
    /\ InCall(w, "insert")
    /\ Fault
    /\ actions' \in {actions, Append(actions, Record(run[w], run[w].cur))}
    /\ run' = [run EXCEPT ![w] = Ended(run[w], FALSE)]
    /\ UNCHANGED <<feed, begun, crashes, overlapped>>

Routed(r) == [r EXCEPT !.phase = "find", !.fresh = r.fresh \cup {r.id},
                       !.cur = None, !.id = 0]

(* Faulty: the assignment is set on the in-memory record only. *)
RouteInMemory(w) ==
    /\ InCall(w, "route")
    /\ run' = [run EXCEPT ![w] = Routed(run[w])]
    /\ UNCHANGED <<actions, feed, begun, faults, crashes, overlapped>>

(* route_action: the router always resolves; the update of the document may
   fail, which is only logged. *)
Route(w) ==
    /\ InCall(w, "route")
    /\ actions' = [actions EXCEPT ![run[w].id] = [@ EXCEPT !.assigned = TRUE]]
    /\ run' = [run EXCEPT ![w] = Routed(run[w])]
    /\ UNCHANGED <<feed, begun, faults, crashes, overlapped>>

RouteFails(w) ==
    /\ InCall(w, "route")
    /\ Fault
    /\ run' = [run EXCEPT ![w] = Routed(run[w])]
    /\ UNCHANGED <<actions, feed, begun, crashes, overlapped>>

Return(w) ==
    /\ InCall(w, "find") /\ run[w].todo = {}
    /\ run' = [run EXCEPT ![w] = Ended(run[w], TRUE)]
    /\ UNCHANGED <<actions, feed, begun, faults, crashes, overlapped>>

(* publish_actions sends one message that carries the whole batch. *)
Publish(w) ==
    /\ run[w].stage = "publish"
    /\ feed' = IF run[w].created = {} THEN feed ELSE Append(feed, run[w].created)
    /\ run' = [run EXCEPT ![w] = IdleRun]
    /\ UNCHANGED <<actions, begun, faults, crashes, overlapped>>

(* The publish fails, or its confirm is lost; either way it is only logged. *)
PublishFails(w) ==
    /\ run[w].stage = "publish" /\ run[w].created # {}
    /\ Fault
    /\ feed' \in {feed, Append(feed, run[w].created)}
    /\ run' = [run EXCEPT ![w] = IdleRun]
    /\ UNCHANGED <<actions, begun, crashes, overlapped>>

(* The process dies: every run is gone, MongoDB and RabbitMQ remain. *)
Crash ==
    /\ crashes < MaxCrashes
    /\ crashes' = crashes + 1
    /\ run' = [w \in Workers |-> IdleRun]
    /\ UNCHANGED <<actions, feed, begun, faults, overlapped>>

Step(w) ==
    \/ Lookup(w) \/ LookupFails(w)
    \/ Find(w) \/ FindFails(w)
    \/ Insert(w) \/ InsertFails(w)
    \/ Route(w) \/ RouteFails(w)
    \/ Return(w)
    \/ Publish(w) \/ PublishFails(w)

Next ==
    \/ \E w \in Workers, e \in Events : Begin(w, e)
    \/ \E w \in Workers : Step(w)
    \/ Crash

Spec == Init /\ [][Next]_vars

(* The runtime polls every task, and a call to a store ends or errors. *)
FairSpec == Spec /\ \A w \in Workers : WF_vars(Step(w))

-----------------------------------------------------------------------------
(* Properties.                                                             *)

CandidateType == [pos : Nat, playbook : Playbooks, rule : Rules \cup {None},
                  template : Templates \cup {None}]

RunType == [event : Events \cup {None}, stage : Stages, phase : Phases,
            todo : SUBSET CandidateType, cur : CandidateType \cup {None},
            id : Nat, fresh : SUBSET Nat, created : SUBSET Nat,
            bindErr : BOOLEAN, toppedUp : BOOLEAN]

KeyType == (Objects \X Playbooks \X (Rules \cup Templates \cup {None}))
           \cup (Objects \X Playbooks \X (Rules \cup {None}) \X (Templates \cup {None}))

ActionType == [key : KeyType, object : Objects, event : Events,
               playbook : Playbooks, rule : Rules \cup {None},
               template : Templates \cup {None}, assigned : BOOLEAN]

(* Types, and what links a run to the store: an active run has an event, every
   id it or the feed holds is an action of the store. *)
TypeOK ==
    /\ actions \in Seq(ActionType)
    /\ feed \in Seq(SUBSET (DOMAIN actions))
    /\ run \in [Workers -> RunType]
    /\ begun \in Nat /\ faults \in Nat /\ crashes \in Nat
    /\ overlapped \in SUBSET Objects
    /\ \A w \in Workers :
          /\ Active(w) => run[w].event \in Events
          /\ run[w].fresh \cup run[w].created \subseteq DOMAIN actions
          /\ InCall(w, "insert") => run[w].cur \in CandidateType
          /\ InCall(w, "route") => run[w].id \in DOMAIN actions

(* Two documents with the same idempotency hash exist only for an object that
   two runs were handling at the same time: the lookup-then-insert of
   action_builder.rs is safe exactly as long as runs of one object do not
   overlap, across crashes, redeliveries and failed calls. *)
DuplicatesOnlyFromOverlap ==
    \A i, j \in DOMAIN actions :
        (i # j /\ actions[i].key = actions[j].key) => actions[i].object \in overlapped

(* "Deduplicates by idempotency key (hash) before inserting": the collection
   never holds two actions with the same key. *)
UniqueKeys ==
    \A i, j \in DOMAIN actions : actions[i].key = actions[j].key => i = j

(* An action is published to the feed at most once: created vectors of the
   calls never overlap, and an existing action is never returned again. *)
FeedAtMostOnce ==
    \A m, n \in DOMAIN feed : m # n => feed[m] \cap feed[n] = {}

InStore(object, pair) ==
    \E k \in DOMAIN actions : actions[k].object = object /\ Pair(actions[k]) = pair

(* Once the top-up of a run has returned Ok, every (playbook, rule) that failed
   or was inconclusive has an action for the object, whichever of the earlier
   calls failed, skipped or suppressed it. *)
ReviewCovered ==
    \A w \in Workers :
        (run[w].stage = "publish" /\ run[w].toppedUp) =>
            \A i \in Failing(run[w].event) :
                InStore(Object(run[w]), Pair(Evals(run[w].event)[i]))

OnFeed(k) == \E n \in DOMAIN feed : k \in feed[n]

(* Without faults and crashes, an action of the store is on the feed or still
   in the hands of the run that created it. *)
NoActionOrphaned ==
    \A k \in DOMAIN actions :
        \/ OnFeed(k)
        \/ \E w \in Workers : \/ k \in run[w].fresh \cup run[w].created
                              \/ InCall(w, "route") /\ run[w].id = k

(* The assignee a feed message carries is the assignee the store holds: every
   published action has its assignment persisted. *)
FeedAgreesWithStore ==
    \A k \in DOMAIN actions : OnFeed(k) => actions[k].assigned

(* One action per object, playbook and rule, however often an event is
   delivered (docs: "Still only one document ...; no second action"). *)
OneActionPerRule ==
    \A i, j \in DOMAIN actions :
        (/\ actions[i].object = actions[j].object
         /\ Pair(actions[i]) = Pair(actions[j])) => i = j

(* "If the parent object itself failed, skip child-level actions." *)
NoActionForSuppressedChild ==
    \A k \in DOMAIN actions :
        \A i \in Bound(actions[k].event) :
            Suppressed(actions[k].event, i)
                => Pair(actions[k]) # Pair(Evals(actions[k].event)[i])

HandlesNow(w, e) == Active(w) /\ run[w].event = e

ReviewOnFeed(e) ==
    \A i \in Failing(e) :
        \E k \in DOMAIN actions : /\ actions[k].object = ObjectOf[e]
                                  /\ Pair(actions[k]) = Pair(Evals(e)[i])
                                  /\ OnFeed(k)

(* Without faults and crashes, an event that a worker takes up ends with an
   action on the feed for each rule that needs review. *)
FailingRulesReachFeed ==
    \A e \in {x \in Events : Failing(x) # {}} :
        (\E w \in Workers : HandlesNow(w, e)) ~> ReviewOnFeed(e)

=============================================================================
