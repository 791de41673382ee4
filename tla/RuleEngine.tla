----------------------------- MODULE RuleEngine -----------------------------
(***************************************************************************)
(* From an event to its decision: build_tadpole_from_store                 *)
(* (http-gateway/src/pipeline.rs) selects playbooks and rules, the         *)
(* DispatcherActor runs the rules one by one and the OrchestratorActor     *)
(* aggregates what they say (engine-core/src/actors).                      *)
(*                                                                         *)
(* The rules live in a Mongo collection that others edit, so the active    *)
(* rules may change between any two steps.                                 *)
(***************************************************************************)
EXTENDS Conditions, FiniteSets

CONSTANTS
    Playbooks, Rules, ObjectTypes,
    PlaybookInfo,  \* Playbooks -> execution mode and rule references
    RuleInfo,      \* Rules -> object type, conditions and logic
    Bodies,        \* event bodies: ObjectTypes -> snapshot
    MaxFaults, MaxEdits

Modes == {"Fail_First", "Run_All", None}

RuleRef == [rule : Rules, seq : Int, critical : BOOLEAN]

ASSUME PlaybookAssumption ==
    /\ IsFiniteSet(Playbooks)
    /\ PlaybookInfo \in [Playbooks -> [mode : Modes, refs : Seq(RuleRef)]]

(* Option::None is neither a result nor a plan nor an outcome. *)
ASSUME NoneAssumption ==
    /\ None \notin [decision : Status, summaries : Seq(Status)]
    /\ None \notin [jobs : Seq([critical : BOOLEAN, status : Status]), failFirst : BOOLEAN]
    /\ None \notin [decision : Status \cup {"failed"}, ran : SUBSET Nat]

VARIABLES
    body,         \* the snapshots the event carries
    activeRules,  \* rules with status "active" in the rules collection
    stage,        \* where process_envelope is
    matched,      \* playbooks find_matched_playbooks returned, in cursor order
    loaded,       \* rules find_active_rules returned
    assigned,     \* how many matched playbooks are in the tadpole
    ordered,      \* tail.ordered_rules
    evaluations,  \* tail.evaluations
    result,       \* the OrchestrationResult, or None
    faults, edits

tadpole == <<matched, loaded, assigned, ordered, evaluations>>
vars == <<body, activeRules, stage, tadpole, result, faults, edits>>

Stages == {"match", "load", "assign", "dispatch", "orchestrate", "done", "failed"}

Refs(pb) == PlaybookInfo[pb].refs

Requested == UNION {{Refs(matched[i])[j].rule : j \in DOMAIN Refs(matched[i])} :
                       i \in DOMAIN matched}

(* tail.execution_mode is the mode of the first matched playbook. *)
ExecutionMode == IF matched = << >> THEN None ELSE PlaybookInfo[matched[1]].mode

RuleSpec == [playbook : Playbooks, rule : Rules, critical : BOOLEAN]

SpecOf(pb, i) == [playbook |-> pb, rule |-> Refs(pb)[i].rule,
                  critical |-> Refs(pb)[i].critical]

(* sort_by_key(order_seq) is stable. *)
Before(pb, i, j) == \/ Refs(pb)[i].seq < Refs(pb)[j].seq
                    \/ Refs(pb)[i].seq = Refs(pb)[j].seq /\ i < j

(* The rule specifications a playbook adds for these of its references: the
   one enumeration of the references in sorted order. *)
SortedSpecs(pb, refs) ==
    {[k \in DOMAIN p |-> SpecOf(pb, p[k])] :
        p \in {q \in [1 .. Cardinality(refs) -> refs] :
                  \A j, k \in DOMAIN q : j < k => Before(pb, q[j], q[k])}}

(* Faulty: a rule that an earlier playbook brought in is not added again. *)
ActiveRefsOnce(pb) ==
    {i \in DOMAIN Refs(pb) :
        /\ Refs(pb)[i].rule \in loaded
        /\ \A n \in DOMAIN ordered : ordered[n].rule # Refs(pb)[i].rule}

ActiveRefs(pb) == {i \in DOMAIN Refs(pb) : Refs(pb)[i].rule \in loaded}

Evaluation == [playbook : Playbooks, rule : Rules, critical : BOOLEAN, status : Status]

StatusOf(rule) == RuleStatus(RuleInfo[rule], body[RuleInfo[rule].objectType])

(* Faulty: any failure stops, critical or not. *)
StopsOnAnyFailure(e) == ExecutionMode = "Fail_First" /\ e.status = "FAIL"

StopsDispatch(e) == ExecutionMode = "Fail_First" /\ e.critical /\ e.status = "FAIL"

(* The evaluations of one playbook, as summarize_playbook gets them. *)
EvaluationsOf(pb) ==
    LET mine == {i \in DOMAIN evaluations : evaluations[i].playbook = pb}
    IN  [i \in mine |-> evaluations[i]]

-----------------------------------------------------------------------------
Init ==
    /\ body \in Bodies
    /\ activeRules \in SUBSET Rules
    /\ stage = "match"
    /\ matched = << >> /\ loaded = {} /\ assigned = 0
    /\ ordered = << >> /\ evaluations = << >>
    /\ result = None
    /\ faults = 0 /\ edits = 0

Fault == faults < MaxFaults /\ faults' = faults + 1

(* An administrator activates or deactivates a rule. *)
Edit(r) ==
    /\ edits < MaxEdits
    /\ edits' = edits + 1
    /\ activeRules' = IF r \in activeRules THEN activeRules \ {r} ELSE activeRules \cup {r}
    /\ UNCHANGED <<body, stage, tadpole, result, faults>>

(* Faulty: the early return is missing. *)
MatchNoneNoReturn ==
    /\ stage = "match"
    /\ stage' = "load"
    /\ result' = [decision |-> "INCONCLUSIVE", summaries |-> << >>]
    /\ UNCHANGED <<body, activeRules, tadpole, faults, edits>>

(* No playbook matches, or the head does not say what changed. *)
MatchNone ==
    /\ stage = "match"
    /\ stage' = "done"
    /\ result' = [decision |-> "INCONCLUSIVE", summaries |-> << >>]
    /\ UNCHANGED <<body, activeRules, tadpole, faults, edits>>

(* find_matched_playbooks; the cursor has no order. *)
Match(found) ==
    /\ stage = "match"
    /\ \E order \in [1 .. Cardinality(found) -> found] :
          /\ \A i, j \in DOMAIN order : i # j => order[i] # order[j]
          /\ matched' = order
    /\ stage' = "load"
    /\ UNCHANGED <<body, activeRules, loaded, assigned, ordered, evaluations,
                   result, faults, edits>>

(* find_active_rules; not called when no playbook references a rule. *)
Load ==
    /\ stage = "load"
    /\ loaded' = Requested \cap activeRules
    /\ stage' = "assign"
    /\ UNCHANGED <<body, activeRules, matched, assigned, ordered, evaluations,
                   result, faults, edits>>

(* Either lookup returns an error: PipelineError::AssignerFailed. *)
LookupFails ==
    /\ stage \in {"match", "load"}
    /\ Fault
    /\ stage' = "failed"
    /\ UNCHANGED <<body, activeRules, tadpole, result, edits>>

(* One turn of the loop over the matched playbooks. *)
Assign ==
    /\ stage = "assign" /\ assigned < Len(matched)
    /\ LET pb == matched[assigned + 1] IN
       \E specs \in SortedSpecs(pb, ActiveRefs(pb)) : ordered' = ordered \o specs
    /\ assigned' = assigned + 1
    /\ UNCHANGED <<body, activeRules, stage, matched, loaded, evaluations,
                   result, faults, edits>>

SendToDispatcher ==
    /\ stage = "assign" /\ assigned = Len(matched)
    /\ stage' = "dispatch"
    /\ UNCHANGED <<body, activeRules, tadpole, result, faults, edits>>

(* Faulty: breaks out of the loop before it pushes the evaluation. *)
PushUnlessStopping(status) ==
    LET spec == ordered[Len(evaluations) + 1]
        e == [playbook |-> spec.playbook, rule |-> spec.rule,
              critical |-> spec.critical, status |-> status]
    IN  /\ IF StopsDispatch(e)
           THEN evaluations' = evaluations /\ stage' = "orchestrate"
           ELSE evaluations' = Append(evaluations, e) /\ stage' = "dispatch"
        /\ UNCHANGED <<body, activeRules, matched, loaded, assigned, ordered,
                       result, edits>>

(* One turn of the dispatcher's loop: the evaluation is pushed, and a critical
   failure ends the loop under Fail_First. *)
Push(status) ==
    LET spec == ordered[Len(evaluations) + 1]
        e == [playbook |-> spec.playbook, rule |-> spec.rule,
              critical |-> spec.critical, status |-> status]
    IN  /\ evaluations' = Append(evaluations, e)
        /\ stage' = IF StopsDispatch(e) THEN "orchestrate" ELSE "dispatch"
        /\ UNCHANGED <<body, activeRules, matched, loaded, assigned, ordered,
                       result, edits>>

CanEvaluate == stage = "dispatch" /\ Len(evaluations) < Len(ordered)

Evaluate ==
    /\ CanEvaluate
    /\ Push(StatusOf(ordered[Len(evaluations) + 1].rule))
    /\ UNCHANGED faults

(* The mailbox of the rule handler is closed: dispatcher.handler_error. *)
HandlerFails ==
    /\ CanEvaluate
    /\ Fault
    /\ Push("INCONCLUSIVE")

FinishDispatch ==
    /\ stage = "dispatch" /\ Len(evaluations) = Len(ordered)
    /\ stage' = "orchestrate"
    /\ UNCHANGED <<body, activeRules, tadpole, result, faults, edits>>

(* The mailbox of the dispatcher or of the orchestrator is closed. *)
ActorFails ==
    /\ stage \in {"dispatch", "orchestrate"}
    /\ Fault
    /\ stage' = "failed"
    /\ UNCHANGED <<body, activeRules, tadpole, result, edits>>

Orchestrate ==
    /\ stage = "orchestrate"
    /\ stage' = "done"
    /\ result' = [decision |-> AggregateDecision(evaluations),
                  summaries |-> [i \in DOMAIN matched |->
                                    SummarizePlaybook(EvaluationsOf(matched[i]))]]
    /\ UNCHANGED <<body, activeRules, tadpole, faults, edits>>

Next ==
    \/ \E r \in Rules : Edit(r)
    \/ MatchNone
    \/ \E found \in (SUBSET Playbooks) \ {{}} : Match(found)
    \/ Load \/ LookupFails
    \/ Assign \/ SendToDispatcher
    \/ Evaluate \/ HandlerFails \/ FinishDispatch
    \/ ActorFails \/ Orchestrate

Spec == Init /\ [][Next]_vars

-----------------------------------------------------------------------------
(* Properties.                                                             *)

Decided == result # None /\ matched # << >>

(* Types of the state; the evaluations are those of a prefix of the ordered
   rules. *)
TypeOK ==
    /\ body \in Bodies /\ activeRules \in SUBSET Rules
    /\ stage \in Stages
    /\ matched \in Seq(Playbooks)
    /\ loaded \in SUBSET Rules
    /\ assigned \in 0 .. Len(matched)
    /\ ordered \in Seq(RuleSpec)
    /\ evaluations \in Seq(Evaluation)
    /\ Len(evaluations) <= Len(ordered)
    /\ result = None \/ /\ stage = "done"
                        /\ result.decision \in Status
                        /\ result.summaries \in [DOMAIN matched -> Status]
    /\ faults \in Nat /\ edits \in Nat

Critical(i) == evaluations[i].critical /\ evaluations[i].status = "FAIL"

(* The dispatcher stops exactly where Fail_First says: nothing is evaluated
   after a critical failure, and a run that reaches the orchestrator without
   one has evaluated every rule. *)
StopsExactlyAtCriticalFailure ==
    /\ ExecutionMode = "Fail_First" =>
          \A i \in DOMAIN evaluations : Critical(i) => i = Len(evaluations)
    /\ (stage \in {"orchestrate", "done"} /\ Len(evaluations) < Len(ordered)) =>
          /\ ExecutionMode = "Fail_First"
          /\ evaluations # << >> /\ Critical(Len(evaluations))

(* A PASS is earned: every rule that a matched playbook references and that
   was active when the rules were loaded has passed for that playbook, also
   when playbooks share rules. *)
PassIsEarned ==
    (Decided /\ result.decision = "PASS") =>
        \A i \in DOMAIN matched : \A j \in DOMAIN Refs(matched[i]) :
            Refs(matched[i])[j].rule \in loaded =>
                \E n \in DOMAIN evaluations :
                    /\ evaluations[n].playbook = matched[i]
                    /\ evaluations[n].rule = Refs(matched[i])[j].rule
                    /\ evaluations[n].status = "PASS"

Judged(i) == EvaluationsOf(matched[i]) # << >>

(* The decision on the event is the worst of the summaries of the playbooks
   that had a rule evaluated. *)
DecisionAgreesWithSummaries ==
    Decided =>
        LET judged == {result.summaries[i] : i \in {j \in DOMAIN matched : Judged(j)}}
        IN  /\ \A s \in judged : Rank(result.decision) <= Rank(s)
            /\ judged # {} => result.decision \in judged

(* The plan is fixed when the tadpole goes to the dispatcher. *)
Planned == /\ stage \notin {"match", "load", "assign"}
           /\ matched # << >> /\ assigned = Len(matched)

Plan == [jobs |-> [i \in DOMAIN ordered |->
                      [critical |-> ordered[i].critical,
                       status |-> StatusOf(ordered[i].rule)]],
         failFirst |-> ExecutionMode = "Fail_First"]

Outcome == CASE stage = "done" -> [decision |-> result.decision, ran |-> DOMAIN evaluations]
             [] stage = "failed" -> [decision |-> "failed", ran |-> {}]
             [] OTHER -> None

PlanSoFar == IF Planned THEN Plan ELSE None

Verdict == INSTANCE RuleVerdict WITH plan <- PlanSoFar, outcome <- Outcome

(* The lookups, the dispatcher's loop and the orchestrator together decide the
   event as RuleVerdict does in one step. *)
ImplementsVerdict == Verdict!Spec

(* "If the playbook execution mode is Fail_First, a critical failed rule stops
   further rule execution": within a playbook of that mode, nothing is
   evaluated after a critical failure of its own. *)
FailFirstPerPlaybook ==
    \A i, j \in DOMAIN evaluations :
        (/\ i < j /\ Critical(i)
         /\ evaluations[i].playbook = evaluations[j].playbook
         /\ PlaybookInfo[evaluations[i].playbook].mode = "Fail_First") => FALSE

=============================================================================
