-------------------------- MODULE RuleEngineProofs --------------------------
(***************************************************************************)
(* Proofs about RuleEngine, for any library of playbooks and rules, any    *)
(* event body and any number of edits and faults.                          *)
(***************************************************************************)
EXTENDS RuleEngine, FiniteSetTheorems, TLAPS

-----------------------------------------------------------------------------
(* Decisions.                                                              *)

(* Whatever the conditions, the handler answers with one of three decisions. *)
LEMMA RuleStatusType ==
    ASSUME NEW rule, NEW snapshot
    PROVE  RuleStatus(rule, snapshot) \in Status
  <1>1. \A s : s \in {"PASS", "FAIL"} => Negated(s) \in Status
    BY DEF Negated, Status
  <1>2. Combine(rule.logic, Checks(rule, snapshot.fields)) \in Status
    BY <1>1 DEF Combine, Status
  <1> QED
    BY <1>2 DEF RuleStatus, Status

(* The aggregate and the summary of any evaluations are decisions. *)
LEMMA AggregateType ==
    ASSUME NEW evals
    PROVE  AggregateDecision(evals) \in Status /\ SummarizePlaybook(evals) \in Status
  BY DEF AggregateDecision, SummarizePlaybook, Status

-----------------------------------------------------------------------------
(* Building the tadpole.                                                   *)

(* The references of a playbook are a finite sequence. *)
LEMMA RefsType ==
    ASSUME NEW pb \in Playbooks
    PROVE  /\ Refs(pb) \in Seq(RuleRef)
           /\ DOMAIN Refs(pb) = 1 .. Len(Refs(pb))
           /\ Len(Refs(pb)) \in Nat
  BY PlaybookAssumption DEF Refs

(* Some of the references of a playbook are finitely many. *)
LEMMA FiniteRefs ==
    ASSUME NEW pb \in Playbooks, NEW refs \in SUBSET DOMAIN Refs(pb)
    PROVE  IsFiniteSet(refs) /\ Cardinality(refs) \in Nat
  <1>1. IsFiniteSet(1 .. Len(Refs(pb)))
    BY RefsType, FS_Interval
  <1>2. IsFiniteSet(refs)
    BY <1>1, RefsType, FS_Subset
  <1> QED
    BY <1>2, FS_CardinalityType

(* Sorting references yields a sequence of rule specifications. *)
LEMMA SortedSpecsType ==
    ASSUME NEW pb \in Playbooks, NEW refs \in SUBSET DOMAIN Refs(pb),
           NEW specs \in SortedSpecs(pb, refs)
    PROVE  specs \in Seq(RuleSpec)
  <1>1. PICK p \in [1 .. Cardinality(refs) -> refs] :
            specs = [k \in DOMAIN p |-> SpecOf(pb, p[k])]
    BY DEF SortedSpecs
  <1>2. \A i \in DOMAIN Refs(pb) : SpecOf(pb, i) \in RuleSpec
    <2> SUFFICES ASSUME NEW i \in DOMAIN Refs(pb) PROVE SpecOf(pb, i) \in RuleSpec
      OBVIOUS
    <2>1. Refs(pb)[i] \in RuleRef
      BY RefsType
    <2> QED
      BY <2>1 DEF RuleRef, SpecOf, RuleSpec
  <1>3. specs \in [1 .. Cardinality(refs) -> RuleSpec]
    BY <1>1, <1>2
  <1> QED
    BY <1>3, FiniteRefs

(* A set of playbooks in some order is a sequence of playbooks. *)
LEMMA CursorType ==
    ASSUME NEW found \in SUBSET Playbooks, found # {},
           NEW order \in [1 .. Cardinality(found) -> found]
    PROVE  order \in Seq(Playbooks) /\ order # << >>
  <1>1. IsFiniteSet(found)
    BY PlaybookAssumption, FS_Subset
  <1>2. Cardinality(found) \in Nat /\ Cardinality(found) # 0
    BY <1>1, FS_CardinalityType, FS_EmptySet
  <1> QED
    BY <1>2

-----------------------------------------------------------------------------
(* The inductive invariant.                                                *)

(* Where the run stands determines how much of the tadpole exists. *)
StageShape ==
    /\ stage \in {"match", "load", "assign"} => evaluations = << >>
    /\ stage = "match" => matched = << >> /\ ordered = << >> /\ assigned = 0
    /\ stage = "load" => ordered = << >> /\ assigned = 0
    /\ stage \in {"load", "assign", "dispatch", "orchestrate"} => matched # << >>
    /\ stage \in {"dispatch", "orchestrate"} => assigned = Len(matched)
    /\ (stage = "done" /\ matched # << >>) => assigned = Len(matched)
    /\ (stage = "done" /\ matched = << >>) => evaluations = << >> /\ ordered = << >>

(* The evaluations belong to the ordered rules, one by one. *)
EvaluationsMatchPlan ==
    \A i \in DOMAIN evaluations :
        /\ evaluations[i].playbook = ordered[i].playbook
        /\ evaluations[i].rule = ordered[i].rule
        /\ evaluations[i].critical = ordered[i].critical
        /\ evaluations[i].status \in {StatusOf(ordered[i].rule), "INCONCLUSIVE"}

(* While the dispatcher's loop goes on, no critical failure has happened. *)
NoCriticalFailureYet ==
    (stage = "dispatch" /\ ExecutionMode = "Fail_First") =>
        \A i \in DOMAIN evaluations : ~ Critical(i)

ResultIsVerdict ==
    /\ result # None <=> stage = "done"
    /\ (stage = "done" /\ matched = << >>) => result.decision = "INCONCLUSIVE"
    /\ Decided =>
          /\ result.decision = AggregateDecision(evaluations)
          /\ \A i \in DOMAIN matched :
                result.summaries[i] = SummarizePlaybook(EvaluationsOf(matched[i]))

RuleInv ==
    /\ TypeOK /\ StageShape /\ EvaluationsMatchPlan /\ NoCriticalFailureYet
    /\ StopsExactlyAtCriticalFailure /\ ResultIsVerdict

(* The invariant holds when an event arrives. *)
LEMMA RuleInvInit == Init => RuleInv
  <1> SUFFICES ASSUME Init PROVE RuleInv
    OBVIOUS
  <1>1. TypeOK
    BY DEF Init, TypeOK, Stages
  <1> QED
    BY <1>1 DEF Init, RuleInv, StageShape, EvaluationsMatchPlan, NoCriticalFailureYet,
                StopsExactlyAtCriticalFailure, ResultIsVerdict, Decided

(* One turn of the dispatcher's loop, whatever status the rule ends with. *)
LEMMA PushStep ==
    ASSUME RuleInv, CanEvaluate,
           NEW status \in {StatusOf(ordered[Len(evaluations) + 1].rule), "INCONCLUSIVE"},
           Push(status), faults' \in Nat
    PROVE  RuleInv'
  <1>1. /\ TypeOK /\ StageShape /\ EvaluationsMatchPlan /\ NoCriticalFailureYet
        /\ StopsExactlyAtCriticalFailure /\ ResultIsVerdict
    BY DEF RuleInv
  <1>2. PICK n \in Nat : n = Len(evaluations) + 1
    BY <1>1 DEF TypeOK
  <1>3. PICK e : e = [playbook |-> ordered[n].playbook, rule |-> ordered[n].rule,
                      critical |-> ordered[n].critical, status |-> status]
    OBVIOUS
  <1>4. /\ ordered \in Seq(RuleSpec) /\ evaluations \in Seq(Evaluation)
        /\ n \in 1 .. Len(ordered) /\ stage = "dispatch"
    BY <1>1, <1>2 DEF TypeOK, CanEvaluate
  <1>5. e \in Evaluation
    <2>1. status \in Status
      BY RuleStatusType DEF StatusOf, Status
    <2>2. ordered[n] \in RuleSpec
      BY <1>4
    <2> QED
      BY <1>3, <2>1, <2>2 DEF RuleSpec, Evaluation
  <1>6. /\ evaluations' = Append(evaluations, e)
        /\ stage' = IF StopsDispatch(e) THEN "orchestrate" ELSE "dispatch"
        /\ UNCHANGED <<body, activeRules, matched, loaded, assigned, ordered,
                       result, edits>>
    BY <1>2, <1>3 DEF Push
  <1>7. /\ evaluations' \in Seq(Evaluation)
        /\ Len(evaluations') = n /\ DOMAIN evaluations' = 1 .. n
        /\ DOMAIN evaluations = 1 .. (n - 1)
        /\ \A i \in 1 .. (n - 1) : evaluations'[i] = evaluations[i]
        /\ evaluations'[n] = e
        /\ \A i \in 1 .. n : i \in 1 .. (n - 1) \/ i = n
    BY <1>2, <1>4, <1>5, <1>6
  <1>8. result = None
    BY <1>1, <1>4 DEF ResultIsVerdict
  <1>9. TypeOK'
    BY <1>1, <1>4, <1>6, <1>7, <1>8 DEF TypeOK, Stages
  <1>10. StageShape'
    BY <1>1, <1>4, <1>6 DEF StageShape
  <1>11. EvaluationsMatchPlan'
    <2> SUFFICES ASSUME NEW i \in 1 .. n
                 PROVE  /\ evaluations'[i].playbook = ordered[i].playbook
                        /\ evaluations'[i].rule = ordered[i].rule
                        /\ evaluations'[i].critical = ordered[i].critical
                        /\ evaluations'[i].status \in {StatusOf(ordered[i].rule), "INCONCLUSIVE"}
      BY <1>6, <1>7 DEF EvaluationsMatchPlan, StatusOf
    <2>1. CASE i = n
      BY <1>2, <1>3, <1>7, <2>1
    <2>2. CASE i \in 1 .. (n - 1)
      BY <1>1, <1>7, <2>2 DEF EvaluationsMatchPlan
    <2> QED
      BY <1>7, <2>1, <2>2
  <1>12. ExecutionMode' = ExecutionMode
    BY <1>6 DEF ExecutionMode
  <1>13. /\ ExecutionMode = "Fail_First" => \A i \in 1 .. (n - 1) : ~Critical(i)'
         /\ StopsDispatch(e) <=> ExecutionMode = "Fail_First" /\ Critical(n)'
    BY <1>1, <1>4, <1>7 DEF NoCriticalFailureYet, StopsDispatch, Critical
  <1>14. NoCriticalFailureYet'
    BY <1>6, <1>7, <1>12, <1>13 DEF NoCriticalFailureYet
  <1>15. StopsExactlyAtCriticalFailure'
    <2>1. ExecutionMode' = "Fail_First" =>
             \A i \in 1 .. n : Critical(i)' => i = n
      BY <1>7, <1>12, <1>13
    <2>2. stage' \in {"orchestrate", "done"} => ExecutionMode' = "Fail_First" /\ Critical(n)'
      BY <1>6, <1>12, <1>13
    <2>3. evaluations' # << >>
      BY <1>4, <1>7
    <2> QED
      BY <1>7, <2>1, <2>2, <2>3 DEF StopsExactlyAtCriticalFailure
  <1>16. ResultIsVerdict'
    BY <1>6, <1>8 DEF ResultIsVerdict, Decided
  <1> QED
    BY <1>9, <1>10, <1>11, <1>14, <1>15, <1>16 DEF RuleInv

(* What is fixed once the rules are ordered: an action that leaves these alone
   can only disturb what the invariant says of stage and result. *)
LEMMA SamePlan ==
    ASSUME UNCHANGED <<body, matched, ordered, evaluations>>
    PROVE  /\ ExecutionMode' = ExecutionMode
           /\ EvaluationsMatchPlan' <=> EvaluationsMatchPlan
           /\ \A i \in DOMAIN evaluations : Critical(i)' = Critical(i)
           /\ \A pb : EvaluationsOf(pb)' = EvaluationsOf(pb)
  BY DEF ExecutionMode, EvaluationsMatchPlan, StatusOf, Critical, EvaluationsOf

(* While nothing has been evaluated the invariant speaks of types only. *)
LEMMA NothingEvaluated ==
    ASSUME evaluations' = << >>, result' = None, stage' \notin {"dispatch", "orchestrate", "done"}
    PROVE  /\ EvaluationsMatchPlan' /\ NoCriticalFailureYet'
           /\ StopsExactlyAtCriticalFailure' /\ ResultIsVerdict'
  BY DEF EvaluationsMatchPlan, NoCriticalFailureYet, StopsExactlyAtCriticalFailure,
         ResultIsVerdict, Decided

(* Every step preserves the invariant. *)
LEMMA RuleInvStep == RuleInv /\ [Next]_vars => RuleInv'
  <1> SUFFICES ASSUME RuleInv, [Next]_vars PROVE RuleInv'
    OBVIOUS
  <1>1. /\ TypeOK /\ StageShape /\ EvaluationsMatchPlan /\ NoCriticalFailureYet
        /\ StopsExactlyAtCriticalFailure /\ ResultIsVerdict
    BY DEF RuleInv
  <1>2. ASSUME NEW r \in Rules, Edit(r) PROVE RuleInv'
    <2>1. UNCHANGED <<body, stage, matched, loaded, assigned, ordered, evaluations, result>>
      BY <1>2 DEF Edit, tadpole
    <2>2. TypeOK'
      BY <1>1, <1>2, <2>1 DEF TypeOK, Edit
    <2>3. StageShape'
      BY <1>1, <2>1 DEF StageShape
    <2>4. /\ NoCriticalFailureYet' /\ StopsExactlyAtCriticalFailure'
          /\ ResultIsVerdict' /\ EvaluationsMatchPlan'
      BY <1>1, <2>1, SamePlan DEF NoCriticalFailureYet, StopsExactlyAtCriticalFailure,
                                  ResultIsVerdict, Decided
    <2> QED
      BY <2>2, <2>3, <2>4 DEF RuleInv
  <1>3. CASE MatchNone
    <2>1. /\ UNCHANGED <<body, activeRules, matched, loaded, assigned, ordered, evaluations,
                         faults, edits>>
          /\ stage = "match" /\ stage' = "done" /\ matched = << >> /\ evaluations = << >>
          /\ ordered = << >> /\ assigned = 0
          /\ result'.decision = "INCONCLUSIVE" /\ result'.summaries = << >>
          /\ result' = [decision |-> "INCONCLUSIVE", summaries |-> << >>]
      BY <1>1, <1>3 DEF MatchNone, tadpole, StageShape
    <2>2. << >> \in [DOMAIN matched -> Status]
      BY <2>1
    <2>3. TypeOK'
      BY <1>1, <2>1, <2>2 DEF TypeOK, Stages, Status
    <2>4. StageShape' /\ EvaluationsMatchPlan' /\ NoCriticalFailureYet'
      BY <1>1, <2>1, SamePlan DEF StageShape, NoCriticalFailureYet
    <2>5. StopsExactlyAtCriticalFailure'
      BY <2>1 DEF StopsExactlyAtCriticalFailure
    <2>6. ResultIsVerdict'
      <3>1. << >> \in Seq(Status) /\ "INCONCLUSIVE" \in Status
        BY DEF Status
      <3>2. result' \in [decision : Status, summaries : Seq(Status)]
        BY <2>1, <3>1
      <3>3. result' # None
        BY <3>2, NoneAssumption
      <3> QED
        BY <2>1, <3>3 DEF ResultIsVerdict, Decided
    <2> QED
      BY <2>3, <2>4, <2>5, <2>6 DEF RuleInv
  <1>4. ASSUME NEW found \in (SUBSET Playbooks) \ {{}}, Match(found) PROVE RuleInv'
    <2>1. PICK order \in [1 .. Cardinality(found) -> found] : matched' = order
      BY <1>4 DEF Match
    <2>2. matched' \in Seq(Playbooks) /\ matched' # << >>
      <3>1. found \in SUBSET Playbooks /\ found # {}
        OBVIOUS
      <3>2. order \in Seq(Playbooks) /\ order # << >>
        BY <3>1, CursorType
      <3> QED
        BY <2>1, <3>2
    <2>3. /\ UNCHANGED <<body, activeRules, loaded, assigned, ordered, evaluations,
                         result, faults, edits>>
          /\ stage = "match" /\ stage' = "load" /\ evaluations = << >>
          /\ ordered = << >> /\ assigned = 0 /\ result = None
      BY <1>1, <1>4 DEF Match, StageShape, ResultIsVerdict
    <2>4. TypeOK'
      BY <1>1, <2>2, <2>3 DEF TypeOK, Stages
    <2>5. StageShape'
      BY <2>2, <2>3 DEF StageShape
    <2> QED
      BY <2>3, <2>4, <2>5, NothingEvaluated DEF RuleInv
  <1>5. CASE Load
    <2>1. /\ UNCHANGED <<body, activeRules, matched, assigned, ordered, evaluations,
                         result, faults, edits>>
          /\ loaded' \in SUBSET Rules
          /\ stage = "load" /\ stage' = "assign" /\ evaluations = << >> /\ result = None
      BY <1>1, <1>5 DEF Load, StageShape, ResultIsVerdict, TypeOK
    <2>2. TypeOK' /\ StageShape'
      BY <1>1, <2>1 DEF TypeOK, StageShape, Stages
    <2> QED
      BY <2>1, <2>2, NothingEvaluated DEF RuleInv
  <1>6. CASE LookupFails
    <2>1. /\ UNCHANGED <<body, activeRules, matched, loaded, assigned, ordered, evaluations,
                         result, edits>>
          /\ faults' = faults + 1
          /\ stage' = "failed" /\ evaluations = << >> /\ result = None
      BY <1>1, <1>6 DEF LookupFails, Fault, tadpole, StageShape, ResultIsVerdict
    <2>2. TypeOK' /\ StageShape'
      BY <1>1, <2>1 DEF TypeOK, StageShape, Stages
    <2> QED
      BY <2>1, <2>2, NothingEvaluated DEF RuleInv
  <1>7. CASE Assign
    <2>1. /\ assigned' = assigned + 1
          /\ UNCHANGED <<body, activeRules, stage, matched, loaded, evaluations,
                         result, faults, edits>>
          /\ stage = "assign" /\ assigned < Len(matched)
          /\ evaluations = << >> /\ result = None
      BY <1>1, <1>7 DEF Assign, StageShape, ResultIsVerdict
    <2>pb. PICK pb : pb = matched[assigned + 1]
      OBVIOUS
    <2>2. PICK specs \in SortedSpecs(pb, ActiveRefs(pb)) : ordered' = ordered \o specs
      BY <1>7, <2>pb DEF Assign
    <2>3. pb \in Playbooks /\ ActiveRefs(pb) \in SUBSET DOMAIN Refs(pb)
      BY <1>1, <2>1, <2>pb DEF TypeOK, ActiveRefs
    <2>4. specs \in Seq(RuleSpec)
      BY <2>2, <2>3, SortedSpecsType
    <2>5. TypeOK'
      BY <1>1, <2>1, <2>2, <2>4 DEF TypeOK
    <2>6. StageShape'
      BY <1>1, <2>1 DEF StageShape
    <2> QED
      BY <2>1, <2>5, <2>6, NothingEvaluated DEF RuleInv
  <1>8. CASE SendToDispatcher
    <2>1. /\ UNCHANGED <<body, activeRules, matched, loaded, assigned, ordered, evaluations,
                         result, faults, edits>>
          /\ stage = "assign" /\ stage' = "dispatch" /\ assigned = Len(matched)
          /\ evaluations = << >> /\ result = None
      BY <1>1, <1>8 DEF SendToDispatcher, tadpole, StageShape, ResultIsVerdict
    <2>2. TypeOK' /\ StageShape'
      BY <1>1, <2>1 DEF TypeOK, StageShape, Stages
    <2>3. EvaluationsMatchPlan' /\ NoCriticalFailureYet' /\ StopsExactlyAtCriticalFailure'
      BY <1>1, <2>1, SamePlan DEF NoCriticalFailureYet, StopsExactlyAtCriticalFailure
    <2>4. ResultIsVerdict'
      BY <2>1 DEF ResultIsVerdict, Decided
    <2> QED
      BY <2>2, <2>3, <2>4 DEF RuleInv
  <1>9. CASE Evaluate
    BY <1>1, <1>9, PushStep DEF Evaluate, TypeOK
  <1>10. CASE HandlerFails
    BY <1>1, <1>10, PushStep DEF HandlerFails, Fault, TypeOK
  <1>11. CASE FinishDispatch
    <2>1. /\ UNCHANGED <<body, activeRules, matched, loaded, assigned, ordered, evaluations,
                         result, faults, edits>>
          /\ stage = "dispatch" /\ stage' = "orchestrate"
          /\ Len(evaluations) = Len(ordered) /\ result = None
      BY <1>1, <1>11 DEF FinishDispatch, tadpole, ResultIsVerdict
    <2>2. TypeOK' /\ StageShape'
      BY <1>1, <2>1 DEF TypeOK, StageShape, Stages
    <2>3. EvaluationsMatchPlan' /\ NoCriticalFailureYet'
      BY <1>1, <2>1, SamePlan DEF NoCriticalFailureYet
    <2>4. StopsExactlyAtCriticalFailure'
      BY <1>1, <2>1, SamePlan DEF StopsExactlyAtCriticalFailure, TypeOK
    <2>5. ResultIsVerdict'
      BY <2>1 DEF ResultIsVerdict, Decided
    <2> QED
      BY <2>2, <2>3, <2>4, <2>5 DEF RuleInv
  <1>12. CASE ActorFails
    <2>1. /\ UNCHANGED <<body, activeRules, matched, loaded, assigned, ordered, evaluations,
                         result, edits>>
          /\ faults' = faults + 1 /\ stage' = "failed" /\ result = None
      BY <1>1, <1>12 DEF ActorFails, Fault, tadpole, ResultIsVerdict
    <2>2. TypeOK' /\ StageShape'
      BY <1>1, <2>1 DEF TypeOK, StageShape, Stages
    <2>3. EvaluationsMatchPlan' /\ NoCriticalFailureYet' /\ StopsExactlyAtCriticalFailure'
      BY <1>1, <2>1, SamePlan DEF NoCriticalFailureYet, StopsExactlyAtCriticalFailure
    <2>4. ResultIsVerdict'
      BY <2>1 DEF ResultIsVerdict, Decided
    <2> QED
      BY <2>2, <2>3, <2>4 DEF RuleInv
  <1>13. CASE Orchestrate
    <2>1. /\ UNCHANGED <<body, activeRules, matched, loaded, assigned, ordered, evaluations,
                         faults, edits>>
          /\ stage = "orchestrate" /\ stage' = "done" /\ matched # << >>
          /\ assigned = Len(matched)
      BY <1>1, <1>13 DEF Orchestrate, tadpole, StageShape
    <2>2. PICK verdict : verdict = [i \in DOMAIN matched |->
                                      SummarizePlaybook(EvaluationsOf(matched[i]))]
      OBVIOUS
    <2>3. /\ result' = [decision |-> AggregateDecision(evaluations), summaries |-> verdict]
          /\ verdict \in [DOMAIN matched -> Status]
          /\ AggregateDecision(evaluations) \in Status
      BY <1>13, <2>2, AggregateType DEF Orchestrate
    <2>4. result' # None
      BY <1>1, <2>3, NoneAssumption DEF TypeOK
    <2>5. TypeOK'
      BY <1>1, <2>1, <2>3 DEF TypeOK, Stages
    <2>6. StageShape'
      BY <1>1, <2>1 DEF StageShape
    <2>7. EvaluationsMatchPlan' /\ NoCriticalFailureYet' /\ StopsExactlyAtCriticalFailure'
      BY <1>1, <2>1, SamePlan DEF NoCriticalFailureYet, StopsExactlyAtCriticalFailure
    <2>8. ResultIsVerdict'
      <3>1. \A i \in DOMAIN matched :
               result'.summaries[i] = SummarizePlaybook(EvaluationsOf(matched[i])')
        BY <2>1, <2>2, <2>3, SamePlan
      <3> QED
        BY <2>1, <2>3, <2>4, <3>1 DEF ResultIsVerdict, Decided, EvaluationsOf
    <2> QED
      BY <2>5, <2>6, <2>7, <2>8 DEF RuleInv
  <1>14. CASE UNCHANGED vars
    BY <1>1, <1>14 DEF vars, tadpole, RuleInv, TypeOK, StageShape, EvaluationsMatchPlan, StatusOf,
       NoCriticalFailureYet, StopsExactlyAtCriticalFailure, ResultIsVerdict, Decided,
       ExecutionMode, Critical, EvaluationsOf
  <1> QED
    BY <1>2, <1>3, <1>4, <1>5, <1>6, <1>7, <1>8, <1>9, <1>10, <1>11, <1>12, <1>13, <1>14
       DEF Next

(* RuleInv holds in every reachable state. *)
THEOREM RuleInvariant == Spec => []RuleInv
  <1> QED
    BY RuleInvInit, RuleInvStep, PTL DEF Spec

(* Type correctness, for any library, body, edits and faults: in particular
   the dispatcher never answers with more evaluations than rules. *)
THEOREM RuleTypeCorrect == Spec => []TypeOK
  <1>1. RuleInv => TypeOK
    BY DEF RuleInv
  <1> QED
    BY <1>1, RuleInvariant, PTL

(* The dispatcher's loop ends at the first critical failure of a Fail_First
   run and nowhere else before the last rule. *)
THEOREM StopsExactlyThere == Spec => []StopsExactlyAtCriticalFailure
  <1>1. RuleInv => StopsExactlyAtCriticalFailure
    BY DEF RuleInv
  <1> QED
    BY <1>1, RuleInvariant, PTL

-----------------------------------------------------------------------------
(* What the tadpole consists of.                                           *)

(* SortedSpecs enumerates the references it is given: each one is there, and
   nothing else is.  An increasing enumeration of as many references as there
   are is injective, hence onto. *)
LEMMA SortedSpecsOnto ==
    ASSUME NEW pb \in Playbooks, NEW refs \in SUBSET DOMAIN Refs(pb),
           NEW specs \in SortedSpecs(pb, refs)
    PROVE  /\ \A j \in refs : \E k \in DOMAIN specs : specs[k] = SpecOf(pb, j)
           /\ \A k \in DOMAIN specs : \E j \in refs : specs[k] = SpecOf(pb, j)
  <1>1. PICK p \in [1 .. Cardinality(refs) -> refs] :
            /\ specs = [k \in DOMAIN p |-> SpecOf(pb, p[k])]
            /\ \A j, k \in DOMAIN p : j < k => Before(pb, p[j], p[k])
    BY DEF SortedSpecs
  <1>2. \A i \in DOMAIN Refs(pb) : ~ Before(pb, i, i)
    <2> SUFFICES ASSUME NEW i \in DOMAIN Refs(pb) PROVE ~ Before(pb, i, i)
      OBVIOUS
    <2>1. Refs(pb)[i] \in RuleRef /\ i \in Int
      BY RefsType
    <2>2. Refs(pb)[i].seq \in Int
      BY <2>1 DEF RuleRef
    <2> QED
      BY <2>1, <2>2 DEF Before
  <1>3. \A j, k \in DOMAIN p : j # k => p[j] # p[k]
    <2> SUFFICES ASSUME NEW j \in DOMAIN p, NEW k \in DOMAIN p, j # k, p[j] = p[k]
                 PROVE  FALSE
      OBVIOUS
    <2>1. DOMAIN p = 1 .. Cardinality(refs) /\ p[j] \in DOMAIN Refs(pb)
      BY <1>1
    <2>2. j < k \/ k < j
      BY <2>1, FiniteRefs
    <2> QED
      BY <1>1, <1>2, <2>1, <2>2
  <1>4. p \in Surjection(1 .. Cardinality(refs), refs)
    <2>1. IsFiniteSet(1 .. Cardinality(refs)) /\ IsFiniteSet(refs)
      BY FiniteRefs, FS_Interval
    <2>2. Cardinality(1 .. Cardinality(refs)) = Cardinality(refs)
      <3>1. PICK c \in Nat : c = Cardinality(refs)
        BY FiniteRefs
      <3>2. Cardinality(1 .. c) = IF 1 > c THEN 0 ELSE c - 1 + 1
        BY FS_Interval
      <3> QED
        BY <3>1, <3>2
    <2>3. p \in Injection(1 .. Cardinality(refs), refs)
      BY <1>3 DEF Injection, IsInjective
    <2> QED
      BY <2>1, <2>2, <2>3, FS_Injection
  <1>5. \A j \in refs : \E k \in 1 .. Cardinality(refs) : p[k] = j
    BY <1>4 DEF Surjection
  <1> QED
    BY <1>1, <1>5

(* Each ordered rule is an active reference of a playbook already assigned,
   and each active reference of such a playbook is an ordered rule. *)
TadpoleIsPlan ==
    /\ \A n \in DOMAIN ordered : \E i \in 1 .. assigned : ordered[n].playbook = matched[i]
    /\ \A i \in 1 .. assigned : \A j \in DOMAIN Refs(matched[i]) :
          Refs(matched[i])[j].rule \in loaded =>
              \E n \in DOMAIN ordered : ordered[n] = SpecOf(matched[i], j)

(* An event arrives without a tadpole. *)
LEMMA TadpoleInit == Init => TadpoleIsPlan
  BY DEF Init, TadpoleIsPlan

(* One turn of the loop over the matched playbooks adds exactly the active
   references of the next playbook. *)
LEMMA AssignStep ==
    ASSUME RuleInv, TadpoleIsPlan, Assign
    PROVE  TadpoleIsPlan'
  <1>1. TypeOK /\ StageShape
    BY DEF RuleInv
  <1>2. PICK a \in Nat : a = assigned
    BY <1>1 DEF TypeOK
  <1>3. PICK pb \in Playbooks : pb = matched[a + 1]
    BY <1>1, <1>2 DEF Assign, TypeOK
  <1>4. PICK specs \in SortedSpecs(pb, ActiveRefs(pb)) : ordered' = ordered \o specs
    BY <1>2, <1>3 DEF Assign
  <1>5. ActiveRefs(pb) \in SUBSET DOMAIN Refs(pb)
    BY DEF ActiveRefs
  <1>6. /\ specs \in Seq(RuleSpec) /\ ordered \in Seq(RuleSpec)
        /\ \A j \in ActiveRefs(pb) : \E k \in DOMAIN specs : specs[k] = SpecOf(pb, j)
        /\ \A k \in DOMAIN specs : \E j \in ActiveRefs(pb) : specs[k] = SpecOf(pb, j)
    BY <1>1, <1>5, SortedSpecsType, SortedSpecsOnto DEF TypeOK
  <1>7. PICK old \in Seq(RuleSpec) : old = ordered
    BY <1>6
  <1>8. assigned' = a + 1 /\ matched' = matched /\ loaded' = loaded
    BY <1>2 DEF Assign
  <1>9. /\ \A n \in DOMAIN (old \o specs) :
              \/ n \in DOMAIN old /\ (old \o specs)[n] = old[n]
              \/ \E k \in DOMAIN specs : (old \o specs)[n] = specs[k]
        /\ \A n \in DOMAIN old : n \in DOMAIN (old \o specs) /\ (old \o specs)[n] = old[n]
        /\ \A k \in DOMAIN specs : \E n \in DOMAIN (old \o specs) : (old \o specs)[n] = specs[k]
    <2>1. /\ DOMAIN old = 1 .. Len(old) /\ DOMAIN specs = 1 .. Len(specs)
          /\ Len(old) \in Nat /\ Len(specs) \in Nat
          /\ DOMAIN (old \o specs) = 1 .. (Len(old) + Len(specs))
      BY <1>6
    <2>2. ASSUME NEW n \in DOMAIN (old \o specs)
          PROVE  \/ n \in DOMAIN old /\ (old \o specs)[n] = old[n]
                 \/ \E k \in DOMAIN specs : (old \o specs)[n] = specs[k]
      <3>1. CASE n <= Len(old)
        BY <1>6, <2>1, <3>1
      <3>2. CASE n > Len(old)
        <4>1. n - Len(old) \in DOMAIN specs /\ (old \o specs)[n] = specs[n - Len(old)]
          BY <1>6, <2>1, <3>2
        <4> QED
          BY <4>1
      <3> QED
        BY <2>1, <3>1, <3>2
    <2>3. ASSUME NEW k \in DOMAIN specs
          PROVE  \E n \in DOMAIN (old \o specs) : (old \o specs)[n] = specs[k]
      <3>1. /\ Len(old) + k \in DOMAIN (old \o specs)
            /\ (old \o specs)[Len(old) + k] = specs[k]
        BY <1>6, <2>1
      <3> QED
        BY <3>1
    <2>4. \A n \in DOMAIN old : n \in DOMAIN (old \o specs) /\ (old \o specs)[n] = old[n]
      BY <1>6, <2>1
    <2> QED
      BY <2>2, <2>3, <2>4
  <1>10. 1 .. (a + 1) = (1 .. a) \cup {a + 1}
    BY <1>2
  <1>11. \A n \in DOMAIN ordered' : \E i \in 1 .. (a + 1) : ordered'[n].playbook = matched[i]
    <2> SUFFICES ASSUME NEW n \in DOMAIN (old \o specs)
                 PROVE  \E i \in 1 .. (a + 1) : (old \o specs)[n].playbook = matched[i]
      BY <1>4, <1>7
    <2>1. CASE n \in DOMAIN old /\ (old \o specs)[n] = old[n]
      BY <1>2, <1>7, <1>10, <2>1 DEF TadpoleIsPlan
    <2>2. CASE \E k \in DOMAIN specs : (old \o specs)[n] = specs[k]
      BY <1>3, <1>6, <1>10, <2>2 DEF SpecOf
    <2> QED
      BY <1>9, <2>1, <2>2
  <1>12. ASSUME NEW i \in 1 .. (a + 1), NEW j \in DOMAIN Refs(matched[i]),
                Refs(matched[i])[j].rule \in loaded
         PROVE  \E n \in DOMAIN ordered' : ordered'[n] = SpecOf(matched[i], j)
    <2>1. CASE i \in 1 .. a
      <3>1. PICK n \in DOMAIN old : old[n] = SpecOf(matched[i], j)
        BY <1>2, <1>7, <1>12, <2>1 DEF TadpoleIsPlan
      <3>2. n \in DOMAIN (old \o specs) /\ (old \o specs)[n] = old[n]
        BY <1>9
      <3> QED
        BY <1>4, <1>7, <3>1, <3>2
    <2>2. CASE i = a + 1
      <3>1. j \in ActiveRefs(pb)
        BY <1>3, <1>12, <2>2 DEF ActiveRefs
      <3>2. PICK k \in DOMAIN specs : specs[k] = SpecOf(pb, j)
        BY <1>6, <3>1
      <3>3. \E n \in DOMAIN (old \o specs) : (old \o specs)[n] = specs[k]
        BY <1>9
      <3> QED
        BY <1>3, <1>4, <1>7, <2>2, <3>2, <3>3
    <2> QED
      BY <1>10, <2>1, <2>2
  <1> QED
    BY <1>8, <1>11, <1>12 DEF TadpoleIsPlan, Refs

(* No other step changes what the ordered rules stand for. *)
LEMMA TadpoleStep == RuleInv /\ TadpoleIsPlan /\ [Next]_vars => TadpoleIsPlan'
  <1> SUFFICES ASSUME RuleInv, TadpoleIsPlan, [Next]_vars PROVE TadpoleIsPlan'
    OBVIOUS
  <1>1. TypeOK /\ StageShape
    BY DEF RuleInv
  <1>2. CASE \E found \in (SUBSET Playbooks) \ {{}} : Match(found)
    <2>1. assigned' = 0 /\ ordered' = << >>
      BY <1>1, <1>2 DEF Match, StageShape
    <2> QED
      BY <2>1 DEF TadpoleIsPlan
  <1>3. CASE Load
    <2>1. assigned' = 0 /\ ordered' = << >>
      BY <1>1, <1>3 DEF Load, StageShape
    <2> QED
      BY <2>1 DEF TadpoleIsPlan
  <1>4. CASE Assign
    BY <1>4, AssignStep
  <1>5. ASSUME UNCHANGED <<matched, loaded, assigned, ordered>> PROVE TadpoleIsPlan'
    BY <1>5 DEF TadpoleIsPlan, Refs, SpecOf
  <1> QED
    BY <1>2, <1>3, <1>4, <1>5 DEF Next, vars, tadpole, Edit, MatchNone, LookupFails,
       SendToDispatcher, Evaluate, HandlerFails, Push, FinishDispatch, ActorFails, Orchestrate

(* The tadpole holds the active references of the playbooks it has been
   assigned, no more and no less, although rules change meanwhile. *)
THEOREM TadpoleInvariant == Spec => []TadpoleIsPlan
  <1> QED
    BY TadpoleInit, TadpoleStep, RuleInvariant, PTL DEF Spec

-----------------------------------------------------------------------------
(* What the decision means.                                                *)

(* Once a run is decided, its evaluations are those of every ordered rule, or
   end with a failure. *)
LEMMA NothingSkippedSilently ==
    ASSUME RuleInv, Decided
    PROVE  \/ DOMAIN evaluations = DOMAIN ordered
           \/ \E n \in DOMAIN evaluations : evaluations[n].status = "FAIL"
  <1>1. /\ TypeOK /\ StopsExactlyAtCriticalFailure /\ stage = "done"
    BY DEF RuleInv, ResultIsVerdict, Decided
  <1>2. CASE Len(evaluations) < Len(ordered)
    <2>1. evaluations # << >> /\ Critical(Len(evaluations))
      BY <1>1, <1>2 DEF StopsExactlyAtCriticalFailure
    <2>2. Len(evaluations) \in DOMAIN evaluations
      BY <1>1, <2>1 DEF TypeOK
    <2> QED
      BY <2>1, <2>2 DEF Critical
  <1>3. CASE ~ (Len(evaluations) < Len(ordered))
    BY <1>1, <1>3 DEF TypeOK
  <1> QED
    BY <1>2, <1>3

(* A PASS means that every active rule of every matched playbook was evaluated
   for that playbook and passed. *)
THEOREM PassesAreEarned == Spec => []PassIsEarned
  <1>1. RuleInv /\ TadpoleIsPlan => PassIsEarned
    <2> SUFFICES ASSUME RuleInv, TadpoleIsPlan, Decided, result.decision = "PASS",
                        NEW i \in DOMAIN matched, NEW j \in DOMAIN Refs(matched[i]),
                        Refs(matched[i])[j].rule \in loaded
                 PROVE  \E n \in DOMAIN evaluations :
                           /\ evaluations[n].playbook = matched[i]
                           /\ evaluations[n].rule = Refs(matched[i])[j].rule
                           /\ evaluations[n].status = "PASS"
      BY DEF PassIsEarned
    <2>1. /\ TypeOK /\ StageShape /\ EvaluationsMatchPlan
          /\ result.decision = AggregateDecision(evaluations) /\ stage = "done"
      BY DEF RuleInv, ResultIsVerdict, Decided
    <2>2. \A n \in DOMAIN evaluations : evaluations[n].status = "PASS"
      <3>0. \A n \in DOMAIN evaluations : evaluations[n] \in Evaluation
        BY <2>1 DEF TypeOK
      <3>1. \A n \in DOMAIN evaluations : evaluations[n].status \in Status
        BY <3>0 DEF Evaluation
      <3> QED
        BY <2>1, <3>1 DEF AggregateDecision, Saw, Status
    <2>3. DOMAIN evaluations = DOMAIN ordered
      BY <2>2, NothingSkippedSilently
    <2>4. i \in 1 .. assigned
      BY <2>1 DEF TypeOK, StageShape, Decided
    <2>5. PICK n \in DOMAIN ordered : ordered[n] = SpecOf(matched[i], j)
      BY <2>4 DEF TadpoleIsPlan
    <2> QED
      BY <2>1, <2>2, <2>3, <2>5 DEF EvaluationsMatchPlan, SpecOf
  <1> QED
    BY <1>1, RuleInvariant, TadpoleInvariant, PTL

(* The decision is the worst of the summaries of the playbooks that had a rule
   evaluated, and one of them. *)
THEOREM DecisionIsWorstSummary == Spec => []DecisionAgreesWithSummaries
  <1>1. RuleInv /\ TadpoleIsPlan => DecisionAgreesWithSummaries
    <2> SUFFICES ASSUME RuleInv, TadpoleIsPlan, Decided
                 PROVE  DecisionAgreesWithSummaries
      BY DEF DecisionAgreesWithSummaries
    <2> DEFINE mine(i) == EvaluationsOf(matched[i])
    <2>1. /\ TypeOK /\ StageShape /\ EvaluationsMatchPlan /\ stage = "done"
          /\ result.decision = AggregateDecision(evaluations)
          /\ \A i \in DOMAIN matched : result.summaries[i] = SummarizePlaybook(mine(i))
      BY DEF RuleInv, ResultIsVerdict, Decided
    <2>2. \A i \in DOMAIN matched :
             Judged(i) => result.summaries[i] = AggregateDecision(mine(i))
      BY <2>1 DEF Judged, SummarizePlaybook
    <2>3. \A i \in DOMAIN matched, s \in Status : Saw(mine(i), s) => Saw(evaluations, s)
      BY DEF Saw, EvaluationsOf
    <2>4. \A n \in DOMAIN evaluations : \E i \in DOMAIN matched :
             evaluations[n].playbook = matched[i]
      <3>1. DOMAIN evaluations \subseteq DOMAIN ordered /\ 1 .. assigned \subseteq DOMAIN matched
        BY <2>1 DEF TypeOK
      <3> QED
        BY <2>1, <3>1 DEF TadpoleIsPlan, EvaluationsMatchPlan
    <2>5. \A n \in DOMAIN evaluations : \E i \in DOMAIN matched :
             Judged(i) /\ Saw(mine(i), evaluations[n].status)
      <3> SUFFICES ASSUME NEW n \in DOMAIN evaluations
                   PROVE  \E i \in DOMAIN matched : Judged(i) /\ Saw(mine(i), evaluations[n].status)
        OBVIOUS
      <3>1. PICK i \in DOMAIN matched : evaluations[n].playbook = matched[i]
        BY <2>4
      <3>2. n \in DOMAIN mine(i) /\ mine(i)[n] = evaluations[n]
        BY <3>1 DEF EvaluationsOf
      <3>3. mine(i) # << >>
        BY <3>2
      <3> QED
        BY <3>2, <3>3 DEF Judged, Saw
    <2>6. ASSUME NEW i \in DOMAIN matched, Judged(i)
          PROVE  Rank(result.decision) <= Rank(result.summaries[i])
      <3>1. \A s \in Status : Saw(mine(i), s) => Saw(evaluations, s)
        BY <2>3
      <3> QED
        BY <2>1, <2>2, <2>6, <3>1 DEF AggregateDecision, Rank, Status
    <2>7. ASSUME NEW i \in DOMAIN matched, Judged(i)
          PROVE  \E j \in DOMAIN matched : Judged(j) /\ result.decision = result.summaries[j]
      <3>1. CASE \E n \in DOMAIN evaluations : evaluations[n].status = result.decision
        <4>1. PICK n \in DOMAIN evaluations : evaluations[n].status = result.decision
          BY <3>1
        <4>2. PICK j \in DOMAIN matched : Judged(j) /\ Saw(mine(j), result.decision)
          BY <2>5, <4>1
        <4>3. \A s \in Status : Saw(mine(j), s) => Saw(evaluations, s)
          BY <2>3
        <4>4. result.decision = AggregateDecision(mine(j))
          BY <2>1, <4>2, <4>3 DEF AggregateDecision, Status
        <4> QED
          BY <2>2, <4>2, <4>4
      <3>2. CASE \A n \in DOMAIN evaluations : evaluations[n].status # result.decision
        <4>1. ~ Saw(evaluations, "FAIL") /\ ~ Saw(evaluations, "INCONCLUSIVE")
          BY <2>1, <3>2 DEF AggregateDecision, Saw
        <4>2. ~ Saw(mine(i), "FAIL") /\ ~ Saw(mine(i), "INCONCLUSIVE")
          BY <2>3, <4>1 DEF Status
        <4> QED
          BY <2>1, <2>2, <2>7, <4>1, <4>2 DEF AggregateDecision
      <3> QED
        BY <3>1, <3>2
    <2> QED
      BY <2>6, <2>7 DEF DecisionAgreesWithSummaries
  <1> QED
    BY <1>1, RuleInvariant, TadpoleInvariant, PTL

-----------------------------------------------------------------------------
(* Refinement of RuleVerdict.                                              *)

(* A run that is neither done nor failed has no outcome. *)
LEMMA NoOutcomeYet ==
    ASSUME stage \notin {"done", "failed"}
    PROVE  Outcome = None
  BY DEF Outcome

(* The plan of a run whose rules are ordered is a plan of RuleVerdict. *)
LEMMA PlanType ==
    ASSUME TypeOK
    PROVE  /\ Plan \in [jobs : Seq(Verdict!Job), failFirst : BOOLEAN]
           /\ Plan # None
  <1>1. \A i \in DOMAIN ordered : ordered[i] \in RuleSpec
    BY DEF TypeOK
  <1>2. \A i \in DOMAIN ordered :
           [critical |-> ordered[i].critical, status |-> StatusOf(ordered[i].rule)]
               \in [critical : BOOLEAN, status : Status]
    BY <1>1, RuleStatusType DEF RuleSpec, StatusOf
  <1>3. DOMAIN ordered = 1 .. Len(ordered) /\ Len(ordered) \in Nat
    BY DEF TypeOK
  <1>4. Plan \in [jobs : Seq([critical : BOOLEAN, status : Status]), failFirst : BOOLEAN]
    BY <1>2, <1>3 DEF Plan
  <1> QED
    BY <1>4, NoneAssumption DEF Verdict!Job, Verdict!Status, Status

(* The orchestrator's answer is the verdict on the plan: the jobs that ran are
   those RuleVerdict says, and the decision is the worst of what they said. *)
LEMMA OrchestrateDecides ==
    ASSUME RuleInv, Orchestrate
    PROVE  Verdict!Decide
  <1>1. /\ TypeOK /\ StageShape /\ EvaluationsMatchPlan /\ StopsExactlyAtCriticalFailure
        /\ stage = "orchestrate"
    BY DEF RuleInv, Orchestrate
  <1>2. /\ stage' = "done" /\ result'.decision = AggregateDecision(evaluations)
        /\ UNCHANGED <<body, activeRules, tadpole, faults, edits>>
    BY DEF Orchestrate
  <1>3. /\ Planned /\ Planned'
    BY <1>1, <1>2 DEF StageShape, Planned, tadpole
  <1>4. /\ PlanSoFar = Plan /\ PlanSoFar' = Plan /\ Plan # None /\ Outcome = None
        /\ Outcome' = [decision |-> AggregateDecision(evaluations), ran |-> DOMAIN evaluations]
    BY <1>1, <1>2, <1>3, PlanType, NoOutcomeYet
       DEF PlanSoFar, Plan, Outcome, tadpole, StatusOf, ExecutionMode
  <1>5. PICK silent : silent = {i \in DOMAIN evaluations :
                                  evaluations[i].status # StatusOf(ordered[i].rule)}
    OBVIOUS
  <1>6. /\ DOMAIN evaluations \subseteq DOMAIN Plan.jobs /\ DOMAIN Plan.jobs = DOMAIN ordered
        /\ DOMAIN ordered = 1 .. Len(ordered) /\ DOMAIN evaluations = 1 .. Len(evaluations)
        /\ Len(ordered) \in Nat /\ Len(evaluations) \in Nat
    BY <1>1 DEF Plan, TypeOK
  <1>7. \A i \in DOMAIN evaluations :
           /\ Verdict!Said(Plan.jobs[i], i \in silent) = evaluations[i].status
           /\ Plan.jobs[i].critical = evaluations[i].critical
    BY <1>1, <1>5, <1>6 DEF Verdict!Said, Plan, EvaluationsMatchPlan
  <1>8. Verdict!Ran(Plan, silent) = DOMAIN evaluations
    <2> DEFINE stops(j) == /\ Plan.failFirst /\ Plan.jobs[j].critical
                           /\ Verdict!Said(Plan.jobs[j], j \in silent) = "FAIL"
    <2>1. Verdict!Ran(Plan, silent) =
             {i \in DOMAIN ordered : \A j \in DOMAIN ordered : j < i => ~ stops(j)}
      BY <1>6 DEF Verdict!Ran
    <2>2. \A j \in DOMAIN evaluations :
             stops(j) <=> ExecutionMode = "Fail_First" /\ Critical(j)
      BY <1>7 DEF Critical, Plan
    <2>3. ASSUME NEW i \in DOMAIN evaluations, NEW j \in DOMAIN ordered, j < i
          PROVE  ~ stops(j)
      <3>1. j \in DOMAIN evaluations /\ j # Len(evaluations)
        BY <1>6, <2>3
      <3> QED
        BY <1>1, <2>2, <3>1 DEF StopsExactlyAtCriticalFailure
    <2>4. ASSUME NEW i \in DOMAIN ordered, i \notin DOMAIN evaluations
          PROVE  \E j \in DOMAIN ordered : j < i /\ stops(j)
      <3>1. Len(evaluations) < Len(ordered) /\ Len(evaluations) < i
        BY <1>6, <2>4
      <3>2. /\ ExecutionMode = "Fail_First" /\ evaluations # << >>
            /\ Critical(Len(evaluations))
        BY <1>1, <3>1 DEF StopsExactlyAtCriticalFailure
      <3>3. Len(evaluations) \in DOMAIN evaluations
        BY <1>1, <1>6, <3>2 DEF TypeOK
      <3> QED
        BY <1>6, <2>2, <3>1, <3>2, <3>3
    <2> HIDE DEF stops
    <2> QED
      BY <1>6, <2>1, <2>3, <2>4
  <1>9. PICK said : said = {Verdict!Said(Plan.jobs[i], i \in silent) : i \in DOMAIN evaluations}
    OBVIOUS
  <1>10. \A s : s \in said <=> Saw(evaluations, s)
    BY <1>7, <1>9 DEF Saw
  <1>11. Verdict!Worst(said) = AggregateDecision(evaluations)
    BY <1>10 DEF Verdict!Worst, AggregateDecision
  <1>12. silent \in SUBSET DOMAIN Plan.jobs
    BY <1>5, <1>6
  <1> QED
    BY <1>4, <1>8, <1>9, <1>11, <1>12 DEF Verdict!Decide

(* Every step of the engine is a step of RuleVerdict or leaves the plan and the
   outcome alone. *)
LEMMA VerdictStep ==
    RuleInv /\ RuleInv' /\ [Next]_vars => [Verdict!Next]_<<PlanSoFar, Outcome>>
  <1> SUFFICES ASSUME RuleInv, RuleInv', [Next]_vars
               PROVE  [Verdict!Next]_<<PlanSoFar, Outcome>>
    OBVIOUS
  <1>1. TypeOK /\ StageShape /\ TypeOK' /\ StageShape'
    BY DEF RuleInv
  <1>2. ASSUME stage \in {"match", "load", "assign"} PROVE PlanSoFar = None
    BY <1>2 DEF PlanSoFar, Planned
  <1>3. ASSUME stage' \in {"match", "load", "assign"} PROVE PlanSoFar' = None
    BY <1>3 DEF PlanSoFar, Planned
  <1>4. ASSUME stage' \notin {"done", "failed"} PROVE Outcome' = None
    BY <1>4 DEF Outcome
  <1>5. ASSUME UNCHANGED <<body, matched, assigned, ordered, evaluations>>,
               (stage \in {"match", "load", "assign"}) <=> (stage' \in {"match", "load", "assign"})
        PROVE  UNCHANGED PlanSoFar
    BY <1>5 DEF PlanSoFar, Planned, Plan, StatusOf, ExecutionMode
  <1>6. ASSUME NEW r \in Rules, Edit(r) PROVE UNCHANGED <<PlanSoFar, Outcome>>
    BY <1>5, <1>6 DEF Edit, tadpole, Outcome
  <1>7. CASE MatchNone
    <2>1. stage = "match" /\ matched' = << >> /\ evaluations' = << >>
      BY <1>1, <1>7 DEF MatchNone, tadpole, StageShape
    <2>2. Outcome' = [decision |-> "INCONCLUSIVE", ran |-> {}]
      BY <1>7, <2>1 DEF MatchNone, Outcome
    <2>3. PlanSoFar = None /\ PlanSoFar' = None
      BY <1>2, <2>1 DEF PlanSoFar, Planned
    <2> QED
      BY <2>1, <2>2, <2>3, NoOutcomeYet DEF Verdict!Next, Verdict!Decline
  <1>8. ASSUME NEW found \in (SUBSET Playbooks) \ {{}}, Match(found)
        PROVE  UNCHANGED <<PlanSoFar, Outcome>>
    BY <1>2, <1>3, <1>4, <1>8, NoOutcomeYet DEF Match
  <1>9. CASE Load
    BY <1>2, <1>3, <1>4, <1>9, NoOutcomeYet DEF Load
  <1>10. CASE LookupFails
    <2>1. stage \in {"match", "load"} /\ Outcome' = [decision |-> "failed", ran |-> {}]
      BY <1>10 DEF LookupFails, Outcome
    <2>2. matched' # << >> => assigned' # Len(matched')
      <3>1. /\ matched' = matched /\ assigned' = assigned
            /\ assigned = 0 /\ matched \in Seq(Playbooks)
        BY <1>1, <1>10 DEF LookupFails, tadpole, StageShape, TypeOK
      <3> QED
        BY <3>1
    <2>3. PlanSoFar = None /\ PlanSoFar' = None
      BY <1>2, <2>1, <2>2 DEF PlanSoFar, Planned
    <2> QED
      BY <2>1, <2>3, NoOutcomeYet DEF Verdict!Next, Verdict!Fail
  <1>11. CASE Assign
    BY <1>2, <1>3, <1>4, <1>11, NoOutcomeYet DEF Assign
  <1>12. CASE SendToDispatcher
    <2>1. /\ stage = "assign" /\ stage' = "dispatch" /\ assigned' = Len(matched')
          /\ matched' # << >>
      BY <1>1, <1>12 DEF SendToDispatcher, StageShape, tadpole
    <2>2. PlanSoFar' = Plan'
      BY <2>1 DEF PlanSoFar, Planned
    <2>3. Plan' = Plan
      BY <1>12 DEF SendToDispatcher, tadpole, Plan, StatusOf, ExecutionMode
    <2>4. Plan \in [jobs : Seq(Verdict!Job), failFirst : BOOLEAN]
      BY <1>1, PlanType
    <2> QED
      BY <1>2, <1>4, <2>1, <2>2, <2>3, <2>4, NoOutcomeYet DEF Verdict!Next, Verdict!Prepare
  <1>13. ASSUME CanEvaluate, NEW status, Push(status)
         PROVE  UNCHANGED <<PlanSoFar, Outcome>>
    <2>1. /\ stage = "dispatch" /\ stage' \in {"dispatch", "orchestrate"}
          /\ UNCHANGED <<body, matched, assigned, ordered>>
      BY <1>13 DEF CanEvaluate, Push
    <2>2. UNCHANGED PlanSoFar
      BY <2>1 DEF PlanSoFar, Planned, Plan, StatusOf, ExecutionMode
    <2> QED
      BY <1>4, <2>1, <2>2, NoOutcomeYet
  <1>14. CASE FinishDispatch
    BY <1>4, <1>5, <1>14, NoOutcomeYet DEF FinishDispatch, tadpole
  <1>15. CASE ActorFails
    <2>1. UNCHANGED PlanSoFar
      BY <1>5, <1>15 DEF ActorFails, tadpole
    <2> QED
      BY <1>15, <2>1, NoOutcomeYet DEF ActorFails, Outcome, Verdict!Next, Verdict!Fail
  <1>16. CASE Orchestrate
    BY <1>16, OrchestrateDecides DEF Verdict!Next
  <1>17. CASE UNCHANGED vars
    BY <1>5, <1>17 DEF vars, tadpole, Outcome
  <1> QED
    BY <1>6, <1>7, <1>8, <1>9, <1>10, <1>11, <1>12, <1>13, <1>14, <1>15, <1>16, <1>17
       DEF Next, Evaluate, HandlerFails

(* The lookups, the dispatcher's loop and the orchestrator implement the
   one-step verdict, whatever edits and faults fall between them. *)
THEOREM EngineImplementsVerdict == Spec => ImplementsVerdict
  <1>1. Init => Verdict!Init
    BY NoOutcomeYet DEF Init, Verdict!Init, PlanSoFar, Planned
  <1> QED
    BY <1>1, VerdictStep, RuleInvariant, PTL DEF Spec, ImplementsVerdict, Verdict!Spec

=============================================================================
