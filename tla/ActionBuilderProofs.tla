------------------------ MODULE ActionBuilderProofs ------------------------
(***************************************************************************)
(* Proofs about ActionBuilder, for any set of workers, events, rules and   *)
(* templates and any number of runs, faults and crashes: its types, the    *)
(* keys of its actions, what it publishes and what its top-up covers.      *)
(***************************************************************************)
EXTENDS ActionBuilder, SequenceFacts

-----------------------------------------------------------------------------
(* The operators a run is built from return what their callers expect.     *)

(* The evaluations of an event are records of known playbooks, rules and
   templates. *)
LEMMA EvalsType ==
    ASSUME NEW e \in Events, NEW i \in DOMAIN Evals(e)
    PROVE  /\ i \in Nat
           /\ Evals(e)[i].playbook \in Playbooks
           /\ Evals(e)[i].rule \in Rules
           /\ Evals(e)[i].template \in Templates \cup {None}
  <1>1. Evals(e) \in Seq(Evaluation)
    BY ConstantsAssumption DEF Evals
  <1>2. i \in Nat /\ Evals(e)[i] \in Evaluation
    BY <1>1
  <1> QED
    BY <1>2 DEF Evaluation

(* find_first_rule_for_playbook answers with a rule or with none. *)
LEMMA FirstRuleType ==
    ASSUME NEW e \in Events, NEW pb
    PROVE  FirstRule(e, pb) \in Rules \cup {None}
  <1> DEFINE hits == {i \in DOMAIN Evals(e) : /\ Evals(e)[i].playbook = pb
                                              /\ Evals(e)[i].status = Decision(e)}
             first == {i \in hits : \A j \in hits : i <= j}
  <1>1. first \subseteq DOMAIN Evals(e)
    OBVIOUS
  <1>2. CASE first = {}
    BY <1>2 DEF FirstRule
  <1>3. CASE first # {}
    <2>1. (CHOOSE i \in first : TRUE) \in DOMAIN Evals(e)
      BY <1>1, <1>3
    <2>2. Evals(e)[CHOOSE i \in first : TRUE].rule \in Rules
      BY <2>1, EvalsType
    <2> QED
      BY <1>3, <2>2 DEF FirstRule
  <1> QED
    BY <1>2, <1>3

(* resolve_playbook_ids answers with playbooks. *)
LEMMA PlaybooksType ==
    ASSUME NEW e \in Events, NEW t \in Templates
    PROVE  ResolvePlaybooks(e, t) \subseteq Playbooks
  <1>1. TemplateInfo[t] \in TemplateRecord /\ MatchedPlaybooks[e] \subseteq Playbooks
    BY ConstantsAssumption
  <1>2. \A i \in DOMAIN Evals(e) : Evals(e)[i].playbook \in Playbooks
    BY EvalsType
  <1> QED
    BY <1>1, <1>2 DEF ResolvePlaybooks, TemplateRecord

(* Whichever call runs, what it may create is well formed. *)
LEMMA CandidatesType ==
    ASSUME NEW r, r.event \in Events, r.stage \in CallStages, NEW loaded
    PROVE  CandidatesOf(r, loaded) \subseteq CandidateType
  <1> DEFINE e == r.event
  <1>1. BindingCandidates(e, loaded) \subseteq CandidateType
    BY EvalsType DEF BindingCandidates, Bound, Failing, Candidate, CandidateType
  <1>2. TemplateCandidates(e) \subseteq CandidateType
    <2>1. Triggered(e) \subseteq Templates
      BY ConstantsAssumption DEF Triggered
    <2>2. ASSUME NEW t \in Triggered(e), NEW pb \in ResolvePlaybooks(e, t)
          PROVE  Candidate(0, pb, FirstRule(e, pb), t) \in CandidateType
      BY <2>1, PlaybooksType, FirstRuleType DEF Candidate, CandidateType
    <2> QED
      BY <2>2 DEF TemplateCandidates
  <1>3. \A covered : ReviewCandidates(e, covered) \subseteq CandidateType
    BY EvalsType DEF ReviewCandidates, Failing, Candidate, CandidateType
  <1> QED
    BY <1>1, <1>2, <1>3 DEF CandidatesOf, CallStages

(* A call that returns leaves a run that waits for the next call or for the
   publish, and that lost nothing but what an error dropped. *)
LEMMA EndedType ==
    ASSUME NEW r \in RunType, NEW ok \in BOOLEAN
    PROVE  /\ Ended(r, ok) \in RunType
           /\ Ended(r, ok).event = r.event
           /\ Ended(r, ok).stage = NextStage(r, ok)
           /\ Ended(r, ok).phase = "lookup"
           /\ Ended(r, ok).fresh = {}
           /\ Ended(r, ok).created \subseteq r.created \cup r.fresh
           /\ Ended(r, ok).stage \in Stages \ {"idle", "bindings"}
  <1>1. NextStage(r, ok) \in Stages \ {"idle", "bindings"}
    BY DEF NextStage, Stages, CallStages
  <1>2. /\ "lookup" \in Phases
        /\ (IF ok THEN r.created \cup r.fresh ELSE r.created) \in SUBSET Nat
        /\ (r.bindErr \/ (r.stage = "bindings" /\ ~ok)) \in BOOLEAN
        /\ (r.stage = "topUp" /\ ok) \in BOOLEAN
    BY DEF Phases, RunType
  <1>3. Ended(r, ok) \in RunType
    BY <1>1, <1>2 DEF Ended, RunType
  <1>4. /\ Ended(r, ok).event = r.event
        /\ Ended(r, ok).stage = NextStage(r, ok)
        /\ Ended(r, ok).phase = "lookup"
        /\ Ended(r, ok).fresh = {}
        /\ Ended(r, ok).created \subseteq r.created \cup r.fresh
    BY DEF Ended, RunType
  <1> QED
    BY <1>1, <1>3, <1>4

-----------------------------------------------------------------------------
(* Type correctness.                                                       *)

(* What TypeOK says of one run when the store holds n actions. *)
RunOK(r, n) ==
    /\ r \in RunType
    /\ r.stage # "idle" => r.event \in Events
    /\ r.fresh \cup r.created \subseteq 1 .. n
    /\ (r.stage \in CallStages /\ r.phase = "insert") => r.cur \in CandidateType
    /\ (r.stage \in CallStages /\ r.phase = "route") => r.id \in 1 .. n

(* TypeOK, one run at a time. *)
LEMMA TypeParts ==
    TypeOK <=> /\ actions \in Seq(ActionType)
               /\ feed \in Seq(SUBSET (1 .. Len(actions)))
               /\ begun \in Nat /\ faults \in Nat /\ crashes \in Nat
               /\ overlapped \in SUBSET Objects
               /\ run \in [Workers -> RunType]
               /\ \A w \in Workers : RunOK(run[w], Len(actions))
  BY DEF TypeOK, RunOK, Active, InCall

(* An idle run is well formed, whatever the store holds. *)
LEMMA IdleOK ==
    ASSUME NEW n \in Nat
    PROVE  IdleRun \in RunType /\ RunOK(IdleRun, n)
  BY DEF IdleRun, RunType, RunOK, Stages, Phases, CallStages

(* So is a run whose call has returned. *)
LEMMA EndedOK ==
    ASSUME NEW r, NEW n \in Nat, RunOK(r, n), r.stage # "idle", NEW ok \in BOOLEAN
    PROVE  Ended(r, ok) \in RunType /\ RunOK(Ended(r, ok), n)
  BY EndedType DEF RunOK

(* An update of one run that keeps RunOK, while the store does not shrink. *)
LEMMA UpdateRun ==
    ASSUME TypeOK, NEW w \in Workers, NEW r,
           actions' \in Seq(ActionType), Len(actions) <= Len(actions'),
           r \in RunType, RunOK(r, Len(actions')),
           run' = [run EXCEPT ![w] = r]
    PROVE  /\ run' \in [Workers -> RunType]
           /\ \A v \in Workers : RunOK(run'[v], Len(actions'))
  <1>1. run \in [Workers -> RunType] /\ \A v \in Workers : RunOK(run[v], Len(actions))
    BY TypeParts
  <1>2. Len(actions) \in Nat /\ Len(actions') \in Nat
    BY TypeParts
  <1>3. \A v \in Workers : RunOK(run[v], Len(actions'))
    BY <1>1, <1>2 DEF RunOK
  <1> QED
    BY <1>1, <1>3

(* What is inserted is an action. *)
LEMMA RecordType ==
    ASSUME NEW r, r.event \in Events, NEW c \in CandidateType
    PROVE  Record(r, c) \in ActionType
  <1>1. Object(r) \in Objects
    BY ConstantsAssumption DEF Object
  <1>2. Key(r, c) \in KeyType
    BY <1>1 DEF Key, KeyType, CandidateType
  <1> QED
    BY <1>1, <1>2 DEF Record, ActionType, CandidateType

(* Inserting into the collection leaves the stored actions where they are. *)
LEMMA AppendAction ==
    ASSUME TypeOK, NEW a \in ActionType
    PROVE  /\ Append(actions, a) \in Seq(ActionType)
           /\ Len(Append(actions, a)) = Len(actions) + 1
           /\ DOMAIN Append(actions, a) = 1 .. (Len(actions) + 1)
           /\ \A i \in 1 .. Len(actions) : Append(actions, a)[i] = actions[i]
           /\ Append(actions, a)[Len(actions) + 1] = a
  BY DEF TypeOK

(* A feed of stored actions stays one when the collection grows. *)
LEMMA FeedGrows ==
    ASSUME NEW m \in Nat, NEW n \in Nat, m <= n, NEW f \in Seq(SUBSET (1 .. m))
    PROVE  f \in Seq(SUBSET (1 .. n))
  OBVIOUS

(* The empty collection and idle runs are well formed. *)
LEMMA TypeInit == Init => TypeOK
  <1> SUFFICES ASSUME Init PROVE TypeOK
    OBVIOUS
  <1>1. actions \in Seq(ActionType) /\ Len(actions) = 0 /\ feed \in Seq(SUBSET (1 .. 0))
    BY DEF Init
  <1>2. run \in [Workers -> RunType] /\ \A w \in Workers : RunOK(run[w], 0)
    BY IdleOK DEF Init
  <1> QED
    BY <1>1, <1>2, TypeParts DEF Init

(* Every step keeps the collection, the feed and the runs well formed. *)
LEMMA TypeStep == TypeOK /\ [Next]_vars => TypeOK'
  <1> SUFFICES ASSUME TypeOK, [Next]_vars PROVE TypeOK'
    OBVIOUS
  <1> DEFINE n == Len(actions)
  <1>1. /\ actions \in Seq(ActionType) /\ n \in Nat
        /\ feed \in Seq(SUBSET (1 .. n))
        /\ begun \in Nat /\ faults \in Nat /\ crashes \in Nat
        /\ overlapped \in SUBSET Objects
        /\ run \in [Workers -> RunType]
        /\ \A w \in Workers : RunOK(run[w], n)
    BY TypeParts
  <1> DEFINE Others == /\ begun' \in Nat /\ faults' \in Nat /\ crashes' \in Nat
                       /\ overlapped' \in SUBSET Objects
             Runs == /\ run' \in [Workers -> RunType]
                     /\ \A w \in Workers : RunOK(run'[w], Len(actions'))
             Stores == /\ actions' \in Seq(ActionType)
                       /\ feed' \in Seq(SUBSET (1 .. Len(actions')))
  <1> SUFFICES Others /\ Runs /\ Stores
    BY DEF TypeOK, RunOK, Active, InCall
  <1>20. UNCHANGED <<actions, feed>> => Stores
    BY <1>1
  <1>21. \A m \in Nat : n <= m => feed \in Seq(SUBSET (1 .. m))
    BY <1>1, FeedGrows
  <1>2. ASSUME NEW w \in Workers, NEW e \in Events, Begin(w, e)
        PROVE  Others /\ Runs /\ Stores
    <2> DEFINE r == [IdleRun EXCEPT !.event = e, !.stage = "bindings"]
    <2>1. r \in RunType /\ RunOK(r, n)
      BY <1>1 DEF IdleRun, RunType, RunOK, Stages, Phases, CallStages
    <2>2. run' = [run EXCEPT ![w] = r] /\ UNCHANGED <<actions, feed, faults, crashes>>
      BY <1>2 DEF Begin
    <2>3. Runs
      BY <2>1, <2>2, <1>1, UpdateRun
    <2>4. ObjectOf[e] \in Objects
      BY ConstantsAssumption
    <2>5. Others
      BY <1>1, <1>2, <2>4 DEF Begin
    <2> QED
      BY <1>1, <2>2, <2>3, <2>5
  <1>3. ASSUME NEW w \in Workers, Lookup(w)
        PROVE  Others /\ Runs /\ Stores
    <2>1. PICK missed \in SUBSET StoredTemplates :
             /\ UNCHANGED faults \/ Fault
             /\ run' = [run EXCEPT ![w] =
                   [run[w] EXCEPT !.phase = "find",
                             !.todo = CandidatesOf(run[w], StoredTemplates \ missed)]]
      BY <1>1, <1>3 DEF Lookup
    <2> DEFINE r == [run[w] EXCEPT !.phase = "find",
                             !.todo = CandidatesOf(run[w], StoredTemplates \ missed)]
    <2>2. CandidatesOf(run[w], StoredTemplates \ missed) \subseteq CandidateType
      BY <1>1, <1>3, CandidatesType DEF Lookup, InCall, RunOK, CallStages
    <2>3. r \in RunType /\ RunOK(r, n)
      BY <1>1, <2>2 DEF RunType, RunOK, Phases
    <2>4. Runs
      BY <1>1, <1>3, <2>1, <2>3, UpdateRun DEF Lookup
    <2> QED
      BY <1>1, <1>3, <2>1, <2>4 DEF Lookup, Fault
  <1>4. ASSUME NEW w \in Workers, LookupFails(w) \/ FindFails(w)
        PROVE  Others /\ Runs /\ Stores
    <2>1. /\ run[w].stage # "idle"
          /\ run' = [run EXCEPT ![w] = Ended(run[w], FALSE)]
          /\ Fault
          /\ UNCHANGED <<actions, feed, begun, crashes, overlapped>>
      BY <1>4 DEF LookupFails, FindFails, InCall, CallStages
    <2>2. Runs
      BY <1>1, <2>1, EndedOK, UpdateRun
    <2>3. Others
      BY <1>1, <2>1 DEF Fault
    <2> QED
      BY <1>20, <2>1, <2>2, <2>3
  <1>5. ASSUME NEW w \in Workers, Find(w)
        PROVE  Others /\ Runs /\ Stores
    <2>1. PICK c \in NextCandidates(run[w]) :
             run' = [run EXCEPT ![w] =
                       IF Stored(Key(run[w], c))
                       THEN [run[w] EXCEPT !.todo = run[w].todo \ {c}]
                       ELSE [run[w] EXCEPT !.todo = run[w].todo \ {c},
                                           !.phase = "insert", !.cur = c]]
      BY <1>1, <1>5 DEF Find
    <2>2. c \in CandidateType
      BY <1>1, <2>1 DEF NextCandidates, RunType
    <2>3. /\ [run[w] EXCEPT !.todo = run[w].todo \ {c}] \in RunType
          /\ RunOK([run[w] EXCEPT !.todo = run[w].todo \ {c}], n)
      BY <1>1, <2>2 DEF RunType, RunOK
    <2>4. /\ [run[w] EXCEPT !.todo = run[w].todo \ {c},
                            !.phase = "insert", !.cur = c] \in RunType
          /\ RunOK([run[w] EXCEPT !.todo = run[w].todo \ {c},
                                  !.phase = "insert", !.cur = c], n)
      BY <1>1, <2>2 DEF RunType, RunOK, Phases
    <2>5. Runs
      BY <1>1, <1>5, <2>1, <2>3, <2>4, UpdateRun DEF Find
    <2> QED
      BY <1>1, <1>5, <2>5 DEF Find
  <1>6. ASSUME NEW w \in Workers, Insert(w)
        PROVE  Others /\ Runs /\ Stores
    <2> DEFINE r == [run[w] EXCEPT !.phase = "route", !.id = n + 1]
    <2>1. Record(run[w], run[w].cur) \in ActionType
      BY <1>1, <1>6, RecordType DEF Insert, InCall, RunOK, CallStages
    <2>2. actions' \in Seq(ActionType) /\ Len(actions') = n + 1
      BY <1>6, <2>1, AppendAction DEF Insert
    <2>3. r \in RunType
      <3>1. n + 1 \in Nat /\ run[w] \in RunType
        BY <1>1
      <3> HIDE DEF n
      <3> QED
        BY <3>1 DEF RunType, Phases
    <2>4. RunOK(run[w], n + 1)
      BY <1>1 DEF RunOK
    <2>5. /\ r.stage = run[w].stage /\ r.event = run[w].event
          /\ r.fresh = run[w].fresh /\ r.created = run[w].created
          /\ r.phase = "route" /\ r.id = n + 1
      BY <1>1 DEF RunType
    <2>6. RunOK(r, n + 1)
      BY <1>1, <2>3, <2>4, <2>5 DEF RunOK
    <2>7. run' = [run EXCEPT ![w] = r]
      BY <1>6 DEF Insert
    <2>8. Runs
      <3>1. Len(actions) <= Len(actions')
        BY <1>1, <2>2
      <3> HIDE DEF r
      <3> QED
        BY <2>2, <2>3, <2>6, <2>7, <3>1, UpdateRun
    <2>9. feed' \in Seq(SUBSET (1 .. Len(actions')))
      BY <1>1, <1>6, <1>21, <2>2 DEF Insert
    <2> QED
      BY <1>1, <1>6, <2>2, <2>8, <2>9 DEF Insert
  <1>7. ASSUME NEW w \in Workers, InsertFails(w)
        PROVE  Others /\ Runs /\ Stores
    <2>1. Record(run[w], run[w].cur) \in ActionType
      BY <1>1, <1>7, RecordType DEF InsertFails, InCall, RunOK, CallStages
    <2>2. actions' \in Seq(ActionType) /\ Len(actions') \in {n, n + 1}
      <3>1. actions' = actions \/ actions' = Append(actions, Record(run[w], run[w].cur))
        BY <1>7 DEF InsertFails
      <3> QED
        BY <1>1, <2>1, <3>1, AppendAction
    <2> DEFINE m == Len(actions')
    <2>3. m \in Nat /\ n <= m
      BY <1>1, <2>2
    <2>4. run[w].stage # "idle" /\ RunOK(run[w], m)
      BY <1>1, <1>7, <2>3 DEF InsertFails, InCall, CallStages, RunOK
    <2>5. Ended(run[w], FALSE) \in RunType /\ RunOK(Ended(run[w], FALSE), m)
      BY <2>3, <2>4, EndedOK
    <2>6. run' = [run EXCEPT ![w] = Ended(run[w], FALSE)]
      BY <1>7 DEF InsertFails
    <2>7. Runs
      BY <2>2, <2>3, <2>5, <2>6, UpdateRun
    <2>8. feed' \in Seq(SUBSET (1 .. m))
      BY <1>7, <1>21, <2>3 DEF InsertFails
    <2>9. Others
      BY <1>1, <1>7 DEF InsertFails, Fault
    <2> QED
      BY <2>2, <2>7, <2>8, <2>9
  <1>8. ASSUME NEW w \in Workers, Route(w) \/ RouteFails(w)
        PROVE  Others /\ Runs /\ Stores
    <2>1. run[w].stage \in CallStages /\ run[w].phase = "route" /\ run[w].id \in 1 .. n
      BY <1>1, <1>8 DEF Route, RouteFails, InCall, RunOK
    <2>2. actions[run[w].id] \in ActionType
      BY <1>1, <2>1
    <2>3. [actions[run[w].id] EXCEPT !.assigned = TRUE] \in ActionType
      BY <2>2 DEF ActionType
    <2>4. actions' \in Seq(ActionType) /\ Len(actions') = n
      BY <1>1, <1>8, <2>1, <2>3 DEF Route, RouteFails
    <2>5. Routed(run[w]) \in RunType /\ RunOK(Routed(run[w]), n)
      BY <1>1, <2>1 DEF Routed, RunType, RunOK, Phases
    <2>6. Runs
      BY <1>1, <1>8, <2>4, <2>5, UpdateRun DEF Route, RouteFails
    <2> QED
      BY <1>1, <1>8, <2>4, <2>6 DEF Route, RouteFails, Fault
  <1>9. ASSUME NEW w \in Workers, Return(w)
        PROVE  Others /\ Runs /\ Stores
    <2>1. /\ run[w].stage # "idle"
          /\ run' = [run EXCEPT ![w] = Ended(run[w], TRUE)]
          /\ UNCHANGED <<actions, feed, begun, faults, crashes, overlapped>>
      BY <1>9 DEF Return, InCall, CallStages
    <2>2. Runs
      BY <1>1, <2>1, EndedOK, UpdateRun
    <2> QED
      BY <1>1, <2>1, <2>2
  <1>10. ASSUME NEW w \in Workers, Publish(w) \/ PublishFails(w)
         PROVE  Others /\ Runs /\ Stores
    <2>1. /\ run' = [run EXCEPT ![w] = IdleRun]
          /\ feed' \in {feed, Append(feed, run[w].created)}
          /\ UNCHANGED <<actions, begun, crashes, overlapped>>
          /\ UNCHANGED faults \/ Fault
      BY <1>10 DEF Publish, PublishFails
    <2>2. Runs
      BY <1>1, <2>1, IdleOK, UpdateRun
    <2>3. run[w].created \subseteq 1 .. n
      BY <1>1 DEF RunOK
    <2>4. feed' \in Seq(SUBSET (1 .. n))
      BY <1>1, <2>1, <2>3
    <2> QED
      BY <1>1, <2>1, <2>2, <2>4 DEF Fault
  <1>11. ASSUME Crash
         PROVE  Others /\ Runs /\ Stores
    <2>1. Runs
      BY <1>1, <1>11, IdleOK DEF Crash
    <2> QED
      BY <1>1, <1>11, <2>1 DEF Crash
  <1>12. ASSUME UNCHANGED vars
         PROVE  Others /\ Runs /\ Stores
    BY <1>1, <1>12 DEF vars
  <1> QED
    BY <1>2, <1>3, <1>4, <1>5, <1>6, <1>7, <1>8, <1>9, <1>10, <1>11, <1>12
    DEF Next, Step

(* The collection, the feed and every run stay well formed: an id that a run
   or a feed message carries always names a stored action. *)
THEOREM TypeCorrect == Spec => []TypeOK
  BY TypeInit, TypeStep, PTL DEF Spec

-----------------------------------------------------------------------------
(* What one step of a worker can do to the store and to its run.           *)

(* The documents stay, whatever happens to their assignees. *)
SameStore ==
    /\ DOMAIN actions' = DOMAIN actions
    /\ \A i \in DOMAIN actions :
          /\ actions'[i].key = actions[i].key
          /\ actions'[i].object = actions[i].object
          /\ actions'[i].playbook = actions[i].playbook
          /\ actions'[i].rule = actions[i].rule
          /\ actions'[i].template = actions[i].template

AppendsCurrent(w) ==
    InCall(w, "insert") /\ actions' = Append(actions, Record(run[w], run[w].cur))

(* A step of one worker leaves the other runs alone, keeps the event of its own
   and, but for an insert, the documents of the store. *)
LEMMA StepShape ==
    ASSUME TypeOK, NEW w \in Workers, Step(w)
    PROVE  /\ Active(w)
           /\ overlapped' = overlapped
           /\ \A v \in Workers \ {w} : run'[v] = run[v]
           /\ run'[w].stage # "idle" => run'[w].event = run[w].event
           /\ SameStore \/ AppendsCurrent(w)
           /\ (run'[w].stage \in CallStages /\ run'[w].phase = "insert") =>
                 /\ actions' = actions
                 /\ ~Stored(Key(run'[w], run'[w].cur))
  <1>1. run \in [Workers -> RunType] /\ run[w] \in RunType /\ RunOK(run[w], Len(actions))
    BY TypeParts
  <1>2. UNCHANGED actions => SameStore
    BY DEF SameStore
  <1>3. \A ok \in BOOLEAN : /\ Ended(run[w], ok).event = run[w].event
                            /\ Ended(run[w], ok).phase = "lookup"
    BY <1>1, EndedType
  <1>4. CASE Lookup(w)
    <2>1. /\ run'[w].phase = "find" /\ run'[w].event = run[w].event
          /\ \A v \in Workers \ {w} : run'[v] = run[v]
      BY <1>1, <1>4 DEF Lookup, RunType
    <2> QED
      BY <1>2, <1>4, <2>1 DEF Lookup, InCall, Active, CallStages
  <1>5. CASE LookupFails(w) \/ FindFails(w) \/ Return(w)
    <2>1. \/ /\ run' = [run EXCEPT ![w] = Ended(run[w], FALSE)]
             /\ Active(w) /\ UNCHANGED <<actions, overlapped>>
          \/ /\ run' = [run EXCEPT ![w] = Ended(run[w], TRUE)]
             /\ Active(w) /\ UNCHANGED <<actions, overlapped>>
      BY <1>5 DEF LookupFails, FindFails, Return, InCall, Active, CallStages
    <2>2. /\ run'[w].phase = "lookup" /\ run'[w].event = run[w].event
          /\ \A v \in Workers \ {w} : run'[v] = run[v]
      BY <1>1, <1>3, <2>1
    <2> QED
      BY <1>2, <2>1, <2>2
  <1>6. CASE Find(w)
    <2>1. PICK c \in NextCandidates(run[w]) :
             run' = [run EXCEPT ![w] =
                       IF Stored(Key(run[w], c))
                       THEN [run[w] EXCEPT !.todo = run[w].todo \ {c}]
                       ELSE [run[w] EXCEPT !.todo = run[w].todo \ {c},
                                           !.phase = "insert", !.cur = c]]
      BY <1>1, <1>6 DEF Find
    <2>2. /\ run'[w].event = run[w].event /\ run'[w].stage = run[w].stage
          /\ \A v \in Workers \ {w} : run'[v] = run[v]
      BY <1>1, <2>1 DEF RunType
    <2>3. run'[w].phase = "insert" => run'[w].cur = c /\ ~Stored(Key(run[w], c))
      BY <1>1, <1>6, <2>1 DEF RunType, Find, InCall
    <2>4. Key(run'[w], c) = Key(run[w], c)
      BY <2>2 DEF Key, Object
    <2> QED
      BY <1>2, <1>6, <2>2, <2>3, <2>4 DEF Find, InCall, Active, CallStages
  <1>7. CASE Insert(w)
    <2>1. /\ run'[w].phase = "route" /\ run'[w].event = run[w].event
          /\ \A v \in Workers \ {w} : run'[v] = run[v]
      BY <1>1, <1>7 DEF Insert, RunType
    <2> QED
      BY <1>7, <2>1 DEF Insert, AppendsCurrent, InCall, Active, CallStages
  <1>8. CASE InsertFails(w)
    <2>1. /\ run'[w].phase = "lookup" /\ run'[w].event = run[w].event
          /\ \A v \in Workers \ {w} : run'[v] = run[v]
      BY <1>1, <1>3, <1>8 DEF InsertFails
    <2> QED
      BY <1>2, <1>8, <2>1 DEF InsertFails, AppendsCurrent, InCall, Active, CallStages
  <1>9. CASE Route(w) \/ RouteFails(w)
    <2>1. /\ run'[w].phase = "find" /\ run'[w].event = run[w].event
          /\ \A v \in Workers \ {w} : run'[v] = run[v]
      BY <1>1, <1>9 DEF Route, RouteFails, Routed, RunType
    <2>2. run[w].id \in DOMAIN actions /\ actions[run[w].id] \in ActionType
      BY <1>9 DEF Route, RouteFails, TypeOK
    <2>3. Route(w) => SameStore
      BY <2>2 DEF Route, SameStore, ActionType, TypeOK
    <2> QED
      BY <1>2, <1>9, <2>1, <2>3 DEF Route, RouteFails, InCall, Active, CallStages
  <1>10. CASE Publish(w) \/ PublishFails(w)
    <2>1. /\ run'[w] = IdleRun
          /\ \A v \in Workers \ {w} : run'[v] = run[v]
      BY <1>1, <1>10 DEF Publish, PublishFails
    <2> QED
      BY <1>2, <1>10, <2>1 DEF Publish, PublishFails, Active, IdleRun, CallStages
  <1> QED
    BY <1>4, <1>5, <1>6, <1>7, <1>8, <1>9, <1>10 DEF Step

(* A delivery starts one idle worker and touches neither store nor feed. *)
LEMMA BeginShape ==
    ASSUME TypeOK, NEW w \in Workers, NEW e \in Events, Begin(w, e)
    PROVE  /\ ~Active(w)
           /\ \A v \in Workers \ {w} : run'[v] = run[v]
           /\ run'[w] = [IdleRun EXCEPT !.event = e, !.stage = "bindings"]
           /\ run'[w].event = e /\ run'[w].stage = "bindings" /\ run'[w].phase = "lookup"
           /\ run'[w].fresh = {} /\ run'[w].created = {} /\ run'[w].toppedUp = FALSE
           /\ UNCHANGED <<actions, feed>>
           /\ overlapped \subseteq overlapped'
  BY DEF Begin, IdleRun, TypeOK

-----------------------------------------------------------------------------
(* Duplicate documents.                                                    *)

(* The inductive strengthening: two active runs of one object are recorded as
   overlapping; a run that is about to insert a key which is already stored
   belongs to such an object; a key starts with the object of its action. *)
OverlapRecorded ==
    \A v, w \in Workers :
        (v # w /\ Active(v) /\ Active(w) /\ Object(run[v]) = Object(run[w]))
            => Object(run[w]) \in overlapped

InsertIsFresh ==
    \A w \in Workers :
        InCall(w, "insert") =>
            \A i \in DOMAIN actions :
                actions[i].key = Key(run[w], run[w].cur) => Object(run[w]) \in overlapped

KeyNamesObject == \A i \in DOMAIN actions : actions[i].key[1] = actions[i].object

DuplicateInv ==
    OverlapRecorded /\ InsertIsFresh /\ KeyNamesObject /\ DuplicatesOnlyFromOverlap

(* An idempotency key begins with the object it is about. *)
LEMMA KeyHead == ASSUME NEW r, NEW c PROVE Key(r, c)[1] = Object(r)
  BY DEF Key

(* The object of a run is determined by its event. *)
LEMMA SameEventSameObject ==
    ASSUME NEW r, NEW q, r.event = q.event PROVE Object(r) = Object(q)
  BY DEF Object

(* Nothing is stored and nobody runs at first. *)
LEMMA DuplicateInit == Init => DuplicateInv
  BY DEF Init, IdleRun, DuplicateInv, OverlapRecorded, InsertIsFresh, KeyNamesObject,
         DuplicatesOnlyFromOverlap, Active, InCall, CallStages

(* Every step preserves the strengthening. *)
LEMMA DuplicateStep == TypeOK /\ DuplicateInv /\ [Next]_vars => DuplicateInv'
  <1> SUFFICES ASSUME TypeOK, DuplicateInv, [Next]_vars PROVE DuplicateInv'
    OBVIOUS
  <1> USE DEF DuplicateInv
  <1>1. ASSUME NEW w \in Workers, NEW e \in Events, Begin(w, e)
        PROVE  DuplicateInv'
    <2>0. /\ ~Active(w)
          /\ \A v \in Workers \ {w} : run'[v] = run[v]
          /\ run'[w].event = e /\ run'[w].stage = "bindings" /\ run'[w].phase = "lookup"
          /\ UNCHANGED <<actions, feed>>
          /\ overlapped \subseteq overlapped'
      BY <1>1, BeginShape
    <2>1. OverlapRecorded'
      <3> SUFFICES ASSUME NEW u \in Workers, NEW v \in Workers, u # v,
                          Active(u)', Active(v)', Object(run'[u]) = Object(run'[v])
                   PROVE  Object(run'[v]) \in overlapped'
        BY DEF OverlapRecorded
      <3>1. CASE u # w /\ v # w
        BY <2>0, <3>1 DEF OverlapRecorded, Active
      <3>2. CASE u = w \/ v = w
        <4>1. PICK x \in Workers \ {w} : Active(x) /\ Object(run[x]) = ObjectOf[e]
                                         /\ Object(run'[v]) = ObjectOf[e]
          BY <2>0, <3>2 DEF Active, Object
        <4> QED
          BY <1>1, <4>1 DEF Begin
      <3> QED
        BY <3>1, <3>2
    <2>2. InsertIsFresh'
      <3> SUFFICES ASSUME NEW v \in Workers, InCall(v, "insert")',
                          NEW i \in DOMAIN actions,
                          actions[i].key = Key(run'[v], run'[v].cur)
                   PROVE  Object(run'[v]) \in overlapped'
        BY <2>0 DEF InsertIsFresh
      <3>1. v # w /\ run'[v] = run[v] /\ InCall(v, "insert")
        BY <2>0 DEF InCall
      <3> QED
        BY <2>0, <3>1 DEF InsertIsFresh
    <2>3. KeyNamesObject' /\ DuplicatesOnlyFromOverlap'
      BY <2>0 DEF KeyNamesObject, DuplicatesOnlyFromOverlap
    <2> QED
      BY <2>1, <2>2, <2>3
  <1>2. ASSUME NEW w \in Workers, Step(w)
        PROVE  DuplicateInv'
    <2>1. /\ Active(w) /\ overlapped' = overlapped
          /\ \A v \in Workers \ {w} : run'[v] = run[v]
          /\ run'[w].stage # "idle" => run'[w].event = run[w].event
          /\ SameStore \/ AppendsCurrent(w)
          /\ (run'[w].stage \in CallStages /\ run'[w].phase = "insert") =>
                actions' = actions /\ ~Stored(Key(run'[w], run'[w].cur))
      BY <1>2, StepShape
    <2>2. \A v \in Workers : Active(v)' => Active(v) /\ Object(run'[v]) = Object(run[v])
      BY <2>1, SameEventSameObject DEF Active
    <2>3. OverlapRecorded'
      BY <2>1, <2>2 DEF OverlapRecorded
    <2>4. CASE SameStore
      <3>1. InsertIsFresh'
        <4> SUFFICES ASSUME NEW v \in Workers, InCall(v, "insert")',
                            NEW i \in DOMAIN actions',
                            actions'[i].key = Key(run'[v], run'[v].cur)
                     PROVE  Object(run'[v]) \in overlapped'
          BY DEF InsertIsFresh
        <4>1. i \in DOMAIN actions /\ actions'[i].key = actions[i].key
          BY <2>4 DEF SameStore
        <4>2. CASE v = w
          BY <2>1, <4>1, <4>2 DEF Stored, InCall
        <4>3. CASE v # w
          BY <2>1, <4>1, <4>3 DEF InsertIsFresh, InCall
        <4> QED
          BY <4>2, <4>3
      <3>2. KeyNamesObject' /\ DuplicatesOnlyFromOverlap'
        BY <2>1, <2>4 DEF SameStore, KeyNamesObject, DuplicatesOnlyFromOverlap
      <3> QED
        BY <2>3, <3>1, <3>2
    <2>5. CASE AppendsCurrent(w)
      <3> DEFINE n == Len(actions)
                 a == Record(run[w], run[w].cur)
      <3>1. /\ n \in Nat /\ DOMAIN actions = 1 .. n
            /\ DOMAIN actions' = 1 .. (n + 1)
            /\ \A i \in 1 .. n : actions'[i] = actions[i]
            /\ actions'[n + 1] = a
        <4>1. a \in ActionType
          BY <2>1, <2>5, TypeParts, RecordType DEF AppendsCurrent, InCall, RunOK, Active
        <4> QED
          BY <2>5, <4>1, AppendAction DEF AppendsCurrent, TypeOK
      <3>2. a.key = Key(run[w], run[w].cur) /\ a.object = Object(run[w])
        BY DEF Record
      <3>3. a.key[1] = a.object
        BY <3>2, KeyHead
      <3>4. \A i \in 1 .. n : actions[i].key = a.key => a.object \in overlapped
        BY <2>5, <3>1, <3>2 DEF AppendsCurrent, InsertIsFresh
      <3>5. KeyNamesObject'
        BY <3>1, <3>3 DEF KeyNamesObject
      <3>6. DuplicatesOnlyFromOverlap'
        <4> SUFFICES ASSUME NEW i \in 1 .. (n + 1), NEW j \in 1 .. (n + 1), i # j,
                            actions'[i].key = actions'[j].key
                     PROVE  actions'[i].object \in overlapped
          BY <2>1, <3>1 DEF DuplicatesOnlyFromOverlap
        <4>1. actions'[i].object = actions'[j].object
          BY <3>1, <3>5 DEF KeyNamesObject
        <4>2. CASE i \in 1 .. n /\ j \in 1 .. n
          BY <3>1, <4>2 DEF DuplicatesOnlyFromOverlap
        <4>3. CASE i = n + 1 \/ j = n + 1
          BY <3>1, <3>4, <4>1, <4>3
        <4> QED
          BY <3>1, <4>2, <4>3
      <3>7. InsertIsFresh'
        <4> SUFFICES ASSUME NEW v \in Workers, InCall(v, "insert")',
                            NEW i \in 1 .. (n + 1),
                            actions'[i].key = Key(run'[v], run'[v].cur)
                     PROVE  Object(run'[v]) \in overlapped
          BY <2>1, <3>1 DEF InsertIsFresh
        <4>1. v # w
          BY <2>1, <3>1 DEF InCall
        <4>2. run'[v] = run[v] /\ InCall(v, "insert")
          BY <2>1, <4>1 DEF InCall
        <4>3. CASE i \in 1 .. n
          BY <3>1, <4>2, <4>3 DEF InsertIsFresh
        <4>4. CASE i = n + 1
          <5>1. Object(run[v]) = Object(run[w])
            BY <3>1, <3>2, <4>2, <4>4, KeyHead
          <5> QED
            BY <2>1, <4>1, <4>2, <5>1 DEF OverlapRecorded, InCall, Active, CallStages
        <4> QED
          BY <3>1, <4>3, <4>4
      <3> QED
        BY <2>3, <3>5, <3>6, <3>7
    <2> QED
      BY <2>1, <2>4, <2>5
  <1>3. ASSUME Crash
        PROVE  DuplicateInv'
    BY <1>3 DEF Crash, IdleRun, OverlapRecorded, InsertIsFresh, KeyNamesObject,
                DuplicatesOnlyFromOverlap, Active, InCall, CallStages
  <1>4. ASSUME UNCHANGED vars
        PROVE  DuplicateInv'
    BY <1>4 DEF vars, OverlapRecorded, InsertIsFresh, KeyNamesObject, Key, Object,
                DuplicatesOnlyFromOverlap, Active, InCall
  <1> QED
    BY <1>1, <1>2, <1>3, <1>4 DEF Next

(* The lookup-then-insert of action_builder.rs duplicates a document only for
   an object that two concurrent runs handled, whatever crashes, redeliveries
   and failed calls happen. *)
THEOREM DuplicatesNeedOverlap == Spec => []DuplicatesOnlyFromOverlap
  <1>1. Spec => []DuplicateInv
    BY TypeCorrect, DuplicateInit, DuplicateStep, PTL DEF Spec
  <1>2. DuplicateInv => DuplicatesOnlyFromOverlap
    BY DEF DuplicateInv
  <1> QED
    BY <1>1, <1>2, PTL

OneWorker == \A v, w \in Workers : v = w

(* With one worker, the consumer task alone, no object is ever handled twice at
   a time. *)
LEMMA OneWorkerNeverOverlaps ==
    TypeOK /\ (OneWorker => overlapped = {}) /\ [Next]_vars => (OneWorker => overlapped = {})'
  <1> SUFFICES ASSUME TypeOK, OneWorker, overlapped = {}, [Next]_vars PROVE overlapped' = {}
    BY DEF OneWorker
  <1>1. ASSUME NEW w \in Workers, NEW e \in Events, Begin(w, e) PROVE overlapped' = {}
    BY <1>1 DEF Begin, OneWorker
  <1>2. ASSUME NEW w \in Workers, Step(w) PROVE overlapped' = {}
    BY <1>2, StepShape
  <1> QED
    BY <1>1, <1>2 DEF Next, Crash, vars

(* The consumer on its own never stores two actions with one idempotency key:
   neither redelivery, nor a crash, nor any failing call duplicates one. *)
THEOREM OneConsumerNoDuplicates == Spec => [](OneWorker => UniqueKeys)
  <1>1. Init => (OneWorker => overlapped = {})
    BY DEF Init
  <1>2. Spec => [](OneWorker => overlapped = {})
    BY <1>1, OneWorkerNeverOverlaps, TypeCorrect, PTL DEF Spec
  <1>3. (OneWorker => overlapped = {}) /\ DuplicatesOnlyFromOverlap => (OneWorker => UniqueKeys)
    BY DEF DuplicatesOnlyFromOverlap, UniqueKeys
  <1> QED
    BY <1>2, <1>3, DuplicatesNeedOverlap, PTL

-----------------------------------------------------------------------------
(* Who has an action in hand.                                              *)

(* The actions a run has created and not published. *)
Owned(r) ==
    r.fresh \cup r.created
        \cup (IF r.stage \in CallStages /\ r.phase = "route" THEN {r.id} ELSE {})

(* Owned actions are stored. *)
LEMMA OwnedStored ==
    ASSUME TypeOK, NEW w \in Workers
    PROVE  Owned(run[w]) \subseteq 1 .. Len(actions)
  BY TypeParts DEF RunOK, Owned

(* A call that returns hands on what it has created or drops it. *)
LEMMA EndedOwned ==
    ASSUME NEW r \in RunType, NEW ok \in BOOLEAN
    PROVE  /\ Owned(Ended(r, ok)) \subseteq r.fresh \cup r.created
           /\ ok => Owned(Ended(r, ok)) = r.fresh \cup r.created
  <1>1. Ended(r, ok).phase = "lookup" /\ Ended(r, ok).fresh = {}
        /\ Ended(r, ok).created \subseteq r.created \cup r.fresh
    BY EndedType
  <1>2. ok => Ended(r, ok).created = r.created \cup r.fresh
    BY DEF Ended, RunType
  <1> QED
    BY <1>1, <1>2 DEF Owned

(* A step of a worker adds to what it owns only the action it inserts, and
   publishes only what it owns, which it then owns no more. *)
LEMMA OwnershipStep ==
    ASSUME TypeOK, NEW w \in Workers, Step(w)
    PROVE  \/ /\ feed' = feed
              /\ Owned(run'[w]) \subseteq Owned(run[w]) \cup {Len(actions) + 1}
           \/ /\ feed' \in {feed, Append(feed, run[w].created)}
              /\ Owned(run'[w]) = {}
  <1>1. run \in [Workers -> RunType] /\ run[w] \in RunType
    BY TypeParts
  <1>2. CASE Lookup(w) \/ Find(w)
    <2>1. Lookup(w) => /\ run'[w].fresh = run[w].fresh
                       /\ run'[w].created = run[w].created
                       /\ run'[w].phase = "find"
      BY <1>1 DEF Lookup, RunType
    <2>2. Find(w) => /\ run'[w].fresh = run[w].fresh
                     /\ run'[w].created = run[w].created
                     /\ run'[w].phase \in {"find", "insert"}
      BY <1>1 DEF Find, InCall, RunType
    <2>3. feed' = feed
      BY <1>2 DEF Lookup, Find
    <2> QED
      BY <1>2, <2>1, <2>2, <2>3 DEF Owned
  <1>3. CASE LookupFails(w) \/ FindFails(w) \/ InsertFails(w) \/ Return(w)
    <2>1. /\ run'[w] = Ended(run[w], FALSE) \/ run'[w] = Ended(run[w], TRUE)
          /\ feed' = feed
      BY <1>1, <1>3 DEF LookupFails, FindFails, InsertFails, Return
    <2> QED
      BY <1>1, <2>1, EndedOwned DEF Owned
  <1>4. CASE Insert(w)
    <2>1. /\ run'[w].fresh = run[w].fresh /\ run'[w].created = run[w].created
          /\ run'[w].id = Len(actions) + 1 /\ feed' = feed
      BY <1>1, <1>4 DEF Insert, RunType
    <2> QED
      BY <2>1 DEF Owned
  <1>5. CASE Route(w) \/ RouteFails(w)
    <2>1. run[w].stage \in CallStages /\ run[w].phase = "route" /\ feed' = feed
      BY <1>5 DEF Route, RouteFails, InCall
    <2>2. run'[w] = Routed(run[w])
      BY <1>1, <1>5 DEF Route, RouteFails
    <2>3. /\ run'[w].fresh = run[w].fresh \cup {run[w].id}
          /\ run'[w].created = run[w].created /\ run'[w].phase = "find"
      BY <1>1, <2>2 DEF Routed, RunType
    <2> QED
      BY <2>1, <2>3 DEF Owned
  <1>6. CASE Publish(w) \/ PublishFails(w)
    <2>1. run'[w] = IdleRun /\ feed' \in {feed, Append(feed, run[w].created)}
      BY <1>1, <1>6 DEF Publish, PublishFails
    <2> QED
      BY <2>1 DEF Owned, IdleRun, CallStages
  <1> QED
    BY <1>2, <1>3, <1>4, <1>5, <1>6 DEF Step

-----------------------------------------------------------------------------
(* Nothing is published twice.                                             *)

(* The inductive strengthening: no action is in the hands of two runs, and
   none that is on the feed is in the hands of any. *)
OneOwner ==
    \A v, w \in Workers : v # w => Owned(run[v]) \cap Owned(run[w]) = {}

PublishedIsGone ==
    \A w \in Workers : \A n \in DOMAIN feed : Owned(run[w]) \cap feed[n] = {}

FeedInv == OneOwner /\ PublishedIsGone /\ FeedAtMostOnce

LEMMA IdleOwnsNothing == Owned(IdleRun) = {}
  BY DEF Owned, IdleRun, CallStages

LEMMA FeedInit == Init => FeedInv
  BY IdleOwnsNothing DEF Init, FeedInv, OneOwner, PublishedIsGone, FeedAtMostOnce

(* Every step preserves the strengthening. *)
LEMMA FeedStep == TypeOK /\ FeedInv /\ [Next]_vars => FeedInv'
  <1> SUFFICES ASSUME TypeOK, FeedInv, [Next]_vars PROVE FeedInv'
    OBVIOUS
  <1> USE DEF FeedInv
  <1>0. /\ Len(actions) \in Nat /\ feed \in Seq(SUBSET (1 .. Len(actions)))
        /\ run \in [Workers -> RunType]
    BY TypeParts
  <1>1. ASSUME NEW w \in Workers, NEW e \in Events, Begin(w, e)
        PROVE  FeedInv'
    <2>1. Owned(run'[w]) = {}
      BY <1>1, BeginShape DEF Owned
    <2>2. feed' = feed /\ \A v \in Workers \ {w} : run'[v] = run[v]
      BY <1>1, BeginShape
    <2> QED
      BY <2>1, <2>2 DEF OneOwner, PublishedIsGone, FeedAtMostOnce
  <1>2. ASSUME NEW w \in Workers, Step(w)
        PROVE  FeedInv'
    <2> DEFINE n == Len(actions) + 1
    <2>1. \A v \in Workers \ {w} : run'[v] = run[v]
      BY <1>2, StepShape
    <2>2. /\ \A v \in Workers : n \notin Owned(run[v])
          /\ \A k \in DOMAIN feed : n \notin feed[k]
      <3>1. n \notin 1 .. Len(actions)
        BY <1>0
      <3>2. \A k \in DOMAIN feed : feed[k] \subseteq 1 .. Len(actions)
        BY <1>0
      <3> QED
        BY <3>1, <3>2, OwnedStored
    <2>3. CASE feed' = feed /\ Owned(run'[w]) \subseteq Owned(run[w]) \cup {n}
      <3> HIDE DEF n
      <3> QED
        BY <2>1, <2>2, <2>3 DEF OneOwner, PublishedIsGone, FeedAtMostOnce
    <2>4. CASE feed' = feed /\ Owned(run'[w]) = {}
      BY <2>1, <2>4 DEF OneOwner, PublishedIsGone, FeedAtMostOnce
    <2>5. CASE feed' = Append(feed, run[w].created) /\ Owned(run'[w]) = {}
      <3> DEFINE m == Len(feed)
      <3>1. /\ m \in Nat /\ DOMAIN feed = 1 .. m /\ DOMAIN feed' = 1 .. (m + 1)
            /\ \A k \in 1 .. m : feed'[k] = feed[k]
            /\ feed'[m + 1] = run[w].created
        BY <1>0, <2>5
      <3>2. run[w].created \subseteq Owned(run[w])
        BY DEF Owned
      <3>3. OneOwner'
        BY <2>1, <2>5 DEF OneOwner
      <3>4. PublishedIsGone'
        <4> SUFFICES ASSUME NEW v \in Workers, NEW k \in 1 .. (m + 1)
                     PROVE  Owned(run'[v]) \cap feed'[k] = {}
          BY <3>1 DEF PublishedIsGone
        <4>1. CASE v = w
          BY <2>5, <4>1
        <4>2. CASE v # w /\ k \in 1 .. m
          BY <2>1, <3>1, <4>2 DEF PublishedIsGone
        <4>3. CASE v # w /\ k = m + 1
          BY <2>1, <3>1, <3>2, <4>3 DEF OneOwner
        <4> QED
          BY <3>1, <4>1, <4>2, <4>3
      <3>5. FeedAtMostOnce'
        <4>1. \A k \in 1 .. m : feed[k] \cap run[w].created = {}
          BY <3>1, <3>2 DEF PublishedIsGone
        <4> SUFFICES ASSUME NEW i \in 1 .. (m + 1), NEW k \in 1 .. (m + 1), i # k
                     PROVE  feed'[i] \cap feed'[k] = {}
          BY <3>1 DEF FeedAtMostOnce
        <4>2. CASE i \in 1 .. m /\ k \in 1 .. m
          BY <3>1, <4>2 DEF FeedAtMostOnce
        <4>3. CASE i = m + 1 \/ k = m + 1
          BY <3>1, <4>1, <4>3
        <4> QED
          BY <3>1, <4>2, <4>3
      <3> QED
        BY <3>3, <3>4, <3>5
    <2> QED
      BY <1>2, <2>3, <2>4, <2>5, OwnershipStep
  <1>3. ASSUME Crash
        PROVE  FeedInv'
    BY <1>3, IdleOwnsNothing DEF Crash, OneOwner, PublishedIsGone, FeedAtMostOnce
  <1>4. ASSUME UNCHANGED vars
        PROVE  FeedInv'
    BY <1>4 DEF vars, OneOwner, PublishedIsGone, FeedAtMostOnce
  <1> QED
    BY <1>1, <1>2, <1>3, <1>4 DEF Next

(* No action is published to the feed twice, whatever fails, crashes or is
   delivered again, and however many workers create actions at once. *)
THEOREM NothingFedTwice == Spec => []FeedAtMostOnce
  <1>1. Spec => []FeedInv
    BY TypeCorrect, FeedInit, FeedStep, PTL DEF Spec
  <1>2. FeedInv => FeedAtMostOnce
    BY DEF FeedInv
  <1> QED
    BY <1>1, <1>2, PTL

-----------------------------------------------------------------------------
(* Without faults and crashes nothing is left behind.                      *)

Calm == faults = 0 /\ crashes = 0

Hands(r) == r.fresh \cup r.created

(* The steps of a worker that are left when no call fails. *)
LEMMA CalmShape ==
    ASSUME TypeOK, NEW w \in Workers, Step(w), faults' = 0
    PROVE  \/ /\ UNCHANGED <<actions, feed>>
              /\ Hands(run'[w]) = Hands(run[w]) /\ Owned(run'[w]) = Owned(run[w])
           \/ /\ actions' = Append(actions, Record(run[w], run[w].cur))
              /\ Record(run[w], run[w].cur) \in ActionType
              /\ feed' = feed
              /\ Hands(run'[w]) = Hands(run[w])
              /\ Owned(run'[w]) = Owned(run[w]) \cup {Len(actions) + 1}
           \/ /\ actions' = [actions EXCEPT ![run[w].id] = [@ EXCEPT !.assigned = TRUE]]
              /\ run[w].id \in DOMAIN actions /\ actions[run[w].id] \in ActionType
              /\ feed' = feed
              /\ Hands(run'[w]) = Hands(run[w]) \cup {run[w].id}
              /\ Owned(run'[w]) = Owned(run[w])
           \/ /\ run[w].stage = "publish" /\ run'[w] = IdleRun
              /\ actions' = actions
              /\ feed' = IF run[w].created = {} THEN feed ELSE Append(feed, run[w].created)
  <1>1. /\ run \in [Workers -> RunType] /\ run[w] \in RunType
        /\ RunOK(run[w], Len(actions))
        /\ faults \in Nat /\ actions \in Seq(ActionType)
    BY TypeParts
  <1>2. ~Fault
    BY <1>1 DEF Fault
  <1>3. CASE Lookup(w) \/ Find(w)
    <2>1. Lookup(w) => /\ run[w].phase # "route" /\ run'[w].phase # "route"
                       /\ Hands(run'[w]) = Hands(run[w])
      BY <1>1 DEF Lookup, InCall, RunType, Hands
    <2>2. Find(w) => /\ run[w].phase # "route" /\ run'[w].phase # "route"
                     /\ Hands(run'[w]) = Hands(run[w])
      BY <1>1 DEF Find, InCall, RunType, Hands
    <2>3. UNCHANGED <<actions, feed>>
      BY <1>3 DEF Lookup, Find
    <2> QED
      BY <1>3, <2>1, <2>2, <2>3 DEF Owned, Hands
  <1>4. CASE Insert(w)
    <2>1. /\ run'[w].stage = run[w].stage /\ run'[w].phase = "route"
          /\ run'[w].id = Len(actions) + 1
          /\ Hands(run'[w]) = Hands(run[w])
      BY <1>1, <1>4 DEF Insert, RunType, Hands
    <2>2. Record(run[w], run[w].cur) \in ActionType
      BY <1>1, <1>4, RecordType DEF Insert, InCall, RunOK, CallStages
    <2> QED
      BY <1>4, <2>1, <2>2 DEF Insert, InCall, Owned, Hands
  <1>5. CASE Route(w)
    <2>1. /\ InCall(w, "route") /\ run'[w] = Routed(run[w])
          /\ run[w].id \in DOMAIN actions
      BY <1>1, <1>5 DEF Route, InCall, RunOK
    <2>2. /\ run'[w].phase = "find" /\ Hands(run'[w]) = Hands(run[w]) \cup {run[w].id}
      BY <1>1, <2>1 DEF Routed, RunType, Hands
    <2> QED
      BY <1>1, <1>5, <2>1, <2>2 DEF Route, InCall, Owned, Hands
  <1>6. CASE Return(w)
    <2>1. run[w].phase = "find" /\ run'[w] = Ended(run[w], TRUE)
          /\ UNCHANGED <<actions, feed>>
      BY <1>1, <1>6 DEF Return, InCall
    <2>2. Hands(run'[w]) = Hands(run[w])
      BY <1>1, <2>1 DEF Ended, RunType, Hands
    <2>3. Owned(run'[w]) = Hands(run[w])
      BY <1>1, <2>1, EndedOwned DEF Hands
    <2> QED
      BY <2>1, <2>2, <2>3 DEF Owned, Hands
  <1>7. CASE Publish(w)
    BY <1>1, <1>7 DEF Publish
  <1> QED
    BY <1>2, <1>3, <1>4, <1>5, <1>6, <1>7
    DEF Step, LookupFails, FindFails, InsertFails, RouteFails, PublishFails

(* Publishing is preceded by the return of a call, which empties "fresh"; an
   idle worker has nothing in hand. *)
Tidy(r) == /\ r.stage = "publish" => r.fresh = {}
           /\ r.stage = "idle" => Hands(r) = {}

AllTidy == \A w \in Workers : Tidy(run[w])

HandsAssigned == \A w \in Workers : \A k \in Hands(run[w]) : actions[k].assigned

CalmInv ==
    /\ AllTidy
    /\ Calm => NoActionOrphaned /\ FeedAgreesWithStore /\ HandsAssigned

(* NoActionOrphaned, in terms of Owned. *)
LEMMA OrphanedMeans ==
    ASSUME TypeOK
    PROVE  NoActionOrphaned <=>
              \A k \in DOMAIN actions : OnFeed(k) \/ \E w \in Workers : k \in Owned(run[w])
  BY DEF NoActionOrphaned, Owned, InCall

LEMMA CalmInit == Init => CalmInv
  BY DEF Init, CalmInv, IdleRun, AllTidy, Tidy, NoActionOrphaned,
         FeedAgreesWithStore, HandsAssigned, Hands, OnFeed

LEMMA TidyStep == TypeOK /\ AllTidy /\ [Next]_vars => AllTidy'
  <1> SUFFICES ASSUME TypeOK, AllTidy, [Next]_vars, NEW v \in Workers, run'[v] # run[v]
               PROVE  Tidy(run'[v])
    BY DEF AllTidy
  <1>1. run \in [Workers -> RunType]
    BY TypeParts
  <1>2. ASSUME NEW w \in Workers, NEW e \in Events, Begin(w, e) PROVE Tidy(run'[v])
    BY <1>2, BeginShape DEF Tidy
  <1>3. Tidy(IdleRun)
    BY DEF Tidy, Hands, IdleRun
  <1>4. ASSUME NEW w \in Workers, Step(w) PROVE Tidy(run'[v])
    <2>1. v = w
      BY <1>4, StepShape
    <2>2. CASE \E ok \in BOOLEAN : run'[w] = Ended(run[w], ok)
      BY <1>1, <2>1, <2>2, EndedType DEF Tidy
    <2>3. CASE run'[w].stage \in CallStages
      BY <2>1, <2>3 DEF CallStages, Tidy
    <2>4. Lookup(w) => run'[w].stage \in CallStages
      BY <1>1 DEF Lookup, InCall, RunType
    <2>5. Find(w) => run'[w].stage \in CallStages
      BY <1>1 DEF Find, InCall, RunType
    <2>6. Insert(w) => run'[w].stage \in CallStages
      BY <1>1 DEF Insert, InCall, RunType
    <2>7. Route(w) \/ RouteFails(w) => run'[w].stage \in CallStages
      BY <1>1 DEF Route, RouteFails, Routed, InCall, RunType
    <2>8. Publish(w) \/ PublishFails(w) => run'[w] = IdleRun
      BY <1>1 DEF Publish, PublishFails
    <2>9. LookupFails(w) \/ FindFails(w) \/ InsertFails(w) \/ Return(w)
              => \E ok \in BOOLEAN : run'[w] = Ended(run[w], ok)
      BY <1>1 DEF LookupFails, FindFails, InsertFails, Return
    <2> QED
      BY <1>3, <1>4, <2>1, <2>2, <2>3, <2>4, <2>5, <2>6, <2>7, <2>8, <2>9 DEF Step
  <1>5. ASSUME Crash PROVE Tidy(run'[v])
    BY <1>3, <1>5 DEF Crash
  <1> QED
    BY <1>2, <1>4, <1>5 DEF Next, vars

(* Every step without a fault keeps what CalmInv says of the store, the feed and
   the runs. *)
LEMMA CalmStep == TypeOK /\ CalmInv /\ [Next]_vars => CalmInv'
  <1> SUFFICES ASSUME TypeOK, CalmInv, [Next]_vars, Calm'
               PROVE  (NoActionOrphaned /\ FeedAgreesWithStore /\ HandsAssigned)'
    BY TidyStep DEF CalmInv
  <1> DEFINE n == Len(actions)
  <1>0. /\ n \in Nat /\ DOMAIN actions = 1 .. n /\ actions \in Seq(ActionType)
        /\ feed \in Seq(SUBSET (1 .. n))
        /\ faults \in Nat /\ crashes \in Nat
    BY TypeParts
  <1>9. /\ \A w \in Workers : Owned(run[w]) \subseteq 1 .. n
        /\ \A w \in Workers : Hands(run[w]) \subseteq Owned(run[w])
    BY OwnedStored DEF Owned, Hands
  <1>1. Calm => /\ \A k \in DOMAIN actions : OnFeed(k) \/ \E w \in Workers : k \in Owned(run[w])
                /\ FeedAgreesWithStore /\ HandsAssigned
    BY OrphanedMeans DEF CalmInv
  <1> SUFFICES /\ \A k \in DOMAIN actions' :
                     OnFeed(k)' \/ \E w \in Workers : k \in Owned(run'[w])
               /\ \A k \in DOMAIN actions' : OnFeed(k)' => actions'[k].assigned
               /\ \A w \in Workers : \A k \in Hands(run'[w]) : actions'[k].assigned
    BY DEF NoActionOrphaned, FeedAgreesWithStore, HandsAssigned, Owned, InCall
  <1>2. ASSUME NEW w \in Workers, NEW e \in Events, Begin(w, e)
        PROVE  /\ \A k \in DOMAIN actions' :
                     OnFeed(k)' \/ \E v \in Workers : k \in Owned(run'[v])
               /\ \A k \in DOMAIN actions' : OnFeed(k)' => actions'[k].assigned
               /\ \A v \in Workers : \A k \in Hands(run'[v]) : actions'[k].assigned
    <2>1. Calm
      BY <1>2 DEF Begin, Calm
    <2>2. /\ Hands(run'[w]) = {} /\ Owned(run'[w]) = {}
          /\ UNCHANGED <<actions, feed>> /\ \A v \in Workers \ {w} : run'[v] = run[v]
      BY <1>2, BeginShape DEF Hands, Owned
    <2>3. Owned(run[w]) = {}
      <3>1. run[w].stage = "idle" /\ Tidy(run[w])
        BY <1>2 DEF Begin, Active, CalmInv, AllTidy
      <3> QED
        BY <3>1 DEF Tidy, Owned, Hands, CallStages
    <2> QED
      BY <1>1, <2>1, <2>2, <2>3 DEF OnFeed, FeedAgreesWithStore, HandsAssigned
  <1>3. ASSUME NEW w \in Workers, Step(w)
        PROVE  /\ \A k \in DOMAIN actions' :
                     OnFeed(k)' \/ \E v \in Workers : k \in Owned(run'[v])
               /\ \A k \in DOMAIN actions' : OnFeed(k)' => actions'[k].assigned
               /\ \A v \in Workers : \A k \in Hands(run'[v]) : actions'[k].assigned
    <2>1. \A v \in Workers \ {w} : run'[v] = run[v]
      BY <1>3, StepShape
    <2>2. crashes' = crashes /\ (faults' = faults \/ faults' = faults + 1)
      BY <1>3 DEF Step, Lookup, LookupFails, Find, FindFails, Insert, InsertFails, Route,
                  RouteFails, Return, Publish, PublishFails, Fault
    <2>3. Calm
      BY <1>0, <2>2 DEF Calm
    <2>4. CASE /\ UNCHANGED <<actions, feed>>
               /\ Hands(run'[w]) = Hands(run[w]) /\ Owned(run'[w]) = Owned(run[w])
      BY <1>1, <2>1, <2>3, <2>4 DEF OnFeed, FeedAgreesWithStore, HandsAssigned
    <2>5. CASE /\ actions' = Append(actions, Record(run[w], run[w].cur))
               /\ Record(run[w], run[w].cur) \in ActionType
               /\ feed' = feed
               /\ Hands(run'[w]) = Hands(run[w])
               /\ Owned(run'[w]) = Owned(run[w]) \cup {Len(actions) + 1}
      <3>1. /\ DOMAIN actions' = 1 .. (n + 1)
            /\ \A k \in 1 .. n : actions'[k] = actions[k]
        BY <2>5, AppendAction
      <3>2. \A k \in 1 .. (n + 1) : k \in 1 .. n \/ k = n + 1
        BY <1>0
      <3>3. n + 1 \notin 1 .. n /\ \A m \in DOMAIN feed : feed[m] \subseteq 1 .. n
        BY <1>0
      <3>4. \A k : OnFeed(k)' = OnFeed(k)
        BY <2>5 DEF OnFeed
      <3>5. ~OnFeed(n + 1)
        BY <3>3 DEF OnFeed
      <3>6. \A v \in Workers : Hands(run'[v]) = Hands(run[v]) /\ Owned(run[v]) \subseteq Owned(run'[v])
        BY <2>1, <2>5
      <3>7. n + 1 \in Owned(run'[w])
        BY <2>5
      <3>8. \A v \in Workers : Hands(run[v]) \subseteq 1 .. n
        BY <1>9
      <3> HIDE DEF n
      <3>9. \A k \in 1 .. (n + 1) : OnFeed(k)' \/ \E v \in Workers : k \in Owned(run'[v])
        BY <1>0, <1>1, <2>3, <3>2, <3>4, <3>6, <3>7
      <3>10. \A k \in 1 .. (n + 1) : OnFeed(k)' => actions'[k].assigned
        BY <1>0, <1>1, <2>3, <3>1, <3>2, <3>4, <3>5 DEF FeedAgreesWithStore
      <3>11. \A v \in Workers : \A k \in Hands(run'[v]) : actions'[k].assigned
        BY <1>1, <2>3, <3>1, <3>6, <3>8 DEF HandsAssigned
      <3> QED
        BY <3>1, <3>9, <3>10, <3>11
    <2>6. CASE /\ actions' = [actions EXCEPT ![run[w].id] = [@ EXCEPT !.assigned = TRUE]]
               /\ run[w].id \in DOMAIN actions /\ actions[run[w].id] \in ActionType
               /\ feed' = feed
               /\ Hands(run'[w]) = Hands(run[w]) \cup {run[w].id}
               /\ Owned(run'[w]) = Owned(run[w])
      <3>1. /\ DOMAIN actions' = DOMAIN actions
            /\ actions'[run[w].id].assigned
            /\ \A k \in DOMAIN actions : k # run[w].id => actions'[k] = actions[k]
        BY <1>0, <2>6 DEF ActionType
      <3>2. \A k : OnFeed(k)' = OnFeed(k)
        BY <2>6 DEF OnFeed
      <3>3. \A k \in DOMAIN actions : actions[k].assigned => actions'[k].assigned
        BY <3>1
      <3>4. \A v \in Workers : Hands(run[v]) \subseteq DOMAIN actions
        BY <1>0, <1>9
      <3>5. \A v \in Workers : Owned(run'[v]) = Owned(run[v])
                               /\ Hands(run'[v]) \subseteq Hands(run[v]) \cup {run[w].id}
        BY <2>1, <2>6
      <3>6. \A k \in DOMAIN actions' : OnFeed(k)' \/ \E v \in Workers : k \in Owned(run'[v])
        BY <1>1, <2>3, <3>1, <3>2, <3>5
      <3>7. \A k \in DOMAIN actions' : OnFeed(k)' => actions'[k].assigned
        BY <1>1, <2>3, <3>1, <3>2, <3>3 DEF FeedAgreesWithStore
      <3>8. \A v \in Workers : \A k \in Hands(run'[v]) : actions'[k].assigned
        BY <1>1, <2>3, <3>1, <3>3, <3>4, <3>5 DEF HandsAssigned
      <3> QED
        BY <3>6, <3>7, <3>8
    <2>7. CASE /\ run[w].stage = "publish" /\ run'[w] = IdleRun
               /\ actions' = actions
               /\ feed' = IF run[w].created = {} THEN feed ELSE Append(feed, run[w].created)
      <3> DEFINE batch == run[w].created
      <3>1. Hands(run'[w]) = {} /\ Owned(run'[w]) = {}
        <4>1. Hands(IdleRun) = {}
          BY DEF Hands, IdleRun
        <4> QED
          BY <2>7, <4>1, IdleOwnsNothing
      <3>2. Owned(run[w]) = batch /\ Hands(run[w]) = batch
        <4>1. run[w].fresh = {}
          BY <2>7 DEF CalmInv, AllTidy, Tidy
        <4> QED
          BY <2>7, <4>1 DEF Owned, Hands, CallStages
      <3>3. \A k : OnFeed(k)' <=> OnFeed(k) \/ k \in batch
        <4>1. CASE batch = {}
          BY <2>7, <4>1 DEF OnFeed
        <4>2. CASE batch # {}
          <5>1. Len(feed) \in Nat /\ DOMAIN feed = 1 .. Len(feed)
                /\ DOMAIN feed' = 1 .. (Len(feed) + 1)
                /\ feed'[Len(feed) + 1] = batch
                /\ \A m \in 1 .. Len(feed) : feed'[m] = feed[m]
            BY <1>0, <2>7, <4>2
          <5>2. \A m \in 1 .. (Len(feed) + 1) : m \in 1 .. Len(feed) \/ m = Len(feed) + 1
            BY <5>1
          <5>3. Len(feed) + 1 \in DOMAIN feed' /\ \A m \in DOMAIN feed : m \in DOMAIN feed'
            BY <5>1
          <5> QED
            BY <5>1, <5>2, <5>3 DEF OnFeed
        <4> QED
          BY <4>1, <4>2
      <3> HIDE DEF batch
      <3>4. \A k \in DOMAIN actions' : OnFeed(k)' \/ \E v \in Workers : k \in Owned(run'[v])
        BY <1>1, <2>1, <2>3, <2>7, <3>2, <3>3
      <3>5. \A k \in DOMAIN actions' : OnFeed(k)' => actions'[k].assigned
        BY <1>1, <2>3, <2>7, <3>2, <3>3 DEF FeedAgreesWithStore, HandsAssigned
      <3>6. \A v \in Workers : \A k \in Hands(run'[v]) : actions'[k].assigned
        BY <1>1, <2>1, <2>3, <2>7, <3>1 DEF HandsAssigned
      <3> QED
        BY <3>4, <3>5, <3>6
    <2>8. faults' = 0
      BY DEF Calm
    <2> QED
      BY <1>3, <2>8, <2>4, <2>5, <2>6, <2>7, CalmShape
  <1>4. ASSUME Crash
        PROVE  FALSE
    BY <1>0, <1>4 DEF Crash, Calm
  <1>5. ASSUME UNCHANGED vars
        PROVE  /\ \A k \in DOMAIN actions' :
                     OnFeed(k)' \/ \E v \in Workers : k \in Owned(run'[v])
               /\ \A k \in DOMAIN actions' : OnFeed(k)' => actions'[k].assigned
               /\ \A v \in Workers : \A k \in Hands(run'[v]) : actions'[k].assigned
    <2>1. Calm /\ UNCHANGED <<actions, feed, run>>
      BY <1>5 DEF vars, Calm
    <2> QED
      BY <1>1, <2>1 DEF OnFeed, FeedAgreesWithStore, HandsAssigned
  <1> QED
    BY <1>2, <1>3, <1>4, <1>5 DEF Next

(* As long as no call fails and nothing crashes, every stored action is on the
   feed or in the hands of the run that created it, for any number of workers
   that create actions for the same objects. *)
THEOREM NothingOrphaned == Spec => [](Calm => NoActionOrphaned)
  <1>1. Spec => []CalmInv
    BY TypeCorrect, CalmInit, CalmStep, PTL DEF Spec
  <1>2. CalmInv => (Calm => NoActionOrphaned)
    BY DEF CalmInv
  <1> QED
    BY <1>1, <1>2, PTL

(* As long as no call fails and nothing crashes, the feed names only actions
   whose assignment the store has. *)
THEOREM FeedIsStored == Spec => [](Calm => FeedAgreesWithStore)
  <1>1. Spec => []CalmInv
    BY TypeCorrect, CalmInit, CalmStep, PTL DEF Spec
  <1>2. CalmInv => (Calm => FeedAgreesWithStore)
    BY DEF CalmInv
  <1> QED
    BY <1>1, <1>2, PTL

-----------------------------------------------------------------------------
(* The top-up forgets nobody.                                              *)

(* What a call still has before it. *)
Ahead(r) == r.todo \cup (IF r.phase = "insert" THEN {r.cur} ELSE {})

(* A key says what its action is about; templates are not confused with rules. *)
KeyTells(a) ==
    \/ a.key = <<a.object, a.playbook, a.rule, a.template>>
    \/ a.key = <<a.object, a.playbook, a.template>> /\ a.template \in Templates
    \/ a.key = <<a.object, a.playbook, a.rule>>

KeysTell == \A k \in DOMAIN actions : KeyTells(actions[k])

Fits(r) ==
    \A c \in Ahead(r) : /\ r.stage = "templates" => c.template \in Templates
                        /\ r.stage = "topUp" => c.rule \in Rules

OwnsItsObject(r) == \A k \in Owned(r) : actions[k].object = Object(r)

(* A failing rule is covered, or its candidate is still ahead. *)
ToppingUp(r) ==
    (r.stage = "topUp" /\ r.phase # "lookup") =>
        \A i \in Failing(r.event) :
            \/ InStore(Object(r), Pair(Evals(r.event)[i]))
            \/ \E c \in Ahead(r) : Pair(c) = Pair(Evals(r.event)[i])

ToppedUp(r) ==
    (r.stage = "publish" /\ r.toppedUp) =>
        \A i \in Failing(r.event) : InStore(Object(r), Pair(Evals(r.event)[i]))

(* The inductive strengthening of ReviewCovered. *)
Covering(r) == Fits(r) /\ OwnsItsObject(r) /\ ToppingUp(r) /\ ToppedUp(r)

ReviewInv == KeysTell /\ \A w \in Workers : Covering(run[w])

(* Runs with nothing ahead, nothing in hand and no top-up are covering. *)
LEMMA EmptyCovers ==
    ASSUME NEW r, r.todo = {}, r.phase = "lookup", Owned(r) = {}, r.toppedUp = FALSE
    PROVE  Covering(r)
  BY DEF Covering, Fits, Ahead, OwnsItsObject, ToppingUp, ToppedUp

LEMMA ReviewInit == Init => ReviewInv
  <1>1. Covering(IdleRun)
    <2>1. IdleRun.todo = {} /\ IdleRun.phase = "lookup" /\ IdleRun.toppedUp = FALSE
      BY DEF IdleRun
    <2> QED
      BY <2>1, IdleOwnsNothing, EmptyCovers
  <1> QED
    BY <1>1 DEF Init, ReviewInv, KeysTell

(* What a call that reads its candidates has before it. *)
LEMMA CandidatesFit ==
    ASSUME NEW r, r.event \in Events, r.stage \in CallStages, NEW loaded,
           NEW c \in CandidatesOf(r, loaded)
    PROVE  /\ r.stage = "templates" => c.template \in Templates
           /\ r.stage = "topUp" => c.rule \in Rules
  <1>1. CASE r.stage = "templates"
    <2>1. c \in TemplateCandidates(r.event)
      BY <1>1 DEF CandidatesOf
    <2>2. PICK t \in Triggered(r.event) : \E pb \in ResolvePlaybooks(r.event, t) :
              c = Candidate(0, pb, FirstRule(r.event, pb), t)
      BY <2>1 DEF TemplateCandidates
    <2> QED
      BY <1>1, <2>2, ConstantsAssumption DEF Triggered, Candidate
  <1>2. CASE r.stage = "topUp"
    <2>1. c \in ReviewCandidates(r.event, Covered(r))
      BY <1>2 DEF CandidatesOf
    <2>2. PICK i \in Failing(r.event) :
              c = Candidate(i, Evals(r.event)[i].playbook, Evals(r.event)[i].rule, None)
      BY <2>1 DEF ReviewCandidates
    <2>3. Evals(r.event)[i].rule \in Rules
      BY <2>2, EvalsType DEF Failing
    <2> QED
      BY <1>2, <2>2, <2>3 DEF Candidate
  <1> QED
    BY <1>1, <1>2

(* The candidates of the top-up leave out nothing but what is covered. *)
LEMMA CandidatesCover ==
    ASSUME NEW e \in Events, NEW covered, NEW i \in Failing(e), Pair(Evals(e)[i]) \notin covered
    PROVE  \E c \in ReviewCandidates(e, covered) : Pair(c) = Pair(Evals(e)[i])
  <1> DEFINE T == {j \in Failing(e) : Pair(Evals(e)[j]) = Pair(Evals(e)[i])}
  <1>1. T \in SUBSET Nat /\ i \in T
    BY EvalsType DEF Failing
  <1>2. PICK j \in T : \A k \in T : j <= k
    BY <1>1, LeastElement
  <1> DEFINE c == Candidate(j, Evals(e)[j].playbook, Evals(e)[j].rule, None)
  <1>3. \A k \in Failing(e) : k < j => Pair(Evals(e)[k]) # Pair(Evals(e)[j])
    BY <1>1, <1>2
  <1>4. c \in ReviewCandidates(e, covered)
    BY <1>2, <1>3 DEF ReviewCandidates
  <1>5. Pair(c) = Pair(Evals(e)[j])
    BY DEF Pair, Candidate
  <1> QED
    BY <1>2, <1>4, <1>5

(* The key of an action of the top-up is stored only with its rule. *)
LEMMA StoredMeansCovered ==
    ASSUME KeysTell, NEW r, r.stage = "topUp", NEW c, c.rule \in Rules, Stored(Key(r, c))
    PROVE  InStore(Object(r), Pair(c))
  <1>1. PICK k \in DOMAIN actions : actions[k].key = <<Object(r), c.playbook, c.rule>>
    BY DEF Stored, Key
  <1> DEFINE a == actions[k]
  <1>2. KeyTells(a)
    BY DEF KeysTell
  <1>3. a.key # <<a.object, a.playbook, a.rule, a.template>>
    BY <1>1
  <1>4. ~(a.key = <<a.object, a.playbook, a.template>> /\ a.template \in Templates)
    BY <1>1, IdsAssumption
  <1>5. a.key = <<a.object, a.playbook, a.rule>>
    BY <1>2, <1>3, <1>4 DEF KeyTells
  <1>6. a.object = Object(r) /\ a.playbook = c.playbook /\ a.rule = c.rule
    BY <1>1, <1>5
  <1> QED
    BY <1>6 DEF InStore, Pair

(* A worker inserts an action whose key tells. *)
LEMMA RecordTells ==
    ASSUME NEW r, Fits(r), r.stage \in CallStages, r.phase = "insert"
    PROVE  KeyTells(Record(r, r.cur))
  <1>1. r.stage = "templates" => r.cur.template \in Templates
    BY DEF Fits, Ahead
  <1> QED
    BY <1>1 DEF KeyTells, Record, Key, CallStages

(* The collection only grows: what is covered stays covered, and an action
   stays about its object. *)
StoreGrows ==
    /\ \A object, pair : InStore(object, pair) => InStore(object, pair)'
    /\ \A k \in DOMAIN actions : k \in DOMAIN actions' /\ actions'[k].object = actions[k].object

LEMMA SameStoreGrows == SameStore => StoreGrows
  BY DEF SameStore, StoreGrows, InStore, Pair

LEMMA AppendGrows ==
    ASSUME TypeOK, NEW a \in ActionType, actions' = Append(actions, a)
    PROVE  /\ StoreGrows
           /\ \E k \in DOMAIN actions' :
                 actions'[k].object = a.object /\ Pair(actions'[k]) = Pair(a)
           /\ KeysTell /\ KeyTells(a) => KeysTell'
           /\ Len(actions) + 1 \in DOMAIN actions' /\ actions'[Len(actions) + 1] = a
  <1> DEFINE n == Len(actions)
  <1>1. /\ DOMAIN actions = 1 .. n /\ DOMAIN actions' = 1 .. (n + 1)
        /\ \A k \in 1 .. n : actions'[k] = actions[k]
        /\ actions'[n + 1] = a /\ n \in Nat
    BY AppendAction DEF TypeOK
  <1>2. /\ \A k \in 1 .. (n + 1) : k \in 1 .. n \/ k = n + 1
        /\ n + 1 \in 1 .. (n + 1) /\ 1 .. n \subseteq 1 .. (n + 1)
    BY <1>1
  <1> HIDE DEF n
  <1>3. StoreGrows
    BY <1>1, <1>2 DEF StoreGrows, InStore, Pair
  <1>4. \E k \in DOMAIN actions' : actions'[k].object = a.object /\ Pair(actions'[k]) = Pair(a)
    BY <1>1, <1>2
  <1>5. KeysTell /\ KeyTells(a) => KeysTell'
    BY <1>1, <1>2 DEF KeysTell
  <1> QED
    BY <1>1, <1>2, <1>3, <1>4, <1>5 DEF n

(* A run that a step leaves alone goes on covering. *)
LEMMA OthersCover ==
    ASSUME TypeOK, StoreGrows, NEW v \in Workers, run'[v] = run[v], Covering(run[v])
    PROVE  Covering(run[v])'
  <1>1. Owned(run[v]) \subseteq DOMAIN actions
    BY OwnedStored DEF TypeOK
  <1>2. OwnsItsObject(run[v])'
    BY <1>1 DEF Covering, OwnsItsObject, StoreGrows
  <1>3. Fits(run[v])'
    BY DEF Covering, Fits
  <1>4. ToppingUp(run[v])' /\ ToppedUp(run[v])'
    BY DEF Covering, ToppingUp, ToppedUp, StoreGrows
  <1> QED
    BY <1>2, <1>3, <1>4 DEF Covering

(* The end of a call: only a top-up that returned Ok has something to show. *)
LEMMA EndedCovers ==
    ASSUME TypeOK, StoreGrows, NEW w \in Workers, Covering(run[w]), NEW ok \in BOOLEAN,
           run'[w] = Ended(run[w], ok),
           (ok /\ run[w].stage = "topUp") => Ahead(run[w]) = {} /\ run[w].phase # "lookup"
    PROVE  Covering(run[w])'
  <1>1. run[w] \in RunType
    BY TypeParts
  <1>2. /\ run'[w].event = run[w].event /\ run'[w].phase = "lookup" /\ run'[w].todo = {}
        /\ run'[w].toppedUp = (run[w].stage = "topUp" /\ ok)
        /\ Owned(run'[w]) \subseteq Owned(run[w])
    <2>1. /\ run'[w].event = run[w].event /\ run'[w].phase = "lookup" /\ run'[w].todo = {}
          /\ run'[w].toppedUp = (run[w].stage = "topUp" /\ ok)
      BY <1>1 DEF Ended, RunType
    <2> QED
      BY <1>1, <2>1, EndedOwned DEF Owned
  <1>3. Object(run'[w]) = Object(run[w])
    BY <1>2, SameEventSameObject
  <1>4. Owned(run[w]) \subseteq DOMAIN actions
    BY OwnedStored DEF TypeOK
  <1>5. OwnsItsObject(run[w])'
    BY <1>2, <1>3, <1>4 DEF Covering, OwnsItsObject, StoreGrows
  <1>6. Fits(run[w])' /\ ToppingUp(run[w])'
    BY <1>2 DEF Fits, Ahead, ToppingUp
  <1>7. ToppedUp(run[w])'
    <2> SUFFICES ASSUME run'[w].toppedUp, NEW i \in Failing(run'[w].event)
                 PROVE  InStore(Object(run[w]), Pair(Evals(run[w].event)[i]))'
      BY DEF ToppedUp
    <2>1. InStore(Object(run'[w]), Pair(Evals(run'[w].event)[i]))
      BY <1>2, <1>3 DEF Covering, ToppingUp
    <2> QED
      BY <2>1 DEF StoreGrows, InStore
  <1> QED
    BY <1>5, <1>6, <1>7 DEF Covering

(* Every step preserves the strengthening. *)
LEMMA ReviewStep == TypeOK /\ ReviewInv /\ [Next]_vars => ReviewInv'
  <1> SUFFICES ASSUME TypeOK, ReviewInv, [Next]_vars PROVE ReviewInv'
    OBVIOUS
  <1>0. /\ run \in [Workers -> RunType] /\ \A w \in Workers : RunOK(run[w], Len(actions))
        /\ KeysTell /\ \A w \in Workers : Covering(run[w])
    BY TypeParts DEF ReviewInv
  <1>20. UNCHANGED actions => SameStore
    BY DEF SameStore
  <1>21. SameStore => KeysTell'
    BY <1>0 DEF SameStore, KeysTell, KeyTells
  <1>1. ASSUME NEW w \in Workers, NEW e \in Events, Begin(w, e)
        PROVE  ReviewInv'
    <2>1. \A v \in Workers \ {w} : run'[v] = run[v]
      BY <1>1, BeginShape
    <2>2. SameStore
      BY <1>1, <1>20, BeginShape
    <2>3. run'[w].todo = {} /\ run'[w].phase = "lookup" /\ run'[w].toppedUp = FALSE
          /\ Owned(run'[w]) = {}
      <3>1. run'[w] = [IdleRun EXCEPT !.event = e, !.stage = "bindings"]
        BY <1>1, BeginShape
      <3> QED
        BY <3>1 DEF IdleRun, Owned
    <2>4. Covering(run[w])'
      BY <2>3 DEF Covering, Fits, Ahead, OwnsItsObject, ToppingUp, ToppedUp
    <2>5. \A v \in Workers \ {w} : Covering(run[v])'
      BY <1>0, <2>1, <2>2, SameStoreGrows, OthersCover
    <2> QED
      BY <1>21, <2>2, <2>4, <2>5 DEF ReviewInv
  <1>2. ASSUME NEW w \in Workers, Step(w)
        PROVE  ReviewInv'
    <2> DEFINE r == run[w]
    <2>0. r \in RunType /\ RunOK(r, Len(actions)) /\ Covering(r)
      BY <1>0
    <2>1. /\ \A v \in Workers \ {w} : run'[v] = run[v]
          /\ (Active(w) /\ SameStore) \/ AppendsCurrent(w)
      BY <1>2, StepShape
    <2>2. StoreGrows /\ KeysTell'
      <3>1. CASE SameStore
        BY <1>21, <3>1, SameStoreGrows
      <3>2. CASE AppendsCurrent(w)
        <4>1. Record(r, r.cur) \in ActionType
          BY <2>0, <3>2, RecordType DEF AppendsCurrent, InCall, RunOK, CallStages
        <4>2. KeyTells(Record(r, r.cur))
          BY <2>0, <3>2, RecordTells DEF AppendsCurrent, InCall, Covering
        <4> QED
          BY <1>0, <3>2, <4>1, <4>2, AppendGrows DEF AppendsCurrent
      <3> QED
        BY <2>1, <3>1, <3>2
    <2>3. \A v \in Workers \ {w} : Covering(run[v])'
      BY <1>0, <2>1, <2>2, OthersCover
    <2>4. CASE LookupFails(w) \/ FindFails(w) \/ InsertFails(w)
      <3>1. run'[w] = Ended(r, FALSE)
        BY <1>0, <2>4 DEF LookupFails, FindFails, InsertFails
      <3>2. Covering(run[w])'
        BY <2>0, <2>2, <3>1, EndedCovers
      <3> QED
        BY <2>2, <2>3, <3>2 DEF ReviewInv
    <2>5. CASE Return(w)
      <3>1. run'[w] = Ended(r, TRUE) /\ r.phase = "find" /\ r.todo = {}
        BY <1>0, <2>5 DEF Return, InCall
      <3>2. Covering(run[w])'
        BY <2>0, <2>2, <3>1, EndedCovers DEF Ahead
      <3> QED
        BY <2>2, <2>3, <3>2 DEF ReviewInv
    <2>6. CASE Publish(w) \/ PublishFails(w)
      <3>1. run'[w] = IdleRun
        BY <1>0, <2>6 DEF Publish, PublishFails
      <3>2. IdleRun.todo = {} /\ IdleRun.phase = "lookup" /\ IdleRun.toppedUp = FALSE
        BY DEF IdleRun
      <3>3. Covering(run[w])'
        BY <3>1, <3>2, IdleOwnsNothing
        DEF Covering, Fits, Ahead, OwnsItsObject, ToppingUp, ToppedUp
      <3> QED
        BY <2>2, <2>3, <3>3 DEF ReviewInv
    <2>7. CASE Lookup(w)
      <3>1. PICK missed \in SUBSET StoredTemplates :
               run' = [run EXCEPT ![w] =
                   [r EXCEPT !.phase = "find",
                             !.todo = CandidatesOf(r, StoredTemplates \ missed)]]
        BY <2>7 DEF Lookup
      <3>2. /\ r.event \in Events /\ r.stage \in CallStages
            /\ r.phase = "lookup" /\ actions' = actions
        BY <2>0, <2>7 DEF Lookup, InCall, RunOK, CallStages
      <3>3. /\ run'[w].event = r.event /\ run'[w].stage = r.stage /\ run'[w].phase = "find"
            /\ run'[w].todo = CandidatesOf(r, StoredTemplates \ missed)
            /\ run'[w].fresh = r.fresh /\ run'[w].created = r.created
        BY <1>0, <3>1 DEF RunType
      <3>4. /\ Ahead(run'[w]) = CandidatesOf(r, StoredTemplates \ missed)
            /\ Owned(run'[w]) = r.fresh \cup r.created
        BY <3>3 DEF Ahead, Owned
      <3>5. Object(run'[w]) = Object(r)
        BY <3>3, SameEventSameObject
      <3>6. Fits(run[w])'
        BY <3>2, <3>3, <3>4, CandidatesFit DEF Fits
      <3>7. OwnsItsObject(run[w])'
        BY <2>0, <3>2, <3>4, <3>5 DEF Covering, OwnsItsObject, Owned
      <3>8. ToppingUp(run[w])'
        <4> SUFFICES ASSUME r.stage = "topUp", NEW i \in Failing(r.event)
                     PROVE  \/ InStore(Object(r), Pair(Evals(r.event)[i]))
                            \/ \E c \in CandidatesOf(r, StoredTemplates \ missed) :
                                  Pair(c) = Pair(Evals(r.event)[i])
          BY <3>2, <3>3, <3>4, <3>5 DEF ToppingUp, InStore
        <4> DEFINE pair == Pair(Evals(r.event)[i])
        <4>1. CASE pair \in Covered(r)
          <5>1. PICK k \in r.created : Pair(actions[k]) = pair
            BY <4>1 DEF Covered
          <5>2. k \in DOMAIN actions /\ actions[k].object = Object(r)
            BY <2>0, <5>1 DEF RunOK, Covering, OwnsItsObject, Owned, TypeOK
          <5> QED
            BY <5>1, <5>2 DEF InStore
        <4>2. CASE pair \notin Covered(r)
          <5>1. \E c \in ReviewCandidates(r.event, Covered(r)) : Pair(c) = pair
            BY <3>2, <4>2, CandidatesCover
          <5> QED
            BY <5>1 DEF CandidatesOf
        <4> QED
          BY <4>1, <4>2
      <3>9. ToppedUp(run[w])'
        BY <3>2, <3>3 DEF ToppedUp, CallStages
      <3> QED
        BY <2>2, <2>3, <3>6, <3>7, <3>8, <3>9 DEF ReviewInv, Covering
    <2>8. CASE Find(w)
      <3>1. PICK c \in NextCandidates(r) :
               run' = [run EXCEPT ![w] =
                         IF Stored(Key(r, c)) THEN [r EXCEPT !.todo = r.todo \ {c}]
                         ELSE [r EXCEPT !.todo = r.todo \ {c}, !.phase = "insert", !.cur = c]]
        BY <2>8 DEF Find
      <3>2. r.stage \in CallStages /\ r.phase = "find" /\ actions' = actions
        BY <2>8 DEF Find, InCall
      <3>3. /\ run'[w].event = r.event /\ run'[w].stage = r.stage
            /\ run'[w].phase \in {"find", "insert"}
            /\ run'[w].fresh = r.fresh /\ run'[w].created = r.created
        BY <1>0, <3>1, <3>2 DEF RunType
      <3>4. c \in r.todo /\ Ahead(r) = r.todo
        BY <3>1, <3>2 DEF NextCandidates, Ahead
      <3>5. /\ Ahead(run'[w]) \subseteq Ahead(r)
            /\ Ahead(run'[w]) # Ahead(r) =>
                  Stored(Key(r, c)) /\ Ahead(run'[w]) = Ahead(r) \ {c}
        <4>1. CASE Stored(Key(r, c))
          <5>1. run'[w].todo = r.todo \ {c} /\ run'[w].phase = "find"
            BY <1>0, <3>1, <3>2, <4>1 DEF RunType
          <5> QED
            BY <3>4, <4>1, <5>1 DEF Ahead
        <4>2. CASE ~Stored(Key(r, c))
          <5>1. run'[w].todo = r.todo \ {c} /\ run'[w].phase = "insert" /\ run'[w].cur = c
            BY <1>0, <3>1, <4>2 DEF RunType
          <5> QED
            BY <3>4, <5>1 DEF Ahead
        <4> QED
          BY <4>1, <4>2
      <3>6. Object(run'[w]) = Object(r) /\ Owned(run'[w]) = Owned(r)
        BY <3>2, <3>3, SameEventSameObject DEF Owned
      <3>7. Fits(run[w])'
        BY <2>0, <3>3, <3>5 DEF Covering, Fits
      <3>8. OwnsItsObject(run[w])'
        BY <2>0, <3>2, <3>6 DEF Covering, OwnsItsObject
      <3>9. ToppingUp(run[w])'
        <4> SUFFICES ASSUME r.stage = "topUp", NEW i \in Failing(r.event)
                     PROVE  \/ InStore(Object(r), Pair(Evals(r.event)[i]))
                            \/ \E d \in Ahead(run'[w]) : Pair(d) = Pair(Evals(r.event)[i])
          BY <3>2, <3>3, <3>6 DEF ToppingUp, InStore
        <4>1. \/ InStore(Object(r), Pair(Evals(r.event)[i]))
              \/ \E d \in Ahead(r) : Pair(d) = Pair(Evals(r.event)[i])
          BY <2>0, <3>2 DEF Covering, ToppingUp
        <4>2. Stored(Key(r, c)) => InStore(Object(r), Pair(c))
          <5>1. c.rule \in Rules
            BY <2>0, <3>4 DEF Covering, Fits
          <5> QED
            BY <1>0, <5>1, StoredMeansCovered
        <4> QED
          BY <3>5, <4>1, <4>2
      <3>10. ToppedUp(run[w])'
        BY <3>2, <3>3 DEF ToppedUp, CallStages
      <3> QED
        BY <2>2, <2>3, <3>7, <3>8, <3>9, <3>10 DEF ReviewInv, Covering
    <2>9. CASE Insert(w)
      <3> DEFINE a == Record(r, r.cur)
                 n == Len(actions)
      <3>1. /\ r.stage \in CallStages /\ r.phase = "insert"
            /\ actions' = Append(actions, a) /\ a \in ActionType
        BY <2>0, <2>9, RecordType DEF Insert, InCall, RunOK, CallStages
      <3>2. /\ run'[w].event = r.event /\ run'[w].stage = r.stage /\ run'[w].phase = "route"
            /\ run'[w].todo = r.todo /\ run'[w].id = n + 1
            /\ run'[w].fresh = r.fresh /\ run'[w].created = r.created
        BY <1>0, <2>9 DEF Insert, RunType
      <3>3. /\ Ahead(run'[w]) = r.todo /\ Ahead(r) = r.todo \cup {r.cur}
            /\ Owned(run'[w]) = Owned(r) \cup {n + 1}
        BY <3>1, <3>2 DEF Ahead, Owned
      <3>4. Object(run'[w]) = Object(r)
        BY <3>2, SameEventSameObject
      <3>5. a.object = Object(r) /\ Pair(a) = Pair(r.cur)
        BY DEF Record, Pair
      <3>6. /\ \E k \in DOMAIN actions' :
                  actions'[k].object = a.object /\ Pair(actions'[k]) = Pair(a)
            /\ actions'[n + 1] = a
        BY <3>1, AppendGrows
      <3>7. Owned(r) \subseteq DOMAIN actions
        BY OwnedStored DEF TypeOK
      <3>8. Fits(run[w])'
        BY <2>0, <3>2, <3>3 DEF Covering, Fits
      <3>9. OwnsItsObject(run[w])'
        <4> HIDE DEF a, n
        <4> QED
          BY <2>0, <2>2, <3>3, <3>4, <3>5, <3>6, <3>7
          DEF Covering, OwnsItsObject, StoreGrows
      <3>10. ToppingUp(run[w])'
        <4> SUFFICES ASSUME run'[w].stage = "topUp", NEW i \in Failing(run'[w].event)
                     PROVE  \/ \E k \in DOMAIN actions' :
                                 /\ actions'[k].object = Object(run'[w])
                                 /\ Pair(actions'[k]) = Pair(Evals(run'[w].event)[i])
                            \/ \E d \in Ahead(run'[w]) : Pair(d) = Pair(Evals(run'[w].event)[i])
          BY DEF ToppingUp, InStore
        <4> DEFINE pair == Pair(Evals(r.event)[i])
        <4>1. InStore(Object(r), pair) \/ \E d \in Ahead(r) : Pair(d) = pair
          BY <2>0, <3>1, <3>2 DEF Covering, ToppingUp
        <4>2. CASE InStore(Object(r), pair)
          <5>1. \E k \in DOMAIN actions' :
                   actions'[k].object = Object(r) /\ Pair(actions'[k]) = pair
            <6> HIDE DEF a, n, pair, r
            <6> QED
              BY <2>2, <4>2 DEF StoreGrows, InStore
          <5>2. pair = Pair(Evals(run'[w].event)[i])
            BY <3>2
          <5> QED
            BY <3>4, <5>1, <5>2
        <4>3. CASE \E d \in r.todo : Pair(d) = pair
          BY <3>2, <3>3, <4>3
        <4>4. CASE Pair(r.cur) = pair
          BY <3>2, <3>4, <3>5, <3>6, <4>4
        <4> QED
          BY <3>3, <4>1, <4>2, <4>3, <4>4
      <3>11. ToppedUp(run[w])'
        BY <3>1, <3>2 DEF ToppedUp, CallStages
      <3> QED
        BY <2>2, <2>3, <3>8, <3>9, <3>10, <3>11 DEF ReviewInv, Covering
    <2>10. CASE Route(w) \/ RouteFails(w)
      <3>1. r.stage \in CallStages /\ r.phase = "route" /\ run'[w] = Routed(r)
        BY <1>0, <2>10 DEF Route, RouteFails, InCall
      <3>2. /\ run'[w].event = r.event /\ run'[w].stage = r.stage /\ run'[w].phase = "find"
            /\ run'[w].todo = r.todo
            /\ run'[w].fresh = r.fresh \cup {r.id} /\ run'[w].created = r.created
        BY <2>0, <3>1 DEF Routed, RunType
      <3>3. Ahead(run'[w]) = Ahead(r) /\ Owned(run'[w]) = Owned(r)
        BY <3>1, <3>2 DEF Ahead, Owned
      <3>4. Object(run'[w]) = Object(r)
        BY <3>2, SameEventSameObject
      <3>5. Owned(r) \subseteq DOMAIN actions
        BY OwnedStored DEF TypeOK
      <3>6. Fits(run[w])'
        BY <2>0, <3>2, <3>3 DEF Covering, Fits
      <3>7. OwnsItsObject(run[w])'
        BY <2>0, <2>2, <3>3, <3>4, <3>5 DEF Covering, OwnsItsObject, StoreGrows
      <3>8. ToppingUp(run[w])'
        <4> SUFFICES ASSUME run'[w].stage = "topUp", NEW i \in Failing(run'[w].event)
                     PROVE  \/ \E k \in DOMAIN actions' :
                                 /\ actions'[k].object = Object(run'[w])
                                 /\ Pair(actions'[k]) = Pair(Evals(run'[w].event)[i])
                            \/ \E d \in Ahead(run'[w]) : Pair(d) = Pair(Evals(run'[w].event)[i])
          BY DEF ToppingUp, InStore
        <4> DEFINE pair == Pair(Evals(r.event)[i])
        <4>1. InStore(Object(r), pair) \/ \E d \in Ahead(r) : Pair(d) = pair
          BY <2>0, <3>1, <3>2 DEF Covering, ToppingUp
        <4>2. CASE InStore(Object(r), pair)
          BY <2>2, <3>2, <3>4, <4>2 DEF StoreGrows, InStore
        <4>3. CASE \E d \in Ahead(r) : Pair(d) = pair
          BY <3>2, <3>3, <4>3
        <4> QED
          BY <4>1, <4>2, <4>3
      <3>9. ToppedUp(run[w])'
        BY <3>1, <3>2 DEF ToppedUp, CallStages
      <3> QED
        BY <2>2, <2>3, <3>6, <3>7, <3>8, <3>9 DEF ReviewInv, Covering
    <2> QED
      BY <1>2, <2>4, <2>5, <2>6, <2>7, <2>8, <2>9, <2>10 DEF Step
  <1>3. ASSUME Crash
        PROVE  ReviewInv'
    <2>1. \A w \in Workers : run'[w] = IdleRun
      BY <1>3 DEF Crash
    <2>2. IdleRun.todo = {} /\ IdleRun.phase = "lookup" /\ IdleRun.toppedUp = FALSE
      BY DEF IdleRun
    <2>3. \A w \in Workers : Covering(run[w])'
      BY <2>1, <2>2, IdleOwnsNothing
      DEF Covering, Fits, Ahead, OwnsItsObject, ToppingUp, ToppedUp
    <2>4. KeysTell'
      BY <1>3, <1>20, <1>21 DEF Crash
    <2> QED
      BY <2>3, <2>4 DEF ReviewInv
  <1>4. ASSUME UNCHANGED vars
        PROVE  ReviewInv'
    <2>1. SameStore /\ run' = run
      BY <1>4, <1>20 DEF vars
    <2>2. \A w \in Workers : Covering(run[w])'
      BY <1>0, <2>1, SameStoreGrows, OthersCover
    <2> QED
      BY <1>21, <2>1, <2>2 DEF ReviewInv
  <1> QED
    BY <1>1, <1>2, <1>3, <1>4 DEF Next

(* Whatever the earlier calls created, skipped, suppressed or lost, and whoever
   else is at work: once the top-up of a run has returned Ok, every rule that
   failed or was inconclusive has an action for the object. *)
THEOREM ReviewIsCovered == Spec => []ReviewCovered
  <1>1. Spec => []ReviewInv
    BY TypeCorrect, ReviewInit, ReviewStep, PTL DEF Spec
  <1>2. ReviewInv => ReviewCovered
    BY DEF ReviewInv, Covering, ToppedUp, ReviewCovered
  <1> QED
    BY <1>1, <1>2, PTL

=============================================================================
