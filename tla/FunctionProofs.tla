--------------------------- MODULE FunctionProofs ---------------------------
(***************************************************************************)
(* Proofs about the functions of PureFunctions, for any rules, snapshots,  *)
(* configurations, triggers, routes, actions and payloads that satisfy its *)
(* assumptions.                                                            *)
(***************************************************************************)
EXTENDS PureFunctions, SequenceFacts

-----------------------------------------------------------------------------
(* A behaviour keeps its input, and its outcome is what the one action for   *)
(* inputs of this kind makes of it.                                          *)

Inputs(of) ==
    CASE of = "rule"    -> [of : {of}, rule : Conditionals, snapshot : RuleSnapshots]
      [] of = "config"  -> [of : {of}, wire : Wires]
      [] of = "expr"    -> [of : {of}, expr : Exprs]
      [] of = "trigger" -> {[of |-> of, pb |-> t.pb, head |-> t.head] : t \in Triggers}
      [] of = "route"   -> [of : {of}, routes : RoutingTables, request : Requests]
      [] of = "metrics" -> {[of |-> of, outcomes |-> <<o, p>>] : o \in Outcomes, p \in OtherOutcomes}
      [] of = "action"  -> [of : {of}, action : NewActions, route : Routes]
      [] of = "key"     -> [of : {of}, list : Payloads, type : Spellings, key : LookedFor]

Kinds == {"rule", "config", "expr", "trigger", "route", "metrics", "action", "key"}

InputOK == \E of \in Kinds : input \in Inputs(of)

LEMMA InputIsKept == Spec => []InputOK
  <1>1. Init => InputOK
    BY DEF Init, InputOK, Inputs, Kinds
  <1>2. InputOK /\ [Next]_vars => InputOK'
    BY DEF InputOK, Next, vars
  <1> QED
    BY <1>1, <1>2, PTL DEF Spec

(* An input names its kind. *)
LEMMA InputOfKind ==
    ASSUME InputOK, NEW of \in Kinds, input.of = of
    PROVE  input \in Inputs(of)
  <1>1. PICK k \in Kinds : input \in Inputs(k)
    BY DEF InputOK
  <1>2. input.of = k
    BY <1>1 DEF Inputs, Kinds
  <1> QED
    BY <1>1, <1>2

RuleAnswer == Done("rule") =>
    outcome = [status |-> Rule!RuleStatus(input.rule, input.snapshot)]

ConfigAnswer == Done("config") /\ "tadpoles" \in DOMAIN outcome =>
    /\ ConfigIsValid(input.wire)
    /\ outcome = [tadpoles |-> AssignAll(Codices(input.wire), EventHead)]

ExprAnswer == Done("expr") => outcome = [status |-> ExprStatus(input.expr, EventHead)]

TriggerAnswer == Done("trigger") =>
    outcome = [static |-> Matches(input.pb, input.head),
               stored |-> StoreMatches(input.pb, input.head)]

RouteAnswer == Done("route") =>
    outcome = [route |-> Router!Resolve(input.routes, input.request)]

ActionAnswer == Done("action") =>
    outcome = [inserted |-> Act!DocToRecord(Act!RecordToDoc(input.action)),
               routed |-> Act!DocToRecord(
                             Act!UpdateAssignment(Act!RecordToDoc(input.action), input.route)),
               published |-> Act!ApplyRouting(input.action, input.route)]

KeyAnswer == Done("key") =>
    outcome = [found |-> Snap!ValueOf(Snap!SnapshotOf(input.list, input.type),
                                      input.type, input.key)]

Computed == /\ RuleAnswer /\ ConfigAnswer /\ ExprAnswer /\ TriggerAnswer
            /\ RouteAnswer /\ ActionAnswer /\ KeyAnswer

LEMMA OutcomeIsComputed == Spec => []Computed
  <1>1. Init => Computed
    BY DEF Init, Computed, RuleAnswer, ConfigAnswer, ExprAnswer, TriggerAnswer, RouteAnswer,
           ActionAnswer, KeyAnswer, Done
  <1>2. ASSUME Computed, [Next]_vars
        PROVE  Computed'
    <2> USE DEF Computed, RuleAnswer, ConfigAnswer, ExprAnswer, TriggerAnswer, RouteAnswer,
                ActionAnswer, KeyAnswer, Done
    <2>1. CASE UNCHANGED vars
      BY <1>2, <2>1 DEF vars
    <2>2. CASE Next /\ Decide
      BY <2>2 DEF Next, Decide
    <2>3. CASE Next /\ Load
      <3>1. outcome' = [rejected |-> TRUE] => "tadpoles" \notin DOMAIN outcome'
        OBVIOUS
      <3> QED
        BY <2>3, <3>1 DEF Next, Load
    <2>4. CASE Next /\ Evaluate
      BY <2>4 DEF Next, Evaluate
    <2>5. CASE Next /\ Match
      BY <2>5 DEF Next, Match
    <2>6. CASE Next /\ Route
      BY <2>6 DEF Next, Route
    <2>7. CASE Next /\ Store
      BY <2>7 DEF Next, Store
    <2>8. CASE Next /\ Keep
      BY <2>8 DEF Next, Keep
    <2>9. CASE Next /\ Find
      BY <2>9 DEF Next, Find
    <2> QED
      BY <1>2, <2>1, <2>2, <2>3, <2>4, <2>5, <2>6, <2>7, <2>8, <2>9 DEF Next
  <1>3. Computed /\ [Next]_vars => Computed'
    BY <1>2
  <1> QED
    BY <1>1, <1>3, PTL DEF Spec

-----------------------------------------------------------------------------
(* Conditions.                                                               *)

Condition == [key : Keys, op : Rule!Operators, expected : Rule!Value \cup {None},
              keyType : Rule!KeyTypes]

LEMMA NumberType ==
    ASSUME NEW v \in Rule!Value
    PROVE  Rule!AsNumber(v) \in Int \cup {NaN, None}
  BY RulesAssumption DEF Rule!AsNumber, Rule!Value, Rule!Scalar

(* A check passes, fails or is inconclusive. *)
LEMMA CheckType ==
    ASSUME NEW c, NEW fields
    PROVE  Rule!Check(c, fields) \in Status
  <1>1. \A b : Rule!Holds(b) \in Status
    BY DEF Rule!Holds, Status
  <1>2. \A a, e, t : Rule!Equal(a, e, t) \in Status
    BY <1>1 DEF Rule!Equal, Status
  <1>3. \A s \in Status : Rule!Negated(s) \in Status
    BY DEF Rule!Negated, Status
  <1>4. \A a, e : Rule!Contains(a, e) \in Status
    BY <1>1 DEF Rule!Contains, Status
  <1>5. \A op, a, e, t : Rule!Compare(op, a, e, t) \in Status
    BY <1>1, <1>2, <1>3, <1>4 DEF Rule!Compare, Status
  <1> QED
    BY <1>5 DEF Rule!Check, Status

(* An operator and its complement contradict each other. *)
LEMMA CompareDual ==
    ASSUME NEW a \in Rule!Value, NEW e \in Rule!Value, NEW t, NEW op \in DOMAIN Complement,
           Rule!AsNumber(a) # NaN, Rule!AsNumber(e) # NaN
    PROVE  Rule!Compare(Complement[op], a, e, t) = Rule!Negated(Rule!Compare(op, a, e, t))
  <1> DEFINE n == Rule!AsNumber(a)
             m == Rule!AsNumber(e)
  <1>1. n \in Int \cup {None} /\ m \in Int \cup {None}
    BY NumberType
  <1>2. Rule!Equal(a, e, t) = Rule!Negated(Rule!Negated(Rule!Equal(a, e, t)))
    BY DEF Rule!Negated
  <1>3. n # None /\ m # None => /\ Rule!Ordered(n, m)
                                /\ (n > m <=> ~(n <= m)) /\ (n < m <=> ~(n >= m))
    BY <1>1 DEF Rule!Ordered
  <1>4. CASE op \in {"eq", "neq"}
    BY <1>2, <1>4 DEF Complement, Rule!Compare
  <1>5. CASE op \in {"gt", "lte", "lt", "gte"}
    <2> HIDE DEF n, m
    <2>1. CASE n = None \/ m = None
      BY <1>5, <2>1 DEF Complement, Rule!Compare, Rule!Negated, n, m
    <2>2. CASE n # None /\ m # None
      BY <1>3, <1>5, <2>2 DEF Complement, Rule!Compare, Rule!Negated, Rule!Holds, n, m
    <2> QED
      BY <2>1, <2>2
  <1> QED
    BY <1>4, <1>5 DEF Complement

(* The status of a rule depends only on which of the three its checks show. *)
LEMMA ChecksType ==
    ASSUME NEW rule, NEW fields
    PROVE  Rule!Checks(rule, fields) \subseteq Status
  BY CheckType DEF Rule!Checks

LEMMA CombineDual ==
    ASSUME NEW l \in {"All", "Any"}, NEW X \in SUBSET Status, NEW Y,
           Y = {Rule!Negated(x) : x \in X}
    PROVE  Rule!Combine(IF l = "All" THEN "Any" ELSE "All", Y)
               = Rule!Negated(Rule!Combine(l, X))
  <1>1. /\ "PASS" \in Y <=> "FAIL" \in X
        /\ "FAIL" \in Y <=> "PASS" \in X
        /\ "INCONCLUSIVE" \in Y <=> "INCONCLUSIVE" \in X
    BY DEF Rule!Negated, Status
  <1> QED
    BY <1>1 DEF Rule!Combine, Rule!Negated

LEMMA RuleIsDual ==
    ASSUME NEW rule \in Conditionals, NEW s \in RuleSnapshots, Dualizable(rule, s.fields)
    PROVE  Rule!RuleStatus(Dual(rule), s) = Rule!Negated(Rule!RuleStatus(rule, s))
  <1> DEFINE cs == rule.conditions
             ds == Dual(rule).conditions
  <1>1. /\ cs \in Seq(Condition) /\ rule.logic \in {"All", "Any"}
        /\ s.fields \in [Keys -> Rule!Value \cup {None}]
    BY RulesAssumption DEF Condition
  <1>2. DOMAIN ds = DOMAIN cs /\ (ds = << >> <=> cs = << >>)
    BY <1>1 DEF Dual
  <1>3. ASSUME NEW i \in DOMAIN cs
        PROVE  Rule!Check(ds[i], s.fields) = Rule!Negated(Rule!Check(cs[i], s.fields))
    <2> DEFINE c == cs[i]
    <2>1. c \in Condition /\ ds[i] = [c EXCEPT !.op = Complement[@]]
      BY <1>1 DEF Dual
    <2>2. /\ ds[i].key = c.key /\ ds[i].expected = c.expected /\ ds[i].keyType = c.keyType
          /\ ds[i].op = Complement[c.op]
      BY <2>1 DEF Condition
    <2>3. /\ c.op \in DOMAIN Complement /\ s.fields[c.key] \in Rule!Value
          /\ Rule!AsNumber(s.fields[c.key]) # NaN
          /\ c.expected # None => c.expected \in Rule!Value /\ Rule!AsNumber(c.expected) # NaN
          /\ s.fields[c.key] # None
      BY <1>1, <2>1 DEF Dualizable, Condition, Range
    <2>4. CASE c.expected = None
      BY <2>2, <2>3, <2>4 DEF Rule!Check, Rule!Negated
    <2>5. CASE c.expected # None
      <3>1. Rule!Compare(Complement[c.op], s.fields[c.key], c.expected, c.keyType)
                = Rule!Negated(Rule!Compare(c.op, s.fields[c.key], c.expected, c.keyType))
        BY <2>3, <2>5, CompareDual
      <3> QED
        BY <2>2, <2>3, <2>5, <3>1 DEF Rule!Check
    <2> QED
      BY <2>4, <2>5
  <1>4. Rule!Checks(Dual(rule), s.fields)
            = {Rule!Negated(x) : x \in Rule!Checks(rule, s.fields)}
    BY <1>2, <1>3 DEF Rule!Checks
  <1>5. Rule!Combine(Dual(rule).logic, Rule!Checks(Dual(rule), s.fields))
            = Rule!Negated(Rule!Combine(rule.logic, Rule!Checks(rule, s.fields)))
    <2>1. Dual(rule).logic = IF rule.logic = "All" THEN "Any" ELSE "All"
      BY DEF Dual
    <2> QED
      BY <1>1, <1>4, <2>1, ChecksType, CombineDual
  <1> QED
    BY <1>2, <1>5 DEF Rule!RuleStatus, Rule!Negated

(* A rule that requires all conditions and the rule that accepts any of their
   complements contradict each other, for any conditions and snapshot where
   De Morgan's laws can be expected (boolean_handler.rs). *)
THEOREM AllAndAnyAreDual == Spec => []LogicsAreDual
  <1>1. InputOK /\ Computed => LogicsAreDual
    <2> SUFFICES ASSUME InputOK, Computed, Done("rule"),
                        Dualizable(input.rule, input.snapshot.fields)
                 PROVE  Rule!RuleStatus(Dual(input.rule), input.snapshot)
                            = Rule!Negated(outcome.status)
      BY DEF LogicsAreDual
    <2>1. input.rule \in Conditionals /\ input.snapshot \in RuleSnapshots
      BY InputOfKind DEF Done, Kinds, Inputs
    <2>2. outcome.status = Rule!RuleStatus(input.rule, input.snapshot)
      BY DEF Computed, RuleAnswer
    <2> QED
      BY <2>1, <2>2, RuleIsDual
  <1> QED
    BY <1>1, InputIsKept, OutcomeIsComputed, PTL

(* What "All" and "Any" make of checks gets no worse when checks get better. *)
LEMMA BetterEvidence ==
    ASSUME NEW rule \in Conditionals, NEW s \in RuleSnapshots, NEW t \in RuleSnapshots,
           s.form = "object", t.form = "object",
           \A c \in Range(rule.conditions) :
               Rank(Rule!Check(c, s.fields)) >= Rank(Rule!Check(c, t.fields))
    PROVE  Rank(Rule!RuleStatus(rule, s)) >= Rank(Rule!RuleStatus(rule, t))
  <1> DEFINE X == Rule!Checks(rule, s.fields)
             Y == Rule!Checks(rule, t.fields)
  <1>1. X \in SUBSET Status /\ Y \in SUBSET Status
    BY ChecksType
  <1>2. /\ \A x \in X : \E y \in Y : Rank(x) >= Rank(y)
        /\ \A y \in Y : \E x \in X : Rank(x) >= Rank(y)
    BY DEF Rule!Checks, Range
  <1>3. /\ "FAIL" \in X => "FAIL" \in Y
        /\ "INCONCLUSIVE" \in X => "FAIL" \in Y \/ "INCONCLUSIVE" \in Y
        /\ "PASS" \in Y => "PASS" \in X
        /\ "INCONCLUSIVE" \in Y => "PASS" \in X \/ "INCONCLUSIVE" \in X
    <2> HIDE DEF X, Y
    <2> QED
      BY <1>1, <1>2 DEF Rank, Status
  <1>4. \A l : Rank(Rule!Combine(l, X)) >= Rank(Rule!Combine(l, Y))
    <2> HIDE DEF X, Y
    <2> QED
      BY <1>1, <1>3 DEF Rank, Rule!Combine, Rule!Negated
  <1>5. Rank("INCONCLUSIVE") >= Rank("INCONCLUSIVE")
    BY DEF Rank
  <1> QED
    BY <1>4, <1>5 DEF Rule!RuleStatus

(* Better evidence never makes the decision on a rule worse, for any rule
   (boolean_handler.rs, evaluate_snapshot_conditions). *)
THEOREM EvidenceIsMonotone == Spec => []BetterEvidenceNeverHurts
  <1>1. InputOK /\ Computed => BetterEvidenceNeverHurts
    <2> SUFFICES ASSUME InputOK, Computed, Done("rule"), input.snapshot.form = "object",
                        NEW s \in RuleSnapshots, s.form = "object",
                        AtLeast(s, input.snapshot)
                 PROVE  Rank(Rule!RuleStatus(input.rule, s)) >= Rank(outcome.status)
      BY DEF BetterEvidenceNeverHurts
    <2>1. input.rule \in Conditionals /\ input.snapshot \in RuleSnapshots
      BY InputOfKind DEF Done, Kinds, Inputs
    <2>2. outcome.status = Rule!RuleStatus(input.rule, input.snapshot)
      BY DEF Computed, RuleAnswer
    <2> QED
      BY <2>1, <2>2, BetterEvidence DEF AtLeast
  <1> QED
    BY <1>1, InputIsKept, OutcomeIsComputed, PTL

-----------------------------------------------------------------------------
(* Expressions, triggers, routes and action documents.                       *)

(* The first element that passes a test. *)
LEMMA LeastIsMin ==
    ASSUME NEW T \in SUBSET Nat, T # {}
    PROVE  Min(T) \in T /\ \A y \in T : Min(T) <= y
  BY LeastElement DEF Min

(* The value of a conjunction is that of a term of it, which is true only if
   all terms are. *)
LEMMA HeadExprValue ==
    ASSUME NEW expr, IsSeq(expr), NEW head
    PROVE  LET said == {EvalTerm(t, head) : t \in Range(expr)}
           IN  /\ said \subseteq {"true", "false", "error"}
               /\ said \subseteq {"true"} => EvalHeadExpr(expr, head) = "true"
               /\ ~(said \subseteq {"true"}) =>
                      EvalHeadExpr(expr, head) \in said \ {"true"}
  <1> DEFINE said == {EvalTerm(t, head) : t \in Range(expr)}
             I == {i \in 1 .. Len(expr) : EvalTerm(expr[i], head) # "true"}
  <1>1. DOMAIN expr = 1 .. Len(expr) /\ Len(expr) \in Nat
    BY DEF IsSeq
  <1>2. said \subseteq {"true", "false", "error"}
    BY DEF EvalTerm
  <1>3. EvalHeadExpr(expr, head) =
            IF (IF I # {} THEN Min(I) ELSE 0) = 0 THEN "true"
            ELSE EvalTerm(expr[IF I # {} THEN Min(I) ELSE 0], head)
    BY DEF EvalHeadExpr, SelectInSeq
  <1>4. CASE I = {}
    <2>1. said \subseteq {"true"}
      BY <1>1, <1>4 DEF Range
    <2> QED
      BY <1>2, <1>3, <1>4, <2>1
  <1>5. CASE I # {}
    <2>1. I \in SUBSET Nat
      BY <1>1
    <2>2. PICK k \in I : k = Min(I)
      BY <1>5, <2>1, LeastIsMin
    <2>3. k # 0 /\ EvalTerm(expr[k], head) # "true" /\ EvalTerm(expr[k], head) \in said
      BY <1>1 DEF Range
    <2>4. EvalHeadExpr(expr, head) = EvalTerm(expr[k], head)
      <3> HIDE DEF I
      <3> QED
        BY <1>3, <1>5, <2>2, <2>3
    <2> QED
      BY <1>2, <2>3, <2>4
  <1> QED
    BY <1>4, <1>5

(* A rule is decided by its expression only on evidence, for any expression and
   head (simple_expr.rs, eval_head_expr). *)
THEOREM ExpressionsNeedEvidence == Spec => []DecidedOnEvidence
  <1>1. InputOK /\ Computed => DecidedOnEvidence
    <2> SUFFICES ASSUME InputOK, Computed, Done("expr"), input.expr # None
                 PROVE  LET said == {EvalTerm(t, EventHead) : t \in Range(input.expr)}
                        IN  /\ outcome.status = "PASS" <=> said \subseteq {"true"}
                            /\ outcome.status = "FAIL" => "false" \in said
                            /\ outcome.status = "INCONCLUSIVE" => "error" \in said
      BY DEF DecidedOnEvidence
    <2> DEFINE said == {EvalTerm(t, EventHead) : t \in Range(input.expr)}
               value == EvalHeadExpr(input.expr, EventHead)
    <2>1. IsSeq(input.expr)
      BY InputOfKind, ExprsAssumption DEF Done, Kinds, Inputs
    <2>2. /\ said \subseteq {"true", "false", "error"}
          /\ said \subseteq {"true"} => value = "true"
          /\ ~(said \subseteq {"true"}) => value \in said \ {"true"}
      BY <2>1, HeadExprValue
    <2>3. outcome.status = CASE value = "true"  -> "PASS"
                             [] value = "false" -> "FAIL"
                             [] OTHER -> "INCONCLUSIVE"
      BY DEF Computed, ExprAnswer, ExprStatus
    <2> HIDE DEF said, value
    <2>4. /\ outcome.status = "PASS" <=> said \subseteq {"true"}
          /\ outcome.status = "FAIL" => "false" \in said
          /\ outcome.status = "INCONCLUSIVE" => "error" \in said
      BY <2>2, <2>3
    <2> QED
      BY <2>4 DEF said
  <1> QED
    BY <1>1, InputIsKept, OutcomeIsComputed, PTL

(* The store matches an event if and only if the static configuration matches a
   spelling of it, for any playbooks with a trigger and any events of a literal
   object type and a known kind; that the pattern of a literal text finds this
   text in any case is the assumption (assigner.rs, assign_for_codex;
   mongo_store.rs, find_matched_playbooks). *)
THEOREM ModesAgreeOnTriggers == Spec => []StoreMatchesWhatConfigMatches
  <1>1. InputOK /\ Computed => StoreMatchesWhatConfigMatches
    <2> DEFINE pb == input.pb
               type == input.head.changed_object_type
               kind == input.head.change_kind
    <2> SUFFICES ASSUME InputOK, Computed, Done("trigger"), type \in Literal,
                        kind # None, KindOf[kind] # None
                 PROVE  outcome.stored <=>
                            \E other \in Respelled(input.head) : Matches(pb, other)
      BY DEF StoreMatchesWhatConfigMatches
    <2>1. PICK t \in Triggers : input = [of |-> "trigger", pb |-> t.pb, head |-> t.head]
      BY InputOfKind DEF Done, Kinds, Inputs
    <2>2. outcome.stored = StoreMatches(pb, input.head)
      BY DEF Computed, TriggerAnswer
    <2>3. /\ pb.trigger # None
          /\ Range(pb.trigger.change_kind) \subseteq DOMAIN KindOf
          /\ kind \in DOMAIN KindOf
      BY <2>1, TriggersAssumption
    <2>4. /\ type # None /\ Trimmed[type] = type
          /\ Found[type] = {u \in DOMAIN Lower : Lower[u] = Lower[type]}
      BY TriggersAssumption
    <2>5. outcome.stored <=>
              /\ pb.trigger.object_type \in Found[type]
              /\ \E k \in Range(pb.trigger.change_kind) : k \in KindPattern(KindOf[kind])
      BY <2>2, <2>4 DEF StoreMatches, LookedUpType, LookedUpKind
    <2>6. ASSUME outcome.stored
          PROVE  \E other \in Respelled(input.head) : Matches(pb, other)
      <3>1. PICK k \in Range(pb.trigger.change_kind) : k \in KindPattern(KindOf[kind])
        BY <2>5, <2>6
      <3> DEFINE other == [changed_object_type |-> pb.trigger.object_type, change_kind |-> k]
      <3>2. other \in Respelled(input.head)
        BY <2>4, <2>5, <2>6, <3>1 DEF Respelled, KindPattern, SameIgnoringCase
      <3>3. k # None
        BY <3>1, TriggersAssumption DEF KindPattern
      <3>4. Matches(pb, other)
        BY <2>3, <3>1, <3>3 DEF Matches, SameIgnoringCase
      <3> QED
        BY <3>2, <3>4
    <2>7. ASSUME NEW other \in Respelled(input.head), Matches(pb, other)
          PROVE  outcome.stored
      <3>1. /\ other.changed_object_type \in DOMAIN Lower
            /\ Lower[other.changed_object_type] = Lower[type]
            /\ other.change_kind \in DOMAIN KindOf
            /\ KindOf[other.change_kind] = KindOf[kind]
            /\ Trimmed[other.change_kind] = other.change_kind
        BY DEF Respelled, SameIgnoringCase
      <3>2. PICK k \in Range(pb.trigger.change_kind) : Lower[k] = Lower[other.change_kind]
        BY <2>3, <2>7 DEF Matches, SameIgnoringCase
      <3>3. k \in KindPattern(KindOf[kind])
        BY <2>3, <3>1, <3>2, TriggersAssumption DEF KindPattern
      <3>4. pb.trigger.object_type \in Found[type]
        BY <2>3, <2>4, <2>7, <3>1 DEF Matches
      <3> QED
        BY <2>5, <3>3, <3>4
    <2> QED
      BY <2>6, <2>7
  <1> QED
    BY <1>1, InputIsKept, OutcomeIsComputed, PTL

(* The keys of a request in their order. *)
LEMMA KeysInOrder ==
    ASSUME NEW request, NEW keys, keys = Router!KeysOf(request)
    PROVE  /\ DOMAIN keys = 1 .. Len(keys)
           /\ request.responsible_role # NoName =>
                 /\ Len(keys) = 6
                 /\ keys[1] = <<request.tenant, request.responsible_role>>
                 /\ keys[2] = <<request.responsible_role>>
                 /\ keys[3] = <<request.tenant, request.task_type>>
                 /\ keys[4] = <<request.task_type>>
                 /\ keys[5] = <<request.playbook>> /\ keys[6] = <<Default>>
           /\ request.responsible_role = NoName =>
                 /\ Len(keys) = 4
                 /\ keys[1] = <<request.tenant, request.task_type>>
                 /\ keys[2] = <<request.task_type>>
                 /\ keys[3] = <<request.playbook>> /\ keys[4] = <<Default>>
  BY DEF Router!KeysOf, Router!RoleKeys, Router!TaskKeys

(* The key that is taken is one of the table, and no earlier one is. *)
LEMMA FirstHitIsFirst ==
    ASSUME NEW routes, NEW keys, DOMAIN keys = 1 .. Len(keys), Len(keys) \in Nat
    PROVE  LET hit == Router!FirstHit(routes, keys)
           IN  /\ hit = 0 => \A i \in 1 .. Len(keys) : keys[i] \notin DOMAIN routes
               /\ hit # 0 => /\ hit \in 1 .. Len(keys) /\ keys[hit] \in DOMAIN routes
                             /\ \A i \in 1 .. Len(keys) : i < hit => keys[i] \notin DOMAIN routes
  <1> DEFINE hits == {i \in DOMAIN keys : keys[i] \in DOMAIN routes}
  <1>1. hits \in SUBSET Nat /\ 0 \notin hits
    OBVIOUS
  <1>2. Router!FirstHit(routes, keys) = IF hits = {} THEN 0 ELSE Min(hits)
    BY DEF Router!FirstHit, Min
  <1>3. CASE hits = {}
    BY <1>2, <1>3
  <1>4. CASE hits # {}
    <2>1. PICK k \in hits : k = Min(hits) /\ \A i \in hits : k <= i
      BY <1>1, <1>4, LeastIsMin
    <2>2. Router!FirstHit(routes, keys) = k
      <3> HIDE DEF hits
      <3> QED
        BY <1>2, <1>4, <2>1
    <2>3. k # 0 /\ k \in 1 .. Len(keys) /\ keys[k] \in DOMAIN routes
      BY <1>1
    <2>4. ASSUME NEW i \in 1 .. Len(keys), i < k, keys[i] \in DOMAIN routes
          PROVE  FALSE
      <3>1. i \in hits /\ i \in Nat /\ k \in Nat
        BY <2>3, <2>4
      <3> HIDE DEF hits
      <3>2. k <= i
        BY <2>1, <3>1
      <3> QED
        BY <2>4, <3>1, <3>2
    <2> QED
      BY <2>2, <2>3, <2>4
  <1> QED
    BY <1>3, <1>4

LEMMA ResolveIsMostSpecific ==
    ASSUME NEW routes \in RoutingTables, NEW request \in Requests
    PROVE  LET taken == Router!Resolve(routes, request).id
               names == ({request.responsible_role} \ {NoName}) \cup {request.task_type}
           IN  /\ taken \in DOMAIN routes =>
                     /\ Len(taken) = 2 => taken[1] = request.tenant
                     /\ \A name \in names :
                           taken = <<name>> => <<request.tenant, name>> \notin DOMAIN routes
               /\ Router!Resolve(routes, request).fallback => <<Default>> \notin DOMAIN routes
  <1> DEFINE keys  == Router!KeysOf(request)
             hit   == Router!FirstHit(routes, keys)
             taken == Router!Resolve(routes, request).id
  <1>1. /\ \A key \in DOMAIN routes : routes[key].id = key
        /\ NoName \notin DOMAIN routes /\ request.responsible_user \notin DOMAIN routes
    BY RoutesAssumption
  <1>0. keys = Router!KeysOf(request)
    OBVIOUS
  <1>2. DOMAIN keys = 1 .. Len(keys) /\ Len(keys) \in {4, 6}
    BY KeysInOrder
  <1> HIDE DEF keys
  <1>6. ASSUME request.responsible_role # NoName
        PROVE  /\ Len(keys) = 6
               /\ keys[1] = <<request.tenant, request.responsible_role>>
               /\ keys[2] = <<request.responsible_role>>
               /\ keys[3] = <<request.tenant, request.task_type>>
               /\ keys[4] = <<request.task_type>>
               /\ keys[5] = <<request.playbook>> /\ keys[6] = <<Default>>
    BY <1>0, <1>6, KeysInOrder
  <1>7. ASSUME request.responsible_role = NoName
        PROVE  /\ Len(keys) = 4
               /\ keys[1] = <<request.tenant, request.task_type>>
               /\ keys[2] = <<request.task_type>>
               /\ keys[3] = <<request.playbook>> /\ keys[4] = <<Default>>
    BY <1>0, <1>7, KeysInOrder
  <1>3. CASE request.responsible_user # NoName
    BY <1>1, <1>3 DEF Router!Resolve, keys
  <1>4. CASE request.responsible_user = NoName /\ hit = 0
    <2>1. \A i \in 1 .. Len(keys) : keys[i] \notin DOMAIN routes
      BY <1>2, <1>4, FirstHitIsFirst
    <2>2. \E i \in 1 .. Len(keys) : keys[i] = <<Default>>
      <3>1. CASE request.responsible_role # NoName
        <4>1. Len(keys) = 6 /\ keys[6] = <<Default>>
          BY <1>6, <3>1
        <4> QED
          BY <4>1
      <3>2. CASE request.responsible_role = NoName
        <4>1. Len(keys) = 4 /\ keys[4] = <<Default>>
          BY <1>7, <3>2
        <4> QED
          BY <4>1
      <3> QED
        BY <3>1, <3>2
    <2>3. taken = NoName
      BY <1>4 DEF Router!Resolve, Router!Nobody, keys
    <2> QED
      BY <1>1, <2>1, <2>2, <2>3
  <1>5. CASE request.responsible_user = NoName /\ hit # 0
    <2> HIDE DEF hit
    <2>1. /\ hit \in 1 .. Len(keys) /\ keys[hit] \in DOMAIN routes
          /\ \A i \in 1 .. Len(keys) : i < hit => keys[i] \notin DOMAIN routes
      BY <1>2, <1>5, FirstHitIsFirst DEF keys, hit
    <2>2. taken = keys[hit] /\ ~Router!Resolve(routes, request).fallback
      BY <1>1, <1>5, <2>1 DEF Router!Resolve, keys, hit
    <2>3. Len(taken) = 2 => taken[1] = request.tenant
      <3>1. CASE request.responsible_role # NoName
        <4>1. /\ Len(keys) = 6 /\ Len(keys[2]) = 1 /\ Len(keys[4]) = 1 /\ Len(keys[5]) = 1
              /\ Len(keys[6]) = 1 /\ keys[1][1] = request.tenant /\ keys[3][1] = request.tenant
          BY <1>6, <3>1
        <4> QED
          BY <2>1, <2>2, <4>1
      <3>2. CASE request.responsible_role = NoName
        <4>1. /\ Len(keys) = 4 /\ Len(keys[2]) = 1 /\ Len(keys[3]) = 1 /\ Len(keys[4]) = 1
              /\ keys[1][1] = request.tenant
          BY <1>7, <3>2
        <4> QED
          BY <2>1, <2>2, <4>1
      <3> QED
        BY <3>1, <3>2
    <2>4. ASSUME NEW name \in ({request.responsible_role} \ {NoName}) \cup {request.task_type},
                 taken = <<name>>
          PROVE  <<request.tenant, name>> \notin DOMAIN routes
      <3> SUFFICES \E i \in 1 .. Len(keys) : i < hit /\ keys[i] = <<request.tenant, name>>
        BY <2>1
      <3>0. Len(<<name>>) = 1 /\ keys[hit] = <<name>>
        BY <2>2, <2>4
      <3>1. CASE name = request.responsible_role /\ name # NoName
        <4>1. Len(keys) = 6 /\ keys[1] = <<request.tenant, name>> /\ Len(keys[1]) = 2
          BY <1>6, <3>1
        <4>2. hit # 1
          BY <3>0, <4>1
        <4> QED
          BY <2>1, <4>1, <4>2
      <3>2. CASE name = request.task_type /\ request.responsible_role # NoName
                    /\ name # request.responsible_role
        <4>1. /\ Len(keys) = 6 /\ keys[3] = <<request.tenant, name>> /\ Len(keys[3]) = 2
              /\ Len(keys[1]) = 2 /\ keys[2] = <<request.responsible_role>>
          BY <1>6, <3>2
        <4>2. hit # 1 /\ hit # 2 /\ hit # 3
          BY <3>0, <3>2, <4>1
        <4> QED
          BY <2>1, <4>1, <4>2
      <3>3. CASE name = request.task_type /\ request.responsible_role = NoName
        <4>1. Len(keys) = 4 /\ keys[1] = <<request.tenant, name>> /\ Len(keys[1]) = 2
          BY <1>7, <3>3
        <4>2. hit # 1
          BY <3>0, <4>1
        <4> QED
          BY <2>1, <4>1, <4>2
      <3> QED
        BY <2>4, <3>1, <3>2, <3>3
    <2> QED
      BY <2>2, <2>3, <2>4
  <1> QED
    BY <1>3, <1>4, <1>5

(* The route of an action is as specific as the configuration has it, for any
   routing table and request (work_router.rs, resolve). *)
THEOREM RoutesAreMostSpecific == Spec => []RouteIsMostSpecific
  <1>1. InputOK /\ Computed => RouteIsMostSpecific
    <2> SUFFICES ASSUME InputOK, Computed, Done("route")
                 PROVE  RouteIsMostSpecific
      BY DEF RouteIsMostSpecific
    <2>1. input.routes \in RoutingTables /\ input.request \in Requests
      BY InputOfKind DEF Done, Kinds, Inputs
    <2>2. outcome.route = Router!Resolve(input.routes, input.request)
      BY DEF Computed, RouteAnswer
    <2> QED
      BY <2>1, <2>2, ResolveIsMostSpecific DEF RouteIsMostSpecific
  <1> QED
    BY <1>1, InputIsKept, OutcomeIsComputed, PTL

-----------------------------------------------------------------------------
(* Documents of actions.                                                     *)

(* A u32 survives being kept as an i32. *)
LEMMA DurationIsKept ==
    ASSUME NEW n \in 0 .. 2 * Half - 1
    PROVE  Act!AsU32(Act!AsI32(n)) = n
  <1>1. Half \in Nat
    BY ActionsAssumption
  <1>2. n \in Nat /\ n < 2 * Half /\ 2 * Half \in Nat
    BY <1>1
  <1>3. \A m \in Nat : \A k \in Nat : k < m => k % m = k /\ (k - m) % m = k
    OBVIOUS
  <1>4. n % (2 * Half) = n /\ (n - 2 * Half) % (2 * Half) = n
    BY <1>2, <1>3
  <1> QED
    BY <1>4 DEF Act!AsI32, Act!AsU32

LEMMA ActionIsKept ==
    ASSUME NEW action \in NewActions, NEW route \in Routes
    PROVE  LET doc == Act!RecordToDoc(action)
           IN  /\ Act!DocToRecord(doc) = action
               /\ Act!DocToRecord(Act!UpdateAssignment(doc, route)) = Act!ApplyRouting(action, route)
  <1> DEFINE doc    == Act!RecordToDoc(action)
             routed == Act!UpdateAssignment(doc, route)
             names  == {"assigned_to_type", "assigned_to_id", "assigned_to_name"}
             set    == {"assigned_to_type", "assigned_to_id"}
                          \cup (IF route.assigned_to_name = None THEN {} ELSE {"assigned_to_name"})
  <1>1. /\ action = [f \in Act!Fields |-> action[f]] /\ DOMAIN action = Act!Fields
        /\ \A f \in Mandatory : action[f] # None
        /\ action[Act!Duration] \in 0 .. 2 * Half - 1 \cup {None}
        /\ \A f \in names : action[f] = None
        /\ DOMAIN route = names
    BY ActionsAssumption
  <1>2. Mandatory \subseteq Act!Fields /\ names \subseteq Act!Fields /\ Act!Duration \notin names
    BY DEF Act!Fields, Act!Duration
  <1>3. /\ DOMAIN doc = {f \in Act!Fields : action[f] # None}
        /\ \A f \in DOMAIN doc : doc[f] = IF f = Act!Duration THEN Act!AsI32(action[f]) ELSE action[f]
    BY <1>1 DEF Act!RecordToDoc
  <1>4. \A f \in Act!Fields : f = Act!Duration /\ f \in DOMAIN doc => Act!AsU32(doc[f]) = action[f]
    BY <1>1, <1>3, DurationIsKept
  <1>5. Act!DocToRecord(doc) = action
    <2> HIDE DEF doc
    <2>1. \A f \in Mandatory : f \in DOMAIN doc
      BY <1>1, <1>2, <1>3
    <2>2. Act!DocToRecord(doc) =
            [f \in Act!Fields |-> IF f \notin DOMAIN doc THEN None
                                  ELSE IF f = Act!Duration THEN Act!AsU32(doc[f]) ELSE doc[f]]
      BY <2>1 DEF Act!DocToRecord
    <2> QED
      BY <1>1, <1>3, <1>4, <2>2
  <1>6. Act!DocToRecord(routed) = Act!ApplyRouting(action, route)
    <2>1. /\ DOMAIN routed = DOMAIN doc \cup set
          /\ \A f \in DOMAIN routed : routed[f] = IF f \in set THEN route[f] ELSE doc[f]
      BY DEF Act!UpdateAssignment
    <2> HIDE DEF doc, routed
    <2>2. \A f \in Mandatory : f \in DOMAIN routed
      BY <1>1, <1>2, <1>3, <2>1
    <2>3. Act!DocToRecord(routed) =
            [f \in Act!Fields |-> IF f \notin DOMAIN routed THEN None
                                  ELSE IF f = Act!Duration THEN Act!AsU32(routed[f])
                                  ELSE routed[f]]
      BY <2>2 DEF Act!DocToRecord
    <2>4. Act!ApplyRouting(action, route) =
            [f \in Act!Fields |-> IF f \in names THEN route[f] ELSE action[f]]
      BY <1>1 DEF Act!ApplyRouting
    <2>5. ASSUME NEW f \in Act!Fields
          PROVE  (IF f \notin DOMAIN routed THEN None
                  ELSE IF f = Act!Duration THEN Act!AsU32(routed[f]) ELSE routed[f])
                   = IF f \in names THEN route[f] ELSE action[f]
      <3>1. CASE f \in names
        <4>1. f \notin DOMAIN doc /\ f # Act!Duration
          BY <1>1, <1>2, <1>3, <3>1
        <4>2. f \notin set => f = "assigned_to_name" /\ route.assigned_to_name = None
          <5>1. f \notin set => f = "assigned_to_name"
            BY <3>1
          <5>2. route.assigned_to_name # None => "assigned_to_name" \in set
            OBVIOUS
          <5> QED
            BY <5>1, <5>2
        <4> HIDE DEF names, set
        <4>3. CASE f \in set
          BY <2>1, <3>1, <4>1, <4>3
        <4>4. CASE f \notin set
          BY <2>1, <3>1, <4>1, <4>2, <4>4
        <4> QED
          BY <4>3, <4>4
      <3>2. CASE f \notin names
        <4>1. f \notin set
          BY <3>2
        <4> QED
          BY <1>1, <1>3, <1>4, <2>1, <3>2, <4>1
      <3> QED
        BY <3>1, <3>2
    <2> QED
      BY <2>3, <2>4, <2>5
  <1> QED
    BY <1>5, <1>6

(* What a later event finds in the collection is the action that was published,
   for any action and any route (action_store.rs, record_to_doc, doc_to_record
   and update_action_assignment; action_builder.rs, apply_routing). *)
THEOREM StoreHasPublished == Spec => []StoreHasWhatIsPublished
  <1>1. InputOK /\ Computed => StoreHasWhatIsPublished
    <2> SUFFICES ASSUME InputOK, Computed, Done("action")
                 PROVE  StoreHasWhatIsPublished
      BY DEF StoreHasWhatIsPublished
    <2>1. input.action \in NewActions /\ input.route \in Routes
      BY InputOfKind DEF Done, Kinds, Inputs
    <2>2. /\ outcome.inserted = Act!DocToRecord(Act!RecordToDoc(input.action))
          /\ outcome.routed = Act!DocToRecord(
                Act!UpdateAssignment(Act!RecordToDoc(input.action), input.route))
          /\ outcome.published = Act!ApplyRouting(input.action, input.route)
      BY DEF Computed, ActionAnswer
    <2> QED
      BY <2>1, <2>2, ActionIsKept DEF StoreHasWhatIsPublished
  <1> QED
    BY <1>1, InputIsKept, OutcomeIsComputed, PTL

-----------------------------------------------------------------------------
(* Keys of conditions.                                                       *)

(* The value is that of the first way that finds one. *)
LEMMA FirstWay ==
    ASSUME NEW object, NEW type, NEW key
    PROVE  LET a == Snap!Get(object, key)
               b == Snap!ByPath(object, key)
               c == Snap!ByPath(object, Snap!Unqualified(key, type))
               d == Snap!Described(object, key)
           IN  Snap!ValueOf(object, type, key) =
                   IF a # None THEN a ELSE IF b # None THEN b ELSE IF c # None THEN c ELSE d
  <1> DEFINE a == Snap!Get(object, key)
             b == Snap!ByPath(object, key)
             c == Snap!ByPath(object, Snap!Unqualified(key, type))
             d == Snap!Described(object, key)
             ways == <<a, b, c, d>>
             I == {i \in 1 .. Len(ways) : ways[i] # None}
             found == IF I # {} THEN Snap!Min(I) ELSE 0
             value == Snap!ValueOf(object, type, key)
  <1>1. value = IF found = 0 THEN None ELSE ways[found]
    BY DEF Snap!ValueOf, Snap!SelectInSeq
  <1> HIDE DEF a, b, c, d, value
  <1>2. /\ I \in SUBSET Nat /\ 0 \notin I
        /\ 1 \in I <=> a # None
        /\ 2 \in I <=> b # None
        /\ 3 \in I <=> c # None
        /\ 4 \in I <=> d # None
        /\ I \subseteq {1, 2, 3, 4}
    OBVIOUS
  <1> DEFINE goal == value = IF a # None THEN a ELSE IF b # None THEN b
                             ELSE IF c # None THEN c ELSE d
  <1>3. I = {} => goal
    BY <1>1, <1>2
  <1>4. ASSUME I # {} PROVE goal
    <2>1. PICK k \in I : k = Snap!Min(I) /\ \A y \in I : k <= y
      BY <1>2, <1>4, LeastIsMin DEF Snap!Min, Min
    <2>2. value = ways[k]
      <3> HIDE DEF I, ways
      <3> QED
        BY <1>1, <1>2, <1>4, <2>1
    <2>3. \/ k = 1 /\ a # None
          \/ k = 2 /\ a = None /\ b # None
          \/ k = 3 /\ a = None /\ b = None /\ c # None
          \/ k = 4 /\ a = None /\ b = None /\ c = None
      <3> HIDE DEF I
      <3>1. k \in {1, 2, 3, 4}
        BY <1>2
      <3> QED
        BY <1>2, <2>1, <3>1
    <2> HIDE DEF I
    <2> QED
      BY <2>2, <2>3
  <1> QED
    BY <1>3, <1>4 DEF a, b, c, d, value

(* A path begins at the first part that is not empty, in every object. *)
LEMMA PathBegins ==
    ASSUME NEW key, IsSeq(key)
    PROVE  \/ /\ \A i \in 1 .. Len(key) : key[i] = Empty
              /\ \A object : Snap!ByPath(object, key) = None
           \/ \E k \in 1 .. Len(key) :
                 /\ key[k] # Empty /\ \A i \in 1 .. Len(key) : i < k => key[i] = Empty
                 /\ \A object : Snap!ByPath(object, key) =
                                    Snap!Walk(Snap!Get(object, <<key[k]>>), key, k)
  <1> DEFINE I == {i \in 1 .. Len(key) : key[i] # Empty}
             first == IF I # {} THEN Snap!Min(I) ELSE 0
  <1>1. Len(key) \in Nat /\ I \in SUBSET Nat /\ 0 \notin I
    BY DEF IsSeq
  <1>2. \A object : Snap!ByPath(object, key) =
            IF first = 0 THEN None ELSE Snap!Walk(Snap!Get(object, <<key[first]>>), key, first)
    BY DEF Snap!ByPath, Snap!SelectInSeq
  <1>3. CASE I = {}
    BY <1>2, <1>3
  <1>4. CASE I # {}
    <2>1. PICK k \in I : k = Snap!Min(I) /\ \A y \in I : k <= y
      BY <1>1, <1>4, LeastIsMin DEF Snap!Min, Min
    <2>2. k # 0 /\ first = k
      <3> HIDE DEF I
      <3> QED
        BY <1>1, <1>4, <2>1
    <2>3. \A i \in 1 .. Len(key) : i < k => key[i] = Empty
      BY <1>1, <2>1
    <2> HIDE DEF first
    <2> QED
      BY <1>2, <2>2, <2>3
  <1> QED
    BY <1>3, <1>4

(* Nothing is reached from nothing, and without further parts only what is
   already there. *)
LEMMA WalkFromNone ==
    ASSUME NEW key, NEW first \in Nat, Len(key) \in Nat, first <= Len(key)
    PROVE  Snap!Walk(None, key, first) = None
  <1> DEFINE D == first .. Len(key)
             Step(g) == [i \in D |->
                IF i = first THEN None
                ELSE IF key[i] = Empty THEN g[i - 1] ELSE Snap!Into(g[i - 1], key[i])]
             current == CHOOSE g : g = Step(g)
             nothing == [i \in D |-> None]
  <1>1. Snap!Walk(None, key, first) = current[Len(key)]
    BY DEF Snap!Walk
  <1>2. \A part : Snap!Into(None, part) = None
    BY DEF Snap!Into
  <1>3. nothing = Step(nothing)
    BY <1>2
  <1>4. current = Step(current)
    <2> HIDE DEF Step, nothing
    <2> QED
      BY <1>3
  <1> HIDE DEF current
  <1> DEFINE T == {i \in D : current[i] # None}
  <1>5. ASSUME T # {}
        PROVE  FALSE
    <2>1. T \in SUBSET Nat
      OBVIOUS
    <2>2. PICK i \in T : \A y \in T : i <= y
      <3> HIDE DEF T
      <3> QED
        BY <1>5, <2>1, LeastElement
    <2>3. i \in D /\ current[i] # None
      OBVIOUS
    <2>4. i # first
      BY <1>4, <2>3
    <2>5. i - 1 \in D /\ ~(i <= i - 1)
      BY <2>3, <2>4
    <2>6. current[i - 1] = None
      BY <2>2, <2>5
    <2>7. current[i] = IF key[i] = Empty THEN current[i - 1] ELSE Snap!Into(current[i - 1], key[i])
      BY <1>4, <2>3, <2>4
    <2> QED
      BY <1>2, <2>3, <2>6, <2>7
  <1>6. Len(key) \in D
    OBVIOUS
  <1> QED
    BY <1>1, <1>5, <1>6

LEMMA WalkNoFurther ==
    ASSUME NEW v, NEW key, Len(key) \in Nat
    PROVE  Snap!Walk(v, key, Len(key)) = v
  <1> DEFINE D == Len(key) .. Len(key)
             Step(g) == [i \in D |->
                IF i = Len(key) THEN v
                ELSE IF key[i] = Empty THEN g[i - 1] ELSE Snap!Into(g[i - 1], key[i])]
             current == CHOOSE g : g = Step(g)
             only == [i \in D |-> v]
  <1>1. Snap!Walk(v, key, Len(key)) = current[Len(key)]
    BY DEF Snap!Walk
  <1>2. \A i : i \in D <=> i = Len(key)
    OBVIOUS
  <1>3. only = Step(only)
    BY <1>2
  <1>4. current = Step(current)
    <2> HIDE DEF Step, only
    <2> QED
      BY <1>3
  <1> HIDE DEF current
  <1> QED
    BY <1>1, <1>2, <1>4

(* What a description adds to an object. *)
LEMMA DescribedObject ==
    ASSUME NEW object, NEW key \in LookedFor, NEW field \in {"value", "amount"},
           \A part \in DescriptionFields : <<part>> \notin DOMAIN object.fields
    PROVE  LET extended == Extended(object, Description(key, field))
           IN  /\ \A k : k \notin {<<part>> : part \in DescriptionFields} =>
                            Snap!Get(extended, k) = Snap!Get(object, k)
               /\ \A k : Snap!Described(object, k) = None
               /\ \A k : Snap!Described(extended, k) = IF k = key THEN Rule!Number(5) ELSE None
  <1> DEFINE extended == Extended(object, Description(key, field))
             text == [type |-> "string", text |-> key]
             d == Description(key, field)
  <1>1. <<"object_key">> # <<field>> /\ <<"value">> # <<"amount">>
    OBVIOUS
  <1>2. /\ DOMAIN d = {<<"object_key">>, <<field>>}
        /\ d[<<"object_key">>] = text /\ d[<<field>>] = Rule!Number(5)
    BY <1>1 DEF Description
  <1>3. text # None /\ Rule!Number(5) # None
    <2>1. None \notin Range(d)
      BY PayloadsAssumption
    <2> HIDE DEF d, text
    <2> QED
      BY <1>2, <2>1 DEF Range
  <1> HIDE DEF d, text
  <1>4. /\ DOMAIN extended.fields = DOMAIN object.fields \cup DOMAIN d
        /\ \A k \in DOMAIN extended.fields :
              extended.fields[k] = IF k \in DOMAIN object.fields THEN object.fields[k] ELSE d[k]
    BY DEF Extended, Snap!Object, d
  <1> HIDE DEF extended
  <1>5. ASSUME NEW k, k \notin {<<part>> : part \in DescriptionFields}
        PROVE  Snap!Get(extended, k) = Snap!Get(object, k)
    <2>1. k # <<"object_key">> /\ k # <<field>>
      BY <1>5 DEF DescriptionFields
    <2> QED
      BY <1>2, <1>4, <2>1 DEF Snap!Get
  <1>6. /\ Snap!Get(object, <<"object_key">>) = None
        /\ Snap!Get(extended, <<"object_key">>) = text
        /\ Snap!Get(extended, <<field>>) = Rule!Number(5)
        /\ field # "value" => Snap!Get(extended, <<"value">>) = None
    <2>1. /\ <<"object_key">> \notin DOMAIN object.fields /\ <<field>> \notin DOMAIN object.fields
          /\ <<"value">> \notin DOMAIN object.fields
      BY DEF DescriptionFields
    <2>2. field # "value" => <<"value">> \notin DOMAIN d
      BY <1>2
    <2> QED
      BY <1>2, <1>4, <2>1, <2>2 DEF Snap!Get
  <1>7. \A k : Snap!Described(object, k) = None
    BY <1>6 DEF Snap!Described
  <1>8. ASSUME NEW k
        PROVE  Snap!Described(extended, k) = IF k = key THEN Rule!Number(5) ELSE None
    <2>1. text = [type |-> "string", text |-> k] <=> k = key
      BY DEF text
    <2>2. CASE k # key
      BY <1>6, <2>1, <2>2 DEF Snap!Described
    <2>3. CASE k = key
      <3>1. Snap!Described(extended, k) =
                IF Snap!Get(extended, <<"value">>) # None THEN Snap!Get(extended, <<"value">>)
                ELSE Snap!Get(extended, <<"amount">>)
        BY <1>3, <1>6, <2>1, <2>3 DEF Snap!Described
      <3>2. CASE field = "value"
        BY <1>3, <1>6, <2>3, <3>1, <3>2
      <3>3. CASE field = "amount"
        BY <1>3, <1>6, <2>3, <3>1, <3>3
      <3> QED
        BY <3>2, <3>3
    <2> QED
      BY <2>2, <2>3
  <1> QED
    BY <1>5, <1>7, <1>8 DEF extended

(* A description is understood like the field it describes and changes nothing
   else, for any payload, object type and keys (boolean_handler.rs,
   resolve_object_key_value). *)
THEOREM DescriptionsAddOneKey == Spec => []DescriptionAddsOneKey
  <1>1. InputOK /\ Computed => DescriptionAddsOneKey
    <2> DEFINE object == Snap!SnapshotOf(input.list, input.type)
               k == input.key
               parts == {<<part>> : part \in DescriptionFields}
    <2> SUFFICES ASSUME InputOK, Computed, Done("key"),
                        \A part \in DescriptionFields :
                            <<part>> \notin DOMAIN object.fields /\ part \notin Range(k),
                        NEW key \in LookedFor, NEW field \in {"value", "amount"}
                 PROVE  Snap!ValueOf(Extended(object, Description(key, field)), input.type, k)
                            = IF outcome.found # None \/ key # k
                              THEN outcome.found ELSE Rule!Number(5)
      BY DEF DescriptionAddsOneKey
    <2> DEFINE extended == Extended(object, Description(key, field))
    <2>1. k \in LookedFor
      BY InputOfKind DEF Done, Kinds, Inputs
    <2>2. IsSeq(k) /\ k # << >> /\ outcome.found = Snap!ValueOf(object, input.type, k)
      BY <2>1, PayloadsAssumption DEF Computed, KeyAnswer
    <2>3. /\ \A j : j \notin parts => Snap!Get(extended, j) = Snap!Get(object, j)
          /\ \A j : Snap!Described(object, j) = None
          /\ \A j : Snap!Described(extended, j) = IF j = key THEN Rule!Number(5) ELSE None
      BY DescribedObject
    <2>4. k \notin parts
      <3>1. \A part : part \in Range(<<part>>)
        BY SingletonRange
      <3> QED
        BY <3>1
    <2> HIDE DEF object, extended, k, parts
    <2>5. ASSUME NEW path, IsSeq(path), Range(path) \subseteq Range(k)
          PROVE  Snap!ByPath(extended, path) = Snap!ByPath(object, path)
      <3>1. \A i \in 1 .. Len(path) : <<path[i]>> \notin parts
        <4>1. \A i \in 1 .. Len(path) : path[i] \in Range(k)
          BY <2>5, ElementOfSeq DEF IsSeq
        <4> QED
          BY <4>1 DEF parts, k
      <3> QED
        BY <2>3, <2>5, <3>1, PathBegins
    <2> DEFINE rest == Snap!Unqualified(k, input.type)
    <2>6. IsSeq(rest) /\ Range(rest) \subseteq Range(k)
      <3>1. IsSeq(<< >>) /\ Range(<< >>) \subseteq Range(k)
        BY DEF IsSeq, Range
      <3>2. IsSeq(Tail(k)) /\ Range(Tail(k)) \subseteq Range(k)
        <4>1. Range(k) = Range(Tail(k)) \cup {Head(k)} /\ Tail(k) \in Seq(Range(k))
          BY <2>2, SplitHead DEF IsSeq
        <4>2. Tail(k) \in Seq(Range(Tail(k)))
          BY <4>1, SeqOfRange
        <4> QED
          BY <4>1, <4>2 DEF IsSeq
      <3> QED
        BY <3>1, <3>2 DEF Snap!Unqualified
    <2>7. /\ Snap!Get(extended, k) = Snap!Get(object, k)
          /\ Snap!ByPath(extended, k) = Snap!ByPath(object, k)
          /\ Snap!ByPath(extended, rest) = Snap!ByPath(object, rest)
      BY <2>2, <2>3, <2>4, <2>5, <2>6
    <2>8. /\ Snap!ValueOf(object, input.type, k) =
                IF Snap!Get(object, k) # None THEN Snap!Get(object, k)
                ELSE IF Snap!ByPath(object, k) # None THEN Snap!ByPath(object, k)
                ELSE IF Snap!ByPath(object, rest) # None THEN Snap!ByPath(object, rest)
                ELSE None
          /\ Snap!ValueOf(extended, input.type, k) =
                IF Snap!Get(object, k) # None THEN Snap!Get(object, k)
                ELSE IF Snap!ByPath(object, k) # None THEN Snap!ByPath(object, k)
                ELSE IF Snap!ByPath(object, rest) # None THEN Snap!ByPath(object, rest)
                ELSE IF k = key THEN Rule!Number(5) ELSE None
      <3> HIDE DEF rest
      <3>1. \A o : Snap!ValueOf(o, input.type, k) =
                IF Snap!Get(o, k) # None THEN Snap!Get(o, k)
                ELSE IF Snap!ByPath(o, k) # None THEN Snap!ByPath(o, k)
                ELSE IF Snap!ByPath(o, rest) # None THEN Snap!ByPath(o, rest)
                ELSE Snap!Described(o, k)
        BY FirstWay DEF rest
      <3> QED
        BY <2>3, <2>7, <3>1
    <2>9. Snap!ValueOf(extended, input.type, k) =
              IF outcome.found # None \/ key # k THEN outcome.found ELSE Rule!Number(5)
      <3> HIDE DEF rest
      <3> QED
        BY <2>2, <2>8
    <2> QED
      BY <2>9 DEF extended, object, k
  <1> QED
    BY <1>1, InputIsKept, OutcomeIsComputed, PTL

(* The only snapshot whose name differs from a type's in case at most is the
   one found for it. *)
LEMMA OnlySnapshot ==
    ASSUME NEW list \in Payloads, NEW type, NEW j \in DOMAIN list,
           Snap!SameName(list[j].name, type),
           \A i \in DOMAIN list : Snap!SameName(list[i].name, type) => i = j
    PROVE  Snap!SnapshotOf(list, type) = list[j].value
  <1> DEFINE E == {i \in 1 .. Len(list) : list[i].name = type}
             F == {i \in 1 .. Len(list) : Snap!SameName(list[i].name, type)}
             exact  == IF E # {} THEN Snap!Min(E) ELSE 0
             folded == IF F # {} THEN Snap!Min(F) ELSE 0
  <1>1. DOMAIN list = 1 .. Len(list) /\ Len(list) \in Nat
    BY PayloadsAssumption DEF IsSeq
  <1>2. \A i : list[i].name = type => Snap!SameName(list[i].name, type)
    BY DEF Snap!SameName
  <1>3. j \in Nat /\ j # 0 /\ F = {j} /\ (E = {} \/ E = {j})
    BY <1>1, <1>2
  <1>4. Snap!SnapshotOf(list, type) = IF exact # 0 THEN list[exact].value
                                      ELSE IF folded # 0 THEN list[folded].value ELSE None
    BY DEF Snap!SnapshotOf, Snap!SelectInSeq
  <1>5. Snap!Min({j}) = j
    BY <1>3, LeastIsMin DEF Snap!Min, Min
  <1>6. folded = j /\ (exact = 0 \/ exact = j)
    <2> HIDE DEF E, F
    <2> QED
      BY <1>3, <1>5
  <1> HIDE DEF exact, folded
  <1> QED
    BY <1>3, <1>4, <1>6

(* A plain object finds the same under a key as under the key that begins with
   its type. *)
LEMMA QualifiedKey ==
    ASSUME NEW object, NEW key \in LookedFor, NEW type, NEW other, NEW name \in Spellings,
           \A field \in DOMAIN object.fields :
              /\ Len(field) = 1 /\ field[1] # Empty /\ ~Snap!SameName(field[1], type)
              /\ field[1] # "object_key",
           ~Snap!SameName(key[1], type),
           Snap!SameName(other, type), Snap!SameName(name, type)
    PROVE  Snap!ValueOf(object, other, <<name>> \o key) = Snap!ValueOf(object, type, key)
  <1> DEFINE long == <<name>> \o key
             at == Snap!ByPath(object, key)
  <1>1. IsSeq(key) /\ key # << >> /\ Empty \notin Spellings
    BY PayloadsAssumption
  <1>2. key \in Seq(Range(key)) /\ Len(key) \in Nat \ {0}
    BY <1>1, EmptySeq DEF IsSeq
  <1>3. /\ Len(long) = 1 + Len(key) /\ long[1] = name
        /\ DOMAIN long = 1 .. Len(long) /\ Tail(long) = key /\ IsSeq(long)
    <2> DEFINE S == Range(key) \cup {name}
    <2>1. key \in Seq(S) /\ <<name>> \in Seq(S)
      BY <1>2
    <2>2. long \in Seq(S) /\ Len(long) = 1 + Len(key) /\ long[1] = name
          /\ \A i \in 1 .. Len(key) : long[i + 1] = key[i]
      BY <2>1, <1>2
    <2>3. Tail(long) \in Seq(S) /\ Len(Tail(long)) = Len(key)
          /\ \A i \in 1 .. Len(key) : Tail(long)[i] = key[i]
      BY <1>2, <2>2
    <2>4. Tail(long) = key
      BY <2>1, <2>3, SeqEqual
    <2>5. DOMAIN long = 1 .. Len(long) /\ IsSeq(long)
      <3> HIDE DEF long, S
      <3> QED
        BY <2>2, LenProperties, SeqOfRange DEF IsSeq
    <2> HIDE DEF long
    <2> QED
      BY <2>2, <2>4, <2>5
  <1> HIDE DEF long
  <1>4. \A o : Snap!Described(object, o) = None
    <2>1. Snap!Get(object, <<"object_key">>) = None
      BY DEF Snap!Get
    <2> QED
      BY <2>1 DEF Snap!Described
  <1>5. Snap!Get(object, long) = None
    BY <1>2, <1>3 DEF Snap!Get
  <1>6. Snap!ByPath(object, long) = None
    <2>1. Snap!Get(object, <<name>>) = None
      BY DEF Snap!Get
    <2>2. Snap!Walk(None, long, 1) = None
      BY <1>2, <1>3, WalkFromNone
    <2>3. long[1] # Empty /\ 1 \in 1 .. Len(long)
      BY <1>1, <1>2, <1>3
    <2>4. ASSUME NEW k \in 1 .. Len(long), \A i \in 1 .. Len(long) : i < k => long[i] = Empty
          PROVE  k = 1
      BY <2>3, <2>4
    <2> QED
      BY <1>3, <2>1, <2>2, <2>3, <2>4, PathBegins
  <1>7. Snap!Unqualified(long, other) = key
    <2>1. Snap!SameName(name, other)
      BY DEF Snap!SameName
    <2> QED
      BY <1>2, <1>3, <2>1 DEF Snap!Unqualified
  <1>8. Snap!ValueOf(object, other, long) = at
    BY <1>4, <1>5, <1>6, <1>7, FirstWay
  <1>9. Snap!ValueOf(object, type, key) = at
    <2>1. Snap!Get(object, key) # None => at = Snap!Get(object, key)
      <3> SUFFICES ASSUME Snap!Get(object, key) # None
                   PROVE  at = Snap!Get(object, key)
        OBVIOUS
      <3>1. key \in DOMAIN object.fields
        BY DEF Snap!Get
      <3>2. Len(key) = 1 /\ key[1] # Empty
        BY <3>1
      <3>3. <<key[1]>> = key
        <4>1. key[1] \in Range(key)
          BY <1>2, <3>2, ElementOfSeq
        <4>2. <<key[1]>> \in Seq(Range(key)) /\ Len(<<key[1]>>) = 1
          BY <4>1
        <4> QED
          BY <1>2, <3>2, <4>2, SeqEqual
      <3>4. at = Snap!Walk(Snap!Get(object, <<key[1]>>), key, 1)
        <4> HIDE DEF at
        <4>1. \A k \in 1 .. Len(key) : k = 1
          BY <3>2
        <4>2. 1 \in 1 .. Len(key)
          BY <3>2
        <4> QED
          BY <1>1, <3>2, <4>1, <4>2, PathBegins DEF at
      <3>5. Snap!Walk(Snap!Get(object, key), key, 1) = Snap!Get(object, key)
        <4>1. Snap!Walk(Snap!Get(object, key), key, Len(key)) = Snap!Get(object, key)
          BY <1>2, WalkNoFurther
        <4> QED
          BY <3>2, <4>1
      <3> HIDE DEF at
      <3> QED
        BY <3>3, <3>4, <3>5
    <2>2. Snap!Unqualified(key, type) = << >>
      BY DEF Snap!Unqualified
    <2>3. Snap!ByPath(object, << >>) = None
      <3>1. IsSeq(<< >>) /\ 1 .. Len(<< >>) = {}
        BY DEF IsSeq
      <3> QED
        BY <3>1, PathBegins
    <2> HIDE DEF at
    <2>4. Snap!ValueOf(object, type, key) =
              IF Snap!Get(object, key) # None THEN Snap!Get(object, key)
              ELSE IF at # None THEN at ELSE None
      BY <1>4, <2>2, <2>3, FirstWay DEF at
    <2> QED
      BY <2>1, <2>4
  <1> QED
    BY <1>8, <1>9 DEF long

(* However a rule spells an object type, and whether or not its key begins with
   it, it finds the same value in a plain object, for any payload and keys
   (boolean_handler.rs, resolve_snapshot and resolve_object_key_value). *)
THEOREM SpellingIsIndifferent == Spec => []SpellingDoesNotMatter
  <1>1. InputOK /\ Computed => SpellingDoesNotMatter
    <2> DEFINE list == input.list
               own == input.type
               object == Snap!SnapshotOf(list, own)
    <2> SUFFICES ASSUME InputOK, Computed, Done("key"), PlainObject,
                        ~Snap!SameName(input.key[1], own),
                        \A i, j \in DOMAIN list :
                           Snap!SameName(list[i].name, own)
                              /\ Snap!SameName(list[j].name, own) => i = j,
                        NEW type \in Spellings, NEW name \in Spellings,
                        Snap!SameName(type, own), Snap!SameName(name, own)
                 PROVE  Snap!ValueOf(Snap!SnapshotOf(list, type), type, <<name>> \o input.key)
                            = outcome.found
      BY DEF SpellingDoesNotMatter
    <2>1. list \in Payloads /\ input.key \in LookedFor
      BY InputOfKind DEF Done, Kinds, Inputs
    <2>2. outcome.found = Snap!ValueOf(object, own, input.key)
      BY DEF Computed, KeyAnswer
    <2>3. \A n : Snap!SameName(n, type) <=> Snap!SameName(n, own)
      BY DEF Snap!SameName
    <2>4. PICK j \in DOMAIN list : Snap!SameName(list[j].name, own)
      <3> SUFFICES ASSUME \A i \in DOMAIN list : ~Snap!SameName(list[i].name, own)
                   PROVE  FALSE
        OBVIOUS
      <3> HIDE DEF list, own
      <3> DEFINE E == {i \in 1 .. Len(list) : list[i].name = own}
                 F == {i \in 1 .. Len(list) : Snap!SameName(list[i].name, own)}
      <3>1. DOMAIN list = 1 .. Len(list)
        BY <2>1, PayloadsAssumption DEF IsSeq
      <3>2. E = {} /\ F = {}
        BY <3>1 DEF Snap!SameName
      <3>3. object = None
        BY <3>2 DEF Snap!SnapshotOf, Snap!SelectInSeq
      <3> QED
        BY <3>3 DEF PlainObject, list, own
    <2>5. object = list[j].value /\ Snap!SnapshotOf(list, type) = list[j].value
      <3> HIDE DEF list, own
      <3> QED
        BY <2>1, <2>3, <2>4, OnlySnapshot DEF list, own
    <2>6. Snap!ValueOf(object, type, <<name>> \o input.key) = Snap!ValueOf(object, own, input.key)
      <3>1. \A field \in DOMAIN object.fields :
              /\ Len(field) = 1 /\ field[1] # Empty /\ ~Snap!SameName(field[1], own)
              /\ field[1] # "object_key"
        BY DEF PlainObject
      <3> HIDE DEF object, list, own
      <3> QED
        BY <2>1, <3>1, QualifiedKey DEF own
    <2> QED
      BY <2>2, <2>5, <2>6
  <1> QED
    BY <1>1, InputIsKept, OutcomeIsComputed, PTL

-----------------------------------------------------------------------------
(* Assignment in the static mode.                                            *)

RulesOK(pb) ==
    /\ IsSeq(pb.rules)
    /\ \A rule \in Range(pb.rules) :
          rule.is_critical \in BOOLEAN /\ rule.order_seq \in 0 .. MaxOrder \cup {None}

(* The sort gives every rule a place of its own, in the order that is asked for. *)
LEMMA RulesInOrder ==
    ASSUME NEW pb, RulesOK(pb)
    PROVE  LET D == 1 .. Len(pb.rules)
           IN  /\ DOMAIN pb.rules = D /\ Len(pb.rules) \in Nat /\ DOMAIN OrderedRules(pb) = D
               /\ \E place \in [D -> D] :
                     /\ \A k \in D : \E i \in D : place[i] = k
                     /\ \A i \in D : OrderedRules(pb)[place[i]] = pb.rules[i]
                     /\ \A n, m \in D : Precedes(pb, n, m) => place[n] < place[m]
  <1> DEFINE s == pb.rules
             D == 1 .. Len(s)
             critical == [i \in D |-> IF s[i].is_critical THEN 0 ELSE 1]
             order == [i \in D |-> IF s[i].order_seq = None THEN MaxOrder ELSE s[i].order_seq]
             Before(i, j) == RuleLess(s[i], s[j]) \/ (~RuleLess(s[j], s[i]) /\ i < j)
             R == {w \in D \X D : Before(w[1], w[2])}
  <1>1. DOMAIN s = D /\ Len(s) \in Nat /\ MaxOrder \in Nat
    BY WiresAssumption DEF RulesOK, IsSeq
  <1>2. ASSUME NEW i \in D
        PROVE  s[i].is_critical \in BOOLEAN /\ s[i].order_seq \in 0 .. MaxOrder \cup {None}
    BY <1>1 DEF RulesOK, Range
  <1>3. critical \in [D -> {0, 1}] /\ order \in [D -> 0 .. MaxOrder]
    BY <1>1, <1>2
  <1>4. ASSUME NEW i \in D, NEW j \in D
        PROVE  RuleLess(s[i], s[j]) <=> \/ critical[i] < critical[j]
                                        \/ critical[i] = critical[j] /\ order[i] < order[j]
    BY DEF RuleLess, KeyLess, SortKey
  <1>5. ASSUME NEW i \in D, NEW j \in D
        PROVE  <<i, j>> \in R <=> \/ critical[i] < critical[j]
                                  \/ /\ critical[i] = critical[j]
                                     /\ order[i] < order[j] \/ (order[i] = order[j] /\ i < j)
    <2>1. <<i, j>> \in R <=> Before(i, j)
      OBVIOUS
    <2> HIDE DEF critical, order, s
    <2>2. critical[i] \in Int /\ critical[j] \in Int /\ order[i] \in Int /\ order[j] \in Int
      BY <1>1, <1>3
    <2> QED
      BY <1>4, <2>1, <2>2
  <1>6. StrictOrder(R, Len(s))
    <2> HIDE DEF critical, order, s, R
    <2>1. \A i \in D : critical[i] \in Int /\ order[i] \in Int
      BY <1>1, <1>3
    <2>2. \A i \in D : <<i, i>> \notin R
      BY <1>5, <2>1
    <2>3. ASSUME NEW i \in D, NEW j \in D, i # j
          PROVE  <<i, j>> \in R \/ <<j, i>> \in R
      <3>1. /\ critical[i] \in Int /\ critical[j] \in Int /\ order[i] \in Int /\ order[j] \in Int
            /\ i \in Int /\ j \in Int
        BY <2>1
      <3> QED
        BY <1>5, <2>3, <3>1
    <2>4. ASSUME NEW i \in D, NEW j \in D, NEW k \in D, <<i, j>> \in R, <<j, k>> \in R
          PROVE  <<i, k>> \in R
      <3>1. /\ critical[i] \in Int /\ critical[j] \in Int /\ critical[k] \in Int
            /\ order[i] \in Int /\ order[j] \in Int /\ order[k] \in Int
            /\ i \in Int /\ j \in Int /\ k \in Int
        BY <2>1
      <3> DEFINE Less(c, d, m, n, p, q) ==
                     c < d \/ (c = d /\ (m < n \/ (m = n /\ p < q)))
      <3>2. /\ Less(critical[i], critical[j], order[i], order[j], i, j)
            /\ Less(critical[j], critical[k], order[j], order[k], j, k)
            /\ Less(critical[i], critical[k], order[i], order[k], i, k) => <<i, k>> \in R
        BY <1>5, <2>4
      <3>3. Less(critical[i], critical[k], order[i], order[k], i, k)
        BY ONLY <3>1, <3>2
      <3> QED
        BY <3>2, <3>3
    <2> QED
      BY <2>2, <2>3, <2>4 DEF StrictOrder
  <1> DEFINE place == [i \in D |-> Place(R, Len(s), i)]
  <1>7. /\ place \in [D -> D]
        /\ \A i, j \in D : <<i, j>> \in R => place[i] < place[j]
        /\ \A k \in D : \E i \in D : place[i] = k
    <2> HIDE DEF R, s
    <2> QED
      BY <1>1, <1>6, Places
  <1>8. \A i, j \in D : place[i] = place[j] => i = j
    <2> HIDE DEF place, R, s
    <2>1. ASSUME NEW i \in D, NEW j \in D, i # j
          PROVE  place[i] # place[j]
      <3>1. <<i, j>> \in R \/ <<j, i>> \in R
        BY <1>6, <2>1 DEF StrictOrder
      <3>2. place[i] < place[j] \/ place[j] < place[i]
        BY <1>7, <3>1
      <3>3. place[i] \in D /\ place[j] \in D
        BY <1>7
      <3> QED
        BY <3>2, <3>3
    <2> QED
      BY <2>1
  <1>9. OrderedRules(pb) = [k \in D |-> s[CHOOSE i \in D : place[i] = k]]
    <2> DEFINE behind(i) == {j \in DOMAIN s : Before(j, i)}
               sorted == [k \in DOMAIN s |-> s[CHOOSE i \in DOMAIN s : 1 + Cardinality(behind(i)) = k]]
    <2>1. OrderedRules(pb) = sorted
      BY DEF OrderedRules, StableSort
    <2>2. ASSUME NEW i \in D
          PROVE  1 + Cardinality(behind(i)) = place[i]
      <3>1. behind(i) = {j \in D : <<j, i>> \in R}
        BY <1>1
      <3> HIDE DEF behind
      <3> QED
        BY <3>1 DEF Place
    <2>3. ASSUME NEW k \in D
          PROVE  sorted[k] = s[CHOOSE i \in D : place[i] = k]
      <3>1. PICK i \in D : place[i] = k
        BY <1>7
      <3> HIDE DEF place, behind, s
      <3>2. (CHOOSE j \in D : place[j] = k) = i
        BY <1>8, <3>1
      <3>3. (CHOOSE j \in DOMAIN s : 1 + Cardinality(behind(j)) = k) = i
        BY <1>1, <1>8, <2>2, <3>1
      <3> QED
        BY <1>1, <3>2, <3>3
    <2> HIDE DEF place, behind, s
    <2> QED
      BY <1>1, <2>1, <2>3
  <1> HIDE DEF place
  <1>10. ASSUME NEW i \in D
         PROVE  OrderedRules(pb)[place[i]] = s[i]
    <2>1. place[i] \in D
      BY <1>7
    <2>2. (CHOOSE j \in D : place[j] = place[i]) = i
      BY <1>8
    <2> QED
      BY <1>9, <2>1, <2>2
  <1>11. ASSUME NEW n \in D, NEW m \in D, Precedes(pb, n, m)
         PROVE  place[n] < place[m]
    <2>1. <<n, m>> \in R
      <3>1. critical[n] < critical[m] \/
            (critical[n] = critical[m] /\
               (order[n] < order[m] \/ (order[n] = order[m] /\ n < m)))
        BY <1>1, <1>2, <1>11 DEF Precedes
      <3> HIDE DEF critical, order, R
      <3> QED
        BY <1>5, <3>1
    <2> QED
      BY <1>7, <2>1
  <1>12. DOMAIN OrderedRules(pb) = D
    BY <1>9
  <1> HIDE DEF s
  <1> QED
    BY <1>1, <1>7, <1>10, <1>11, <1>12 DEF s

(* What a tadpole has of a playbook that was assigned: its rules in their order,
   in one piece and nothing else under its name. *)
HasRulesOf(t, pb) ==
    LET n == Len(pb.rules)
    IN  \E o \in Nat :
           /\ o + n <= Len(t.ordered)
           /\ \A k \in 1 .. Len(t.ordered) :
                 IF k > o /\ k <= o + n THEN t.ordered[k] = RuleSpecsOf(pb)[k - o]
                 ELSE t.ordered[k].playbook # pb.id

(* And of one that was not. *)
HasNothingOf(t, pb) ==
    /\ \A k \in 1 .. Len(t.ordered) : t.ordered[k].playbook # pb.id
    /\ pb.id \notin Range(t.assigned)

Tadpole(A, B, version) == [version : {version}, assigned : Seq(A), ordered : Seq(B)]

Assigned(t, pb) ==
    [t EXCEPT !.assigned = Append(@, pb.id), !.ordered = @ \o RuleSpecsOf(pb)]

LEMMA SpecsOfRules ==
    ASSUME NEW pb, RulesOK(pb)
    PROVE  LET specs == RuleSpecsOf(pb)
           IN  /\ specs \in Seq(Range(specs)) /\ Len(specs) = Len(pb.rules)
               /\ Len(pb.rules) \in Nat
               /\ \A k \in 1 .. Len(pb.rules) :
                     specs[k] = RuleSpecOf(pb, OrderedRules(pb)[k]) /\ specs[k].playbook = pb.id
  <1> DEFINE rules == OrderedRules(pb)
             specs == RuleSpecsOf(pb)
  <1>1. DOMAIN rules = 1 .. Len(pb.rules) /\ Len(pb.rules) \in Nat
    BY RulesInOrder
  <1> HIDE DEF rules
  <1>2. specs = [i \in 1 .. Len(pb.rules) |-> RuleSpecOf(pb, rules[i])]
    BY <1>1 DEF RuleSpecsOf, rules
  <1>3. DOMAIN specs = 1 .. Len(pb.rules) /\ Len(specs) = Len(pb.rules)
    BY <1>1, <1>2
  <1>4. specs \in Seq(Range(specs))
    <2>1. \A i \in 1 .. Len(pb.rules) : specs[i] \in Range(specs)
      BY <1>3 DEF Range
    <2>2. specs \in [1 .. Len(pb.rules) -> Range(specs)]
      BY <1>2, <2>1
    <2> HIDE DEF specs
    <2> QED
      BY <1>1, <2>2
  <1>5. \A k \in 1 .. Len(pb.rules) : specs[k] = RuleSpecOf(pb, rules[k])
    BY <1>2
  <1> HIDE DEF specs
  <1> QED
    BY <1>1, <1>3, <1>4, <1>5 DEF RuleSpecOf, specs, rules

LEMMA JoinedLists ==
    ASSUME NEW B, NEW s \in Seq(B), NEW u \in Seq(B)
    PROVE  /\ s \o u \in Seq(B) /\ Len(s \o u) = Len(s) + Len(u)
           /\ Len(s) \in Nat /\ Len(u) \in Nat
           /\ \A k \in 1 .. Len(s) : (s \o u)[k] = s[k]
           /\ \A k \in 1 .. Len(s \o u) : k > Len(s) =>
                 (s \o u)[k] = u[k - Len(s)] /\ k - Len(s) \in 1 .. Len(u)
  <1>1. s \o u \in Seq(B) /\ Len(s \o u) = Len(s) + Len(u) /\ Len(s) \in Nat /\ Len(u) \in Nat
    OBVIOUS
  <1>2. \A k \in 1 .. Len(s) + Len(u) : (s \o u)[k] = IF k <= Len(s) THEN s[k] ELSE u[k - Len(s)]
    BY ConcatProperties
  <1>3. \A m, n, k \in Nat : k \in 1 .. m => k \in 1 .. m + n /\ k <= m
    OBVIOUS
  <1>4. \A m, n, k \in Nat : k \in 1 .. m + n /\ k > m => k - m \in 1 .. n /\ ~(k <= m)
    OBVIOUS
  <1>5. ASSUME NEW k \in 1 .. Len(s)
        PROVE  (s \o u)[k] = s[k]
    <2>1. k \in 1 .. Len(s) + Len(u) /\ k <= Len(s)
      BY <1>1, <1>3
    <2> QED
      BY <1>2, <2>1
  <1>6. ASSUME NEW k \in 1 .. Len(s \o u), k > Len(s)
        PROVE  (s \o u)[k] = u[k - Len(s)] /\ k - Len(s) \in 1 .. Len(u)
    <2>1. k \in 1 .. Len(s) + Len(u) /\ k - Len(s) \in 1 .. Len(u) /\ ~(k <= Len(s))
      BY <1>1, <1>4, <1>6
    <2> QED
      BY <1>2, <2>1
  <1> QED
    BY <1>1, <1>5, <1>6

LEMMA UpdatedTadpole ==
    ASSUME NEW X, NEW A, NEW B, NEW t \in [version : X, assigned : A, ordered : B],
           NEW a \in A, NEW o \in B
    PROVE  [t EXCEPT !.assigned = a, !.ordered = o] \in [version : X, assigned : A, ordered : B]
  OBVIOUS

(* Assigning a playbook gives a tadpole its rules and no others. *)
LEMMA AssignedHasRules ==
    ASSUME NEW A, NEW B, NEW version, NEW t \in Tadpole(A, B, version), NEW pb, RulesOK(pb),
           NEW other, RulesOK(other), other.id \in A, RuleSpecsOf(other) \in Seq(B)
    PROVE  /\ Assigned(t, other) \in Tadpole(A, B, version)
           /\ other.id # pb.id /\ HasRulesOf(t, pb) => HasRulesOf(Assigned(t, other), pb)
           /\ other.id # pb.id /\ HasNothingOf(t, pb) => HasNothingOf(Assigned(t, other), pb)
           /\ other = pb /\ HasNothingOf(t, pb) => HasRulesOf(Assigned(t, other), pb)
  <1> DEFINE u == Assigned(t, other)
             specs == RuleSpecsOf(other)
             n == Len(pb.rules)
  <1>1. /\ t.ordered \in Seq(B) /\ t.assigned \in Seq(A) /\ specs \in Seq(B)
        /\ Len(t.ordered) \in Nat
    BY DEF Tadpole
  <1>2. u \in Tadpole(A, B, version)
    <2>1. t.ordered \o specs \in Seq(B) /\ Append(t.assigned, other.id) \in Seq(A)
      BY <1>1, JoinedLists, AppendProperties
    <2> HIDE DEF u, specs
    <2> QED
      BY <2>1, UpdatedTadpole DEF Assigned, Tadpole, u, specs
  <1>3. u.ordered = t.ordered \o specs /\ u.assigned = Append(t.assigned, other.id)
    BY DEF Assigned, Tadpole
  <1>4. /\ Len(specs) = Len(other.rules) /\ Len(other.rules) \in Nat /\ n \in Nat
        /\ \A k \in 1 .. Len(other.rules) : specs[k].playbook = other.id
    BY SpecsOfRules
  <1> HIDE DEF u, specs
  <1>5. /\ Len(u.ordered) = Len(t.ordered) + Len(specs)
        /\ \A k \in 1 .. Len(t.ordered) : u.ordered[k] = t.ordered[k]
        /\ \A k \in 1 .. Len(u.ordered) : k > Len(t.ordered) =>
              u.ordered[k] = specs[k - Len(t.ordered)] /\ k - Len(t.ordered) \in 1 .. Len(specs)
        /\ Len(u.ordered) \in Nat /\ Len(specs) \in Nat
    <2>1. /\ Len(u.ordered) = Len(t.ordered) + Len(specs) /\ Len(specs) \in Nat
          /\ \A k \in 1 .. Len(t.ordered) : u.ordered[k] = t.ordered[k]
          /\ \A k \in 1 .. Len(u.ordered) : k > Len(t.ordered) =>
                u.ordered[k] = specs[k - Len(t.ordered)]
                   /\ k - Len(t.ordered) \in 1 .. Len(specs)
      BY <1>1, <1>3, JoinedLists
    <2>2. Len(u.ordered) \in Nat
      BY <1>1, <2>1
    <2> QED
      BY <2>1, <2>2
  <1>6. \A k \in 1 .. Len(u.ordered) : k > Len(t.ordered) => u.ordered[k].playbook = other.id
    BY <1>4, <1>5
  <1>7. Range(u.assigned) = Range(t.assigned) \cup {other.id}
    BY <1>1, <1>3, RangeOfAppend
  <1>8. ASSUME other.id # pb.id, HasRulesOf(t, pb)
        PROVE  HasRulesOf(u, pb)
    <2>1. PICK o \in Nat :
             /\ o + n <= Len(t.ordered)
             /\ \A k \in 1 .. Len(t.ordered) :
                   IF k > o /\ k <= o + n THEN t.ordered[k] = RuleSpecsOf(pb)[k - o]
                   ELSE t.ordered[k].playbook # pb.id
      BY <1>8 DEF HasRulesOf
    <2>2. o + n <= Len(u.ordered)
      <3>1. o + n <= Len(t.ordered) /\ Len(u.ordered) = Len(t.ordered) + Len(specs)
        BY <1>5, <2>1
      <3>2. o \in Nat /\ n \in Nat /\ Len(t.ordered) \in Nat /\ Len(specs) \in Nat
        BY <1>1, <1>4, <1>5
      <3> HIDE DEF n
      <3> QED
        BY <3>1, <3>2
    <2>3. ASSUME NEW k \in 1 .. Len(u.ordered)
          PROVE  IF k > o /\ k <= o + n THEN u.ordered[k] = RuleSpecsOf(pb)[k - o]
                 ELSE u.ordered[k].playbook # pb.id
      <3>1. CASE k > Len(t.ordered)
        <4>1. ~(k <= o + n)
          BY <1>1, <1>4, <2>1, <3>1
        <4> QED
          BY <1>6, <1>8, <3>1, <4>1
      <3>2. CASE ~(k > Len(t.ordered))
        <4>1. k \in 1 .. Len(t.ordered)
          BY <1>1, <3>2
        <4> QED
          BY <1>5, <2>1, <4>1
      <3> QED
        BY <3>1, <3>2
    <2> QED
      BY <2>2, <2>3 DEF HasRulesOf
  <1>9. ASSUME other.id # pb.id, HasNothingOf(t, pb)
        PROVE  HasNothingOf(u, pb)
    <2>1. ASSUME NEW k \in 1 .. Len(u.ordered)
          PROVE  u.ordered[k].playbook # pb.id
      <3>1. k > Len(t.ordered) \/ k \in 1 .. Len(t.ordered)
        BY <1>1
      <3> QED
        BY <1>5, <1>6, <1>9, <3>1 DEF HasNothingOf
    <2> QED
      BY <1>7, <1>9, <2>1 DEF HasNothingOf
  <1>10. ASSUME other = pb, HasNothingOf(t, pb)
         PROVE  HasRulesOf(u, pb)
    <2> DEFINE o == Len(t.ordered)
    <2>1. Len(specs) = n /\ specs = RuleSpecsOf(pb)
      BY <1>4, <1>10 DEF specs
    <2>2. o \in Nat /\ o + n <= Len(u.ordered)
      BY <1>1, <1>4, <1>5, <2>1
    <2>3. ASSUME NEW k \in 1 .. Len(u.ordered)
          PROVE  IF k > o /\ k <= o + n THEN u.ordered[k] = RuleSpecsOf(pb)[k - o]
                 ELSE u.ordered[k].playbook # pb.id
      <3>1. CASE k > o
        <4>1. k <= o + n
          <5>1. k <= Len(u.ordered) /\ Len(u.ordered) = o + Len(specs)
            BY <1>5
          <5> QED
            BY <2>1, <5>1
        <4> QED
          BY <1>5, <2>1, <3>1, <4>1
      <3>2. CASE ~(k > o)
        <4>1. k \in 1 .. Len(t.ordered)
          BY <1>1, <3>2
        <4> QED
          BY <1>5, <1>10, <3>2, <4>1 DEF HasNothingOf
      <3> QED
        BY <3>1, <3>2
    <2> HIDE DEF o
    <2> QED
      BY <2>2, <2>3 DEF HasRulesOf
  <1> QED
    BY <1>2, <1>8, <1>9, <1>10 DEF u

(* The loop over the playbooks of a codex ends with the rules of each that
   matched. *)
LEMMA TadpoleHasRules ==
    ASSUME NEW codex, NEW head, IsSeq(codex.playbooks),
           \A q \in DOMAIN codex.playbooks : RulesOK(codex.playbooks[q]),
           AssignForCodex(codex, head) # None,
           NEW p \in DOMAIN codex.playbooks,
           \A q \in DOMAIN codex.playbooks :
              codex.playbooks[q].id = codex.playbooks[p].id => q = p
    PROVE  LET t == AssignForCodex(codex, head)
           IN  /\ DOMAIN t.ordered = 1 .. Len(t.ordered) /\ Len(t.ordered) \in Nat
               /\ HasRulesOf(t, codex.playbooks[p]) \/ HasNothingOf(t, codex.playbooks[p])
  <1> DEFINE pbs == codex.playbooks
             N == Len(pbs)
             A == {pbs[q].id : q \in 1 .. N}
             B == UNION {Range(RuleSpecsOf(pbs[q])) : q \in 1 .. N}
             V == Tadpole(A, B, codex.version)
             empty == [version |-> codex.version, assigned |-> << >>, ordered |-> << >>]
             Step(t, i) == IF ~Matches(pbs[i], head) THEN t ELSE Assigned(t, pbs[i])
             Solve(g) == [i \in 0 .. N |-> IF i = 0 THEN empty ELSE Step(g[i - 1], i)]
             tadpole == CHOOSE g : g = Solve(g)
  <1>1. DOMAIN pbs = 1 .. N /\ N \in Nat /\ \A q \in 1 .. N : RulesOK(pbs[q])
    BY DEF IsSeq
  <1>2. AssignForCodex(codex, head) =
            IF tadpole[N].assigned = << >> THEN None ELSE tadpole[N]
    BY DEF AssignForCodex, Assigned
  <1> HIDE DEF pbs
  <1>3. ASSUME NEW q \in 1 .. N
        PROVE  pbs[q].id \in A /\ RuleSpecsOf(pbs[q]) \in Seq(B)
    <2>1. RuleSpecsOf(pbs[q]) \in Seq(Range(RuleSpecsOf(pbs[q])))
      BY <1>1, SpecsOfRules
    <2>2. Range(RuleSpecsOf(pbs[q])) \subseteq B
      OBVIOUS
    <2> QED
      BY <2>1, <2>2
  <1>4. empty \in V
    BY DEF Tadpole
  <1> HIDE DEF A, B, V, empty
  <1>5. ASSUME NEW t \in V, NEW i \in 1 .. N
        PROVE  Step(t, i) \in V
    BY <1>1, <1>3, AssignedHasRules DEF V
  <1>6. tadpole = Solve(tadpole)
    <2> DEFINE step == [w \in V \X Int |-> IF w[2] \in 1 .. N THEN Step(w[1], w[2]) ELSE w[1]]
    <2>1. step \in [V \X Int -> V]
      BY <1>5
    <2>2. PICK h \in [0 .. N -> V] :
             Iterates(h, empty, 0, N, step)
      <3>1. 0 \in Int /\ N \in Int /\ 0 <= N
        BY <1>1
      <3> HIDE DEF step, N
      <3> QED
        BY <1>4, <2>1, <3>1, Iteration
    <2>3. ASSUME NEW i \in 0 .. N, i # 0
          PROVE  step[<<h[i - 1], i>>] = Step(h[i - 1], i)
      <3>1. h[i - 1] \in V /\ i \in Int /\ i \in 1 .. N
        BY <1>1, <2>2, <2>3
      <3> QED
        BY <3>1
    <2> HIDE DEF step, Step
    <2>4. h = Solve(h)
      BY <2>2, <2>3 DEF Iterates
    <2> HIDE DEF Solve
    <2> QED
      BY <2>4
  <1> HIDE DEF tadpole
  <1> DEFINE pb == pbs[p]
             done(i) == p <= i /\ Matches(pb, head)
             Good(i) == IF done(i) THEN HasRulesOf(tadpole[i], pb) ELSE HasNothingOf(tadpole[i], pb)
             S == {i \in Nat : i <= N => tadpole[i] \in V /\ Good(i)}
  <1>7. p \in 1 .. N /\ \A q \in 1 .. N : pbs[q].id = pb.id => q = p
    BY <1>1 DEF pbs
  <1>8. 0 \in S
    <2>1. tadpole[0] = empty
      BY <1>1, <1>6
    <2>2. ~done(0)
      BY <1>7
    <2>3. HasNothingOf(empty, pb)
      <3>1. Len(empty.ordered) = 0 /\ empty.assigned = << >>
        BY DEF empty
      <3> QED
        BY <3>1, EmptyRange DEF HasNothingOf
    <2>4. Good(0)
      BY <2>1, <2>2, <2>3
    <2> HIDE DEF pb, done, Good, Step, Solve
    <2> QED
      BY <1>4, <2>1, <2>4
  <1>9. ASSUME NEW n \in Nat, n \in S
        PROVE  n + 1 \in S
    <2> DEFINE i == n + 1
    <2> SUFFICES ASSUME i <= N
                 PROVE  tadpole[i] \in V /\ Good(i)
      OBVIOUS
    <2>1. i \in 1 .. N /\ i \in 0 .. N /\ i # 0 /\ i - 1 = n /\ n <= N
      BY <1>1
    <2>2. tadpole[i] = Step(tadpole[n], i)
      <3> HIDE DEF Step
      <3> QED
        BY <1>6, <2>1
    <2>3. tadpole[n] \in V /\ Good(n)
      BY <1>9, <2>1
    <2>4. tadpole[i] \in V
      BY <1>5, <2>1, <2>2, <2>3
    <2>5. RulesOK(pb) /\ RulesOK(pbs[i]) /\ pbs[i].id \in A /\ RuleSpecsOf(pbs[i]) \in Seq(B)
      BY <1>1, <1>3, <1>7, <2>1
    <2>6. LET u == Assigned(tadpole[n], pbs[i])
          IN  /\ pbs[i].id # pb.id /\ HasRulesOf(tadpole[n], pb) => HasRulesOf(u, pb)
              /\ pbs[i].id # pb.id /\ HasNothingOf(tadpole[n], pb) => HasNothingOf(u, pb)
              /\ pbs[i] = pb /\ HasNothingOf(tadpole[n], pb) => HasRulesOf(u, pb)
      <3>1. tadpole[n] \in Tadpole(A, B, codex.version)
        BY <2>3 DEF V
      <3> HIDE DEF pb, V, i
      <3> QED
        BY <2>5, <3>1, AssignedHasRules
    <2>7. CASE ~Matches(pbs[i], head)
      <3>1. done(i) = done(n) /\ tadpole[i] = tadpole[n]
        BY <1>7, <2>1, <2>2, <2>7
      <3> QED
        BY <2>3, <2>4, <3>1
    <2>8. CASE Matches(pbs[i], head) /\ i = p
      <3>1. done(i) /\ ~done(n) /\ pbs[i] = pb
        BY <2>1, <2>8
      <3>2. tadpole[i] = Assigned(tadpole[n], pbs[i])
        BY <2>2, <2>8
      <3> HIDE DEF pb, done, i, V
      <3> QED
        BY <2>3, <2>4, <2>6, <3>1, <3>2
    <2>9. CASE Matches(pbs[i], head) /\ i # p
      <3>1. done(i) = done(n) /\ pbs[i].id # pb.id
        BY <1>7, <2>1, <2>9
      <3>2. tadpole[i] = Assigned(tadpole[n], pbs[i])
        BY <2>2, <2>9
      <3> HIDE DEF pb, done, i, V
      <3> QED
        BY <2>3, <2>4, <2>6, <3>1, <3>2
    <2> QED
      BY <2>7, <2>8, <2>9
  <1>10. tadpole[N] \in V /\ (HasRulesOf(tadpole[N], pb) \/ HasNothingOf(tadpole[N], pb))
    <2> HIDE DEF S, done
    <2>1. N \in S
      BY <1>1, <1>8, <1>9, ContainsNat
    <2> QED
      BY <1>1, <2>1 DEF S
  <1>11. AssignForCodex(codex, head) = tadpole[N]
    BY <1>2
  <1>12. DOMAIN tadpole[N].ordered = 1 .. Len(tadpole[N].ordered) /\ Len(tadpole[N].ordered) \in Nat
    <2>1. tadpole[N].ordered \in Seq(B)
      BY <1>10 DEF V, Tadpole
    <2> QED
      BY <2>1
  <1> QED
    BY <1>10, <1>11, <1>12 DEF pbs

(* Where a tadpole has all rules of a valid playbook, each is found where the
   sort puts it. *)
LEMMA PlaybookInOrder ==
    ASSUME NEW pb, RulesOK(pb), PlaybookIsValid(pb), NEW t, HasRulesOf(t, pb),
           DOMAIN t.ordered = 1 .. Len(t.ordered), Len(t.ordered) \in Nat
    PROVE  /\ \A n \in DOMAIN pb.rules :
                 \E i \in DOMAIN t.ordered : Positions(t, pb, pb.rules[n]) = {i}
           /\ \A i \in DOMAIN t.ordered : t.ordered[i].playbook = pb.id =>
                 \E rule \in Range(pb.rules) : i \in Positions(t, pb, rule)
           /\ \A n, m \in DOMAIN pb.rules : Precedes(pb, n, m) =>
                 \A i \in Positions(t, pb, pb.rules[n]),
                    j \in Positions(t, pb, pb.rules[m]) : i < j
  <1> DEFINE N == Len(pb.rules)
             rules == pb.rules
             ordered == t.ordered
             Id(n) == EffectiveRuleId(rules[n])
             At(n) == Positions(t, pb, rules[n])
  <1>1. /\ DOMAIN rules = 1 .. N /\ N \in Nat
        /\ \A n, m \in 1 .. N : Id(n) = Id(m) => n = m
    <2>1. DOMAIN rules = 1 .. N /\ N \in Nat
      BY DEF RulesOK, IsSeq
    <2> DEFINE ids == [i \in DOMAIN rules |-> Id(i)]
    <2>2. \A i, j \in DOMAIN ids : i # j => ids[i] # ids[j]
      BY DEF PlaybookIsValid
    <2>3. DOMAIN ids = DOMAIN rules /\ \A i \in DOMAIN rules : ids[i] = Id(i)
      OBVIOUS
    <2> HIDE DEF ids, Id
    <2> QED
      BY <2>1, <2>2, <2>3
  <1>2. PICK place \in [1 .. N -> 1 .. N] :
           /\ \A k \in 1 .. N : \E i \in 1 .. N : place[i] = k
           /\ \A i \in 1 .. N : OrderedRules(pb)[place[i]] = pb.rules[i]
           /\ \A n, m \in 1 .. N : Precedes(pb, n, m) => place[n] < place[m]
    BY RulesInOrder
  <1>3. PICK o \in Nat :
           /\ o + N <= Len(ordered)
           /\ \A k \in 1 .. Len(ordered) :
                 IF k > o /\ k <= o + N THEN ordered[k] = RuleSpecsOf(pb)[k - o]
                 ELSE ordered[k].playbook # pb.id
    BY DEF HasRulesOf
  <1>4. \A k \in 1 .. N : RuleSpecsOf(pb)[k] = RuleSpecOf(pb, OrderedRules(pb)[k])
    BY SpecsOfRules
  <1> HIDE DEF N, rules, ordered
  <1>5. ASSUME NEW n \in 1 .. N
        PROVE  /\ place[n] \in 1 .. N /\ o + place[n] \in 1 .. Len(ordered)
               /\ ordered[o + place[n]] = RuleSpecOf(pb, rules[n])
    <2>1. place[n] \in 1 .. N /\ place[n] \in Nat /\ place[n] >= 1 /\ place[n] <= N
      BY <1>1, <1>2
    <2>2. /\ o + place[n] \in 1 .. Len(ordered) /\ o + place[n] > o /\ o + place[n] <= o + N
          /\ (o + place[n]) - o = place[n]
      <3>1. Len(ordered) \in Nat /\ o + N <= Len(ordered)
        BY <1>3 DEF ordered
      <3> QED
        BY <1>1, <2>1, <3>1
    <2>3. ordered[o + place[n]] = RuleSpecsOf(pb)[place[n]]
      BY <1>3, <2>2
    <2> QED
      BY <1>2, <1>4, <2>1, <2>2, <2>3 DEF rules
  <1>6. ASSUME NEW k \in 1 .. Len(ordered), ordered[k].playbook = pb.id
        PROVE  \E m \in 1 .. N : k = o + place[m] /\ ordered[k].rule = Id(m)
    <2>1. k > o /\ k <= o + N
      BY <1>3, <1>6
    <2>2. k - o \in 1 .. N
      BY <1>1, <2>1
    <2>3. PICK m \in 1 .. N : place[m] = k - o
      BY <1>2, <2>2
    <2>4. k = o + place[m]
      BY <2>3
    <2>5. ordered[k] = RuleSpecOf(pb, rules[m])
      BY <1>5, <2>4
    <2> QED
      BY <2>4, <2>5 DEF RuleSpecOf
  <1>7. ASSUME NEW n \in 1 .. N
        PROVE  At(n) = {o + place[n]}
    <2>1. At(n) = {k \in 1 .. Len(ordered) : ordered[k].playbook = pb.id /\ ordered[k].rule = Id(n)}
      BY DEF Positions, ordered
    <2> HIDE DEF At
    <2>2. o + place[n] \in At(n)
      <3>1. /\ ordered[o + place[n]].playbook = pb.id /\ ordered[o + place[n]].rule = Id(n)
            /\ o + place[n] \in 1 .. Len(ordered)
        <4>1. /\ RuleSpecOf(pb, rules[n]).playbook = pb.id
              /\ RuleSpecOf(pb, rules[n]).rule = Id(n)
          BY DEF RuleSpecOf
        <4> HIDE DEF Id
        <4> QED
          BY <1>5, <4>1
      <3> QED
        BY <2>1, <3>1
    <2>3. ASSUME NEW k \in At(n)
          PROVE  k = o + place[n]
      <3>1. k \in 1 .. Len(ordered) /\ ordered[k].playbook = pb.id /\ ordered[k].rule = Id(n)
        BY <2>1
      <3>2. PICK m \in 1 .. N : k = o + place[m] /\ ordered[k].rule = Id(m)
        BY <1>6, <3>1
      <3>3. m = n
        BY <1>1, <3>1, <3>2
      <3> QED
        BY <3>2, <3>3
    <2> QED
      BY <2>2, <2>3
  <1> HIDE DEF At
  <1>8. \A n \in 1 .. N : \E i \in 1 .. Len(ordered) : At(n) = {i}
    BY <1>5, <1>7
  <1>9. ASSUME NEW i \in 1 .. Len(ordered), ordered[i].playbook = pb.id
        PROVE  \E rule \in Range(rules) : i \in Positions(t, pb, rule)
    <2>1. PICK m \in 1 .. N : i = o + place[m]
      BY <1>6, <1>9
    <2>2. i \in Positions(t, pb, rules[m]) /\ rules[m] \in Range(rules)
      BY <1>1, <1>7, <2>1 DEF At, Range
    <2> QED
      BY <2>2
  <1>10. ASSUME NEW n \in 1 .. N, NEW m \in 1 .. N, Precedes(pb, n, m),
                NEW i \in At(n), NEW j \in At(m)
         PROVE  i < j
    <2>1. i = o + place[n] /\ j = o + place[m] /\ place[n] < place[m]
      BY <1>2, <1>7, <1>10
    <2>2. place[n] \in Int /\ place[m] \in Int
      BY <1>1, <1>2
    <2> QED
      BY <2>1, <2>2
  <1> QED
    BY <1>1, <1>8, <1>9, <1>10 DEF At, rules, ordered

(* Every rule of a matched playbook is in the tadpole once and in order, for any
   valid configuration (assigner.rs, validate and assign_for_codex). *)
THEOREM RulesAssignedOnceInOrder == Spec => []AssignedOnceInOrder
  <1>1. InputOK /\ Computed => AssignedOnceInOrder
    <2> DEFINE codices == Codices(input.wire)
    <2> SUFFICES ASSUME InputOK, Computed, Done("config"), "tadpoles" \in DOMAIN outcome,
                        NEW c \in DOMAIN outcome.tadpoles, NEW p \in DOMAIN codices[c].playbooks,
                        codices[c].playbooks[p].id \in Range(outcome.tadpoles[c].assigned),
                        \A q \in DOMAIN codices[c].playbooks :
                           codices[c].playbooks[q].id = codices[c].playbooks[p].id => q = p
                 PROVE  LET t  == outcome.tadpoles[c]
                            pb == codices[c].playbooks[p]
                        IN  /\ \A n \in DOMAIN pb.rules :
                                  \E i \in DOMAIN t.ordered : Positions(t, pb, pb.rules[n]) = {i}
                            /\ \A i \in DOMAIN t.ordered : t.ordered[i].playbook = pb.id =>
                                  \E rule \in Range(pb.rules) : i \in Positions(t, pb, rule)
                            /\ \A n, m \in DOMAIN pb.rules : Precedes(pb, n, m) =>
                                  \A i \in Positions(t, pb, pb.rules[n]),
                                     j \in Positions(t, pb, pb.rules[m]) : i < j
      BY DEF AssignedOnceInOrder
    <2> DEFINE t   == outcome.tadpoles[c]
               pbs == codices[c].playbooks
               pb  == pbs[p]
    <2>1. input.wire \in Wires /\ ConfigIsValid(input.wire)
      BY InputOfKind DEF Done, Kinds, Inputs, Computed, ConfigAnswer
    <2>2. outcome.tadpoles = AssignAll(codices, EventHead)
      BY DEF Computed, ConfigAnswer
    <2>3. c \in DOMAIN codices /\ t = AssignForCodex(codices[c], EventHead) /\ t # None
      BY <2>2 DEF AssignAll
    <2>4. IsSeq(pbs) /\ \A q \in DOMAIN pbs : RulesOK(pbs[q])
      BY <2>1, <2>3, WiresAssumption DEF RulesOK
    <2>5. PlaybookIsValid(pb)
      BY <2>1, <2>3 DEF ConfigIsValid, Range
    <2> HIDE DEF codices, t
    <2>6. /\ DOMAIN t.ordered = 1 .. Len(t.ordered) /\ Len(t.ordered) \in Nat
          /\ HasRulesOf(t, pb) \/ HasNothingOf(t, pb)
      BY <2>3, <2>4, TadpoleHasRules
    <2>7. HasRulesOf(t, pb)
      BY <2>6 DEF HasNothingOf, t
    <2> QED
      BY <2>4, <2>5, <2>6, <2>7, PlaybookInOrder DEF t
  <1> QED
    BY <1>1, InputIsKept, OutcomeIsComputed, PTL

=============================================================================
