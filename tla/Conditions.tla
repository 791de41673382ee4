----------------------------- MODULE Conditions -----------------------------
(***************************************************************************)
(* How a boolean rule is evaluated against the snapshot of an event:       *)
(* evaluate_snapshot_conditions and compare_values of                      *)
(* engine-core/src/actors/handlers/boolean_handler/boolean_handler.rs.     *)
(*                                                                         *)
(* A snapshot is what the key resolution of the handler (Snapshots) finds  *)
(* for each object key.                                                    *)
(***************************************************************************)
EXTENDS Decisions, Integers, Sequences

CONSTANTS
    Keys,        \* object keys that conditions name
    Texts,       \* the JSON strings that occur
    None,        \* Option::None
    NaN,         \* the f64 that "NaN" parses to
    NumberIn,    \* what str::parse::<f64> makes of a text: a number, NaN or None
    BoolIn,      \* "true"/"1"/"yes", "false"/"0"/"no", otherwise None
    PartOf,      \* the pairs <<t, u>> of texts such that u contains t
    Epsilon      \* f64::EPSILON in the unit that numbers are counted in

(* A number is counted in units fine enough to tell apart two values that
   compare_values takes for equal. *)
Number(n)  == [type |-> "number", num |-> n]
Text(t)    == [type |-> "string", text |-> t]
Bool(b)    == [type |-> "bool", bool |-> b]
Array(s)   == [type |-> "array", items |-> s]

Scalar == [type : {"number"}, num : Int \cup {NaN}] \cup [type : {"string"}, text : Texts]
             \cup [type : {"bool"}, bool : BOOLEAN]

Value == Scalar \cup [type : {"array"}, items : Seq(Scalar)]

Operators == {"eq", "neq", "gt", "gte", "lt", "lte", "contains", "unsupported"}
KeyTypes == {"NUMBER", "BOOLEAN", None}

AsNumber(v) == CASE v.type = "number" -> v.num
                 [] v.type = "string" -> NumberIn[v.text]
                 [] OTHER -> None

AsBool(v) == CASE v.type = "bool" -> v.bool
               [] v.type = "string" -> BoolIn[v.text]
               [] OTHER -> None

Holds(b) == IF b THEN "PASS" ELSE "FAIL"

(* A comparison with NaN is false, of whichever kind. *)
Ordered(a, e) == a # NaN /\ e # NaN

Close(a, e) == Ordered(a, e) /\ a - e < Epsilon /\ e - a < Epsilon

(* The three branches of "eq": numbers, booleans, else JSON equality.  A type
   that the key declares but a value does not have is an error. *)
Equal(actual, expected, keyType) ==
    LET n == AsNumber(actual)  m == AsNumber(expected)
        b == AsBool(actual)    c == AsBool(expected)
    IN  IF keyType = "NUMBER" \/ (n # None /\ m # None)
        THEN IF n = None \/ m = None THEN "INCONCLUSIVE" ELSE Holds(Close(n, m))
        ELSE IF keyType = "BOOLEAN" \/ (b # None /\ c # None)
        THEN IF b = None \/ c = None THEN "INCONCLUSIVE" ELSE Holds(b = c)
        ELSE Holds(actual = expected)

Negated(s) == CASE s = "PASS" -> "FAIL" [] s = "FAIL" -> "PASS" [] OTHER -> s

Contains(actual, expected) ==
    CASE actual.type = "string" /\ expected.type = "string" ->
            Holds(<<expected.text, actual.text>> \in PartOf)
      [] actual.type = "array" -> Holds(\E i \in DOMAIN actual.items :
                                            actual.items[i] = expected)
      [] OTHER -> "INCONCLUSIVE"

(* compare_values; an Err is the INCONCLUSIVE check its caller makes of it. *)
Compare(op, actual, expected, keyType) ==
    LET n == AsNumber(actual)
        m == AsNumber(expected)
        numeric(holds) == IF n = None \/ m = None THEN "INCONCLUSIVE"
                          ELSE Holds(Ordered(n, m) /\ holds)
    IN  CASE op = "eq"  -> Equal(actual, expected, keyType)
          [] op = "neq" -> Negated(Equal(actual, expected, keyType))
          [] op = "gt"  -> numeric(n > m)
          [] op = "gte" -> numeric(n >= m)
          [] op = "lt"  -> numeric(n < m)
          [] op = "lte" -> numeric(n <= m)
          [] op = "contains" -> Contains(actual, expected)
          [] OTHER -> "INCONCLUSIVE"

(* A condition: [key, op, expected, keyType]; fields: Keys -> value or None. *)
Check(cond, fields) ==
    IF fields[cond.key] = None THEN "FAIL"
    ELSE IF cond.expected = None THEN "INCONCLUSIVE"
    ELSE Compare(cond.op, fields[cond.key], cond.expected, cond.keyType)

Checks(rule, fields) == {Check(rule.conditions[i], fields) : i \in DOMAIN rule.conditions}

(* Faulty: "All" reports an inconclusive check before a failed one. *)
CombineAllCautious(logic, checks) ==
    CASE "INCONCLUSIVE" \in checks /\ (logic = "All" \/ "PASS" \notin checks) -> "INCONCLUSIVE"
      [] OTHER -> Holds(IF logic = "All" THEN "FAIL" \notin checks ELSE "PASS" \in checks)

(* Faulty: "Any" lets an inconclusive check outweigh a passing one. *)
CombineAnyCautious(logic, checks) ==
    CASE "INCONCLUSIVE" \in checks /\ (logic = "Any" \/ "FAIL" \notin checks) -> "INCONCLUSIVE"
      [] OTHER -> Holds(IF logic = "All" THEN "FAIL" \notin checks ELSE "PASS" \in checks)

(* A failure decides "All" and a success decides "Any"; otherwise an
   inconclusive check leaves the rule inconclusive. *)
Combine(logic, checks) ==
    LET decided == IF logic = "All" THEN "FAIL" ELSE "PASS"
    IN  IF decided \in checks THEN decided
        ELSE IF "INCONCLUSIVE" \in checks THEN "INCONCLUSIVE" ELSE Negated(decided)

(* The handler on a rule [conditions, logic] and a snapshot [form, fields].
   A rule without conditions has no expression either (pipeline.rs), which is
   INCONCLUSIVE, as is a snapshot that is missing or not an object. *)
RuleStatus(rule, snapshot) ==
    IF rule.conditions = << >> \/ snapshot.form # "object" THEN "INCONCLUSIVE"
    ELSE Combine(rule.logic, Checks(rule, snapshot.fields))

=============================================================================
