---------------------------- MODULE MCRuleEngine ----------------------------
(* A small library of playbooks and rules for TLC. *)
EXTENDS RuleEngine, TLC

CONSTANTS k1, k2, text, p1, p2, r1, r2, r3, t1, t2

MCNumberIn == text :> None
MCBoolIn == text :> None
MCPartOf == {<<text, text>>}

Condition(key, op, value) ==
    [key |-> key, op |-> op, expected |-> value, keyType |-> None]

Ref(rule, seq, critical) == [rule |-> rule, seq |-> seq, critical |-> critical]

(* p1 and p2 share r1; p1 lists its references out of order, p2 has two of the
   same order_seq. *)
MCPlaybookInfo ==
    p1 :> [mode |-> "Fail_First",
           refs |-> <<Ref(r2, 2, FALSE), Ref(r1, 1, TRUE)>>]
    @@ p2 :> [mode |-> "Run_All",
              refs |-> <<Ref(r1, 1, FALSE), Ref(r3, 1, TRUE)>>]

MCRuleInfo ==
    r1 :> [objectType |-> t1, logic |-> "All",
           conditions |-> <<Condition(k1, "eq", Number(2))>>]
    @@ r2 :> [objectType |-> t1, logic |-> "Any",
              conditions |-> <<Condition(k1, "gt", Number(1)), Condition(k2, "contains", Text(text))>>]
    @@ r3 :> [objectType |-> t2, logic |-> "All",
              conditions |-> <<Condition(k2, "lte", Number(2)), Condition(k1, "neq", None)>>]

Snapshot(a, b) == [form |-> "object", fields |-> k1 :> a @@ k2 :> b]

Snapshots ==
    {Snapshot(a, b) : a \in {Number(2), Number(4), None}, b \in {Number(2), Text(text)}}
    \cup {[form |-> "missing"]}

MCBodies == [{t1, t2} -> Snapshots]

=============================================================================
