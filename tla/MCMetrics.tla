----------------------------- MODULE MCMetrics -----------------------------
(* A small instance of Metrics for TLC. *)
EXTENDS Metrics, TLC

CONSTANTS w1, w2, e1, e2, e3, acme, globex, r1, r2, Window

MCTenantOf == [e \in Events |-> IF e = e3 THEN globex ELSE acme]

M(type, rule) == [type |-> type, rule |-> rule]

(* e1 and e2 share a failing rule; e1 has a second failing rule of the same
   threshold, e2 one that passed; e3 fails the rule for another tenant. *)
AllMetrics ==
    e1 :> << M("rule.fail", r1), M("rule.fail", r2) >>
    @@ e2 :> << M("rule.pass", r2), M("rule.fail", r1) >>
    @@ e3 :> << M("rule.fail", r1) >>

MCMetricsOf == [e \in Events |-> AllMetrics[e]]

(* The first threshold is like the default one, for any rule and tenant; the
   second looks at one rule of one tenant. *)
Failures(max, rules, tenants) ==
    [type |-> "rule.fail", window |-> Window, max |-> max,
     rules |-> rules, tenants |-> tenants]

OneThreshold == << Failures(2, Rules, Tenants) >>
BothThresholds == << Failures(1, Rules, Tenants), Failures(2, {r1}, {acme}) >>

WorkerSymmetry == Permutations(Workers)

=============================================================================
