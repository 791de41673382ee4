-------------------------- MODULE MCActionBuilder --------------------------
(* Small instances of ActionBuilder for TLC. *)
EXTENDS ActionBuilder, TLC

CONSTANTS w1, w2, e1, e2, e3, o1, o2, p1, p2, r1, r2, r3,
          tBound, tReview, tPass, parentType, childType

Eval(pb, rule, status, tmpl, type) ==
    [playbook |-> pb, rule |-> rule, status |-> status,
     template |-> tmpl, objectType |-> type]

MCObjectOf == [e \in Events |-> IF e = e3 THEN o2 ELSE o1]

(* e1: a parent and a child rule bound to one template, and an unbound rule of
   a second playbook; e2: the same object, nothing bound, so the trigger
   template answers; e3: another object, everything passes. *)
AllEvals ==
    e1 :> << Eval(p1, r1, "FAIL", tBound, parentType),
             Eval(p1, r2, "INCONCLUSIVE", tBound, childType),
             Eval(p2, r3, "FAIL", None, None) >>
    @@ e2 :> << Eval(p1, r1, "INCONCLUSIVE", None, parentType),
                Eval(p1, r2, "INCONCLUSIVE", None, childType) >>
    @@ e3 :> << Eval(p1, r1, "PASS", tBound, parentType) >>

MCEvalsOf == [e \in Events |-> AllEvals[e]]

MCMatchedPlaybooks == [e \in Events |-> IF e = e2 THEN {p1} ELSE {p1, p2}]

MCParentOf == parentType :> None @@ childType :> parentType

Info(trigger, pbs, rules) ==
    [trigger |-> trigger, objects |-> {o1, o2}, active |-> TRUE,
     playbooks |-> pbs, rules |-> rules]

MCTemplateInfo ==
    tBound  :> Info("MANUAL", {}, {})
    @@ tReview :> Info("INCONCLUSIVE", {}, {r2})
    @@ tPass   :> Info("PASS", {p2, p1}, {})

WorkerSymmetry == Permutations(Workers)

=============================================================================
