----------------------------- MODULE MCFunctions -----------------------------
(***************************************************************************)
(* A small instance of PureFunctions.                                      *)
(***************************************************************************)
EXTENDS PureFunctions

CONSTANTS
    contract, upperContract, paddedContract, cpp, dotted, crossed,
    created, create, upperCreated, paddedCreated, archived,
    r1, r2, r3, pb1, pb2, v1, acme, other,
    email, slack, teams, carrierPigeon,
    k1, k2, one, nan, yes, oneYes,
    ev1, ev2, a1

(* "1" parses as a number and as a boolean, "yes" as a boolean only. *)
MCNumberIn == one :> 2 @@ nan :> NaN @@ yes :> None @@ oneYes :> None

MCBoolIn == one :> TRUE @@ nan :> None @@ yes :> TRUE @@ oneYes :> None

MCPartOf == {<<t, t>> : t \in Texts} \cup {<<one, oneYes>>, <<yes, oneYes>>}

MCFolded == [n \in {"Contract", "CONTRACT", "contract"} |-> "contract"]
    @@ [n \in {"risk", "score", "owner", ""} |-> n]

MCEvents == <<ev1, ev2>>

MCMandatory == {"action_id", "status"}

MCOptional == {"changed_object_id", "responsible_role"}

(* Object types: "Contract", "CONTRACT", " Contract", "C++", "A.B" and "AxB".
   As a pattern, "A.B" finds "AxB" as well, and "C++" finds no type that occurs. *)
MCLiteral == {contract, upperContract, crossed}

Types == MCLiteral \cup {paddedContract, cpp, dotted}

Kinds == {created, create, upperCreated, paddedCreated, archived}

MCLower == upperContract :> contract @@ upperCreated :> created
    @@ [t \in Types \cup Kinds |-> t]

MCKindOf == create :> created @@ archived :> None @@ [k \in Kinds |-> created]

MCTrimmed == paddedContract :> contract @@ paddedCreated :> created
    @@ [t \in Types \cup Kinds |-> t]

MCFound == cpp :> {} @@ dotted :> {dotted, crossed}
    @@ [t \in Types |-> {u \in Types : MCLower[u] = MCLower[t]}]

-----------------------------------------------------------------------------
(* Rules of up to two conditions, and snapshots of two keys.                 *)

Values == {Rule!Number(n) : n \in {2, 3, 5}} \cup {Rule!Text(one), Rule!Text(nan), Rule!Bool(TRUE)}

Condition(key, ops, keyTypes) ==
    [key : {key}, op : ops, expected : {Rule!Number(3), Rule!Text(yes), None},
     keyType : keyTypes]

MCConditionals ==
    [logic : {"All", "Any"},
     conditions : {<< >>}
        \cup {<<c>> : c \in Condition(k1, Rule!Operators, Rule!KeyTypes)}
        \cup {<<c, d>> : c \in Condition(k1, Rule!Operators, {None, "BOOLEAN"}),
                         d \in Condition(k2, {"eq", "neq", "lt"}, {None, "NUMBER"})}]

Objects == [form : {"object"}, fields : [Keys -> Values \cup {None}]]

MCRuleSnapshots ==
    Objects \cup [form : {"missing", "invalid"}, fields : {[k \in Keys |-> None]}]

-----------------------------------------------------------------------------
(* Configurations: one playbook with any up to three rules, beside another.  *)

MCEventHead == [event_name |-> created, event_category |-> NoName, tenant_id |-> acme,
                event_id |-> v1, changed_object_type |-> contract, change_kind |-> upperCreated]

Term(ident, value) == [ident |-> ident, value |-> value]

Trigger == [object_type |-> contract, change_kind |-> <<archived, created>>]

RuleSpace ==
    {[id |-> name[1], rule_id |-> name[2], order_seq |-> order, is_critical |-> critical,
      expr |-> None] :
        name \in {<<r1, None>>, <<None, r1>>, <<r1, r2>>, <<None, r3>>, <<None, None>>},
        order \in {None, 1}, critical \in BOOLEAN}

Second ==
    [id |-> pb2, trigger |-> None, match_expr |-> <<Term("tenant_id", acme)>>,
     rules |-> <<[id |-> None, rule_id |-> r1, order_seq |-> 1, is_critical |-> TRUE,
                  expr |-> None]>>]

First ==
    [id : {pb1}, trigger : {Trigger}, match_expr : {None},
     rules : UNION {[1 .. n -> RuleSpace] : n \in 0 .. 3}]

Unmatched == [id |-> pb1, trigger |-> None, match_expr |-> None, rules |-> << >>]

MCWires ==
    {[form |-> "flat", playbooks |-> <<pb, Second>>] : pb \in First \cup {Unmatched}}
    \cup {[form |-> "codex",
           codex |-> <<[version |-> v1, playbooks |-> << >>],
                       [version |-> v1, playbooks |-> <<Second, pb>>]>>] : pb \in First}
    \cup {[form |-> "codex", codex |-> << >>]}
    \cup {[form |-> "single", playbook |-> pb] : pb \in {Second, Unmatched}}

(* Expressions of up to three terms. *)
Terms == {Term("tenant_id", acme), Term("tenant_id", other), Term("event_name", created),
          Term("risk_level", created), Term("malformed", NoName)}

MCExprs == {None} \cup UNION {[1 .. n -> Terms] : n \in 0 .. 3}

(* Triggers against what an event says has changed. *)
MCTriggers ==
    {[pb |-> [id |-> pb1, match_expr |-> None, rules |-> << >>,
              trigger |-> [object_type |-> type, change_kind |-> kinds]],
      head |-> [EventHead EXCEPT !.changed_object_type = changed, !.change_kind = kind]] :
        type \in Types, kinds \in {<< >>} \cup [1 .. 2 -> Kinds],
        changed \in Types \cup {None}, kind \in Kinds \cup {None}}

(* Routing tables over the keys of two tenants, a role, a task and a playbook. *)
RouteKeys == {<<acme, r1>>, <<other, r1>>, <<r1>>, <<acme, r2>>, <<r2>>, <<pb1>>, <<Default>>}

Entry(key) == [type |-> IF Len(key) = 2 THEN "user" ELSE "group", id |-> key,
               channels |-> IF key = <<r1>> THEN {carrierPigeon} ELSE {slack, carrierPigeon}]

MCRoutingTables == {[key \in keys |-> Entry(key)] : keys \in SUBSET RouteKeys}

MCRequests ==
    [tenant : {acme, other}, responsible_user : {NoName, v1},
     responsible_role : {NoName, r1, r3}, task_type : {r1, r2}, playbook : {pb1, pb2}]

(* What two events leave: one with up to two evaluations and two actions, some
   without a playbook, and one with little or nothing. *)
UpTo(n, S) == UNION {[1 .. k -> S] : k \in 0 .. n}

MCOutcomes ==
    [evaluations : UpTo(2, [status : Doc!RuleTypes, playbook : {pb1, pb2, NoName}, rule : {r1}]),
     actions : UpTo(2, [playbook : {pb1, NoName}, rule : {r1}, action : {a1, NoName}]),
     time : {1}, delay : {0, 1}]

MCOtherOutcomes ==
    [evaluations : UpTo(1, [status : {"FAIL"}, playbook : {pb1}, rule : {r2}]),
     actions : {<< >>}, time : {3}, delay : {0}]

(* Snapshots of an event, and keys of up to three parts to look for in one. *)
MCSpellings == {"Contract", "CONTRACT", "contract"}

Leaves == {Rule!Number(2), Rule!Number(3)}

Nested == {Snap!Object(f) : f \in UNION {[names -> Leaves] : names \in SUBSET {<<"score">>, <<"">>}}}

Snapshot ==
    {Snap!Object(f) : f \in UNION {[names -> Leaves \cup Nested] : names \in SUBSET {<<"risk">>, <<"score">>}}}

MCPayloads ==
    {<<[name |-> "owner", value |-> Snap!Object(<< >>)], [name |-> name, value |-> object]>> :
        name \in Spellings, object \in Snapshot}

MCJsonValues == Snapshot \cup Nested \cup Leaves \cup {Snap!Object(<< >>)}

MCLookedFor == UNION {[1 .. n -> {"risk", "score", ""}] : n \in 1 .. 3}

(* New actions, not assigned to anyone, and what the router may answer. *)
MCNewActions ==
    {[f \in {"action_id", "status"} |-> a1] @@ details @@ Act!Duration :> duration
        @@ [f \in Act!Fields |-> None] :
        details \in [{"changed_object_id", "responsible_role"} -> {a1, None}],
        duration \in {None} \cup 0 .. 7}

MCRoutes == [assigned_to_type : {"user", "queue"}, assigned_to_id : {v1},
             assigned_to_name : {v1, None}]

=============================================================================
