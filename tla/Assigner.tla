------------------------------ MODULE Assigner ------------------------------
(***************************************************************************)
(* The static configuration mode: how the assigner actor                   *)
(* (engine-core/src/actors/assigner/assigner.rs) reads its playbooks and   *)
(* assigns their rules to an event, and how expressions over the head of   *)
(* an event are evaluated (engine-core/src/simple_expr.rs), for playbooks  *)
(* and for the rules of this mode, which have no conditions.               *)
(***************************************************************************)
EXTENDS Decisions, Integers, Sequences, FiniteSets, SequencesExt, Sorting

CONSTANTS
    None,      \* Option::None
    Lower,     \* Texts -> Texts: the text in lower case
    KindOf,    \* Texts -> what normalize_change_kind makes of the text, or None
    Trimmed,   \* Texts -> the text without blanks around it, None if it is blank
    Found,     \* Texts -> the texts that match it as a pattern, ignoring case
    MaxOrder   \* u32::MAX

-----------------------------------------------------------------------------
(* Expressions.  A term is [ident, value]; what is not an equality with a      *)
(* quoted literal has the ident "malformed".  Empty terms are dropped; an      *)
(* event_category that is absent is the empty text.                            *)

HeadFields == {"event_name", "event_category", "tenant_id", "event_id"}

EvalTerm(term, head) ==
    IF term.ident \notin HeadFields THEN "error"
    ELSE IF head[term.ident] = term.value THEN "true" ELSE "false"

(* The loop ends at the first term that is not true. *)
EvalHeadExpr(expr, head) ==
    LET last == SelectInSeq(expr, LAMBDA term : EvalTerm(term, head) # "true")
    IN  IF last = 0 THEN "true" ELSE EvalTerm(expr[last], head)

(* Faulty: an expression that cannot be evaluated fails its rule. *)
ExprStatusFailing(expr, head) ==
    IF expr = None THEN "INCONCLUSIVE"
    ELSE IF EvalHeadExpr(expr, head) = "true" THEN "PASS" ELSE "FAIL"

(* The boolean rule handler on a rule without conditions. *)
ExprStatus(expr, head) ==
    IF expr = None THEN "INCONCLUSIVE"
    ELSE CASE EvalHeadExpr(expr, head) = "true"  -> "PASS"
           [] EvalHeadExpr(expr, head) = "false" -> "FAIL"
           [] OTHER -> "INCONCLUSIVE"

-----------------------------------------------------------------------------
(* Configuration.  A rule is [id, rule_id, order_seq, is_critical, expr], a    *)
(* playbook [id, trigger, match_expr, rules]; optional fields may be None.     *)

EffectiveRuleId(rule) == IF rule.rule_id # None THEN rule.rule_id ELSE rule.id

(* Faulty: only the rule_id that is given explicitly is looked at. *)
PlaybookIsValidByRuleId(pb) ==
    /\ pb.trigger # None \/ pb.match_expr # None
    /\ \A i \in DOMAIN pb.rules : EffectiveRuleId(pb.rules[i]) # None
    /\ \A i, j \in DOMAIN pb.rules :
          i # j /\ pb.rules[i].rule_id # None => pb.rules[i].rule_id # pb.rules[j].rule_id

PlaybookIsValid(pb) ==
    LET ids == [i \in DOMAIN pb.rules |-> EffectiveRuleId(pb.rules[i])]
    IN  /\ pb.trigger # None \/ pb.match_expr # None
        /\ \A i \in DOMAIN ids : ids[i] # None
        /\ \A i, j \in DOMAIN ids : i # j => ids[i] # ids[j]

(* The three forms of the document: the first that fits is taken.  Each        *)
(* element of the result is [version, playbooks].                              *)
Codices(wire) ==
    CASE wire.form = "flat"   -> <<[version |-> None, playbooks |-> wire.playbooks]>>
      [] wire.form = "codex"  -> wire.codex
      [] wire.form = "single" -> <<[version |-> None, playbooks |-> <<wire.playbook>>]>>

ConfigIsValid(wire) ==
    /\ Codices(wire) # << >>
    /\ \A c \in Range(Codices(wire)) : \A pb \in Range(c.playbooks) : PlaybookIsValid(pb)

-----------------------------------------------------------------------------
(* Assignment.                                                               *)

SameIgnoringCase(t, u) == Lower[t] = Lower[u]

(* A trigger takes precedence over an expression; an error is no match. *)
Matches(pb, head) ==
    IF pb.trigger # None
    THEN /\ head.changed_object_type = pb.trigger.object_type
         /\ head.change_kind # None
         /\ \E kind \in Range(pb.trigger.change_kind) : SameIgnoringCase(kind, head.change_kind)
    ELSE EvalHeadExpr(pb.match_expr, head) = "true"

SortKey(rule) ==
    <<IF rule.is_critical THEN 0 ELSE 1,
      IF rule.order_seq = None THEN MaxOrder ELSE rule.order_seq>>

KeyLess(k, l) == k[1] < l[1] \/ (k[1] = l[1] /\ k[2] < l[2])

RuleLess(r, s) == KeyLess(SortKey(r), SortKey(s))

(* Faulty: as sort_unstable_by_key may do, rules of one key change places. *)
OrderedRulesUnstable(pb) == StableSort(Reverse(pb.rules), RuleLess)

OrderedRules(pb) == StableSort(pb.rules, RuleLess)

RuleSpecOf(pb, rule) ==
    [playbook |-> pb.id, rule |-> EffectiveRuleId(rule), critical |-> rule.is_critical,
     order_seq |-> rule.order_seq, expr |-> rule.expr]

RuleSpecsOf(pb) ==
    LET rules == OrderedRules(pb)
    IN  [i \in DOMAIN rules |-> RuleSpecOf(pb, rules[i])]

(* One tadpole for a codex, filled playbook by playbook, or None when no
   playbook of it matches. *)
AssignForCodex(codex, head) ==
    LET tadpole[i \in 0 .. Len(codex.playbooks)] ==
            IF i = 0 THEN [version |-> codex.version, assigned |-> << >>, ordered |-> << >>]
            ELSE LET pb == codex.playbooks[i]
                 IN  IF ~Matches(pb, head) THEN tadpole[i - 1]
                     ELSE [tadpole[i - 1] EXCEPT !.assigned = Append(@, pb.id),
                                                 !.ordered = @ \o RuleSpecsOf(pb)]
        last == tadpole[Len(codex.playbooks)]
    IN  IF last.assigned = << >> THEN None ELSE last

(* The tadpole of each codex that has one. *)
AssignAll(codices, head) ==
    [c \in {d \in DOMAIN codices : AssignForCodex(codices[d], head) # None} |->
        AssignForCodex(codices[c], head)]

-----------------------------------------------------------------------------
(* The other mode, for comparison: a playbook matches an event if its trigger  *)
(* passes the filter of find_matched_playbooks.  The object type of the event  *)
(* is the pattern, whatever characters it has; one that MongoDB rejects fails   *)
(* the lookup, which finds nothing.  Texts have no line breaks.                *)

(* What build_tadpole_from_store looks up, None where it looks up nothing. *)
LookedUpType(head) ==
    IF head.changed_object_type = None THEN None ELSE Trimmed[head.changed_object_type]

LookedUpKind(head) == IF head.change_kind = None THEN None ELSE KindOf[head.change_kind]

(* Faulty: the pattern is the normalized kind itself. *)
KindPatternExact(kind) == {t \in DOMAIN KindOf : Lower[t] = kind}

(* change_kind_pattern accepts both forms of a kind, but no blanks around it. *)
KindPattern(kind) == {t \in DOMAIN KindOf : KindOf[t] = kind /\ Trimmed[t] = t}

StoreMatches(pb, head) ==
    LET type == LookedUpType(head)
        kind == LookedUpKind(head)
    IN  /\ None \notin {type, kind}
        /\ pb.trigger.object_type \in Found[type]
        /\ KindPattern(kind) \cap Range(pb.trigger.change_kind) # {}

=============================================================================
