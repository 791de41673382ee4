----------------------------- MODULE Decisions -----------------------------
(***************************************************************************)
(* The three-valued decision every stage of the engine speaks              *)
(* (engine-core/src/dto/decision.rs) and how the orchestrator aggregates   *)
(* the decisions of a sequence of rule evaluations                         *)
(* (engine-core/src/actors/orchestrator/orchestrator.rs).  An evaluation   *)
(* is any record with a field "status".                                    *)
(***************************************************************************)

Status == {"PASS", "FAIL", "INCONCLUSIVE"}

Saw(evals, s) == \E i \in DOMAIN evals : evals[i].status = s

(* A decision a person has to look at: FAIL or INCONCLUSIVE. *)
NeedsReview(s) == s \in {"FAIL", "INCONCLUSIVE"}

(* FAIL is worse than INCONCLUSIVE, which is worse than PASS. *)
Rank(s) == CASE s = "FAIL" -> 0 [] s = "INCONCLUSIVE" -> 1 [] s = "PASS" -> 2

(* OrchestratorActor::aggregate_decision: FAIL beats INCONCLUSIVE beats PASS,
   and a run that evaluated nothing passes. *)
AggregateDecision(evals) ==
    IF Saw(evals, "FAIL") THEN "FAIL"
    ELSE IF Saw(evals, "INCONCLUSIVE") THEN "INCONCLUSIVE" ELSE "PASS"

(* Faulty: looks for an inconclusive evaluation before a failed one. *)
SummarizeCautious(evals) ==
    IF evals = << >> \/ Saw(evals, "INCONCLUSIVE") THEN "INCONCLUSIVE"
    ELSE AggregateDecision(evals)

(* OrchestratorActor::summarize_playbook differs on the empty sequence only:
   a playbook none of whose rules was evaluated is INCONCLUSIVE. *)
SummarizePlaybook(evals) ==
    IF evals = << >> THEN "INCONCLUSIVE" ELSE AggregateDecision(evals)

=============================================================================
