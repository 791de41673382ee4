---------------------------- MODULE RuleVerdict -----------------------------
(***************************************************************************)
(* What rule execution promises about one event, whatever loop, actor or   *)
(* lookup it is made of: a plan is fixed once, and its outcome is decided  *)
(* in one step from what the rules of the plan say.                        *)
(***************************************************************************)
EXTENDS Decisions, Integers, Sequences

CONSTANT None

VARIABLES plan,    \* None, or the jobs in order and whether Fail_First applies
          outcome  \* None, or the decision and the jobs that ran

(* A job's status is what its rule says of the event when its handler answers. *)
Job == [critical : BOOLEAN, status : Status]

Said(job, silent) == IF silent THEN "INCONCLUSIVE" ELSE job.status

(* Jobs run up to and including the first critical failure under Fail_First. *)
Ran(p, silent) ==
    {i \in DOMAIN p.jobs :
        \A j \in DOMAIN p.jobs :
            j < i => ~ (/\ p.failFirst /\ p.jobs[j].critical
                        /\ Said(p.jobs[j], j \in silent) = "FAIL")}

Worst(S) == IF "FAIL" \in S THEN "FAIL"
            ELSE IF "INCONCLUSIVE" \in S THEN "INCONCLUSIVE" ELSE "PASS"

Init == plan = None /\ outcome = None

Prepare == /\ plan = None /\ outcome = None
           /\ plan' \in [jobs : Seq(Job), failFirst : BOOLEAN]
           /\ UNCHANGED outcome

(* Nothing matches the event. *)
Decline == /\ plan = None /\ outcome = None
           /\ outcome' = [decision |-> "INCONCLUSIVE", ran |-> {}]
           /\ UNCHANGED plan

Fail == /\ outcome = None
        /\ outcome' = [decision |-> "failed", ran |-> {}]
        /\ UNCHANGED plan

(* A handler that does not answer counts as inconclusive. *)
Decide == /\ plan # None /\ outcome = None
          /\ \E silent \in SUBSET DOMAIN plan.jobs :
                LET ran == Ran(plan, silent) IN
                outcome' = [decision |-> Worst({Said(plan.jobs[i], i \in silent) : i \in ran}),
                            ran |-> ran]
          /\ UNCHANGED plan

Next == Prepare \/ Decline \/ Fail \/ Decide

Spec == Init /\ [][Next]_<<plan, outcome>>

=============================================================================
