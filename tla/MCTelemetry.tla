---------------------------- MODULE MCTelemetry -----------------------------
(* One run that is rejected and more evaluations than the window holds. *)
EXTENDS Telemetry

CONSTANTS evaluated1, evaluated2, evaluated3, rejected

MCOutcomeOf == [r \in Runs |->
    IF r = rejected THEN "validation_failed" ELSE "evaluation"]

MCLines == {"pipeline", "diagnostics"} \X Runs

=============================================================================
