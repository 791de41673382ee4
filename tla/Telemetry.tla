----------------------------- MODULE Telemetry ------------------------------
(***************************************************************************)
(* What the executions of process_envelope leave behind about themselves   *)
(* (http-gateway/src/pipeline.rs): an error is logged and then recorded in *)
(* the diagnostics actor, an evaluation is only recorded; the actor logs   *)
(* what it records.  The actor and the log channel live in one process and *)
(* die with it.                                                            *)
(***************************************************************************)
EXTENDS SeqLayer, FiniteSets

CONSTANTS
    Runs,       \* executions of process_envelope
    OutcomeOf,  \* Runs -> "evaluation", or the kind of the error of the run
    ErrorKinds, Capacity

ASSUME TelemetryAssumption ==
    /\ Capacity \in Nat /\ "evaluation" \notin ErrorKinds
    /\ OutcomeOf \in [Runs -> ErrorKinds \cup {"evaluation"}]
    /\ Lines = {"pipeline", "diagnostics"} \X Runs

VARIABLES
    mailbox, recent, error_counters,
    underWay,  \* runs that have not come to their outcome
    warned,    \* runs that have logged their error but not recorded it
    began      \* history: how many lines were logged before the process began

seqVars == vars
diagVars == <<mailbox, recent, error_counters>>
runVars == <<underWay, warned, began>>
telemetryVars == <<seqVars, diagVars, runVars>>

Diag == INSTANCE Diagnostics

TelemetryInit ==
    /\ Init /\ Diag!Init
    /\ underWay = Runs /\ warned = {} /\ began = 0

Record(r) == Diag!DoSend([kind |-> OutcomeOf[r], about |-> r])

(* The result of the orchestrator is recorded. *)
RecordEvaluation(r) ==
    /\ r \in underWay /\ OutcomeOf[r] = "evaluation"
    /\ underWay' = underWay \ {r}
    /\ Record(r)
    /\ UNCHANGED <<seqVars, warned, began>>

(* The failing stage logs its error ... *)
Warn(r) ==
    /\ r \in underWay /\ OutcomeOf[r] # "evaluation"
    /\ underWay' = underWay \ {r}
    /\ warned' = warned \cup {r}
    /\ OnEvent(<<"pipeline", r>>)
    /\ UNCHANGED <<diagVars, began>>

(* ... and then records it. *)
RecordError(r) ==
    /\ r \in warned
    /\ warned' = warned \ {r}
    /\ Record(r)
    /\ UNCHANGED <<seqVars, underWay, began>>

(* The actor logs a message and works it in. *)
HandleMail ==
    /\ Diag!Handle
    /\ OnEvent(<<"diagnostics", Head(mailbox).about>>)
    /\ UNCHANGED runVars

(* Everything in memory goes at once. *)
ProcessCrash ==
    /\ Crash /\ Diag!Restart
    /\ warned' = {} /\ began' = Len(emitted)
    /\ UNCHANGED underWay

Ship == (Flusher \/ Network) /\ UNCHANGED <<diagVars, runVars>>

TelemetryNext ==
    \/ \E r \in Runs : RecordEvaluation(r) \/ Warn(r) \/ RecordError(r)
    \/ HandleMail \/ Ship \/ ProcessCrash

TelemetrySpec == TelemetryInit /\ [][TelemetryNext]_telemetryVars

(* The runtime polls the actor and the flush task; a post ends after five
   seconds at the latest, and a server that refuses sends its whole reply. *)
FairTelemetry ==
    /\ TelemetrySpec
    /\ WF_telemetryVars(HandleMail)
    /\ WF_telemetryVars(Flusher /\ UNCHANGED <<diagVars, runVars>>)

-----------------------------------------------------------------------------
(* Properties.                                                             *)

(* Types of the log layer and of the actor; the window keeps its bound. *)
TelemetryTypeOK ==
    /\ TypeOK /\ Diag!TypeOK
    /\ warned \subseteq Runs /\ underWay \subseteq Runs /\ began \in Nat

(* Where the actor has logged messages of a kind since the process began, and
   how many are logged there from the i-th line on. *)
LoggedAs(kind) ==
    {i \in began + 1 .. Len(emitted) :
        emitted[i][1] = "diagnostics" /\ OutcomeOf[emitted[i][2]] = kind}

Since(i, lines) == Cardinality({j \in lines : j >= i})

(* The snapshot of the actor and the log tell one story, through concurrent
   runs, full windows and restarts: the window holds the latest evaluations
   logged, newest first, and each counter the number of errors logged. *)
SnapshotAgreesWithLog ==
    LET evaluations == LoggedAs("evaluation")
        n == Cardinality(evaluations)
    IN /\ Len(recent) = IF n < Capacity THEN n ELSE Capacity
       /\ \A i \in evaluations : Since(i, evaluations) <= Capacity =>
              recent[Since(i, evaluations)] = emitted[i][2]
       /\ \A kind \in ErrorKinds : error_counters[kind] = Cardinality(LoggedAs(kind))

(* Time and again the mailbox and the channel are worked off, however posts
   end: a last, small batch is not held back until it is full. *)
BacklogIsWorkedOff == []<>(mailbox = << >> /\ queue = << >> /\ buffer = << >>)

=============================================================================
