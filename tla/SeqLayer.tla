------------------------------ MODULE SeqLayer ------------------------------
(***************************************************************************)
(* The tracing layer that ships log lines to Seq                           *)
(* (http-gateway/src/seq_layer.rs): any thread puts lines on an unbounded  *)
(* channel, and one background task collects them into batches and posts   *)
(* each batch once.                                                        *)
(*                                                                         *)
(* The interval of two seconds only wakes the task up: whatever it has     *)
(* taken from the channel it posts before it waits again, so that its      *)
(* buffer is empty whenever the interval ends.                             *)
(***************************************************************************)
EXTENDS Naturals, Sequences, Functions

CONSTANTS
    Lines,       \* each line is logged once
    BatchSize,   \* BATCH_SIZE, 50 in the code
    MaxTroubles  \* how many posts fail and how often the process dies

ASSUME SeqAssumption == BatchSize \in Nat \ {0} /\ MaxTroubles \in Nat

VARIABLES
    emitted,    \* history: the lines in the order they entered the channel
    queue,      \* the channel
    buffer,     \* the batch being collected or posted
    phase,      \* what the task does
    gone,       \* history: lines the task is done with, or that died with it
    wire,       \* batches posted without an answer, that Seq may still take in
    stored,     \* what Seq holds, in the order it took it in
    unanswered, \* history: lines of the batches that were on the wire
    lost,       \* history: lines that were refused, cut off or died
    troubles

vars == <<emitted, queue, buffer, phase, gone, wire, stored, unanswered, lost, troubles>>

Phases == {"wait", "drain", "post", "reply"}

Init ==
    /\ emitted = << >> /\ queue = << >> /\ buffer = << >> /\ gone = << >>
    /\ phase = "wait"
    /\ wire = {} /\ stored = << >>
    /\ unanswered = {} /\ lost = {} /\ troubles = 0

(* on_event: tx.send never blocks. *)
OnEvent(line) ==
    /\ line \notin Range(emitted)
    /\ emitted' = Append(emitted, line)
    /\ queue' = Append(queue, line)
    /\ UNCHANGED <<buffer, phase, gone, wire, stored, unanswered, lost, troubles>>

(* rx.recv gives the first line of a batch. *)
Receive ==
    /\ phase = "wait" /\ queue # << >>
    /\ buffer' = <<Head(queue)>>
    /\ queue' = Tail(queue)
    /\ phase' = "drain"
    /\ UNCHANGED <<emitted, gone, wire, stored, unanswered, lost, troubles>>

(* Faulty: the line that no longer fits is dropped. *)
DrainDropping ==
    /\ phase = "drain" /\ queue # << >>
    /\ buffer' = IF Len(buffer) < BatchSize THEN Append(buffer, Head(queue)) ELSE buffer
    /\ queue' = Tail(queue)
    /\ UNCHANGED <<emitted, phase, gone, wire, stored, unanswered, lost, troubles>>

(* rx.try_recv gives another one. *)
Drain ==
    /\ phase = "drain" /\ Len(buffer) < BatchSize /\ queue # << >>
    /\ buffer' = Append(buffer, Head(queue))
    /\ queue' = Tail(queue)
    /\ UNCHANGED <<emitted, phase, gone, wire, stored, unanswered, lost, troubles>>

(* Faulty: a task of its own posts each batch. *)
PostSpawned ==
    /\ phase = "drain" /\ (Len(buffer) >= BatchSize \/ queue = << >>)
    /\ wire' = wire \cup {buffer}
    /\ gone' = gone \o buffer /\ buffer' = << >> /\ phase' = "wait"
    /\ UNCHANGED <<emitted, queue, stored, unanswered, lost, troubles>>

(* Faulty: waits until the batch is full. *)
PostWhenFull ==
    /\ phase = "drain" /\ Len(buffer) >= BatchSize
    /\ phase' = "post"
    /\ UNCHANGED <<emitted, queue, buffer, gone, wire, stored, unanswered, lost, troubles>>

(* The batch is full or the channel empty. *)
Post ==
    /\ phase = "drain" /\ (Len(buffer) >= BatchSize \/ queue = << >>)
    /\ phase' = "post"
    /\ UNCHANGED <<emitted, queue, buffer, gone, wire, stored, unanswered, lost, troubles>>

Trouble == troubles < MaxTroubles /\ troubles' = troubles + 1

(* flush returns, and the buffer is cleared. *)
EndPost(next) ==
    /\ gone' = gone \o buffer
    /\ buffer' = << >>
    /\ phase' = next
    /\ UNCHANGED <<emitted, queue>>

Accepted ==
    /\ phase = "post"
    /\ stored' = stored \o buffer
    /\ EndPost("wait")
    /\ UNCHANGED <<wire, unanswered, lost, troubles>>

(* An HTTP error: the text of the reply is read before flush returns. *)
Refused ==
    /\ phase = "post" /\ Trouble
    /\ lost' = lost \cup Range(buffer)
    /\ EndPost("reply")
    /\ UNCHANGED <<wire, stored, unanswered>>

(* resp.text() has no timeout. *)
ReplyRead ==
    /\ phase = "reply"
    /\ phase' = "wait"
    /\ UNCHANGED <<emitted, queue, buffer, gone, wire, stored, unanswered, lost, troubles>>

SentUnanswered ==
    /\ wire' = wire \cup {buffer}
    /\ unanswered' = unanswered \cup Range(buffer)

(* Faulty: a request that times out is sent again. *)
UnansweredRetried ==
    /\ phase = "post" /\ Trouble
    /\ SentUnanswered
    /\ UNCHANGED <<emitted, queue, buffer, phase, gone, stored, lost>>

(* An error of the client, or five seconds: Seq may have the request or get it
   later. *)
Unanswered ==
    /\ phase = "post" /\ Trouble
    /\ SentUnanswered
    /\ EndPost("wait")
    /\ UNCHANGED <<stored, lost>>

TakeIn(batch) ==
    /\ batch \in wire
    /\ wire' = wire \ {batch}
    /\ stored' = stored \o batch
    /\ UNCHANGED <<emitted, queue, buffer, phase, gone, unanswered, lost, troubles>>

CutOff(batch) ==
    /\ batch \in wire
    /\ wire' = wire \ {batch}
    /\ lost' = lost \cup Range(batch)
    /\ UNCHANGED <<emitted, queue, buffer, phase, gone, stored, unanswered, troubles>>

(* The process dies and is started again; a request it was sending is left on
   the wire. *)
Crash ==
    /\ Trouble
    /\ IF phase = "post"
       THEN SentUnanswered /\ lost' = lost \cup Range(queue)
       ELSE lost' = lost \cup Range(buffer) \cup Range(queue) /\ UNCHANGED <<wire, unanswered>>
    /\ gone' = emitted
    /\ queue' = << >> /\ buffer' = << >> /\ phase' = "wait"
    /\ UNCHANGED <<emitted, stored>>

Flusher == Receive \/ Drain \/ Post \/ Accepted \/ Refused \/ ReplyRead \/ Unanswered

Network == \E batch \in wire : TakeIn(batch) \/ CutOff(batch)

Next == (\E line \in Lines : OnEvent(line)) \/ Flusher \/ Network \/ Crash

Spec == Init /\ [][Next]_vars

-----------------------------------------------------------------------------
(* Properties.                                                             *)

TypeOK ==
    /\ emitted \in Seq(Lines) /\ queue \in Seq(Lines)
    /\ buffer \in Seq(Lines) /\ gone \in Seq(Lines)
    /\ phase \in Phases
    /\ wire \subseteq Seq(Lines) /\ stored \in Seq(Lines)
    /\ unanswered \subseteq Lines /\ lost \subseteq Lines
    /\ troubles \in Nat

(* The task is done with the lines in the order they were logged and skips
   none, whatever is posted, refused or left unanswered on the way; without
   trouble Seq holds exactly the lines the task is done with. *)
LinesInOrder ==
    /\ emitted = gone \o buffer \o queue
    /\ troubles = 0 => stored = gone

LoggedAt(line) == CHOOSE i \in DOMAIN emitted : emitted[i] = line

(* Seq has a line before one that was logged earlier only if the post of the
   earlier one got no answer. *)
OvertakenOnlyUnanswered ==
    \A i, j \in DOMAIN stored :
        (i < j /\ LoggedAt(stored[j]) < LoggedAt(stored[i])) => stored[j] \in unanswered

(* Lines that can still be stored. *)
Pending == Range(queue) \cup Range(buffer) \cup UNION {Range(batch) : batch \in wire}

Feed == INSTANCE LogFeed WITH pending <- Pending

(* Each line is stored at most once, in batches of at most BatchSize, and is
   lost only for good: a request that got no answer is not sent again. *)
ImplementsLogFeed == Feed!Spec

=============================================================================
