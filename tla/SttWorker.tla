------------------------------ MODULE SttWorker ------------------------------
(***************************************************************************)
(* The worker inside one channel's STT child                               *)
(* (src/edge_voice/stt/stt_worker.py), under the supervisor's eye          *)
(* (module Heartbeat): one decoder, kept over all segments, whose stream   *)
(* is opened for one final at a time and must be empty again afterwards;   *)
(* partials, decoded beside the stream; the collector that turns the       *)
(* decoder's lines into a text and guards against a model that loops; the  *)
(* latency that travels with a final.                                      *)
(*                                                                         *)
(* A text is a line of an utterance, or that line looped: what a decoder   *)
(* says is a text of an utterance whose audio it was given.  Moonshine's   *)
(* Transcriber is external.                                                *)
(***************************************************************************)
EXTENDS Heartbeat, Sequences, SequencesExt

CONSTANTS
  PartialMaxDepth, (* partial_max_queue_depth                              *)
  MaxSegments,     (* BOUND: utterances                                    *)
  MaxLines,        (* BOUND: lines the decoder says of one segment         *)
  MaxFaults        (* BOUND: hangs and deaths of children                  *)

ASSUME SttWorkerAssumption ==
  /\ PartialMaxDepth \in Nat /\ MaxSegments \in Nat
  /\ MaxLines \in Nat /\ MaxFaults \in Nat

Utterances == 1..MaxSegments
Segments == [of : Utterances, is_final : BOOLEAN]
Texts == [of : Utterances, line : 1..MaxLines, loops : BOOLEAN]
NoSegment == [of |-> 0, is_final |-> TRUE]
NoText == [of |-> 0, line |-> 0, loops |-> FALSE]

VARIABLES
  made,         (* what the VAD emitted last                               *)
  waiting,      (* the segment queue, which outlives a child               *)
  work,         (* the segment the worker handles                          *)
  step,         (* run, open, closing: how far _transcribe is              *)
  stream,       (* utterances whose audio the decoder's stream holds       *)
  line,         (* lines completed for this segment                        *)
  lines,        (* the collector's lines                                   *)
  best_partial, (* and its best partial                                    *)
  latency,      (* the utterance last_latency_s was measured on; 0: None   *)
  results,      (* what left through on_transcript                         *)
  unanswered,   (* history: segments skipped, silent, failed or killed     *)
  faults

memory == <<work, step, stream, line, lines, best_partial, latency>>
vars == <<beat_vars, made, waiting, memory, results, unanswered, faults>>

EmptyHanded ==
  /\ work' = NoSegment /\ step' = "run"
  /\ line' = 0 /\ lines' = <<>> /\ best_partial' = NoText

Init ==
  /\ BeatInit
  /\ made = NoSegment /\ waiting = <<>>
  /\ work = NoSegment /\ step = "run" /\ stream = {}
  /\ line = 0 /\ lines = <<>> /\ best_partial = NoText
  /\ latency = 0 /\ results = {} /\ unanswered = {} /\ faults = 0

-----------------------------------------------------------------------------
(* The VAD queues a partial of the utterance in progress, or its final.    *)
(* BOUND: one partial per utterance.                                       *)
Queue(s) ==
  /\ s.of = IF made.is_final THEN made.of + 1 ELSE made.of
  /\ s.is_final \/ made.is_final
  /\ made' = s
  /\ waiting' = Append(waiting, s) /\ pending' = TRUE
  /\ UNCHANGED <<child, hung, ready_event, heartbeat, last_activity, cpu,
                 lock_lost, starved, looked, memory, results, unanswered,
                 faults>>

-----------------------------------------------------------------------------
(* The worker. *)

Ready ==
  /\ BeatReady
  /\ UNCHANGED <<made, waiting, memory, results, unanswered, faults>>

Take ==
  /\ BeatDequeue
  /\ work' = Head(waiting) /\ waiting' = Tail(waiting)
  /\ pending' = (waiting' # <<>>)
  /\ UNCHANGED <<made, step, stream, line, lines, best_partial, latency,
                 results, unanswered, faults>>

(* The segment is done with, and nothing is published. *)
Unanswered ==
  /\ unanswered' = unanswered \cup {work}
  /\ EmptyHanded
  /\ UNCHANGED results

Publish(said, measured) ==
  /\ results' = results \cup
       {[segment |-> work, text |-> said, latency |-> measured]}
  /\ EmptyHanded
  /\ UNCHANGED unanswered

(* A partial is not worth decoding when something waits behind it. *)
ShouldSkip == ~work.is_final /\ Len(waiting) > PartialMaxDepth

SkipPartial ==
  /\ BeatDecodeEnds
  /\ work # NoSegment /\ ShouldSkip
  /\ Unanswered
  /\ UNCHANGED <<made, waiting, stream, latency, faults>>

(* transcribe_without_streaming uses neither the stream nor the collector. *)
(* An empty or looping text and an exception end alike.                    *)
TranscribePartial ==
  /\ BeatDecodeEnds
  /\ work # NoSegment /\ ~work.is_final /\ ~ShouldSkip
  /\ \/ Publish(<<[of |-> work.of, line |-> 1, loops |-> FALSE]>>, 0)
     \/ Unanswered
  /\ UNCHANGED <<made, waiting, stream, latency, faults>>

Decoding == child = "decoding" /\ ~hung /\ work # NoSegment /\ work.is_final

(* A new collector, start() and add_audio(), which may raise.  Opening a   *)
(* stream does not empty it.                                               *)
Transcribe ==
  /\ Decoding /\ step = "run"
  /\ stream' = stream \cup {work.of}
  /\ step' \in {"open", "raised"}
  /\ UNCHANGED <<beat_vars, made, waiting, work, line, lines, best_partial,
                 latency, results, unanswered, faults>>

(* The decoder speaks of what its stream holds. *)
Says(t) == t.of \in stream /\ t.line = line + 1

(* A text that loops is not kept as the best partial. *)
KeptPartial(t) == IF t.loops THEN best_partial ELSE t

LineChanged(t) ==
  /\ Decoding /\ step = "open" /\ Says(t)
  /\ best_partial' = KeptPartial(t)
  /\ UNCHANGED <<beat_vars, made, waiting, work, step, stream, line, lines,
                 latency, results, unanswered, faults>>

(* A line that loops is replaced by the best partial, if there is one. *)
Accepted(t) == IF t.loops THEN best_partial ELSE t

LineCompleted(t) ==
  /\ Decoding /\ step = "open" /\ Says(t)
  /\ line' = t.line
  /\ lines' = IF Accepted(t) = NoText THEN lines ELSE Append(lines, Accepted(t))
  /\ UNCHANGED <<beat_vars, made, waiting, work, step, stream, best_partial,
                 latency, results, unanswered, faults>>

StoppedMutant == IF step = "raised" THEN stream ELSE {}

(* The finally clause: stop() resets the stream on every path. *)
Stopped == {}

(* _handle_segment: the latency is set before the transcript leaves, and   *)
(* stt_child_main's callback reads it.                                     *)
CloseSession ==
  /\ BeatDecodeEnds
  /\ Decoding /\ step = "open"
  /\ stream' = Stopped
  /\ latency' = work.of
  /\ IF lines = <<>> THEN Unanswered ELSE Publish(lines, latency')
  /\ UNCHANGED <<made, waiting, faults>>

(* run() logs the exception and goes on. *)
SessionRaised ==
  /\ BeatDecodeEnds
  /\ Decoding /\ step = "raised"
  /\ stream' = Stopped
  /\ Unanswered
  /\ UNCHANGED <<made, waiting, latency, faults>>

-----------------------------------------------------------------------------
(* Failures, and the supervisor. *)

Fault(F) ==
  /\ faults < MaxFaults /\ faults' = faults + 1
  /\ F
  /\ UNCHANGED <<made, waiting, memory, results, unanswered>>

(* A segment in hand is lost, the queue and what was sent are not; the     *)
(* replacement starts with nothing of its predecessor's.                   *)
Restart ==
  /\ BeatRestart
  /\ EmptyHanded
  /\ stream' = {} /\ latency' = 0
  /\ unanswered' = IF work = NoSegment THEN unanswered
                   ELSE unanswered \cup {work}
  /\ UNCHANGED <<made, waiting, results, faults>>

Idling == UNCHANGED <<made, waiting, memory, results, unanswered, faults>>

WorkerStep ==
  \/ Ready \/ Take \/ SkipPartial \/ TranscribePartial \/ Transcribe
  \/ CloseSession \/ SessionRaised

Next ==
  \/ \E s \in Segments : Queue(s)
  \/ WorkerStep
  \/ \E t \in Texts : LineChanged(t) \/ LineCompleted(t)
  \/ Fault(Hang) \/ Fault(BeatDie)
  \/ (UseCpu \/ Tick) /\ Idling
  \/ Restart

(* A child that is not hung runs, time passes, and the supervisor scans.   *)
(* Its budget is in module Supervision.                                    *)
Fairness == WF_vars(WorkerStep) /\ WF_vars(Tick /\ Idling) /\ WF_vars(Restart)

Spec == Init /\ [][Next]_vars

FairSpec == Spec /\ Fairness
-----------------------------------------------------------------------------
(* Properties *)

(* What leaves under an utterance's id is that utterance's own: text said  *)
(* of its audio, never a looped line, and the time of its own decode (none *)
(* with a partial), after whatever went wrong with the segments before it. *)
OwnAnswerOnly ==
  \A r \in results :
    /\ r.latency = IF r.segment.is_final THEN r.segment.of ELSE 0
    /\ \A i \in DOMAIN r.text :
         r.text[i].of = r.segment.of /\ ~r.text[i].loops

(* What the configuration says of the stall timeout: a worker is restarted *)
(* when it made no progress for that long.  So a child that decodes and is *)
(* not hung is never restarted while it uses CPU, however long the decode  *)
(* takes and however much waits behind it, once the bridge has looked.     *)
BusyChildKept ==
  [][Restart => \/ child = "dead" \/ hung
                \/ child = "idle" \/ ~looked
                \/ starved > 0]_vars

(* A final that waits is taken and answered, or its decode yields nothing, *)
(* or the child that held it is lost: a child that dies is replaced, and   *)
(* so is one that hangs although its bridge runs on.  A hang is noticed    *)
(* only after the child was ready and while another segment waits.  A      *)
(* child killed as it polls ends the use of its queue: BacklogConsumed, in *)
(* SttPath, is what the documentation says of that.                        *)
FinalsServed ==
  \A n \in Utterances :
    LET fin == [of |-> n, is_final |-> TRUE]
    IN  Contains(waiting, fin) ~>
          \/ fin \in unanswered
          \/ \E r \in results : r.segment = fin
          \/ hung /\ ~(ready_event /\ pending)
          \/ lock_lost

(* What the orchestrator says of a child that never becomes ready: the     *)
(* supervisor picks it up as a normal fault.                               *)
HungLoadReplaced ==
  (hung /\ ~ready_event /\ pending) ~> ~hung

(* What stt_process.py says of the stale heartbeat of an idle child: it is *)
(* harmless.                                                               *)
IdleHarmless == [][Restart => child # "idle" \/ hung]_vars

(* What the warning of on_line_completed says: a line that loops falls     *)
(* back to the best partial, of that line.                                 *)
NoLineTwice ==
  \A r \in results : \A i, j \in DOMAIN r.text :
    r.text[i] = r.text[j] => i = j
=============================================================================
