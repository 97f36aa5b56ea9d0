------------------------------- MODULE SttPath -------------------------------
(***************************************************************************)
(* One channel from its segment queue to the transcript hub, with STT in a *)
(* child process: the worker's run loop                                    *)
(* (src/edge_voice/stt/stt_worker.py) inside the child                     *)
(* (src/edge_voice/stt/stt_process.py), its replacement after a failure,   *)
(* and the parent's receiver thread and stop()                             *)
(* (src/edge_voice/pipeline/orchestrator.py).                              *)
(*                                                                         *)
(* Channels share nothing on this path.  A segment and its transcript are  *)
(* named alike, by utterance number and by whether they are final; a       *)
(* decode yields text or none.  multiprocessing.Queue is external: what    *)
(* the child puts waits in its feeder until it is flushed into the pipe,   *)
(* which outlives the child; a child that exits flushes first, one that is *)
(* killed does not.  A get holds the queue's reader lock while it waits,   *)
(* and a child killed there never releases it: the next one, on the same   *)
(* queue, finds nothing.                                                   *)
(***************************************************************************)
EXTENDS Integers, Sequences

CONSTANTS
  SegmentQueueMax, (* capacity of the segment queue                        *)
  PartialMaxDepth, (* partial_max_queue_depth                              *)
  MaxSegments,     (* BOUND: utterances                                    *)
  MaxChildren      (* BOUND: child processes, one after the other          *)

ASSUME SttAssumption ==
  /\ SegmentQueueMax \in Nat \ {0} /\ PartialMaxDepth \in Nat
  /\ MaxSegments \in Nat /\ MaxChildren \in Nat \ {0}

Events == [segment : 1..MaxSegments, is_final : BOOLEAN]
None == [segment |-> 0, is_final |-> TRUE]

VARIABLES
  made,           (* what the VAD emitted last                             *)
  segment_queue,
  handle,         (* number of the child self._stt[channel] stands for     *)
  child,          (* its state: loading, check, get, decode, exiting, dead *)
  work,           (* the segment it decodes                                *)
  proc_stop,      (* the handle's mp stop event                            *)
  worker_stop,    (* the stop event of the worker inside the child         *)
  feeder,         (* transcripts not yet flushed into the pipe             *)
  transcripts,    (* [k] the pipe of child k's transcript queue            *)
  receiver,       (* the receiver thread: poll, get, off                   *)
  receiving,      (* the handle whose queue it reads                       *)
  published,      (* transcripts handed to the hub, in order               *)
  phase,          (* stop(): run, vad, stt, receivers, done                *)
  lock_lost,      (* a dead child holds the segment queue's reader lock    *)
  shed,           (* history: dropped, the queue was full                  *)
  silent,         (* history: decoded without text, or the decode failed   *)
  died            (* history: in the hands of children that died; None if  *)
                  (* one held nothing                                      *)

child_vars == <<handle, child, work, proc_stop, worker_stop, feeder>>
recv_vars == <<receiver, receiving>>
loss_vars == <<lock_lost, shed, silent, died>>
vars == <<made, segment_queue, child_vars, transcripts, recv_vars, published,
          phase, loss_vars>>

Init ==
  /\ made = None /\ segment_queue = <<>>
  /\ handle = 1 /\ child = "loading" /\ work = None
  /\ proc_stop = FALSE /\ worker_stop = FALSE
  /\ feeder = <<>>
  /\ transcripts = [k \in 1..MaxChildren |-> <<>>]
  /\ receiver = "poll" /\ receiving = 1
  /\ published = <<>>
  /\ phase = "run"
  /\ lock_lost = FALSE /\ shed = {} /\ silent = {} /\ died = {}

Elements(s) == {s[i] : i \in 1..Len(s)}

-----------------------------------------------------------------------------
(* The VAD's end of the queue. *)

(* BOUND: one partial per utterance. *)
Follows(last, e) ==
  \/ e.segment > last.segment
  \/ e.segment = last.segment /\ e.is_final /\ ~last.is_final

(* UtteranceStream: the ids follow one another, each is closed before the   *)
(* next begins.                                                            *)
Emits(e) ==
  /\ Follows(made, e)
  /\ e.segment # made.segment => made.is_final /\ e.segment = made.segment + 1

HasRoom == Len(segment_queue) < SegmentQueueMax

(* put_nowait of a partial, fanout_put of a final, whose wait is the child *)
(* dequeuing first.                                                        *)
Enqueue(e) ==
  /\ made' = e
  /\ IF HasRoom
     THEN segment_queue' = Append(segment_queue, e) /\ UNCHANGED shed
     ELSE shed' = shed \cup {e} /\ UNCHANGED segment_queue

VadEmits(e) ==
  /\ phase = "run"
  /\ Emits(e)
  /\ Enqueue(e)
  /\ UNCHANGED <<child_vars, transcripts, recv_vars, published, phase,
                 lock_lost, silent, died>>

-----------------------------------------------------------------------------
(* The child. *)

Ready ==
  /\ child = "loading" /\ child' = "check"
  /\ UNCHANGED <<made, segment_queue, handle, work, proc_stop, worker_stop,
                 feeder, transcripts, recv_vars, published, phase, loss_vars>>

(* The bridge passes the parent's stop on. *)
BridgeStop ==
  /\ child \notin {"loading", "dead"} /\ proc_stop /\ ~worker_stop
  /\ worker_stop' = TRUE
  /\ UNCHANGED <<made, segment_queue, handle, child, work, proc_stop, feeder,
                 transcripts, recv_vars, published, phase, loss_vars>>

CheckStop ==
  /\ child = "check"
  /\ child' = IF worker_stop THEN "exiting" ELSE "get"
  /\ UNCHANGED <<made, segment_queue, handle, work, proc_stop, worker_stop,
                 feeder, transcripts, recv_vars, published, phase, loss_vars>>

(* Empty: nothing came, or the lock did not. *)
Timeout ==
  /\ child = "get" /\ (segment_queue = <<>> \/ lock_lost)
  /\ child' = "check"
  /\ UNCHANGED <<made, segment_queue, handle, work, proc_stop, worker_stop,
                 feeder, transcripts, recv_vars, published, phase, loss_vars>>

Dequeue ==
  /\ child = "get" /\ segment_queue # <<>> /\ ~lock_lost
  /\ child' = "decode"
  /\ work' = Head(segment_queue) /\ segment_queue' = Tail(segment_queue)
  /\ UNCHANGED <<made, handle, proc_stop, worker_stop, feeder, transcripts,
                 recv_vars, published, phase, loss_vars>>

(* A partial is not worth decoding when something waits behind it. *)
SkipPartial == ~work.is_final /\ Len(segment_queue) > PartialMaxDepth

EventMutant == [work EXCEPT !.is_final = TRUE]

Event == work

Skip ==
  /\ child = "decode" /\ SkipPartial
  /\ child' = "check" /\ work' = None
  /\ UNCHANGED <<made, segment_queue, handle, proc_stop, worker_stop, feeder,
                 transcripts, recv_vars, published, phase, loss_vars>>

(* _handle_segment and _handle_partial when the model yields text. *)
Transcribe ==
  /\ child = "decode" /\ ~SkipPartial
  /\ feeder' = Append(feeder, Event)
  /\ child' = "check" /\ work' = None
  /\ UNCHANGED <<made, segment_queue, handle, proc_stop, worker_stop,
                 transcripts, recv_vars, published, phase, loss_vars>>

(* No text, or an exception: nothing is published. *)
NoTranscript ==
  /\ child = "decode" /\ ~SkipPartial
  /\ silent' = silent \cup {work}
  /\ child' = "check" /\ work' = None
  /\ UNCHANGED <<made, segment_queue, handle, proc_stop, worker_stop, feeder,
                 transcripts, recv_vars, published, phase, lock_lost, shed,
                 died>>

Flush ==
  /\ child # "dead" /\ feeder # <<>>
  /\ transcripts' = [transcripts EXCEPT ![handle] = Append(@, Head(feeder))]
  /\ feeder' = Tail(feeder)
  /\ UNCHANGED <<made, segment_queue, handle, child, work, proc_stop,
                 worker_stop, recv_vars, published, phase, loss_vars>>

Exit ==
  /\ child = "exiting" /\ feeder = <<>>
  /\ child' = "dead"
  /\ UNCHANGED <<made, segment_queue, handle, work, proc_stop, worker_stop,
                 feeder, transcripts, recv_vars, published, phase, loss_vars>>

Die ==
  /\ child # "dead" /\ child' = "dead"
  /\ lock_lost' = (lock_lost \/ child = "get")
  /\ died' = died \cup Elements(feeder) \cup {work}
  /\ feeder' = <<>> /\ work' = None
  /\ UNCHANGED <<made, segment_queue, handle, proc_stop, worker_stop,
                 transcripts, recv_vars, published, phase, shed, silent>>

(* A crash, or the kill by which _join ends a restart or a stop().  BOUND: *)
(* in stop(), or while another child can follow.                           *)
Crash == Die /\ (handle < MaxChildren \/ proc_stop)

-----------------------------------------------------------------------------
(* The supervisor: stop a child that stalled, replace one that is gone. *)

SignalOld ==
  /\ phase = "run" /\ handle < MaxChildren /\ child # "dead" /\ ~proc_stop
  /\ proc_stop' = TRUE
  /\ UNCHANGED <<made, segment_queue, handle, child, work, worker_stop, feeder,
                 transcripts, recv_vars, published, phase, loss_vars>>

(* _restart_dict_worker: a new handle, with a transcript queue of its own. *)
Restart ==
  /\ phase = "run" /\ child = "dead" /\ handle < MaxChildren
  /\ handle' = handle + 1 /\ child' = "loading"
  /\ proc_stop' = FALSE /\ worker_stop' = FALSE
  /\ UNCHANGED <<made, segment_queue, work, feeder, transcripts, recv_vars,
                 published, phase, loss_vars>>

-----------------------------------------------------------------------------
(* _stt_receiver_loop. *)

RereadHandleMutant == UNCHANGED receiving

RereadHandle == receiving' = handle

ReceiverPolls ==
  /\ receiver = "poll" /\ phase # "receivers"
  /\ receiver' = "get"
  /\ RereadHandle
  /\ UNCHANGED <<made, segment_queue, child_vars, transcripts, published,
                 phase, loss_vars>>

ReceiverTimeout ==
  /\ receiver = "get" /\ transcripts[receiving] = <<>>
  /\ receiver' = "poll"
  /\ UNCHANGED <<made, segment_queue, child_vars, transcripts, receiving,
                 published, phase, loss_vars>>

Receive ==
  /\ receiver = "get" /\ transcripts[receiving] # <<>>
  /\ published' = Append(published, Head(transcripts[receiving]))
  /\ transcripts' = [transcripts EXCEPT ![receiving] = Tail(@)]
  /\ receiver' = "poll"
  /\ UNCHANGED <<made, segment_queue, child_vars, receiving, phase, loss_vars>>

ReceiverOff ==
  /\ receiver = "poll" /\ phase = "receivers"
  /\ receiver' = "off"
  /\ UNCHANGED <<made, segment_queue, child_vars, transcripts, receiving,
                 published, phase, loss_vars>>

-----------------------------------------------------------------------------
(* stop(): the VAD first, then STT, then the receivers. *)

Stop ==
  /\ phase = "run" /\ phase' = "vad"
  /\ UNCHANGED <<made, segment_queue, child_vars, transcripts, recv_vars,
                 published, loss_vars>>

(* The VAD leaves its loop, flushes the utterance in progress, if there is *)
(* one, and is joined.                                                     *)
StopVad ==
  /\ phase = "vad" /\ phase' = "stt"
  /\ \/ made.is_final /\ UNCHANGED <<made, segment_queue, shed>>
     \/ \E e \in Events :
          /\ Emits(e) /\ e.is_final
          /\ Enqueue(e)
  /\ UNCHANGED <<child_vars, transcripts, recv_vars, published, lock_lost,
                 silent, died>>

StopStt ==
  /\ phase = "stt" /\ ~proc_stop
  /\ proc_stop' = TRUE
  /\ UNCHANGED <<made, segment_queue, handle, child, work, worker_stop, feeder,
                 transcripts, recv_vars, published, phase, loss_vars>>

SttJoined ==
  /\ phase = "stt" /\ proc_stop /\ child = "dead"
  /\ phase' = "receivers"
  /\ UNCHANGED <<made, segment_queue, child_vars, transcripts, recv_vars,
                 published, loss_vars>>

ReceiversJoined ==
  /\ phase = "receivers" /\ receiver = "off"
  /\ phase' = "done"
  /\ UNCHANGED <<made, segment_queue, child_vars, transcripts, recv_vars,
                 published, loss_vars>>

ChildStep ==
  \/ Ready \/ CheckStop \/ Timeout \/ Dequeue \/ Skip \/ Transcribe
  \/ NoTranscript \/ Exit

ReceiverStep == ReceiverPolls \/ ReceiverTimeout \/ Receive \/ ReceiverOff

StopStep == StopVad \/ StopStt \/ SttJoined \/ ReceiversJoined

Next ==
  \/ \E e \in Events : VadEmits(e)
  \/ ChildStep \/ BridgeStop \/ Flush \/ Crash \/ SignalOld \/ Restart
  \/ ReceiverStep
  \/ Stop \/ StopStep

(* Processes and threads run, decodes end, a dead child is replaced.       *)
(* Nothing makes the VAD speak, a child fail, or the operator stop.        *)
Fairness ==
  /\ WF_vars(ChildStep) /\ WF_vars(BridgeStop) /\ WF_vars(Flush)
  /\ WF_vars(Restart) /\ WF_vars(ReceiverStep) /\ WF_vars(StopStep)

Spec == Init /\ [][Next]_vars

FairSpec == Spec /\ Fairness
-----------------------------------------------------------------------------
(* Properties *)

(* Type invariant. *)
TypeOK ==
  /\ made \in Events \cup {None}
  /\ segment_queue \in Seq(Events) /\ Len(segment_queue) <= SegmentQueueMax
  /\ handle \in 1..MaxChildren
  /\ child \in {"loading", "check", "get", "decode", "exiting", "dead"}
  /\ work \in Events \cup {None} /\ (work # None <=> child = "decode")
  /\ proc_stop \in BOOLEAN /\ worker_stop \in BOOLEAN
  /\ feeder \in Seq(Events)
  /\ transcripts \in [1..MaxChildren -> Seq(Events)]
  /\ receiver \in {"poll", "get", "off"} /\ receiving \in 1..handle
  /\ published \in Seq(Events)
  /\ phase \in {"run", "vad", "stt", "receivers", "done"}
  /\ lock_lost \in BOOLEAN
  /\ shed \subseteq Events /\ silent \subseteq Events
  /\ died \subseteq Events \cup {None}

(* Transcripts reach the hub in the order the VAD emitted their segments,  *)
(* each once and none of an utterance after its final, whichever child     *)
(* decoded them and whichever queue they came through.                     *)
TranscriptsInOrder ==
  \A i, j \in 1..Len(published) : i < j => Follows(published[i], published[j])

Stranded(e) == \E k \in 1..handle - 1 : e \in Elements(transcripts[k])

(* A final the STT side was given is transcribed while the pipeline runs,  *)
(* also when the child that should have taken it is replaced first: unless *)
(* it has no text, or the child that held it died, or one was killed while *)
(* it waited for a segment, which ends the queue's use (BacklogConsumed).  *)
FinalsAnswered ==
  \A n \in 1..MaxSegments :
    LET fin == [segment |-> n, is_final |-> TRUE]
    IN  (fin \in Elements(segment_queue)) ~>
          \/ fin \in Elements(published) \cup silent \cup died
          \/ Stranded(fin)
          \/ lock_lost
          \/ phase # "run"

(* What RELIABILITY.md says of a restart: the segments that piled up are   *)
(* still there, and the new child consumes them.                           *)
BacklogConsumed ==
  (segment_queue # <<>> /\ child = "loading")
    ~> (child = "decode" \/ phase # "run")

(* What models.py says of transcripts: exactly one final closes an         *)
(* utterance, so one shown by a partial is closed, as long as no child     *)
(* dies, nothing is dropped, and nobody stops the pipeline.                *)
PartialsClosed ==
  \A n \in 1..MaxSegments :
    LET Of(final) == [segment |-> n, is_final |-> final]
    IN  (Of(FALSE) \in Elements(published) /\ made = Of(TRUE)) ~>
          \/ Of(TRUE) \in Elements(published) \cup shed \cup died
          \/ phase # "run"

(* What stop() says it does: each stage is drained before the next, so     *)
(* that the last utterance, which the VAD flushes as it stops, is not      *)
(* dropped -- when no child crashed or had to be killed.                   *)
StopDrains ==
  phase = "done" /\ died = {} => segment_queue = <<>>
=============================================================================
