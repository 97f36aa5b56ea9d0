------------------------------ MODULE Heartbeat ------------------------------
(***************************************************************************)
(* How the supervisor judges an STT child process                          *)
(* (src/edge_voice/stt/stt_process.py, _failure_reason in                  *)
(* src/edge_voice/pipeline/supervisor.py).  The child's bridge thread      *)
(* publishes a time into shared memory: now, when the process used CPU     *)
(* since the bridge looked last, and otherwise the time at which the       *)
(* worker dequeued its last segment.  SttWorker composes this module with  *)
(* what the worker does.                                                   *)
(*                                                                         *)
(* Times are kept as ages, in intervals of the bridge.  The supervisor     *)
(* only asks whether an age exceeds StallTimeout, so they stop growing     *)
(* just above it.  How long a load or a decode takes is left open.         *)
(*                                                                         *)
(* An idle child polls its queue, and the multiprocessing.Queue's reader   *)
(* lock is held during a poll.  A child killed there leaves it taken for   *)
(* those that follow on the same queue.                                    *)
(***************************************************************************)
EXTENDS Integers

CONSTANTS
  StallTimeout,  (* stall_timeout_s, in bridge intervals                   *)
  MaxStarved     (* BOUND: intervals in a row that a child with work may   *)
                 (* go without CPU                                         *)

ASSUME HeartbeatAssumption ==
  StallTimeout \in Nat \ {0} /\ MaxStarved \in Nat

TooOld == StallTimeout + 1
NoBeat == 0 - 1

VARIABLES
  child,          (* loading, idle, decoding, dead                         *)
  hung,           (* blocked for good in a call that uses no CPU           *)
  ready_event,
  heartbeat,      (* age of the shared value; NoBeat: still 0.0            *)
  last_activity,  (* age of STTWorker._last_activity                       *)
  cpu,            (* the process used CPU since the bridge looked last     *)
  pending,        (* segments wait in the child's queue                    *)
  lock_lost,      (* the queue's reader lock is held by a dead child       *)
  starved,        (* history: intervals with work and without CPU, so far  *)
  looked          (* history: the bridge ran since the last dequeue        *)

beat_vars == <<child, hung, ready_event, heartbeat, last_activity, cpu,
               pending, lock_lost, starved, looked>>

(* A handle was started; its worker is not constructed yet. *)
BeatInit ==
  /\ child = "loading" /\ hung = FALSE
  /\ ready_event = FALSE
  /\ heartbeat = NoBeat /\ last_activity = 0
  /\ cpu = FALSE /\ pending = FALSE /\ lock_lost = FALSE
  /\ starved = 0 /\ looked = TRUE

-----------------------------------------------------------------------------
(* The child. *)

(* The model is loaded: the heartbeat is seeded before the announcement. *)
BeatReady ==
  /\ child = "loading" /\ ~hung
  /\ child' = "idle"
  /\ last_activity' = 0 /\ heartbeat' = 0
  /\ ready_event' = TRUE
  /\ UNCHANGED <<hung, cpu, pending, lock_lost, starved, looked>>

(* run() dequeues; the caller says what is left waiting.  Without the lock *)
(* its get only ever times out.                                            *)
BeatDequeue ==
  /\ child = "idle" /\ pending /\ ~lock_lost /\ ~hung
  /\ child' = "decoding"
  /\ last_activity' = 0
  /\ looked' = FALSE
  /\ UNCHANGED <<hung, ready_event, heartbeat, cpu, lock_lost, starved>>

BeatDecodeEnds ==
  /\ child = "decoding" /\ ~hung
  /\ child' = "idle"
  /\ UNCHANGED <<hung, ready_event, heartbeat, last_activity, cpu, pending,
                 lock_lost, starved, looked>>

(* What an idle child's polling uses is below the counter's resolution.    *)
UseCpu ==
  /\ ~hung /\ ~cpu /\ child \in {"loading", "decoding"}
  /\ cpu' = TRUE
  /\ UNCHANGED <<child, hung, ready_event, heartbeat, last_activity, pending,
                 lock_lost, starved, looked>>

(* A lock, a syscall, a download that never ends. *)
Hang ==
  /\ ~hung /\ child # "dead" /\ hung' = TRUE
  /\ UNCHANGED <<child, ready_event, heartbeat, last_activity, cpu, pending,
                 lock_lost, starved, looked>>

(* A child that polls holds the lock, one between two polls does not. *)
Killed == lock_lost' \in {lock_lost, lock_lost \/ child = "idle"}

(* A model that does not load, a segmentation fault, the OOM killer. *)
BeatDie ==
  /\ child # "dead" /\ child' = "dead" /\ hung' = FALSE
  /\ Killed
  /\ UNCHANGED <<ready_event, heartbeat, last_activity, cpu, pending, starved,
                 looked>>

Older(age) == IF age < TooOld THEN age + 1 ELSE TooOld

PublishedMutantStamp == Older(last_activity)
PublishedMutantAlive == 0

(* What _bridge writes. *)
Published == IF cpu THEN 0 ELSE Older(last_activity)

Working ==
  ~hung /\ (child = "decoding" \/ (child = "idle" /\ pending /\ ~lock_lost))

(* An interval passes; the bridge runs while the child is ready. *)
Tick ==
  /\ Working /\ ~cpu => starved < MaxStarved
  /\ starved' = IF Working /\ ~cpu THEN starved + 1 ELSE 0
  /\ heartbeat' = CASE ~ready_event -> heartbeat
                    [] ready_event /\ child = "dead" -> Older(heartbeat)
                    [] OTHER -> Published
  /\ last_activity' = Older(last_activity)
  /\ cpu' = FALSE
  /\ looked' = TRUE
  /\ UNCHANGED <<child, hung, ready_event, pending, lock_lost>>

-----------------------------------------------------------------------------
(* The parent. *)

(* STTProcessHandle.last_activity: "active right now" until ready. *)
HandleActivity == IF ready_event /\ heartbeat # NoBeat THEN heartbeat ELSE 0

Stalled == pending /\ HandleActivity > StallTimeout

Failed == child = "dead" \/ Stalled

(* The supervisor's scan finds a failure: a child that still runs stops    *)
(* when asked to, one that hangs is killed, and a new one started on the   *)
(* same queue.                                                             *)
BeatRestart ==
  /\ Failed
  /\ IF hung THEN Killed ELSE UNCHANGED lock_lost
  /\ child' = "loading" /\ hung' = FALSE
  /\ ready_event' = FALSE
  /\ heartbeat' = NoBeat /\ last_activity' = 0
  /\ cpu' = FALSE /\ starved' = 0 /\ looked' = TRUE
  /\ UNCHANGED pending
=============================================================================
