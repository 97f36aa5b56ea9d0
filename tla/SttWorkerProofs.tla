---------------------------- MODULE SttWorkerProofs ----------------------------
(***************************************************************************)
(* Two properties of module SttWorker, for any stall timeout and any       *)
(* number of utterances, lines and faults: a decoder that is kept over all *)
(* segments answers each with its own words (OwnAnswerOnly), and a child   *)
(* that decodes and uses CPU is left alone (BusyChildKept).                *)
(***************************************************************************)
EXTENDS SttWorker, TLAPS

-----------------------------------------------------------------------------
(* The invariant of the answers. *)

(* pending is what the supervisor sees of the queue. *)
QueueSeen ==
  waiting \in Seq(Segments) /\ (pending <=> waiting # <<>>)

(* The worker holds a segment between its dequeue and its end, or until    *)
(* the child that died with it is replaced.                                *)
InHand ==
  /\ work \in Segments \cup {NoSegment}
  /\ child \in {"loading", "idle"} => work = NoSegment

(* The stream holds nothing between sessions, and in one nothing but the   *)
(* audio of the final at hand.                                             *)
StreamOfWork ==
  /\ step \in {"run", "open", "raised"}
  /\ stream \subseteq IF step = "run" THEN {} ELSE {work.of}
  /\ step # "run" => work \in Segments /\ work.is_final

(* What a transcript of work may hold. *)
OwnWords == {t \in Texts : t.of = work.of /\ ~t.loops}

(* The collector holds words of the final at hand.                         *)
CollectorOfWork ==
  /\ best_partial \in OwnWords \cup {NoText}
  /\ lines \in Seq(OwnWords)
  /\ step = "run" => best_partial = NoText /\ lines = <<>>

SttInv ==
  /\ QueueSeen
  /\ InHand /\ StreamOfWork /\ CollectorOfWork /\ OwnAnswerOnly

LEMMA InitEstablishesSttInv == Init => SttInv
<1> SUFFICES ASSUME Init PROVE SttInv
  OBVIOUS
<1>1. /\ waiting = <<>> /\ pending = FALSE /\ child = "loading" /\ work = NoSegment
      /\ step = "run" /\ stream = {} /\ lines = <<>>
      /\ best_partial = NoText /\ results = {}
  BY DEF Init, BeatInit
<1>2. InHand /\ StreamOfWork
  BY <1>1 DEF InHand, StreamOfWork
<1>3. CollectorOfWork
  BY <1>1 DEF CollectorOfWork
<1> QED BY <1>1, <1>2, <1>3 DEF SttInv, QueueSeen, OwnAnswerOnly

-----------------------------------------------------------------------------
(* Each step preserves it. *)

(* The worker is done with its segment and its stream is empty. *)
LEMMA EmptyHandedKeeps ==
  ASSUME EmptyHanded, stream' = {}, QueueSeen', OwnAnswerOnly'
  PROVE  SttInv'
<1>1. /\ work' = NoSegment /\ step' = "run"
      /\ lines' = <<>> /\ best_partial' = NoText
  BY DEF EmptyHanded
<1>2. InHand' /\ StreamOfWork'
  BY <1>1 DEF InHand, StreamOfWork
<1>3. CollectorOfWork'
  BY <1>1 DEF CollectorOfWork
<1> QED BY <1>2, <1>3 DEF SttInv

(* A step that leaves the worker alone, and the child where it is or dead. *)
LEMMA UntouchedKeeps ==
  ASSUME SttInv, UNCHANGED <<memory, results>>, QueueSeen',
         child' \in {child, "dead"} \/ work = NoSegment
  PROVE  SttInv'
<1>1. /\ work' = work /\ step' = step /\ stream' = stream /\ lines' = lines
      /\ best_partial' = best_partial /\ results' = results
  BY DEF memory
<1>2. InHand' /\ StreamOfWork'
  BY <1>1 DEF SttInv, InHand, StreamOfWork
<1>3. CollectorOfWork' /\ OwnAnswerOnly'
  BY <1>1 DEF SttInv, CollectorOfWork, OwnWords, OwnAnswerOnly
<1> QED BY <1>2, <1>3 DEF SttInv

(* A transcript of the segment at hand, in words of its own. *)
LEMMA PublishKeeps ==
  ASSUME SttInv, NEW said, NEW measured,
         measured = IF work.is_final THEN work.of ELSE 0,
         \A i \in DOMAIN said : said[i].of = work.of /\ ~said[i].loops,
         Publish(said, measured)
  PROVE  OwnAnswerOnly'
<1> DEFINE new == [segment |-> work, text |-> said, latency |-> measured]
<1>1. results' = results \cup {new}
  BY DEF Publish
<1>2. new.segment = work /\ new.text = said /\ new.latency = measured
  OBVIOUS
<1> HIDE DEF new
<1> QED BY <1>1, <1>2 DEF SttInv, OwnAnswerOnly

LEMMA QueueKeeps ==
  ASSUME SttInv, NEW s \in Segments, Queue(s)
  PROVE  SttInv'
<1>1. /\ waiting' = Append(waiting, s) /\ pending' = TRUE
      /\ child' = child /\ UNCHANGED <<memory, results>>
  BY DEF Queue
<1>2. QueueSeen'
  BY <1>1 DEF SttInv, QueueSeen
<1> QED BY <1>1, <1>2, UntouchedKeeps

LEMMA TakeKeeps ==
  ASSUME SttInv, Take
  PROVE  SttInv'
<1>1. /\ child' = "decoding" /\ child = "idle" /\ pending
      /\ work' = Head(waiting) /\ waiting' = Tail(waiting)
      /\ pending' = (waiting' # <<>>)
      /\ step' = step /\ stream' = stream /\ lines' = lines
      /\ best_partial' = best_partial /\ results' = results
  BY DEF Take, BeatDequeue
<1>2. waiting \in Seq(Segments) /\ waiting # <<>>
  BY <1>1 DEF SttInv, QueueSeen
<1>3. work' \in Segments /\ QueueSeen'
  <2>1. Head(waiting) \in Segments /\ Tail(waiting) \in Seq(Segments)
    BY <1>2
  <2>2. pending' <=> waiting' # <<>>
    BY <1>1
  <2> QED BY <1>1, <2>1, <2>2 DEF QueueSeen
<1>4. step = "run" /\ stream = {}
  BY <1>1 DEF SttInv, InHand, StreamOfWork, Segments, NoSegment, Utterances
<1>5. InHand' /\ StreamOfWork'
  BY <1>1, <1>3, <1>4 DEF InHand, StreamOfWork
<1>6. CollectorOfWork' /\ OwnAnswerOnly'
  BY <1>1, <1>4 DEF SttInv, CollectorOfWork, OwnAnswerOnly
<1> QED BY <1>3, <1>5, <1>6 DEF SttInv

LEMMA UnansweredKeeps ==
  ASSUME SttInv, Unanswered, stream' = {}, QueueSeen'
  PROVE  SttInv'
<1>1. EmptyHanded /\ OwnAnswerOnly'
  BY DEF Unanswered, SttInv, OwnAnswerOnly
<1> QED BY <1>1, EmptyHandedKeeps

LEMMA PartialKeeps ==
  ASSUME SttInv, SkipPartial \/ TranscribePartial
  PROVE  SttInv'
<1>1. /\ work # NoSegment /\ ~work.is_final
      /\ waiting' = waiting /\ pending' = pending /\ stream' = stream
  BY DEF SkipPartial, TranscribePartial, ShouldSkip, BeatDecodeEnds
<1>2. stream' = {} /\ QueueSeen'
  BY <1>1 DEF SttInv, StreamOfWork, QueueSeen
<1> DEFINE words == [of |-> work.of, line |-> 1, loops |-> FALSE]
<1>3. CASE Publish(<<words>>, 0)
  <2>1. \A i \in DOMAIN <<words>> :
          <<words>>[i].of = work.of /\ ~<<words>>[i].loops
    OBVIOUS
  <2>2. OwnAnswerOnly'
    BY <1>1, <1>3, <2>1, PublishKeeps
  <2> QED BY <1>2, <1>3, <2>2, EmptyHandedKeeps DEF Publish
<1>4. CASE Unanswered
  BY <1>2, <1>4, UnansweredKeeps
<1> QED BY <1>3, <1>4 DEF SkipPartial, TranscribePartial

LEMMA TranscribeKeeps ==
  ASSUME SttInv, Transcribe
  PROVE  SttInv'
<1>1. /\ work \in Segments /\ work.is_final /\ step = "run"
      /\ stream' = stream \cup {work.of} /\ step' \in {"open", "raised"}
      /\ UNCHANGED <<child, work, waiting, pending, lines, best_partial, results>>
  BY DEF Transcribe, Decoding, beat_vars, SttInv, InHand
<1>2. InHand' /\ StreamOfWork' /\ QueueSeen'
  BY <1>1 DEF SttInv, InHand, StreamOfWork, QueueSeen
<1>3. CollectorOfWork' /\ OwnAnswerOnly'
  BY <1>1 DEF SttInv, CollectorOfWork, OwnWords, OwnAnswerOnly
<1> QED BY <1>2, <1>3 DEF SttInv

(* What the decoder says it says of its stream, so of work: neither guard  *)
(* lets a text that loops, or a text of another utterance, through.        *)
LEMMA ListenKeeps ==
  ASSUME SttInv, NEW t \in Texts, LineChanged(t) \/ LineCompleted(t)
  PROVE  SttInv'
<1>1. /\ step = "open" /\ t.of \in stream
      /\ UNCHANGED <<child, work, waiting, pending, step, stream, results>>
  BY DEF LineChanged, LineCompleted, Decoding, Says, beat_vars
<1>2. t.of = work.of
  BY <1>1 DEF SttInv, StreamOfWork
<1>3. Accepted(t) \in OwnWords \cup {NoText}
  BY <1>2 DEF Accepted, OwnWords, SttInv, CollectorOfWork
<1>4. best_partial' \in OwnWords \cup {NoText}
  BY <1>2 DEF LineChanged, LineCompleted, KeptPartial, OwnWords, SttInv,
     CollectorOfWork
<1>5. lines' \in Seq(OwnWords)
  BY <1>3 DEF LineChanged, LineCompleted, SttInv, CollectorOfWork
<1>6. InHand' /\ StreamOfWork' /\ QueueSeen'
  BY <1>1 DEF SttInv, InHand, StreamOfWork, QueueSeen
<1>7. CollectorOfWork' /\ OwnAnswerOnly'
  BY <1>1, <1>4, <1>5 DEF SttInv, CollectorOfWork, OwnWords, OwnAnswerOnly
<1> QED BY <1>6, <1>7 DEF SttInv

LEMMA CloseSessionKeeps ==
  ASSUME SttInv, CloseSession
  PROVE  SttInv'
<1>1. /\ step = "open" /\ stream' = {} /\ latency' = work.of
      /\ waiting' = waiting /\ pending' = pending
  BY DEF CloseSession, Decoding, Stopped, BeatDecodeEnds
<1>2. QueueSeen' /\ work.is_final
  BY <1>1 DEF SttInv, QueueSeen, StreamOfWork
<1>3. CASE Unanswered
  BY <1>1, <1>2, <1>3, UnansweredKeeps
<1>4. CASE Publish(lines, latency')
  <2>1. \A i \in DOMAIN lines : lines[i] \in OwnWords
    BY DEF SttInv, CollectorOfWork
  <2>2. OwnAnswerOnly'
    BY <1>1, <1>2, <1>4, <2>1, PublishKeeps DEF OwnWords
  <2> QED BY <1>1, <1>2, <1>4, <2>2, EmptyHandedKeeps DEF Publish
<1> QED BY <1>3, <1>4 DEF CloseSession

LEMMA SessionRaisedKeeps ==
  ASSUME SttInv, SessionRaised
  PROVE  SttInv'
<1>1. /\ stream' = {} /\ waiting' = waiting /\ pending' = pending /\ Unanswered
  BY DEF SessionRaised, Stopped, BeatDecodeEnds
<1>2. QueueSeen'
  BY <1>1 DEF SttInv, QueueSeen
<1> QED BY <1>1, <1>2, UnansweredKeeps

LEMMA RestartKeeps ==
  ASSUME SttInv, Restart
  PROVE  SttInv'
<1>1. /\ EmptyHanded /\ stream' = {}
      /\ waiting' = waiting /\ pending' = pending /\ results' = results
  BY DEF Restart, BeatRestart
<1>2. QueueSeen' /\ OwnAnswerOnly'
  BY <1>1 DEF SttInv, QueueSeen, OwnAnswerOnly
<1> QED BY <1>1, <1>2, EmptyHandedKeeps

(* The steps in which the worker does nothing. *)
LEMMA OthersKeep ==
  ASSUME SttInv,
         \/ Ready
         \/ (Hang \/ BeatDie) /\ UNCHANGED <<waiting, memory, results>>
         \/ (UseCpu \/ Tick) /\ Idling
         \/ UNCHANGED vars
  PROVE  SttInv'
<1>1. UNCHANGED <<waiting, pending, memory, results>>
  BY DEF Ready, BeatReady, Hang, BeatDie, UseCpu, Tick, Idling, vars, beat_vars
<1>2. child' \in {child, "dead"} \/ work = NoSegment
  BY DEF Ready, BeatReady, Hang, BeatDie, UseCpu, Tick, vars, beat_vars,
     SttInv, InHand
<1>3. QueueSeen'
  BY <1>1 DEF SttInv, QueueSeen
<1> QED BY <1>1, <1>2, <1>3, UntouchedKeeps

LEMMA NextKeepsSttInv == SttInv /\ [Next]_vars => SttInv'
<1> SUFFICES ASSUME SttInv, [Next]_vars PROVE SttInv'
  OBVIOUS
<1>1. ASSUME NEW s \in Segments, Queue(s) PROVE SttInv'
  BY <1>1, QueueKeeps
<1>2. CASE Ready
  BY <1>2, OthersKeep
<1>3. CASE Take
  BY <1>3, TakeKeeps
<1>4. CASE SkipPartial \/ TranscribePartial
  BY <1>4, PartialKeeps
<1>5. CASE Transcribe
  BY <1>5, TranscribeKeeps
<1>6. ASSUME NEW t \in Texts, LineChanged(t) \/ LineCompleted(t) PROVE SttInv'
  BY <1>6, ListenKeeps
<1>7. CASE CloseSession
  BY <1>7, CloseSessionKeeps
<1>8. CASE SessionRaised
  BY <1>8, SessionRaisedKeeps
<1>9. CASE Fault(Hang) \/ Fault(BeatDie)
  <2>1. (Hang \/ BeatDie) /\ UNCHANGED <<waiting, memory, results>>
    BY <1>9 DEF Fault
  <2> QED BY <2>1, OthersKeep
<1>10. CASE (UseCpu \/ Tick) /\ Idling
  BY <1>10, OthersKeep
<1>11. CASE Restart
  BY <1>11, RestartKeeps
<1>12. CASE UNCHANGED vars
  BY <1>12, OthersKeep
<1> QED BY <1>1, <1>2, <1>3, <1>4, <1>5, <1>6, <1>7, <1>8, <1>9, <1>10, <1>11,
           <1>12 DEF Next, WorkerStep

-----------------------------------------------------------------------------
(* Whatever raises, hangs or dies, what leaves the worker under an         *)
(* utterance's id is said of its audio, does not loop, and a final carries *)
(* the time of its own decode.                                             *)
THEOREM AnswersAreOwn == Spec => []OwnAnswerOnly
<1>1. SttInv => OwnAnswerOnly
  BY DEF SttInv
<1> QED BY <1>1, InitEstablishesSttInv, NextKeepsSttInv, PTL DEF Spec

-----------------------------------------------------------------------------
(* The invariant of the heartbeat: what the parent reads of a child that   *)
(* decodes is 0 if the bridge found CPU used when it looked last.          *)
BeatInv ==
  /\ child \in {"loading", "idle", "decoding", "dead"}
  /\ starved \in Nat
  /\ child = "loading" => ~ready_event
  /\ child \in {"idle", "decoding"} => ready_event
  /\ child = "decoding" /\ ~hung /\ looked /\ starved = 0 => heartbeat = 0

LEMMA TickKeepsBeatInv == BeatInv /\ Tick => BeatInv'
<1> SUFFICES ASSUME BeatInv, Tick PROVE BeatInv'
  OBVIOUS
<1>1. /\ child' = child /\ hung' = hung /\ ready_event' = ready_event
      /\ starved' = IF Working /\ ~cpu THEN starved + 1 ELSE 0
  BY DEF Tick
<1>2. starved' \in Nat
  BY <1>1 DEF BeatInv
<1>3. ASSUME child = "decoding", ~hung, starved' = 0
      PROVE  heartbeat' = 0
  <2>1. cpu
    BY <1>1, <1>3 DEF BeatInv, Working
  <2>2. ready_event
    BY <1>3 DEF BeatInv
  <2> QED BY <1>3, <2>1, <2>2 DEF Tick, Published
<1> QED BY <1>1, <1>2, <1>3 DEF BeatInv

LEMMA NextKeepsBeatInv == BeatInv /\ [Next]_vars => BeatInv'
<1> SUFFICES ASSUME BeatInv, [Next]_vars PROVE BeatInv'
  OBVIOUS
<1>1. ASSUME NEW s \in Segments, Queue(s) PROVE BeatInv'
  BY <1>1 DEF Queue, BeatInv
<1>2. CASE BeatReady
  BY <1>2 DEF BeatReady, BeatInv
<1>3. CASE BeatDequeue
  BY <1>3 DEF BeatDequeue, BeatInv
<1>4. CASE BeatDecodeEnds
  BY <1>4 DEF BeatDecodeEnds, BeatInv
<1>5. CASE UseCpu \/ Hang
  BY <1>5 DEF UseCpu, Hang, BeatInv
<1>6. CASE BeatDie
  BY <1>6 DEF BeatDie, BeatInv
<1>7. CASE Tick
  BY <1>7, TickKeepsBeatInv
<1>8. CASE BeatRestart
  BY <1>8 DEF BeatRestart, BeatInv
<1>9. CASE UNCHANGED beat_vars
  BY <1>9 DEF beat_vars, BeatInv
<1>10. CASE WorkerStep
  BY <1>2, <1>3, <1>4, <1>9, <1>10 DEF WorkerStep, Ready, Take, SkipPartial,
     TranscribePartial, Transcribe, CloseSession, SessionRaised
<1>11. ASSUME NEW t \in Texts, LineChanged(t) \/ LineCompleted(t) PROVE BeatInv'
  BY <1>9, <1>11 DEF LineChanged, LineCompleted
<1>12. CASE Fault(Hang) \/ Fault(BeatDie)
  BY <1>5, <1>6, <1>12 DEF Fault
<1>13. CASE Restart
  BY <1>8, <1>13 DEF Restart
<1>14. CASE UNCHANGED vars
  BY <1>9, <1>14 DEF vars
<1> QED BY <1>1, <1>5, <1>7, <1>10, <1>11, <1>12, <1>13, <1>14 DEF Next

(* A child that decodes is restarted only if it died, hangs, was starved   *)
(* of CPU, or the bridge did not look since its dequeue.                   *)
THEOREM BusyIsKept == Spec => BusyChildKept
<1>1. Init => BeatInv
  BY DEF Init, BeatInit, BeatInv
<1>2. BeatInv /\ [Next]_vars
        => [Restart => \/ child = "dead" \/ hung
                       \/ child = "idle" \/ ~looked
                       \/ starved > 0]_vars
  <2> SUFFICES ASSUME BeatInv, Restart, child # "dead", ~hung, child # "idle",
                      looked, ~(starved > 0)
               PROVE  FALSE
    OBVIOUS
  <2>1. pending /\ HandleActivity > StallTimeout
    BY DEF Restart, BeatRestart, Failed, Stalled
  <2>2. HandleActivity = 0
    BY DEF BeatInv, HandleActivity
  <2> QED BY <2>1, <2>2, HeartbeatAssumption
<1> QED BY <1>1, <1>2, NextKeepsBeatInv, PTL DEF Spec, BusyChildKept

=============================================================================
