------------------------------ MODULE VadWorker ------------------------------
(***************************************************************************)
(* The VAD worker (src/edge_voice/vad/vad_worker.py): one thread that cuts *)
(* each channel's packet stream into speech segments and puts them on that *)
(* channel's bounded segment queue.                                        *)
(*                                                                         *)
(* A packet's audio is named by its position in the channel's stream,      *)
(* counted in chunks (one packet lasts 1), so a sequence of positions is a *)
(* stretch of audio and Len is its duration.  Its timestamp is another     *)
(* matter: the router anchors its clock on arrivals (channel/router.py),   *)
(* which come up to Jitter late, so stamps may step back or overlap.       *)
(* Where packets are missing (Gaps) both go on behind the gap, at the next *)
(* anchor.                                                                 *)
(*                                                                         *)
(* Silero's VADIterator is external: it keeps its own triggered flag and   *)
(* answers `start' only when clear, `end' only when set.  The RMS gate and *)
(* the model agree on what they do to a packet that starts nothing, so     *)
(* they are one action (PushPreroll).                                      *)
(*                                                                         *)
(* The thread's loop is the program counter pc: `get' a packet or time     *)
(* out, then `idle' (the _flush_idle pass and the loop's stop test), then  *)
(* `get' again or `exit' (the shutdown flush) and `done'.                  *)
(***************************************************************************)
EXTENDS Integers, Sequences, FiniteSets

CONSTANTS
  Channels,        (* configured channel ids                               *)
  PrerollChunks,   (* preroll_chunks                                       *)
  LimitsEnabled,   (* segment_limits_enabled                               *)
  MaxSegment,      (* max_segment_s, in chunks: the hard cap               *)
  SoftCutEnabled,  (* soft_cut_enabled                                     *)
  SoftCut,         (* soft_cut_s, in chunks                                *)
  Lookahead,       (* soft_cut_lookahead_s, in chunks                      *)
  MinDip,          (* soft_cut_min_dip, on the scale of Scores             *)
  Scores,          (* speech probabilities, scaled to naturals             *)
  PartialInterval, (* partial_interval_s, in chunks; 0 disables            *)
  PartialMin,      (* partial_min_segment_s, in chunks                     *)
  IdleFlush,       (* idle_flush_s > 0                                     *)
  SegmentQueueMax, (* capacity of one segment queue                        *)
  Gaps,            (* chunks that may be missing before a packet           *)
  Jitter,          (* how far a timestamp may be behind its audio          *)
  MaxTimestamp     (* BOUND: the last position the stream reaches          *)

ASSUME VadAssumption ==
  /\ PrerollChunks \in Nat /\ MaxSegment \in Nat \ {0}
  /\ SoftCut \in Nat /\ Lookahead \in Nat /\ MinDip \in Nat
  /\ Scores \subseteq Nat /\ Gaps \subseteq Nat
  /\ PartialInterval \in Nat /\ PartialMin \in Nat \ {0}
  /\ LimitsEnabled \in BOOLEAN /\ SoftCutEnabled \in BOOLEAN
  /\ IdleFlush \in BOOLEAN
  /\ SegmentQueueMax \in Nat \ {0} /\ MaxTimestamp \in Nat
  /\ Jitter \in Nat

NoTs == -1   (* segment_start_ts is None *)
NoId == 0    (* segment_id is None       *)

VARIABLES
  pc,               (* where the thread is in run()                        *)
  stop_event,       (* _stop_event.is_set()                                *)
  clock,            (* [ch] position of the last packet received           *)
  quiet,            (* channels with no packet for idle_flush_s or longer  *)
  vad_triggered,    (* [ch] VADIterator's own flag                         *)
  triggered,        (* [ch] _ChannelState.triggered                        *)
  preroll,          (* [ch] _ChannelState.preroll: its audio               *)
  preroll_ts,       (* [ch] _ChannelState.preroll: its timestamps          *)
  segment_chunks,   (* [ch] _ChannelState.segment_chunks                   *)
  segment_start_ts, (* [ch] _ChannelState.segment_start_ts                 *)
  segment_id,       (* [ch] _ChannelState.segment_id: its counter value    *)
  seg_counter,      (* [ch] _ChannelState.seg_counter                      *)
  scores,           (* [ch] _ChannelState.scores: <<position, score>>      *)
  last_partial,     (* [ch] _ChannelState.last_partial_s                   *)
  queued,           (* [ch] everything ever put on the segment queue       *)
  taken,            (* [ch] how many of queued the STT side has taken      *)
  dropped,          (* [ch] finals fanout_put dropped on a full queue      *)
  heard             (* [ch] history: audio the detector counted as speech  *)

seg_vars  == <<segment_chunks, segment_start_ts, segment_id, seg_counter,
               scores, last_partial>>
det_vars  == <<vad_triggered, triggered, preroll, preroll_ts>>
out_vars  == <<queued, dropped>>
vars == <<pc, stop_event, clock, quiet, det_vars, seg_vars, out_vars, taken,
          heard>>

(* _new_segment_id: a counter, so an id is never minted twice. *)
NewSegmentIdMutant(c) ==
  /\ segment_id' = [segment_id EXCEPT ![c] =
                      IF seg_counter[c] = 0 THEN 1 ELSE seg_counter[c]]
  /\ seg_counter' = [seg_counter EXCEPT ![c] = IF @ = 0 THEN 1 ELSE @]

NewSegmentId(c) ==
  /\ seg_counter' = [seg_counter EXCEPT ![c] = @ + 1]
  /\ segment_id' = [segment_id EXCEPT ![c] = seg_counter[c] + 1]

Audio(s) == {s[i] : i \in 1..Len(s)}

Segment(id, start, end, audio, partial) ==
  [id |-> id, start |-> start, end |-> end, audio |-> audio,
   is_partial |-> partial]

(***************************************************************************)
(* Initially nothing was received, so last_packet_at = 0.0 makes every     *)
(* channel count as quiet.                                                 *)
(***************************************************************************)
Init ==
  /\ pc = "get" /\ stop_event = FALSE
  /\ clock = [c \in Channels |-> 0]
  /\ quiet = Channels
  /\ vad_triggered = [c \in Channels |-> FALSE]
  /\ triggered = [c \in Channels |-> FALSE]
  /\ preroll = [c \in Channels |-> <<>>]
  /\ preroll_ts = [c \in Channels |-> <<>>]
  /\ segment_chunks = [c \in Channels |-> <<>>]
  /\ segment_start_ts = [c \in Channels |-> NoTs]
  /\ segment_id = [c \in Channels |-> NoId]
  /\ seg_counter = [c \in Channels |-> 0]
  /\ scores = [c \in Channels |-> {}]
  /\ last_partial = [c \in Channels |-> 0]
  /\ queued = [c \in Channels |-> <<>>]
  /\ taken = [c \in Channels |-> 0]
  /\ dropped = [c \in Channels |-> <<>>]
  /\ heard = [c \in Channels |-> {}]

-----------------------------------------------------------------------------
(* The segment queue: put_nowait for partials, fanout_put for finals.  The *)
(* wait inside fanout_put is the STT side taking first.                    *)

HasRoomMutant(c, q) == Len(q) - taken[c] <= SegmentQueueMax

HasRoom(c, q) == Len(q) - taken[c] < SegmentQueueMax

PutNowait(c, q, seg) == IF HasRoom(c, q) THEN Append(q, seg) ELSE q

FanoutPut(c, seg) ==
  /\ queued' = [queued EXCEPT ![c] = PutNowait(c, @, seg)]
  /\ dropped' = [dropped EXCEPT ![c] =
                   IF HasRoom(c, queued[c]) THEN @ ELSE Append(@, seg)]

-----------------------------------------------------------------------------
(* One packet on channel c: its audio is t, its timestamp ts. *)

Stamps(t) == t..t + Jitter

Receive(c, t) ==
  /\ pc = "get"
  /\ \E gap \in Gaps : t = clock[c] + 1 + gap
  /\ t <= MaxTimestamp
  /\ pc' = "idle"
  /\ clock' = [clock EXCEPT ![c] = t]
  /\ quiet' = quiet \ {c}
  /\ UNCHANGED <<stop_event, taken>>

(* A segment in progress keeps the packet, whatever else it does. *)
WithPacket(c, t) ==
  IF triggered[c] THEN Append(segment_chunks[c], t) ELSE segment_chunks[c]

(* _push_preroll: the list keeps the last preroll_chunks. *)
Push(q, e) ==
  IF Len(q) + 1 > PrerollChunks THEN Tail(Append(q, e)) ELSE Append(q, e)

(* Gated out as silent, or the model saw it and did not trigger. *)
PushPreroll(c, t, ts) ==
  /\ Receive(c, t)
  /\ ~vad_triggered[c] /\ ~triggered[c]
  /\ preroll' = [preroll EXCEPT ![c] = Push(@, t)]
  /\ preroll_ts' = [preroll_ts EXCEPT ![c] = Push(@, ts)]
  /\ UNCHANGED <<vad_triggered, triggered, seg_vars, out_vars, heard>>

StartSegment(c, t, ts) ==
  /\ Receive(c, t)
  /\ ~vad_triggered[c]
  /\ vad_triggered' = [vad_triggered EXCEPT ![c] = TRUE]
  /\ triggered' = [triggered EXCEPT ![c] = TRUE]
  /\ segment_chunks' = [segment_chunks EXCEPT ![c] = Append(preroll[c], t)]
  /\ segment_start_ts' =
       [segment_start_ts EXCEPT ![c] =
          IF preroll[c] # <<>> THEN Head(preroll_ts[c]) ELSE ts]
  /\ NewSegmentId(c)
  /\ preroll' = [preroll EXCEPT ![c] = <<>>]
  /\ preroll_ts' = [preroll_ts EXCEPT ![c] = <<>>]
  /\ scores' = [scores EXCEPT ![c] = {}]
  /\ last_partial' = [last_partial EXCEPT ![c] = 0]
  /\ heard' = [heard EXCEPT ![c] = @ \cup Audio(preroll[c]) \cup {t}]
  /\ UNCHANGED out_vars

(* _finalize_segment does nothing without a start and audio. *)
Finalizable(c, chunks) == segment_start_ts[c] # NoTs /\ chunks # <<>>

EndSegment(c, t, ts) ==
  LET chunks == WithPacket(c, t) IN
  /\ Receive(c, t)
  /\ vad_triggered[c]
  /\ vad_triggered' = [vad_triggered EXCEPT ![c] = FALSE]
  /\ triggered' = [triggered EXCEPT ![c] = FALSE]
  /\ scores' = [scores EXCEPT ![c] = {}]
  /\ heard' = [heard EXCEPT ![c] = @ \cup {t}]
  /\ UNCHANGED <<preroll, preroll_ts, seg_counter>>
  /\ IF Finalizable(c, chunks)
     THEN /\ FanoutPut(c, Segment(segment_id[c], segment_start_ts[c], ts,
                                  chunks, FALSE))
          /\ segment_chunks' = [segment_chunks EXCEPT ![c] = <<>>]
          /\ segment_start_ts' = [segment_start_ts EXCEPT ![c] = NoTs]
          /\ segment_id' = [segment_id EXCEPT ![c] = NoId]
          /\ last_partial' = [last_partial EXCEPT ![c] = 0]
     ELSE /\ segment_chunks' = [segment_chunks EXCEPT ![c] = chunks]
          /\ UNCHANGED <<segment_start_ts, segment_id, last_partial, out_vars>>

-----------------------------------------------------------------------------
(* Mid-speech without a boundary event: length limits, then partials.  n   *)
(* is the segment's length with this packet, p the packet's score.         *)

NearSoftCut(n) == /\ LimitsEnabled /\ SoftCutEnabled
                  /\ n < MaxSegment /\ n >= SoftCut - Lookahead

WithScore(c, n, p) ==
  IF NearSoftCut(n) THEN scores[c] \cup {<<n, p>>} ELSE scores[c]

(* The last few recorded scores, and the first of the lowest of them. *)
Recent(sc) ==
  {e \in sc : Cardinality({f \in sc : f[1] > e[1]})
                < IF Lookahead = 0 THEN 1 ELSE Lookahead}

Quietest(e, sc) ==
  \A f \in Recent(sc) : e[2] < f[2] \/ (e[2] = f[2] /\ e[1] <= f[1])

(* _maybe_cut emits the first `cut' chunks: all of them at the hard cap, or *)
(* those up to a natural pause.                                            *)
CutsAt(cut, n, sc, p) ==
  \/ LimitsEnabled /\ n >= MaxSegment /\ cut = n
  \/ /\ NearSoftCut(n) /\ n >= SoftCut
     /\ \E e \in Recent(sc) : Quietest(e, sc) /\ cut = e[1] /\ e[2] < p - MinDip

PartialDueMutant(n, last) ==
  /\ PartialInterval > 0
  /\ n >= PartialMin

PartialDue(n, last) ==
  /\ PartialInterval > 0
  /\ n >= PartialMin
  /\ n - last >= PartialInterval

(* _maybe_emit_partial on the segment as the cut left it; q is its queue.  *)
MaybeEmitPartial(c, q, last) ==
  LET n == Len(segment_chunks'[c])
      due == PartialDue(n, last)
      prefix == Segment(segment_id'[c], segment_start_ts'[c],
                        segment_start_ts'[c] + n, segment_chunks'[c], TRUE)
  IN  /\ queued' = [queued EXCEPT ![c] = IF due THEN PutNowait(c, q, prefix)
                                         ELSE q]
      /\ last_partial' = [last_partial EXCEPT ![c] = IF due THEN n ELSE last]

GrowSegment(c, t, p) ==
  LET chunks == WithPacket(c, t)
      n == Len(chunks)
      sc == WithScore(c, n, p)
  IN  /\ Receive(c, t)
      /\ vad_triggered[c] /\ triggered[c]
      /\ ~\E cut \in 1..n : CutsAt(cut, n, sc, p)
      /\ segment_chunks' = [segment_chunks EXCEPT ![c] = chunks]
      /\ scores' = [scores EXCEPT ![c] = sc]
      /\ heard' = [heard EXCEPT ![c] = @ \cup {t}]
      /\ UNCHANGED <<det_vars, segment_start_ts, segment_id, seg_counter,
                     dropped>>
      /\ MaybeEmitPartial(c, queued[c], last_partial[c])

CutTailMutantRepeats(chunks, cut) == SubSeq(chunks, cut, Len(chunks))
CutTailMutantSkips(chunks, cut) == SubSeq(chunks, cut + 2, Len(chunks))

(* The chunks after the cut become the head of a new segment. *)
CutTail(chunks, cut) == SubSeq(chunks, cut + 1, Len(chunks))

CutScores(sc, cut) == {<<e[1] - cut, e[2]>> : e \in {f \in sc : f[1] > cut}}

CutSegment(c, t, p) ==
  LET chunks == WithPacket(c, t)
      n == Len(chunks)
      sc == WithScore(c, n, p)
  IN  /\ Receive(c, t)
      /\ vad_triggered[c] /\ triggered[c]
      /\ segment_start_ts[c] # NoTs
      /\ UNCHANGED det_vars
      /\ heard' = [heard EXCEPT ![c] = @ \cup {t}]
      /\ \E cut \in 1..n :
           LET cut_ts == segment_start_ts[c] + cut
               head == Segment(segment_id[c], segment_start_ts[c], cut_ts,
                               SubSeq(chunks, 1, cut), FALSE)
           IN  /\ CutsAt(cut, n, sc, p)
               /\ segment_chunks' =
                    [segment_chunks EXCEPT ![c] = CutTail(chunks, cut)]
               /\ segment_start_ts' = [segment_start_ts EXCEPT ![c] = cut_ts]
               /\ NewSegmentId(c)
               /\ scores' = [scores EXCEPT ![c] = CutScores(sc, cut)]
               /\ dropped' = [dropped EXCEPT ![c] =
                    IF HasRoom(c, queued[c]) THEN @ ELSE Append(@, head)]
               /\ MaybeEmitPartial(c, PutNowait(c, queued[c], head), 0)

-----------------------------------------------------------------------------
(* _flush_channel on every channel of a set, in one pass of the thread. *)

Flushable(c) == Finalizable(c, segment_chunks[c])

FlushedSegmentMutantShort(c) ==
  Segment(segment_id[c], segment_start_ts[c],
          segment_start_ts[c] + Len(segment_chunks[c]) - 1, segment_chunks[c],
          FALSE)

FlushedSegmentMutant(c) ==
  Segment(segment_id[c], segment_start_ts[c],
          segment_start_ts[c] + Len(segment_chunks[c]) + 1, segment_chunks[c],
          FALSE)

FlushedSegment(c) ==
  Segment(segment_id[c], segment_start_ts[c],
          segment_start_ts[c] + Len(segment_chunks[c]), segment_chunks[c],
          FALSE)

(* vad_iter.reset_states(): without it the detector believes it is still   *)
(* mid-speech.                                                             *)
ResetStatesMutant(F) == UNCHANGED vad_triggered

ResetStates(F) ==
  vad_triggered' = [c \in Channels |-> IF c \in F THEN FALSE
                                       ELSE vad_triggered[c]]

FlushChannels(S) ==
  LET F == {c \in S : Flushable(c)}
      Reset(f, v) == [c \in Channels |-> IF c \in F THEN v ELSE f[c]]
  IN  /\ queued' = [c \in Channels |->
                      IF c \in F THEN PutNowait(c, queued[c], FlushedSegment(c))
                      ELSE queued[c]]
      /\ dropped' = [c \in Channels |->
                       IF c \in F /\ ~HasRoom(c, queued[c])
                       THEN Append(dropped[c], FlushedSegment(c))
                       ELSE dropped[c]]
      /\ segment_chunks' = Reset(segment_chunks, <<>>)
      /\ segment_start_ts' = Reset(segment_start_ts, NoTs)
      /\ segment_id' = Reset(segment_id, NoId)
      /\ last_partial' = Reset(last_partial, 0)
      /\ triggered' = Reset(triggered, FALSE)
      /\ scores' = Reset(scores, {})
      /\ ResetStates(F)
      /\ UNCHANGED <<preroll, preroll_ts, seg_counter>>

(* get() timed out; _flush_idle comes next, as it does after a packet. *)
Empty ==
  /\ pc = "get" /\ pc' = "idle"
  /\ UNCHANGED <<stop_event, clock, quiet, det_vars, seg_vars, out_vars, taken,
                 heard>>

IdleChannelsMutant == {c \in quiet : IdleFlush /\ preroll[c] # <<>>}

IdleChannels == IF IdleFlush THEN quiet ELSE {}

(* _flush_idle, then the loop's test of the stop event. *)
FlushIdle ==
  /\ pc = "idle"
  /\ pc' = IF stop_event THEN "exit" ELSE "get"
  /\ FlushChannels(IdleChannels)
  /\ UNCHANGED <<stop_event, clock, quiet, taken, heard>>

(* flush("shutdown") once the loop has ended. *)
Shutdown ==
  /\ pc = "exit" /\ pc' = "done"
  /\ FlushChannels(Channels)
  /\ UNCHANGED <<stop_event, clock, quiet, taken, heard>>

-----------------------------------------------------------------------------
(* The environment: time, the orchestrator's stop(), the STT side. *)

GoQuiet(c) ==
  /\ c \notin quiet /\ pc # "done"
  /\ quiet' = quiet \cup {c}
  /\ UNCHANGED <<pc, stop_event, clock, det_vars, seg_vars, out_vars, taken,
                 heard>>

Stop ==
  /\ ~stop_event /\ stop_event' = TRUE
  /\ UNCHANGED <<pc, clock, quiet, det_vars, seg_vars, out_vars, taken, heard>>

TakeSegment(c) ==
  /\ taken[c] < Len(queued[c])
  /\ taken' = [taken EXCEPT ![c] = @ + 1]
  /\ UNCHANGED <<pc, stop_event, clock, quiet, det_vars, seg_vars, out_vars,
                 heard>>

HandlePacket(c) ==
  \E t \in 1..MaxTimestamp :
    \/ \E ts \in Stamps(t) :
         \/ PushPreroll(c, t, ts)
         \/ StartSegment(c, t, ts)
         \/ EndSegment(c, t, ts)
    \/ \E p \in Scores : GrowSegment(c, t, p) \/ CutSegment(c, t, p)

Next ==
  \/ \E c \in Channels : HandlePacket(c) \/ GoQuiet(c) \/ TakeSegment(c)
  \/ Empty
  \/ FlushIdle
  \/ Shutdown
  \/ Stop

(* The thread keeps running its loop, and time passes. *)
Fairness ==
  /\ WF_vars(Empty \/ \E c \in Channels : HandlePacket(c))
  /\ WF_vars(FlushIdle)
  /\ WF_vars(Shutdown)
  /\ \A c \in Channels : WF_vars(GoQuiet(c))

Spec == Init /\ [][Next]_vars

FairSpec == Spec /\ Fairness
-----------------------------------------------------------------------------
(* Properties *)

Timestamps == 1..MaxTimestamp

SegmentRecords ==
  [id : Nat \ {NoId}, start : Nat, end : Nat, audio : Seq(Timestamps),
   is_partial : BOOLEAN]

(* Type invariant: the values the thread's state takes; a segment queue    *)
(* never holds more than its capacity and the preroll never more than      *)
(* preroll_chunks packets.                                                 *)
TypeOK ==
  /\ pc \in {"get", "idle", "exit", "done"}
  /\ stop_event \in BOOLEAN
  /\ quiet \subseteq Channels
  /\ clock \in [Channels -> Nat]
  /\ vad_triggered \in [Channels -> BOOLEAN]
  /\ triggered \in [Channels -> BOOLEAN]
  /\ preroll \in [Channels -> Seq(Timestamps)]
  /\ preroll_ts \in [Channels -> Seq(Nat)]
  /\ segment_chunks \in [Channels -> Seq(Timestamps)]
  /\ segment_start_ts \in [Channels -> Nat \cup {NoTs}]
  /\ segment_id \in [Channels -> Nat]
  /\ seg_counter \in [Channels -> Nat]
  /\ scores \in [Channels -> SUBSET (Nat \X Scores)]
  /\ last_partial \in [Channels -> Nat]
  /\ queued \in [Channels -> Seq(SegmentRecords)]
  /\ taken \in [Channels -> Nat]
  /\ dropped \in [Channels -> Seq(SegmentRecords)]
  /\ heard \in [Channels -> SUBSET Timestamps]
  /\ \A c \in Channels :
       /\ Len(preroll[c]) <= PrerollChunks
       /\ Len(preroll_ts[c]) = Len(preroll[c])
       /\ taken[c] <= Len(queued[c])
       /\ Len(queued[c]) - taken[c] <= SegmentQueueMax

(* The worker and its detector agree on whether speech is in progress, and *)
(* a segment's start, id and audio exist exactly while it is: no path --   *)
(* start, end, cut, idle flush, shutdown flush -- forgets one of them.     *)
DetectorInSync ==
  \A c \in Channels :
    /\ triggered[c] = vad_triggered[c]
    /\ triggered[c] <=> segment_start_ts[c] # NoTs
    /\ triggered[c] <=> segment_id[c] # NoId
    /\ segment_chunks[c] # <<>> => triggered[c]
    /\ preroll[c] # <<>> => ~triggered[c]

(* Where the finals of a queue are. *)
Finals(q) == {i \in 1..Len(q) : ~q[i].is_partial}

Increasing(s) == \A i, j \in 1..Len(s) : i < j => s[i] < s[j]

(* Every packet's audio reaches the STT side at most once and in the order *)
(* it arrived: the finals of a channel, the segment in progress and the    *)
(* preroll are disjoint and ascending, across cuts and flushes.            *)
AudioInOrder ==
  \A c \in Channels :
    LET audio(i) == queued[c][i].audio
        held == segment_chunks[c] \o preroll[c]
    IN  /\ Increasing(held)
        /\ \A i \in Finals(queued[c]) :
             /\ Increasing(audio(i) \o held)
             /\ \A j \in Finals(queued[c]) :
                  i < j => Increasing(audio(i) \o audio(j))

(* No speech is lost inside the worker: everything the detector counted as *)
(* speech, preroll included, is in a final that was queued, in one that    *)
(* fanout_put reported as dropped, or in the segment in progress.          *)
SpeechKept ==
  \A c \in Channels :
    heard[c] \subseteq
      (UNION {Audio(queued[c][i].audio) : i \in Finals(queued[c])})
      \cup (UNION {Audio(dropped[c][i].audio) : i \in 1..Len(dropped[c])})
      \cup Audio(segment_chunks[c])

(* A final closes its segment: no later entry of the queue, partial or     *)
(* final, carries its id again, nor does the segment in progress.          *)
NothingAfterFinal ==
  \A c \in Channels : \A i \in 1..Len(queued[c]) :
    ~queued[c][i].is_partial =>
      /\ queued[c][i].id # segment_id[c]
      /\ \A j \in i+1..Len(queued[c]) : queued[c][j].id # queued[c][i].id

StartsWith(s, t) ==
  Len(t) <= Len(s) /\ \A i \in 1..Len(t) : t[i] = s[i]

(* A partial is a prefix of the final with its id: same start, no audio    *)
(* the final lacks (models.py, SpeechSegment.is_partial).  Its end is      *)
(* counted from the start, the final's may be the timestamp of a packet,   *)
(* so it is no later but for the jitter of the two.                        *)
PartialIsPrefix ==
  \A c \in Channels : \A i, j \in 1..Len(queued[c]) :
    LET part == queued[c][i]
        fin == queued[c][j]
    IN  part.is_partial /\ ~fin.is_partial /\ part.id = fin.id =>
          /\ part.start = fin.start
          /\ part.end <= fin.end + Jitter
          /\ StartsWith(fin.audio, part.audio)

(* The finals of a channel, the segment in progress and the preroll lie    *)
(* one after the other on its timeline, whichever rule -- detector, cut,   *)
(* flush -- computed each end, and however many segments came between:     *)
(* where they overlap, or end before they start, it is by no more than the *)
(* jitter of the timestamps.  Errors do not add up over cuts.  With an     *)
(* even arrival nothing overlaps.                                          *)
TimelineOrdered ==
  \A c \in Channels : \A i \in Finals(queued[c]) :
    LET seg == queued[c][i]
        Follows(ts) == seg.end <= ts + Jitter
    IN  /\ seg.start <= seg.end + Jitter
        /\ segment_start_ts[c] # NoTs => Follows(segment_start_ts[c])
        /\ preroll[c] # <<>> => Follows(Head(preroll_ts[c]))
        /\ \A j \in Finals(queued[c]) : i < j => Follows(queued[c][j].start)

(* With limits enabled no final is longer than the hard cap, except by the *)
(* preroll and the one packet a segment may start with; successive         *)
(* partials of a segment are partial_interval_s of speech apart and none   *)
(* comes before partial_min_segment_s.  All four are counted in the        *)
(* segment's own chunks, which every start and cut resets.                 *)
SegmentsWithinLimits ==
  \A c \in Channels : \A i, j \in 1..Len(queued[c]) :
    LET a == queued[c][i]
        b == queued[c][j]
    IN  /\ LimitsEnabled => \/ Len(a.audio) <= MaxSegment
                           \/ Len(a.audio) <= PrerollChunks + 2
        /\ a.is_partial => Len(a.audio) >= PartialMin
        /\ i < j /\ a.is_partial /\ b.is_partial /\ a.id = b.id
             => Len(b.audio) - Len(a.audio) >= PartialInterval

FinalOf(seg, id) == seg.id = id /\ ~seg.is_partial

(* A segment with audio is eventually emitted (or reported dropped), also  *)
(* when its channel stops sending: by the detector, a cut, the idle flush  *)
(* or the shutdown flush.                                                  *)
EveryUtteranceEmitted ==
  \A c \in Channels : \A id \in 1..MaxTimestamp :
    (segment_id[c] = id /\ segment_chunks[c] # <<>>) ~>
      \/ \E i \in 1..Len(queued[c]) : FinalOf(queued[c][i], id)
      \/ \E i \in 1..Len(dropped[c]) : FinalOf(dropped[c][i], id)

(* What a channel's reader gets is what UtteranceStream promises: whatever *)
(* packets, cuts, flushes, full queues and the stop do, each id is closed  *)
(* once and the ids follow one another (\A c : Stream(c)!Spec, in the form  *)
(* that TLC takes).                                                        *)
Stream(c) ==
  INSTANCE UtteranceStream WITH
    Capacity <- SegmentQueueMax,
    opened <- seg_counter[c], current <- segment_id[c],
    out <- queued[c], lost <- dropped[c], taken <- taken[c]

ImplementsStream ==
  /\ \A c \in Channels : Stream(c)!Init
  /\ [][\A c \in Channels : [Stream(c)!Next]_(Stream(c)!stream)]_vars

(* What vad_worker.py says of the idle flush: a channel that went quiet    *)
(* comes out of it with its detector reset, so that it emits another       *)
(* `start' when packets resume.                                            *)
QuietChannelRearmed ==
  \A c \in Channels :
    (c \in quiet /\ pc \in {"get", "idle"}) ~>
      (~vad_triggered[c] \/ c \notin quiet \/ pc \in {"exit", "done"})

(* What models.py says of finals: never dropped.                           *)
FinalsNeverDropped == \A c \in Channels : dropped[c] = <<>>
=============================================================================
