--------------------------- MODULE VadWorkerProofs ---------------------------
(***************************************************************************)
(* Proofs about VadWorker for every set of channels, every configuration   *)
(* and streams of every length: its invariants; that it implements         *)
(* UtteranceStream on every channel; what that gives the reader of a       *)
(* channel's segment queue; what the segments of a channel hold; and what  *)
(* their debugging copies cost (module Fanout).                            *)
(***************************************************************************)
EXTENDS VadWorker, Fanout, SequenceTheorems, TLAPS

(* Ids come from the counter: none in a queue is above it.  Together with  *)
(* the agreement of worker and detector this makes "nothing after a final" *)
(* inductive.                                                              *)
IdsMinted ==
  \A c \in Channels :
    /\ segment_id[c] <= seg_counter[c]
    /\ \A i \in 1..Len(queued[c]) : queued[c][i].id <= seg_counter[c]

VadInv == TypeOK /\ DetectorInSync /\ IdsMinted /\ NothingAfterFinal

(* DetectorInSync of one channel. *)
InSync(c) ==
  /\ triggered[c] = vad_triggered[c]
  /\ triggered[c] <=> segment_start_ts[c] # NoTs
  /\ triggered[c] <=> segment_id[c] # NoId
  /\ segment_chunks[c] # <<>> => triggered[c]
  /\ preroll[c] # <<>> => ~triggered[c]

LEMMA InSyncAll == DetectorInSync => \A c \in Channels : InSync(c)
  BY DEF DetectorInSync, InSync

(* IdsMinted and NothingAfterFinal of one channel, as a predicate of its   *)
(* queue, its segment's id and its counter.                                *)
IdsOK(q, id, n) ==
  /\ id <= n
  /\ \A i \in 1..Len(q) : q[i].id <= n
  /\ \A i \in 1..Len(q) : ~q[i].is_partial =>
       /\ q[i].id # id
       /\ \A j \in i+1..Len(q) : q[j].id # q[i].id

-----------------------------------------------------------------------------
(* Lemmas on the operators. *)

LEMMA QueueElements ==
  ASSUME NEW q \in Seq(SegmentRecords)
  PROVE  /\ Len(q) \in Nat
         /\ \A i \in 1..Len(q) : q[i].id \in Nat \ {NoId}
<1>1. Len(q) \in Nat
  OBVIOUS
<1>2. ASSUME NEW i \in 1..Len(q) PROVE q[i].id \in Nat \ {NoId}
  <2>1. q[i] \in SegmentRecords
    OBVIOUS
  <2> QED BY <2>1 DEF SegmentRecords
<1> QED BY <1>1, <1>2

LEMMA PutNowaitType ==
  ASSUME NEW c, NEW q \in Seq(SegmentRecords), NEW seg \in SegmentRecords
  PROVE  PutNowait(c, q, seg) \in Seq(SegmentRecords)
BY DEF PutNowait

LEMMA PutNowaitRoom ==
  ASSUME VadAssumption, NEW c \in Channels, taken[c] \in Nat,
         NEW q \in Seq(SegmentRecords), NEW seg \in SegmentRecords,
         taken[c] <= Len(q), Len(q) - taken[c] <= SegmentQueueMax
  PROVE  /\ taken[c] <= Len(PutNowait(c, q, seg))
         /\ Len(PutNowait(c, q, seg)) - taken[c] <= SegmentQueueMax
BY SMTT(60) DEF PutNowait, HasRoom, VadAssumption

LEMMA SegmentType ==
  ASSUME NEW id \in Nat \ {NoId}, NEW start \in Nat, NEW end \in Nat,
         NEW audio \in Seq(Timestamps), NEW partial \in BOOLEAN
  PROVE  Segment(id, start, end, audio, partial) \in SegmentRecords
BY DEF Segment, SegmentRecords

LEMMA CutTailType ==
  ASSUME NEW chunks \in Seq(Timestamps), NEW cut \in 1..Len(chunks)
  PROVE  /\ CutTail(chunks, cut) \in Seq(Timestamps)
         /\ SubSeq(chunks, 1, cut) \in Seq(Timestamps)
         /\ SubSeq(chunks, 1, cut) # <<>>
BY DEF CutTail

LEMMA InitVadInv == Init => VadInv
<1> SUFFICES ASSUME Init PROVE VadInv
  OBVIOUS
<1>1. TypeOK
  <2>1. /\ pc \in {"get", "idle", "exit", "done"} /\ stop_event \in BOOLEAN
        /\ quiet \subseteq Channels
    BY DEF Init
  <2>2. /\ preroll \in [Channels -> Seq(Timestamps)]
        /\ preroll_ts \in [Channels -> Seq(Nat)]
        /\ segment_chunks \in [Channels -> Seq(Timestamps)]
        /\ queued \in [Channels -> Seq(SegmentRecords)]
        /\ dropped \in [Channels -> Seq(SegmentRecords)]
    BY DEF Init
  <2>3. /\ clock \in [Channels -> Nat]
        /\ vad_triggered \in [Channels -> BOOLEAN]
        /\ triggered \in [Channels -> BOOLEAN]
        /\ segment_start_ts \in [Channels -> Nat \cup {NoTs}]
        /\ segment_id \in [Channels -> Nat]
        /\ seg_counter \in [Channels -> Nat]
    BY DEF Init, NoId
  <2>4. /\ scores \in [Channels -> SUBSET (Nat \X Scores)]
        /\ last_partial \in [Channels -> Nat]
        /\ taken \in [Channels -> Nat]
        /\ heard \in [Channels -> SUBSET Timestamps]
    BY DEF Init
  <2>5. \A c \in Channels : /\ Len(preroll[c]) <= PrerollChunks
                            /\ Len(preroll_ts[c]) = Len(preroll[c])
                            /\ taken[c] <= Len(queued[c])
                            /\ Len(queued[c]) - taken[c] <= SegmentQueueMax
    BY VadAssumption DEF Init, VadAssumption
  <2> QED BY <2>1, <2>2, <2>3, <2>4, <2>5 DEF TypeOK
<1>2. DetectorInSync
  BY DEF Init, DetectorInSync
<1>3. IdsMinted
  BY DEF Init, IdsMinted, NoId
<1>4. NothingAfterFinal
  BY DEF Init, NothingAfterFinal
<1> QED BY <1>1, <1>2, <1>3, <1>4 DEF VadInv

-----------------------------------------------------------------------------
(* What the queue operations preserve of the ids. *)

LEMMA IdsSplit ==
  (IdsMinted /\ NothingAfterFinal) <=>
    \A c \in Channels : IdsOK(queued[c], segment_id[c], seg_counter[c])
BY DEF IdsMinted, NothingAfterFinal, IdsOK

(* A final with the open id closes it: the id can become none, or fresh.   *)
LEMMA PutFinalIds ==
  ASSUME NEW c, NEW q \in Seq(SegmentRecords), NEW id \in Nat \ {NoId},
         NEW n \in Nat, NEW seg \in SegmentRecords, seg.id = id,
         IdsOK(q, id, n)
  PROVE  /\ IdsOK(PutNowait(c, q, seg), NoId, n)
         /\ IdsOK(PutNowait(c, q, seg), n + 1, n + 1)
<1> DEFINE r == PutNowait(c, q, seg)
<1>1. r = q \/ r = Append(q, seg)
  BY DEF PutNowait
<1>2. \A i \in 1..Len(q) : q[i].id \in Nat \ {NoId}
  BY QueueElements
<1>3. CASE r = q
  <2>1. IdsOK(q, NoId, n) /\ IdsOK(q, n + 1, n + 1)
    BY <1>2, QueueElements DEF IdsOK, NoId
  <2> QED BY <1>3, <2>1
<1>4. CASE r = Append(q, seg)
  <2>1. /\ r \in Seq(SegmentRecords) /\ Len(r) = Len(q) + 1
        /\ r[Len(q) + 1] = seg
        /\ \A i \in 1..Len(q) : r[i] = q[i]
    BY <1>4
  <2> HIDE DEF r
  <2>2. \A i \in 1..Len(r) : r[i].id \in Nat \ {NoId} /\ r[i].id <= n
    BY <1>2, <2>1 DEF IdsOK
  <2>3. \A i \in 1..Len(r) : ~r[i].is_partial =>
          \A j \in i+1..Len(r) : r[j].id # r[i].id
    BY <2>1 DEF IdsOK
  <2>4. IdsOK(r, NoId, n) /\ IdsOK(r, n + 1, n + 1)
    BY <2>1, <2>2, <2>3 DEF IdsOK, NoId
  <2> QED BY <2>4 DEF r
<1> QED BY <1>1, <1>3, <1>4

LEMMA PutPartialIds ==
  ASSUME NEW c, NEW q \in Seq(SegmentRecords), NEW id \in Nat, NEW n \in Nat,
         NEW seg \in SegmentRecords, seg.id = id, seg.is_partial,
         IdsOK(q, id, n)
  PROVE  IdsOK(PutNowait(c, q, seg), id, n)
<1> DEFINE r == PutNowait(c, q, seg)
<1>1. CASE r = q
  BY <1>1
<1>2. CASE r = Append(q, seg)
  <2>1. /\ Len(r) = Len(q) + 1 /\ r[Len(q) + 1] = seg
        /\ \A i \in 1..Len(q) : r[i] = q[i]
    BY <1>2
  <2> QED BY <2>1, SMTT(40) DEF IdsOK
<1> QED BY <1>1, <1>2 DEF PutNowait

LEMMA MintIds ==
  ASSUME NEW q \in Seq(SegmentRecords), NEW id \in Nat, NEW n \in Nat,
         IdsOK(q, id, n)
  PROVE  IdsOK(q, n + 1, n + 1)
<1>1. \A i \in 1..Len(q) : q[i].id \in Nat
  BY QueueElements
<1> QED BY <1>1, QueueElements, SMTT(30) DEF IdsOK

-----------------------------------------------------------------------------
(* One lemma per action. *)

(* The preroll with one more: the older ones moved up when it was full.     *)
LEMMA Pushed ==
  ASSUME VadAssumption, NEW S, NEW q \in Seq(S), NEW e \in S
  PROVE  /\ Push(q, e) \in Seq(S)
         /\ Len(q) \in Nat
         /\ Len(Push(q, e)) =
              IF Len(q) + 1 > PrerollChunks THEN Len(q) ELSE Len(q) + 1
         /\ \A i \in 1..Len(Push(q, e)) :
              Push(q, e)[i] =
                Append(q, e)[IF Len(q) + 1 > PrerollChunks THEN i + 1 ELSE i]
<1>1. /\ Append(q, e) \in Seq(S) /\ Append(q, e) # <<>>
      /\ Len(q) \in Nat /\ Len(Append(q, e)) = Len(q) + 1
  BY AppendProperties, LenProperties
<1>2. /\ Tail(Append(q, e)) \in Seq(S) /\ Len(Tail(Append(q, e))) = Len(q)
      /\ \A i \in 1..Len(Tail(Append(q, e))) :
           Tail(Append(q, e))[i] = Append(q, e)[i + 1]
  BY <1>1, HeadTailProperties
<1>3. PrerollChunks \in Nat
  BY DEF VadAssumption
<1>4. CASE Len(q) + 1 > PrerollChunks
  BY <1>1, <1>2, <1>4 DEF Push
<1>5. CASE ~(Len(q) + 1 > PrerollChunks)
  BY <1>1, <1>5 DEF Push
<1> QED BY <1>4, <1>5

LEMMA PushType ==
  ASSUME VadAssumption, NEW S, NEW q \in Seq(S), NEW e \in S
  PROVE  /\ Push(q, e) \in Seq(S) /\ Len(q) \in Nat
         /\ Len(Push(q, e)) =
              IF Len(q) + 1 > PrerollChunks THEN Len(q) ELSE Len(q) + 1
BY Pushed

LEMMA PushPrerollInv ==
  ASSUME VadInv, NEW c \in Channels, NEW t \in Timestamps, NEW ts \in Nat,
         PushPreroll(c, t, ts)
  PROVE  VadInv'
<1>1. TypeOK'
  <2>1. /\ preroll[c] \in Seq(Timestamps) /\ preroll_ts[c] \in Seq(Nat)
        /\ Len(preroll[c]) <= PrerollChunks
        /\ Len(preroll_ts[c]) = Len(preroll[c]) /\ PrerollChunks \in Nat
    BY VadAssumption DEF VadInv, TypeOK, VadAssumption
  <2>2. /\ Push(preroll[c], t) \in Seq(Timestamps)
        /\ Push(preroll_ts[c], ts) \in Seq(Nat)
        /\ Len(Push(preroll[c], t)) <= PrerollChunks
        /\ Len(Push(preroll_ts[c], ts)) = Len(Push(preroll[c], t))
    <3>1. /\ Push(preroll[c], t) \in Seq(Timestamps)
          /\ Len(preroll[c]) \in Nat
          /\ Len(Push(preroll[c], t)) =
               IF Len(preroll[c]) + 1 > PrerollChunks
               THEN Len(preroll[c]) ELSE Len(preroll[c]) + 1
      BY <2>1, PushType, VadAssumption
    <3>2. /\ Push(preroll_ts[c], ts) \in Seq(Nat)
          /\ Len(Push(preroll_ts[c], ts)) =
               IF Len(preroll_ts[c]) + 1 > PrerollChunks
               THEN Len(preroll_ts[c]) ELSE Len(preroll_ts[c]) + 1
      BY <2>1, PushType, VadAssumption
    <3> QED BY <2>1, <3>1, <3>2
  <2>3. /\ preroll' = [preroll EXCEPT ![c] = Push(preroll[c], t)]
        /\ preroll_ts' = [preroll_ts EXCEPT ![c] = Push(preroll_ts[c], ts)]
    BY DEF PushPreroll
  <2>4. /\ preroll' \in [Channels -> Seq(Timestamps)]
        /\ preroll_ts' \in [Channels -> Seq(Nat)]
        /\ \A d \in Channels : /\ Len(preroll'[d]) <= PrerollChunks
                                /\ Len(preroll_ts'[d]) = Len(preroll'[d])
    BY <2>2, <2>3 DEF VadInv, TypeOK
  <2>5. pc' \in {"get", "idle", "exit", "done"} /\ quiet' \subseteq Channels
        /\ clock' \in [Channels -> Nat]
    BY SMTT(40) DEF VadInv, TypeOK, PushPreroll, Receive, Timestamps
  <2> QED BY <2>4, <2>5
          DEF VadInv, TypeOK, PushPreroll, Receive, seg_vars, out_vars
<1>2. DetectorInSync'
  BY DEF VadInv, TypeOK, DetectorInSync, PushPreroll, seg_vars
<1>3. IdsMinted' /\ NothingAfterFinal'
  BY DEF VadInv, IdsMinted, NothingAfterFinal, PushPreroll, seg_vars, out_vars
<1> QED BY <1>1, <1>2, <1>3 DEF VadInv

(* Where a segment that starts now is said to start. *)
StartStamp(c, ts) == IF preroll[c] # <<>> THEN Head(preroll_ts[c]) ELSE ts

LEMMA StartStampType ==
  ASSUME VadInv, NEW c \in Channels, NEW ts \in Nat
  PROVE  StartStamp(c, ts) \in Nat
<1>1. /\ preroll[c] \in Seq(Timestamps) /\ preroll_ts[c] \in Seq(Nat)
      /\ Len(preroll_ts[c]) = Len(preroll[c])
  BY DEF VadInv, TypeOK
<1>2. preroll[c] # <<>> => preroll_ts[c] # <<>>
  BY <1>1
<1> QED BY <1>1, <1>2, HeadTailProperties DEF StartStamp

LEMMA StartSegmentInv ==
  ASSUME VadInv, NEW c \in Channels, NEW t \in Timestamps, NEW ts \in Nat,
         StartSegment(c, t, ts)
  PROVE  VadInv'
<1>1. TypeOK'
  <2>0. preroll[c] \in Seq(Timestamps)
    BY DEF VadInv, TypeOK
  <2>a. Audio(preroll[c]) \subseteq Timestamps
    BY <2>0 DEF Audio
  <2>1. /\ Append(preroll[c], t) \in Seq(Timestamps)
        /\ Audio(preroll[c]) \subseteq Timestamps
    BY <2>0, <2>a DEF Timestamps
  <2>2. /\ vad_triggered' \in [Channels -> BOOLEAN]
        /\ triggered' \in [Channels -> BOOLEAN]
        /\ preroll' \in [Channels -> Seq(Timestamps)]
        /\ preroll_ts' \in [Channels -> Seq(Nat)]
    BY DEF VadInv, TypeOK, StartSegment
  <2>c. segment_chunks' \in [Channels -> Seq(Timestamps)]
    BY <2>1 DEF VadInv, TypeOK, StartSegment
  <2>d. segment_start_ts' \in [Channels -> Nat \cup {NoTs}]
    <3>1. segment_start_ts' =
            [segment_start_ts EXCEPT ![c] = StartStamp(c, ts)]
      BY DEF StartSegment, StartStamp
    <3> QED BY <3>1, StartStampType DEF VadInv, TypeOK
  <2>e. /\ segment_id' \in [Channels -> Nat]
        /\ seg_counter' \in [Channels -> Nat]
    <3>1. seg_counter[c] + 1 \in Nat
      BY DEF VadInv, TypeOK
    <3>2. /\ segment_id' = [segment_id EXCEPT ![c] = seg_counter[c] + 1]
          /\ seg_counter' = [seg_counter EXCEPT ![c] = seg_counter[c] + 1]
      BY DEF StartSegment, NewSegmentId
    <3> QED BY <3>1, <3>2 DEF VadInv, TypeOK
  <2>f. scores' \in [Channels -> SUBSET (Nat \X Scores)]
    BY DEF VadInv, TypeOK, StartSegment
  <2>3. last_partial' \in [Channels -> Nat]
    BY DEF VadInv, TypeOK, StartSegment
  <2>g. heard' \in [Channels -> SUBSET Timestamps]
    BY <2>1 DEF VadInv, TypeOK, StartSegment
  <2>4. pc' \in {"get", "idle", "exit", "done"} /\ quiet' \subseteq Channels
        /\ clock' \in [Channels -> Nat]
    BY SMTT(40) DEF VadInv, TypeOK, StartSegment, Receive, Timestamps
  <2>5. \A d \in Channels : /\ Len(preroll'[d]) <= PrerollChunks
                            /\ Len(preroll_ts'[d]) = Len(preroll'[d])
    BY VadAssumption DEF VadInv, TypeOK, StartSegment, VadAssumption
  <2> QED BY <2>2, <2>c, <2>d, <2>e, <2>f, <2>g, <2>3, <2>4, <2>5
          DEF VadInv, TypeOK, StartSegment, Receive, out_vars
<1>2. DetectorInSync'
  <2>0. segment_start_ts'[c] # NoTs /\ segment_id'[c] # NoId
    <3>1. StartStamp(c, ts) \in Nat /\ seg_counter[c] \in Nat
      BY StartStampType DEF VadInv, TypeOK
    <3>2. /\ segment_start_ts'[c] = StartStamp(c, ts)
          /\ segment_id'[c] = seg_counter[c] + 1
      BY DEF VadInv, TypeOK, StartSegment, NewSegmentId, StartStamp
    <3> QED BY <3>1, <3>2 DEF NoTs, NoId
  <2>1. triggered'[c] = TRUE /\ vad_triggered'[c] = TRUE /\ preroll'[c] = <<>>
    BY DEF VadInv, TypeOK, StartSegment
  <2>2. ASSUME NEW d \in Channels, d # c
        PROVE  /\ triggered'[d] = triggered[d]
               /\ vad_triggered'[d] = vad_triggered[d]
               /\ segment_start_ts'[d] = segment_start_ts[d]
               /\ segment_id'[d] = segment_id[d]
               /\ segment_chunks'[d] = segment_chunks[d]
               /\ preroll'[d] = preroll[d]
    BY <2>2 DEF VadInv, TypeOK, StartSegment, NewSegmentId
  <2>3. InSync(c)'
    BY <2>0, <2>1 DEF InSync
  <2>4. ASSUME NEW d \in Channels, d # c
        PROVE  InSync(d)'
    BY <2>2, <2>4, InSyncAll DEF VadInv, InSync
  <2> QED BY <2>3, <2>4 DEF DetectorInSync, InSync
<1>3. IdsMinted' /\ NothingAfterFinal'
  <2>1. \A d \in Channels : IdsOK(queued[d], segment_id[d], seg_counter[d])
    BY IdsSplit DEF VadInv
  <2>2. IdsOK(queued[c], seg_counter[c] + 1, seg_counter[c] + 1)
    BY <2>1, MintIds DEF VadInv, TypeOK
  <2>3. \A d \in Channels : IdsOK(queued'[d], segment_id'[d], seg_counter'[d])
    BY <2>1, <2>2 DEF VadInv, TypeOK, StartSegment, NewSegmentId, out_vars
  <2> QED BY <2>3 DEF IdsMinted, NothingAfterFinal, IdsOK
<1> QED BY <1>1, <1>2, <1>3 DEF VadInv

LEMMA EnvironmentInv ==
  ASSUME VadInv, NEW c \in Channels,
         Empty \/ Stop \/ GoQuiet(c) \/ TakeSegment(c) \/ UNCHANGED vars
  PROVE  VadInv'
<1>1. TypeOK'
  <2>1. CASE TakeSegment(c)
    <3>1. taken' \in [Channels -> Nat]
      BY <2>1 DEF VadInv, TypeOK, TakeSegment
    <3>2. \A d \in Channels : /\ taken'[d] <= Len(queued[d])
                              /\ Len(queued[d]) - taken'[d] <= SegmentQueueMax
      BY <2>1, VadAssumption, SMTT(40) DEF VadInv, TypeOK, TakeSegment, VadAssumption
    <3> QED BY <2>1, <3>1, <3>2
            DEF VadInv, TypeOK, TakeSegment, det_vars, seg_vars, out_vars
  <2>2. CASE GoQuiet(c)
    BY <2>2 DEF VadInv, TypeOK, GoQuiet, det_vars, seg_vars, out_vars
  <2>3. CASE Empty \/ Stop
    BY <2>3 DEF VadInv, TypeOK, Empty, Stop, det_vars, seg_vars, out_vars
  <2>4. CASE UNCHANGED vars
    BY <2>4 DEF VadInv, TypeOK, vars, det_vars, seg_vars, out_vars
  <2> QED BY <2>1, <2>2, <2>3, <2>4
<1>2. DetectorInSync'
  BY DEF VadInv, DetectorInSync, Empty, Stop, GoQuiet, TakeSegment, vars,
         det_vars, seg_vars
<1>3. IdsMinted' /\ NothingAfterFinal'
  BY DEF VadInv, IdsMinted, NothingAfterFinal, Empty, Stop, GoQuiet,
         TakeSegment, vars, seg_vars, out_vars
<1> QED BY <1>1, <1>2, <1>3 DEF VadInv

(* What holds of a channel whose detector is mid-speech. *)
LEMMA MidSpeech ==
  ASSUME VadInv, NEW c \in Channels, NEW t \in Timestamps, vad_triggered[c]
  PROVE  /\ triggered[c]
         /\ segment_start_ts[c] \in Nat
         /\ segment_id[c] \in Nat \ {NoId}
         /\ WithPacket(c, t) = Append(segment_chunks[c], t)
         /\ WithPacket(c, t) \in Seq(Timestamps)
         /\ WithPacket(c, t) # <<>>
         /\ Len(WithPacket(c, t)) \in Nat \ {0}
         /\ Finalizable(c, WithPacket(c, t))
<1>1. triggered[c] /\ segment_start_ts[c] # NoTs /\ segment_id[c] # NoId
  BY DEF VadInv, DetectorInSync
<1>2. segment_chunks[c] \in Seq(Timestamps)
  BY DEF VadInv, TypeOK
<1>3. /\ Append(segment_chunks[c], t) \in Seq(Timestamps)
      /\ Append(segment_chunks[c], t) # <<>>
      /\ Len(Append(segment_chunks[c], t)) \in Nat \ {0}
  BY <1>2, AppendProperties
<1>4. segment_start_ts[c] \in Nat /\ segment_id[c] \in Nat \ {NoId}
  BY <1>1 DEF VadInv, TypeOK
<1> QED BY <1>1, <1>3, <1>4 DEF WithPacket, Finalizable

LEMMA EndSegmentInv ==
  ASSUME VadInv, NEW c \in Channels, NEW t \in Timestamps, NEW ts \in Nat,
         EndSegment(c, t, ts)
  PROVE  VadInv'
<1> DEFINE chunks == WithPacket(c, t)
           final == Segment(segment_id[c], segment_start_ts[c], ts, chunks, FALSE)
<1>0. vad_triggered[c]
  BY DEF EndSegment
<1>1. /\ triggered[c] /\ segment_start_ts[c] \in Nat
      /\ segment_id[c] \in Nat \ {NoId} /\ chunks \in Seq(Timestamps)
      /\ Finalizable(c, chunks)
  BY <1>0, MidSpeech
<1>2. final \in SegmentRecords /\ final.id = segment_id[c] /\ ~final.is_partial
  <2>1. final \in SegmentRecords
    BY <1>1, SegmentType
  <2>2. final.id = segment_id[c] /\ ~final.is_partial
    BY DEF Segment
  <2> QED BY <2>1, <2>2
<1>3. /\ queued' = [queued EXCEPT ![c] = PutNowait(c, queued[c], final)]
      /\ dropped' = [dropped EXCEPT ![c] =
                       IF HasRoom(c, queued[c]) THEN @ ELSE Append(@, final)]
      /\ segment_chunks' = [segment_chunks EXCEPT ![c] = <<>>]
      /\ segment_start_ts' = [segment_start_ts EXCEPT ![c] = NoTs]
      /\ segment_id' = [segment_id EXCEPT ![c] = NoId]
      /\ last_partial' = [last_partial EXCEPT ![c] = 0]
  BY <1>1 DEF EndSegment, FanoutPut
<1>4. /\ vad_triggered' = [vad_triggered EXCEPT ![c] = FALSE]
      /\ triggered' = [triggered EXCEPT ![c] = FALSE]
      /\ scores' = [scores EXCEPT ![c] = {}]
      /\ heard' = [heard EXCEPT ![c] = @ \cup {t}]
      /\ UNCHANGED <<preroll, preroll_ts, seg_counter, taken, stop_event>>
      /\ Receive(c, t)
  BY DEF EndSegment, Receive
<1> HIDE DEF final, chunks
<1>5. TypeOK'
  <2>1. /\ queued[c] \in Seq(SegmentRecords) /\ taken[c] \in Nat
        /\ taken[c] <= Len(queued[c])
        /\ Len(queued[c]) - taken[c] <= SegmentQueueMax
        /\ Append(dropped[c], final) \in Seq(SegmentRecords)
    BY <1>2 DEF VadInv, TypeOK
  <2>2. PutNowait(c, queued[c], final) \in Seq(SegmentRecords)
    BY <1>2, <2>1, PutNowaitType
  <2>3. /\ queued' \in [Channels -> Seq(SegmentRecords)]
        /\ dropped' \in [Channels -> Seq(SegmentRecords)]
    BY <1>3, <2>1, <2>2 DEF VadInv, TypeOK
  <2>4. \A d \in Channels : /\ taken'[d] <= Len(queued'[d])
                            /\ Len(queued'[d]) - taken'[d] <= SegmentQueueMax
    <3>1. /\ taken[c] <= Len(PutNowait(c, queued[c], final))
          /\ Len(PutNowait(c, queued[c], final)) - taken[c] <= SegmentQueueMax
      BY <1>2, <2>1, PutNowaitRoom, VadAssumption
    <3> QED BY <1>3, <1>4, <3>1 DEF VadInv, TypeOK
  <2>5. /\ vad_triggered' \in [Channels -> BOOLEAN]
        /\ triggered' \in [Channels -> BOOLEAN]
        /\ segment_chunks' \in [Channels -> Seq(Timestamps)]
        /\ segment_start_ts' \in [Channels -> Nat \cup {NoTs}]
        /\ segment_id' \in [Channels -> Nat]
    BY <1>3, <1>4 DEF VadInv, TypeOK, NoId
  <2>6. /\ scores' \in [Channels -> SUBSET (Nat \X Scores)]
        /\ last_partial' \in [Channels -> Nat]
        /\ heard' \in [Channels -> SUBSET Timestamps]
    BY <1>3, <1>4 DEF VadInv, TypeOK
  <2>7. pc' \in {"get", "idle", "exit", "done"} /\ quiet' \subseteq Channels
        /\ clock' \in [Channels -> Nat]
    BY <1>4 DEF VadInv, TypeOK, Receive, Timestamps
  <2> QED BY <1>4, <2>3, <2>4, <2>5, <2>6, <2>7 DEF VadInv, TypeOK
<1>6. DetectorInSync'
  <2>1. /\ ~triggered'[c] /\ triggered'[c] = vad_triggered'[c]
        /\ segment_start_ts'[c] = NoTs /\ segment_id'[c] = NoId
        /\ segment_chunks'[c] = <<>>
    BY <1>3, <1>4 DEF VadInv, TypeOK
  <2>2. ASSUME NEW d \in Channels, d # c
        PROVE  /\ triggered'[d] = triggered[d]
               /\ vad_triggered'[d] = vad_triggered[d]
               /\ segment_start_ts'[d] = segment_start_ts[d]
               /\ segment_id'[d] = segment_id[d]
               /\ segment_chunks'[d] = segment_chunks[d]
    BY <1>3, <1>4, <2>2 DEF VadInv, TypeOK
  <2>3. InSync(c)'
    <3>1. preroll'[c] = preroll[c] /\ (preroll[c] # <<>> => ~triggered[c])
      BY <1>4 DEF VadInv, DetectorInSync
    <3>2. preroll[c] = <<>>
      BY <1>1, <3>1
    <3> QED BY <2>1, <3>1, <3>2 DEF InSync
  <2>4. ASSUME NEW d \in Channels, d # c
        PROVE  InSync(d)'
    <3>1. preroll'[d] = preroll[d]
      BY <1>4
    <3> QED BY <2>2, <2>4, <3>1, InSyncAll DEF VadInv, InSync
  <2> QED BY <2>3, <2>4 DEF DetectorInSync, InSync
<1>7. IdsMinted' /\ NothingAfterFinal'
  <2>1. \A d \in Channels : IdsOK(queued[d], segment_id[d], seg_counter[d])
    BY IdsSplit DEF VadInv
  <2>2. IdsOK(PutNowait(c, queued[c], final), NoId, seg_counter[c])
    BY <1>1, <1>2, <2>1, PutFinalIds DEF VadInv, TypeOK
  <2>3. \A d \in Channels : IdsOK(queued'[d], segment_id'[d], seg_counter'[d])
    BY <1>3, <1>4, <2>1, <2>2 DEF VadInv, TypeOK
  <2> QED BY <2>3 DEF IdsMinted, NothingAfterFinal, IdsOK
<1> QED BY <1>5, <1>6, <1>7 DEF VadInv

(* MaybeEmitPartial on a queue q that is well-formed for the segment the   *)
(* action leaves in progress.                                              *)
LEMMA MaybeEmitPartialInv ==
  ASSUME VadInv, NEW c \in Channels, NEW q \in Seq(SegmentRecords),
         NEW last \in Nat, UNCHANGED taken,
         segment_chunks' \in [Channels -> Seq(Timestamps)],
         segment_start_ts'[c] \in Nat, segment_id'[c] \in Nat \ {NoId},
         seg_counter'[c] \in Nat,
         taken[c] <= Len(q), Len(q) - taken[c] <= SegmentQueueMax,
         IdsOK(q, segment_id'[c], seg_counter'[c]),
         MaybeEmitPartial(c, q, last)
  PROVE  /\ queued' \in [Channels -> Seq(SegmentRecords)]
         /\ last_partial' \in [Channels -> Nat]
         /\ \A d \in Channels : /\ taken'[d] <= Len(queued'[d])
                                /\ Len(queued'[d]) - taken'[d] <= SegmentQueueMax
         /\ IdsOK(queued'[c], segment_id'[c], seg_counter'[c])
         /\ \A d \in Channels : d # c => queued'[d] = queued[d]
<1> DEFINE n == Len(segment_chunks'[c])
           prefix == Segment(segment_id'[c], segment_start_ts'[c],
                             segment_start_ts'[c] + n, segment_chunks'[c], TRUE)
           r == IF PartialDue(n, last) THEN PutNowait(c, q, prefix) ELSE q
<1>1. /\ queued' = [queued EXCEPT ![c] = r]
      /\ last_partial' =
           [last_partial EXCEPT ![c] = IF PartialDue(n, last) THEN n ELSE last]
  BY DEF MaybeEmitPartial
<1>2. segment_chunks'[c] \in Seq(Timestamps) /\ n \in Nat
  OBVIOUS
<1>3. prefix \in SegmentRecords
  <2>1. segment_start_ts'[c] + n \in Nat
    BY <1>2
  <2> QED BY <1>2, <2>1, SegmentType
<1>4. prefix.id = segment_id'[c] /\ prefix.is_partial
  BY DEF Segment
<1>5. taken[c] \in Nat
  BY DEF VadInv, TypeOK
<1> HIDE DEF prefix, n
<1>6. /\ r \in Seq(SegmentRecords)
      /\ taken[c] <= Len(r) /\ Len(r) - taken[c] <= SegmentQueueMax
  BY <1>3, <1>5, PutNowaitType, PutNowaitRoom, VadAssumption
<1>7. IdsOK(r, segment_id'[c], seg_counter'[c])
  BY <1>3, <1>4, PutPartialIds
<1> HIDE DEF r
<1> QED BY <1>1, <1>2, <1>6, <1>7 DEF VadInv, TypeOK

LEMMA GrowSegmentInv ==
  ASSUME VadInv, NEW c \in Channels, NEW t \in Timestamps, NEW p \in Scores,
         GrowSegment(c, t, p)
  PROVE  VadInv'
<1> DEFINE chunks == WithPacket(c, t)
           sc == WithScore(c, Len(chunks), p)
<1>1. /\ triggered[c] /\ segment_start_ts[c] \in Nat
      /\ segment_id[c] \in Nat \ {NoId} /\ chunks \in Seq(Timestamps)
      /\ Len(chunks) \in Nat
  <2>1. vad_triggered[c]
    BY DEF GrowSegment
  <2> QED BY <2>1, MidSpeech
<1>2. /\ Receive(c, t)
      /\ segment_chunks' = [segment_chunks EXCEPT ![c] = chunks]
      /\ scores' = [scores EXCEPT ![c] = sc]
      /\ heard' = [heard EXCEPT ![c] = @ \cup {t}]
      /\ UNCHANGED <<det_vars, segment_start_ts, segment_id, seg_counter,
                     dropped, taken, stop_event>>
      /\ MaybeEmitPartial(c, queued[c], last_partial[c])
  BY DEF GrowSegment, Receive
<1>3. sc \in SUBSET (Nat \X Scores)
  BY <1>1 DEF WithScore, VadInv, TypeOK
<1> HIDE DEF chunks, sc
<1>4. \A d \in Channels : IdsOK(queued[d], segment_id[d], seg_counter[d])
  BY IdsSplit DEF VadInv
<1>5. segment_chunks' \in [Channels -> Seq(Timestamps)]
  BY <1>1, <1>2 DEF VadInv, TypeOK
<1>6. /\ queued[c] \in Seq(SegmentRecords) /\ last_partial[c] \in Nat
      /\ taken[c] <= Len(queued[c])
      /\ Len(queued[c]) - taken[c] <= SegmentQueueMax /\ seg_counter[c] \in Nat
  BY DEF VadInv, TypeOK
<1>7. /\ queued' \in [Channels -> Seq(SegmentRecords)]
      /\ last_partial' \in [Channels -> Nat]
      /\ \A d \in Channels : /\ taken'[d] <= Len(queued'[d])
                             /\ Len(queued'[d]) - taken'[d] <= SegmentQueueMax
      /\ IdsOK(queued'[c], segment_id'[c], seg_counter'[c])
      /\ \A d \in Channels : d # c => queued'[d] = queued[d]
  BY <1>1, <1>2, <1>4, <1>5, <1>6, MaybeEmitPartialInv
<1>8. TypeOK'
  <2>1. /\ scores' \in [Channels -> SUBSET (Nat \X Scores)]
        /\ heard' \in [Channels -> SUBSET Timestamps]
    BY <1>2, <1>3 DEF VadInv, TypeOK
  <2>2. pc' \in {"get", "idle", "exit", "done"} /\ quiet' \subseteq Channels
        /\ clock' \in [Channels -> Nat]
    BY <1>2 DEF VadInv, TypeOK, Receive, Timestamps
  <2> QED BY <1>2, <1>5, <1>7, <2>1, <2>2 DEF VadInv, TypeOK, det_vars
<1>9. DetectorInSync'
  BY <1>1, <1>2 DEF VadInv, TypeOK, DetectorInSync, det_vars
<1>10. IdsMinted' /\ NothingAfterFinal'
  <2>1. \A d \in Channels : IdsOK(queued'[d], segment_id'[d], seg_counter'[d])
    BY <1>2, <1>4, <1>7
  <2> QED BY <2>1 DEF IdsMinted, NothingAfterFinal, IdsOK
<1> QED BY <1>8, <1>9, <1>10 DEF VadInv

LEMMA CutSegmentInv ==
  ASSUME VadInv, NEW c \in Channels, NEW t \in Timestamps, NEW p \in Scores,
         CutSegment(c, t, p)
  PROVE  VadInv'
<1> DEFINE chunks == WithPacket(c, t)
           n == Len(chunks)
           sc == WithScore(c, n, p)
           head(k) == Segment(segment_id[c], segment_start_ts[c],
                              segment_start_ts[c] + k, SubSeq(chunks, 1, k),
                              FALSE)
<1>1. /\ triggered[c] /\ vad_triggered[c] /\ segment_start_ts[c] \in Nat
      /\ segment_id[c] \in Nat \ {NoId} /\ chunks \in Seq(Timestamps)
      /\ n \in Nat
  <2>1. vad_triggered[c]
    BY DEF CutSegment
  <2> QED BY <2>1, MidSpeech
<1>2. PICK cut \in 1..n :
        /\ segment_chunks' = [segment_chunks EXCEPT ![c] = CutTail(chunks, cut)]
        /\ segment_start_ts' =
             [segment_start_ts EXCEPT ![c] = segment_start_ts[c] + cut]
        /\ NewSegmentId(c)
        /\ scores' = [scores EXCEPT ![c] = CutScores(sc, cut)]
        /\ dropped' = [dropped EXCEPT ![c] =
             IF HasRoom(c, queued[c]) THEN @ ELSE Append(@, head(cut))]
        /\ MaybeEmitPartial(c, PutNowait(c, queued[c], head(cut)), 0)
  BY DEF CutSegment
<1>3. /\ Receive(c, t)
      /\ heard' = [heard EXCEPT ![c] = @ \cup {t}]
      /\ UNCHANGED <<det_vars, taken, stop_event>>
  BY DEF CutSegment, Receive
<1>4. /\ segment_id' = [segment_id EXCEPT ![c] = seg_counter[c] + 1]
      /\ seg_counter' = [seg_counter EXCEPT ![c] = seg_counter[c] + 1]
      /\ seg_counter[c] \in Nat
  BY <1>2 DEF NewSegmentId, VadInv, TypeOK
<1>5. sc \in SUBSET (Nat \X Scores)
  BY <1>1 DEF WithScore, VadInv, TypeOK
<1>6. CutScores(sc, cut) \in SUBSET (Nat \X Scores)
  <2>1. \A e \in sc : e[1] \in Nat /\ e[2] \in Scores
    BY <1>5
  <2>2. \A e \in sc : e[1] > cut => e[1] - cut \in Nat
    BY <1>1, <2>1
  <2> QED BY <2>1, <2>2 DEF CutScores
<1>7. CutTail(chunks, cut) \in Seq(Timestamps)
      /\ SubSeq(chunks, 1, cut) \in Seq(Timestamps)
  BY <1>1, CutTailType
<1>8. /\ head(cut) \in SegmentRecords
      /\ head(cut).id = segment_id[c] /\ ~head(cut).is_partial
  <2>1. segment_start_ts[c] + cut \in Nat
    BY <1>1
  <2>2. head(cut) \in SegmentRecords
    BY <1>1, <1>7, <2>1, SegmentType
  <2>3. head(cut).id = segment_id[c] /\ ~head(cut).is_partial
    BY DEF Segment
  <2> QED BY <2>2, <2>3
<1> DEFINE q == PutNowait(c, queued[c], head(cut))
<1>9. \A d \in Channels : IdsOK(queued[d], segment_id[d], seg_counter[d])
  BY IdsSplit DEF VadInv
<1>10. /\ queued[c] \in Seq(SegmentRecords) /\ taken[c] \in Nat
       /\ taken[c] <= Len(queued[c])
       /\ Len(queued[c]) - taken[c] <= SegmentQueueMax
       /\ Append(dropped[c], head(cut)) \in Seq(SegmentRecords)
  <2> HIDE DEF head
  <2>1. dropped[c] \in Seq(SegmentRecords)
    BY DEF VadInv, TypeOK
  <2>2. Append(dropped[c], head(cut)) \in Seq(SegmentRecords)
    BY <1>8, <2>1
  <2> QED BY <2>2 DEF VadInv, TypeOK
<1>11. /\ q \in Seq(SegmentRecords)
       /\ taken[c] <= Len(q) /\ Len(q) - taken[c] <= SegmentQueueMax
  BY <1>8, <1>10, PutNowaitType, PutNowaitRoom, VadAssumption
<1>12. IdsOK(q, seg_counter[c] + 1, seg_counter[c] + 1)
  BY <1>1, <1>4, <1>8, <1>9, <1>10, PutFinalIds
<1>13. /\ segment_chunks' \in [Channels -> Seq(Timestamps)]
       /\ segment_start_ts' \in [Channels -> Nat \cup {NoTs}]
       /\ segment_start_ts'[c] \in Nat
       /\ segment_id' \in [Channels -> Nat]
       /\ segment_id'[c] = seg_counter[c] + 1
       /\ segment_id'[c] \in Nat \ {NoId}
       /\ seg_counter' \in [Channels -> Nat]
       /\ seg_counter'[c] = seg_counter[c] + 1
  <2>1. segment_start_ts[c] + cut \in Nat
    BY <1>1
  <2>2. /\ segment_chunks' \in [Channels -> Seq(Timestamps)]
        /\ segment_start_ts' \in [Channels -> Nat \cup {NoTs}]
        /\ segment_start_ts'[c] \in Nat
    BY <1>2, <1>7, <2>1 DEF VadInv, TypeOK
  <2>3. /\ segment_id' \in [Channels -> Nat]
        /\ seg_counter' \in [Channels -> Nat]
        /\ segment_id'[c] = seg_counter[c] + 1
        /\ seg_counter'[c] = seg_counter[c] + 1
    BY <1>4, SMTT(40) DEF VadInv, TypeOK
  <2>4. seg_counter[c] + 1 \in Nat \ {NoId}
    BY <1>4 DEF NoId
  <2> QED BY <2>2, <2>3, <2>4
<1>14. MaybeEmitPartial(c, q, 0)
  BY <1>2
<1> HIDE DEF q, head, sc
<1>15. /\ queued' \in [Channels -> Seq(SegmentRecords)]
       /\ last_partial' \in [Channels -> Nat]
       /\ \A d \in Channels : /\ taken'[d] <= Len(queued'[d])
                              /\ Len(queued'[d]) - taken'[d] <= SegmentQueueMax
       /\ IdsOK(queued'[c], segment_id'[c], seg_counter'[c])
       /\ \A d \in Channels : d # c => queued'[d] = queued[d]
  BY <1>3, <1>11, <1>12, <1>13, <1>14, MaybeEmitPartialInv
<1>16. TypeOK'
  <2>1. /\ scores' \in [Channels -> SUBSET (Nat \X Scores)]
        /\ heard' \in [Channels -> SUBSET Timestamps]
        /\ dropped' \in [Channels -> Seq(SegmentRecords)]
    BY <1>2, <1>3, <1>6, <1>10 DEF VadInv, TypeOK
  <2>2. pc' \in {"get", "idle", "exit", "done"} /\ quiet' \subseteq Channels
        /\ clock' \in [Channels -> Nat]
    BY <1>3, SMTT(40) DEF VadInv, TypeOK, Receive, Timestamps
  <2> QED BY <1>3, <1>13, <1>15, <2>1, <2>2 DEF VadInv, TypeOK, det_vars
<1>17. DetectorInSync'
  <2>1. /\ triggered[c] /\ triggered'[c] = triggered[c]
        /\ vad_triggered'[c] = vad_triggered[c]
        /\ segment_start_ts'[c] # NoTs /\ segment_id'[c] # NoId
    <3>1. triggered' = triggered /\ vad_triggered' = vad_triggered
      BY <1>3 DEF det_vars
    <3>2. segment_start_ts'[c] # NoTs /\ segment_id'[c] # NoId
      BY <1>13 DEF NoTs
    <3> QED BY <1>1, <3>1, <3>2
  <2>2. ASSUME NEW d \in Channels, d # c
        PROVE  /\ segment_start_ts'[d] = segment_start_ts[d]
               /\ segment_id'[d] = segment_id[d]
               /\ segment_chunks'[d] = segment_chunks[d]
    BY <1>2, <1>4, <2>2 DEF VadInv, TypeOK
  <2> QED BY <1>3, <2>1, <2>2 DEF VadInv, DetectorInSync, det_vars
<1>18. IdsMinted' /\ NothingAfterFinal'
  <2>1. \A d \in Channels : IdsOK(queued'[d], segment_id'[d], seg_counter'[d])
    BY <1>4, <1>9, <1>15 DEF VadInv, TypeOK
  <2> QED BY <2>1 DEF IdsMinted, NothingAfterFinal, IdsOK
<1> QED BY <1>16, <1>17, <1>18 DEF VadInv

LEMMA FlushChannelsInv ==
  ASSUME VadInv, NEW S \in SUBSET Channels, FlushChannels(S),
         pc' \in {"get", "idle", "exit", "done"},
         UNCHANGED <<stop_event, clock, quiet, taken, heard>>
  PROVE  VadInv'
<1> DEFINE F == {c \in S : Flushable(c)}
<1>1. \A c \in F : /\ FlushedSegment(c) \in SegmentRecords
                   /\ FlushedSegment(c).id = segment_id[c]
                   /\ segment_id[c] \in Nat \ {NoId}
  <2> SUFFICES ASSUME NEW c \in F
               PROVE  /\ FlushedSegment(c) \in SegmentRecords
                      /\ FlushedSegment(c).id = segment_id[c]
                      /\ segment_id[c] \in Nat \ {NoId}
    OBVIOUS
  <2>1. /\ c \in Channels /\ segment_start_ts[c] \in Nat
        /\ segment_id[c] \in Nat \ {NoId}
        /\ segment_chunks[c] \in Seq(Timestamps)
    BY DEF VadInv, TypeOK, DetectorInSync, Flushable, Finalizable
  <2>2. segment_start_ts[c] + Len(segment_chunks[c]) \in Nat
    BY <2>1
  <2>3. FlushedSegment(c) \in SegmentRecords
    BY <2>1, <2>2, SegmentType DEF FlushedSegment
  <2> QED BY <2>1, <2>3 DEF FlushedSegment, Segment
<1>2. /\ queued' = [c \in Channels |->
            IF c \in F THEN PutNowait(c, queued[c], FlushedSegment(c))
            ELSE queued[c]]
      /\ dropped' = [c \in Channels |->
            IF c \in F /\ ~HasRoom(c, queued[c])
            THEN Append(dropped[c], FlushedSegment(c)) ELSE dropped[c]]
      /\ segment_chunks' =
           [c \in Channels |-> IF c \in F THEN <<>> ELSE segment_chunks[c]]
      /\ segment_start_ts' =
           [c \in Channels |-> IF c \in F THEN NoTs ELSE segment_start_ts[c]]
      /\ segment_id' =
           [c \in Channels |-> IF c \in F THEN NoId ELSE segment_id[c]]
      /\ last_partial' =
           [c \in Channels |-> IF c \in F THEN 0 ELSE last_partial[c]]
  BY DEF FlushChannels
<1>3. /\ triggered' =
           [c \in Channels |-> IF c \in F THEN FALSE ELSE triggered[c]]
      /\ scores' = [c \in Channels |-> IF c \in F THEN {} ELSE scores[c]]
      /\ vad_triggered' =
           [c \in Channels |-> IF c \in F THEN FALSE ELSE vad_triggered[c]]
      /\ UNCHANGED <<preroll, preroll_ts, seg_counter>>
  BY DEF FlushChannels, ResetStates
<1> HIDE DEF F
<1>4. TypeOK'
  <2>1. ASSUME NEW c \in Channels
        PROVE  /\ queued'[c] \in Seq(SegmentRecords)
               /\ dropped'[c] \in Seq(SegmentRecords)
               /\ taken'[c] <= Len(queued'[c])
               /\ Len(queued'[c]) - taken'[c] <= SegmentQueueMax
    <3>1. /\ queued[c] \in Seq(SegmentRecords) /\ taken[c] \in Nat
          /\ dropped[c] \in Seq(SegmentRecords)
          /\ taken[c] <= Len(queued[c])
          /\ Len(queued[c]) - taken[c] <= SegmentQueueMax
      BY DEF VadInv, TypeOK
    <3>2. CASE c \in F
      <4> DEFINE q == PutNowait(c, queued[c], FlushedSegment(c))
      <4>1. /\ q \in Seq(SegmentRecords)
            /\ taken[c] <= Len(q) /\ Len(q) - taken[c] <= SegmentQueueMax
        BY <1>1, <3>1, <3>2, PutNowaitType, PutNowaitRoom, VadAssumption
      <4>2. Append(dropped[c], FlushedSegment(c)) \in Seq(SegmentRecords)
        BY <1>1, <3>1, <3>2
      <4>3. queued'[c] = q
        BY <1>2, <3>2
      <4> HIDE DEF q
      <4> QED BY <1>2, <3>1, <4>1, <4>2, <4>3
    <3>3. CASE c \notin F
      BY <1>2, <3>1, <3>3
    <3> QED BY <3>2, <3>3
  <2>2. /\ queued' \in [Channels -> Seq(SegmentRecords)]
        /\ dropped' \in [Channels -> Seq(SegmentRecords)]
    BY <1>2, <2>1
  <2>3. /\ segment_chunks' \in [Channels -> Seq(Timestamps)]
        /\ segment_start_ts' \in [Channels -> Nat \cup {NoTs}]
        /\ segment_id' \in [Channels -> Nat]
        /\ last_partial' \in [Channels -> Nat]
    BY <1>2 DEF VadInv, TypeOK, NoId
  <2>4. /\ triggered' \in [Channels -> BOOLEAN]
        /\ vad_triggered' \in [Channels -> BOOLEAN]
        /\ scores' \in [Channels -> SUBSET (Nat \X Scores)]
    BY <1>3 DEF VadInv, TypeOK
  <2> QED BY <1>3, <2>1, <2>2, <2>3, <2>4 DEF VadInv, TypeOK
<1>5. DetectorInSync'
  <2> SUFFICES ASSUME NEW c \in Channels
               PROVE  /\ triggered'[c] = vad_triggered'[c]
                      /\ triggered'[c] <=> segment_start_ts'[c] # NoTs
                      /\ triggered'[c] <=> segment_id'[c] # NoId
                      /\ segment_chunks'[c] # <<>> => triggered'[c]
                      /\ preroll'[c] # <<>> => ~triggered'[c]
    BY DEF DetectorInSync
  <2>1. CASE c \in F
    BY <1>2, <1>3, <2>1
  <2>2. CASE c \notin F
    BY <1>2, <1>3, <2>2 DEF VadInv, DetectorInSync
  <2> QED BY <2>1, <2>2
<1>6. IdsMinted' /\ NothingAfterFinal'
  <2>1. ASSUME NEW c \in Channels
        PROVE  IdsOK(queued'[c], segment_id'[c], seg_counter'[c])
    <3>1. IdsOK(queued[c], segment_id[c], seg_counter[c])
      BY IdsSplit DEF VadInv
    <3>2. queued[c] \in Seq(SegmentRecords) /\ seg_counter[c] \in Nat
      BY DEF VadInv, TypeOK
    <3>3. CASE c \in F
      <4>1. IdsOK(PutNowait(c, queued[c], FlushedSegment(c)), NoId,
                  seg_counter[c])
        BY <1>1, <3>1, <3>2, <3>3, PutFinalIds
      <4> QED BY <1>2, <1>3, <3>3, <4>1
    <3>4. CASE c \notin F
      BY <1>2, <1>3, <3>1, <3>4
    <3> QED BY <3>3, <3>4
  <2> QED BY <2>1 DEF IdsMinted, NothingAfterFinal, IdsOK
<1> QED BY <1>4, <1>5, <1>6 DEF VadInv

-----------------------------------------------------------------------------
(* The inductive invariant, and the theorems read off it. *)

(* What a packet's timestamp may be. *)
LEMMA StampType ==
  ASSUME NEW t \in Timestamps, NEW ts \in Stamps(t)
  PROVE  ts \in Nat /\ t <= ts /\ ts <= t + Jitter
BY VadAssumption DEF VadAssumption, Stamps, Timestamps

LEMMA PacketCases ==
  ASSUME NEW c, HandlePacket(c)
  PROVE  \E t \in Timestamps, ts \in Nat :
           /\ t <= ts /\ ts <= t + Jitter
           /\ \/ PushPreroll(c, t, ts) \/ StartSegment(c, t, ts)
              \/ EndSegment(c, t, ts)
              \/ \E p \in Scores : GrowSegment(c, t, p) \/ CutSegment(c, t, p)
<1>1. PICK t \in Timestamps :
        \/ \E ts \in Stamps(t) : \/ PushPreroll(c, t, ts)
                                \/ StartSegment(c, t, ts)
                                \/ EndSegment(c, t, ts)
        \/ \E p \in Scores : GrowSegment(c, t, p) \/ CutSegment(c, t, p)
  BY DEF HandlePacket, Timestamps
<1>2. t \in Nat /\ t <= t /\ t <= t + Jitter
  BY VadAssumption DEF VadAssumption, Timestamps
<1> QED BY <1>1, <1>2, StampType

LEMMA NextVadInv == VadInv /\ [Next]_vars => VadInv'
<1> SUFFICES ASSUME VadInv, [Next]_vars PROVE VadInv'
  OBVIOUS
<1>1. ASSUME NEW c \in Channels, HandlePacket(c) PROVE VadInv'
  <2>1. PICK t \in Timestamps, ts \in Nat :
          /\ t <= ts /\ ts <= t + Jitter
          /\ \/ PushPreroll(c, t, ts) \/ StartSegment(c, t, ts)
             \/ EndSegment(c, t, ts)
             \/ \E p \in Scores : GrowSegment(c, t, p) \/ CutSegment(c, t, p)
    BY <1>1, PacketCases
  <2> QED BY <2>1, PushPrerollInv, StartSegmentInv, EndSegmentInv,
             GrowSegmentInv, CutSegmentInv
<1>2. ASSUME NEW c \in Channels, GoQuiet(c) \/ TakeSegment(c) PROVE VadInv'
  BY <1>2, EnvironmentInv
<1>3. CASE Empty \/ Stop \/ UNCHANGED vars
  <2>1. CASE Channels = {}
    BY <1>3, <2>1, ZenonT(60) DEF VadInv, TypeOK, DetectorInSync, IdsMinted,
       NothingAfterFinal, Empty, Stop, vars, det_vars, seg_vars, out_vars
  <2>2. CASE Channels # {}
    BY <1>3, <2>2, EnvironmentInv
  <2> QED BY <2>1, <2>2
<1>4. CASE FlushIdle
  <2>1. IdleChannels \in SUBSET Channels
    BY DEF IdleChannels, VadInv, TypeOK
  <2> QED BY <1>4, <2>1, FlushChannelsInv DEF FlushIdle
<1>5. CASE Shutdown
  BY <1>5, FlushChannelsInv DEF Shutdown
<1> QED BY <1>1, <1>2, <1>3, <1>4, <1>5 DEF Next

LEMMA AlwaysVadInv == Spec => []VadInv
<1> QED BY InitVadInv, NextVadInv, PTL DEF Spec

(* Type correctness of the worker's state: in particular a segment queue   *)
(* never exceeds its capacity, nor the preroll preroll_chunks, whatever    *)
(* the detector answers and the STT side takes.                            *)
THEOREM TypeCorrect == Spec => []TypeOK
<1>1. VadInv => TypeOK
  BY DEF VadInv
<1> QED BY <1>1, AlwaysVadInv, PTL

(* No path of the worker -- start, end, hard or soft cut, idle flush,      *)
(* shutdown flush -- lets its own idea of speech in progress differ from   *)
(* the detector's, or leaves a segment without its start or id.            *)
THEOREM StaysInSync == Spec => []DetectorInSync
<1>1. VadInv => DetectorInSync
  BY DEF VadInv
<1> QED BY <1>1, AlwaysVadInv, PTL

(* Once the final of a segment is queued, nothing with its id is queued    *)
(* after it: no late partial, no second final.                             *)
THEOREM FinalCloses == Spec => []NothingAfterFinal
<1>1. VadInv => NothingAfterFinal
  BY DEF VadInv
<1> QED BY <1>1, AlwaysVadInv, PTL

-----------------------------------------------------------------------------
(* VadWorker implements UtteranceStream on every channel, for every        *)
(* configuration: each step of the worker is a step of each channel's      *)
(* stream or leaves it alone.  VadInv says when an utterance is in         *)
(* progress.                                                               *)

(* A final that is put, or reported dropped, closes its id. *)
LEMMA PutFinalCloses ==
  ASSUME NEW c \in Channels, NEW q \in Seq(SegmentRecords),
         NEW l \in Seq(SegmentRecords), NEW seg \in SegmentRecords,
         ~seg.is_partial
  PROVE  Stream(c)!Closed(seg.id, q, PutNowait(c, q, seg), l,
                          IF HasRoom(c, q) THEN l ELSE Append(l, seg))
<1>1. CASE HasRoom(c, q)
  <2>1. /\ Append(q, seg) \in Seq(SegmentRecords)
        /\ Len(Append(q, seg)) = Len(q) + 1
        /\ Append(q, seg)[Len(q) + 1] = seg
    OBVIOUS
  <2>2. seg \in Stream(c)!Elements(Append(q, seg))
    BY <2>1 DEF Stream!Elements
  <2> QED BY <1>1, <2>2 DEF Stream!Closed, Stream!Room, PutNowait, HasRoom
<1>2. CASE ~HasRoom(c, q)
  <2>1. /\ Append(l, seg) \in Seq(SegmentRecords)
        /\ Len(Append(l, seg)) = Len(l) + 1
        /\ Append(l, seg)[Len(l) + 1] = seg
    OBVIOUS
  <2>2. seg \in Stream(c)!Elements(Append(l, seg))
    BY <2>1 DEF Stream!Elements
  <2> QED BY <1>2, <2>2 DEF Stream!Closed, Stream!Room, PutNowait, HasRoom
<1> QED BY <1>1, <1>2

LEMMA PutPartialShows ==
  ASSUME NEW c \in Channels, NEW q \in Seq(SegmentRecords),
         NEW seg \in SegmentRecords, seg.is_partial
  PROVE  Stream(c)!Shown(seg.id, q, PutNowait(c, q, seg))
<1>1. CASE HasRoom(c, q)
  <2>1. /\ Append(q, seg) \in Seq(SegmentRecords)
        /\ Len(Append(q, seg)) = Len(q) + 1
        /\ Append(q, seg)[Len(q) + 1] = seg
    OBVIOUS
  <2>2. seg \in Stream(c)!Elements(Append(q, seg))
    BY <2>1 DEF Stream!Elements
  <2> QED BY <1>1, <2>2 DEF Stream!Shown, Stream!Room, PutNowait, HasRoom
<1>2. CASE ~HasRoom(c, q)
  BY <1>2 DEF Stream!Shown, PutNowait
<1> QED BY <1>1, <1>2

(* What MaybeEmitPartial does to the queue it is given. *)
LEMMA MaybeEmitPartialShows ==
  ASSUME NEW c \in Channels, NEW q \in Seq(SegmentRecords), NEW last \in Nat,
         queued \in [Channels -> Seq(SegmentRecords)],
         segment_chunks' \in [Channels -> Seq(Timestamps)],
         segment_start_ts'[c] \in Nat, segment_id'[c] \in Nat \ {NoId},
         MaybeEmitPartial(c, q, last)
  PROVE  /\ Stream(c)!Shown(segment_id'[c], q, queued'[c])
         /\ \/ queued'[c] = q
            \/ \E seg \in SegmentRecords : queued'[c] = Append(q, seg)
         /\ \A d \in Channels : d # c => queued'[d] = queued[d]
<1> DEFINE n == Len(segment_chunks'[c])
           prefix == Segment(segment_id'[c], segment_start_ts'[c],
                             segment_start_ts'[c] + n, segment_chunks'[c], TRUE)
           r == IF PartialDue(n, last) THEN PutNowait(c, q, prefix) ELSE q
<1>1. queued' = [queued EXCEPT ![c] = r]
  BY DEF MaybeEmitPartial
<1>2. prefix \in SegmentRecords
  <2>1. segment_chunks'[c] \in Seq(Timestamps) /\ n \in Nat
    OBVIOUS
  <2>2. segment_start_ts'[c] + n \in Nat
    BY <2>1
  <2> QED BY <2>1, <2>2, SegmentType
<1>3. prefix.id = segment_id'[c] /\ prefix.is_partial
  BY DEF Segment
<1> HIDE DEF prefix
<1>4. Stream(c)!Shown(segment_id'[c], q, r)
  <2>1. Stream(c)!Shown(segment_id'[c], q, PutNowait(c, q, prefix))
    BY <1>2, <1>3, PutPartialShows
  <2>2. Stream(c)!Shown(segment_id'[c], q, q)
    BY DEF Stream!Shown
  <2> QED BY <2>1, <2>2
<1>5. r = q \/ r = Append(q, prefix)
  BY DEF PutNowait
<1> HIDE DEF r
<1>6. queued'[c] = r
  BY <1>1
<1> QED BY <1>1, <1>2, <1>4, <1>5, <1>6

-----------------------------------------------------------------------------
(* One lemma per action. *)

LEMMA StartBegins ==
  ASSUME VadInv, NEW c \in Channels, NEW t \in Timestamps, NEW ts \in Nat,
         StartSegment(c, t, ts)
  PROVE  Stream(c)!Begin
<1>1. segment_id[c] = NoId
  BY DEF VadInv, DetectorInSync, StartSegment
<1>2. /\ segment_id'[c] = seg_counter[c] + 1
      /\ seg_counter'[c] = seg_counter[c] + 1
  BY DEF VadInv, TypeOK, StartSegment, NewSegmentId
<1>3. UNCHANGED <<queued[c], dropped[c], taken[c]>>
  BY DEF StartSegment, out_vars, Receive
<1> QED BY <1>1, <1>2, <1>3 DEF Stream!Begin, NoId

LEMMA GrowRevises ==
  ASSUME VadInv, NEW c \in Channels, NEW t \in Timestamps, NEW p \in Scores,
         GrowSegment(c, t, p)
  PROVE  /\ Stream(c)!Revise
         /\ \A d \in Channels : d # c => queued'[d] = queued[d]
<1>1. /\ segment_start_ts[c] \in Nat /\ segment_id[c] \in Nat \ {NoId}
      /\ WithPacket(c, t) \in Seq(Timestamps)
  <2>1. vad_triggered[c]
    BY DEF GrowSegment
  <2> QED BY <2>1, MidSpeech
<1>2. /\ segment_chunks' = [segment_chunks EXCEPT ![c] = WithPacket(c, t)]
      /\ UNCHANGED <<segment_start_ts, segment_id, seg_counter, dropped, taken>>
      /\ MaybeEmitPartial(c, queued[c], last_partial[c])
  BY DEF GrowSegment, Receive
<1>3. /\ segment_chunks' \in [Channels -> Seq(Timestamps)]
      /\ queued \in [Channels -> Seq(SegmentRecords)]
      /\ last_partial[c] \in Nat
  BY <1>1, <1>2 DEF VadInv, TypeOK
<1>4. queued[c] \in Seq(SegmentRecords)
  BY <1>3
<1>5. /\ Stream(c)!Shown(segment_id'[c], queued[c], queued'[c])
      /\ \A d \in Channels : d # c => queued'[d] = queued[d]
  BY <1>1, <1>2, <1>3, <1>4, MaybeEmitPartialShows
<1> QED BY <1>1, <1>2, <1>5 DEF Stream!Revise, NoId

LEMMA EndEnds ==
  ASSUME VadInv, NEW c \in Channels, NEW t \in Timestamps, NEW ts \in Nat,
         EndSegment(c, t, ts)
  PROVE  Stream(c)!End
<1> DEFINE chunks == WithPacket(c, t)
           final == Segment(segment_id[c], segment_start_ts[c], ts, chunks, FALSE)
<1>1. /\ segment_start_ts[c] \in Nat /\ segment_id[c] \in Nat \ {NoId}
      /\ chunks \in Seq(Timestamps) /\ Finalizable(c, chunks)
  <2>1. vad_triggered[c]
    BY DEF EndSegment
  <2> QED BY <2>1, MidSpeech
<1>2. final \in SegmentRecords /\ final.id = segment_id[c] /\ ~final.is_partial
  <2>1. final \in SegmentRecords
    BY <1>1, SegmentType
  <2>2. final.id = segment_id[c] /\ ~final.is_partial
    BY DEF Segment
  <2> QED BY <2>1, <2>2
<1>3. /\ queued' = [queued EXCEPT ![c] = PutNowait(c, queued[c], final)]
      /\ dropped' = [dropped EXCEPT ![c] =
           IF HasRoom(c, queued[c]) THEN dropped[c] ELSE Append(dropped[c], final)]
      /\ segment_id' = [segment_id EXCEPT ![c] = NoId]
      /\ UNCHANGED <<seg_counter, taken>>
  BY <1>1 DEF EndSegment, FanoutPut, Receive
<1> HIDE DEF final, chunks
<1>4. queued[c] \in Seq(SegmentRecords) /\ dropped[c] \in Seq(SegmentRecords)
  BY DEF VadInv, TypeOK
<1>5. Stream(c)!Closed(segment_id[c], queued[c],
        PutNowait(c, queued[c], final), dropped[c],
        IF HasRoom(c, queued[c]) THEN dropped[c] ELSE Append(dropped[c], final))
  BY <1>2, <1>4, PutFinalCloses
<1>6. /\ queued'[c] = PutNowait(c, queued[c], final)
      /\ dropped'[c] = IF HasRoom(c, queued[c]) THEN dropped[c]
                       ELSE Append(dropped[c], final)
      /\ segment_id'[c] = NoId
  BY <1>3 DEF VadInv, TypeOK
<1>7. Stream(c)!Closed(segment_id[c], queued[c], queued'[c], dropped[c],
                       dropped'[c])
  BY <1>5, <1>6
<1> QED BY <1>1, <1>3, <1>6, <1>7 DEF Stream!End, NoId

LEMMA CutCuts ==
  ASSUME VadInv, NEW c \in Channels, NEW t \in Timestamps, NEW p \in Scores,
         CutSegment(c, t, p)
  PROVE  /\ Stream(c)!Cut
         /\ \A d \in Channels : d # c => queued'[d] = queued[d]
<1> DEFINE chunks == WithPacket(c, t)
           n == Len(chunks)
           head(k) == Segment(segment_id[c], segment_start_ts[c],
                              segment_start_ts[c] + k, SubSeq(chunks, 1, k),
                              FALSE)
<1>1. /\ segment_start_ts[c] \in Nat /\ segment_id[c] \in Nat \ {NoId}
      /\ chunks \in Seq(Timestamps) /\ n \in Nat
  <2>1. vad_triggered[c]
    BY DEF CutSegment
  <2> QED BY <2>1, MidSpeech
<1>2. PICK cut \in 1..n :
        /\ segment_chunks' = [segment_chunks EXCEPT ![c] = CutTail(chunks, cut)]
        /\ segment_start_ts' =
             [segment_start_ts EXCEPT ![c] = segment_start_ts[c] + cut]
        /\ NewSegmentId(c)
        /\ dropped' = [dropped EXCEPT ![c] =
             IF HasRoom(c, queued[c]) THEN dropped[c]
             ELSE Append(dropped[c], head(cut))]
        /\ MaybeEmitPartial(c, PutNowait(c, queued[c], head(cut)), 0)
  BY DEF CutSegment
<1>3. UNCHANGED taken
  BY DEF CutSegment, Receive
<1>4. /\ segment_id'[c] = seg_counter[c] + 1
      /\ seg_counter'[c] = seg_counter[c] + 1
      /\ seg_counter[c] + 1 \in Nat \ {NoId}
  BY <1>2 DEF NewSegmentId, VadInv, TypeOK, NoId
<1>5. /\ CutTail(chunks, cut) \in Seq(Timestamps)
      /\ SubSeq(chunks, 1, cut) \in Seq(Timestamps)
      /\ segment_start_ts[c] + cut \in Nat
  BY <1>1, CutTailType
<1>6. /\ head(cut) \in SegmentRecords
      /\ head(cut).id = segment_id[c] /\ ~head(cut).is_partial
  <2>1. head(cut) \in SegmentRecords
    BY <1>1, <1>5, SegmentType
  <2>2. head(cut).id = segment_id[c] /\ ~head(cut).is_partial
    BY DEF Segment
  <2> QED BY <2>1, <2>2
<1>7. /\ segment_chunks' \in [Channels -> Seq(Timestamps)]
      /\ segment_start_ts'[c] \in Nat
  BY <1>2, <1>5 DEF VadInv, TypeOK
<1> DEFINE q == PutNowait(c, queued[c], head(cut))
           l == IF HasRoom(c, queued[c]) THEN dropped[c]
                ELSE Append(dropped[c], head(cut))
<1>8. MaybeEmitPartial(c, q, 0) /\ dropped' = [dropped EXCEPT ![c] = l]
  BY <1>2
<1> HIDE DEF head, chunks
<1>9. /\ queued \in [Channels -> Seq(SegmentRecords)]
      /\ dropped \in [Channels -> Seq(SegmentRecords)]
      /\ queued[c] \in Seq(SegmentRecords) /\ dropped[c] \in Seq(SegmentRecords)
  BY DEF VadInv, TypeOK
<1>10. /\ q \in Seq(SegmentRecords)
       /\ Stream(c)!Closed(segment_id[c], queued[c], q, dropped[c], l)
  BY <1>6, <1>9, PutNowaitType, PutFinalCloses
<1>11. dropped'[c] = l
  BY <1>8, <1>9
<1> HIDE DEF q, l
<1>12. /\ Stream(c)!Shown(seg_counter[c] + 1, q, queued'[c])
       /\ \/ queued'[c] = q
          \/ \E seg \in SegmentRecords : queued'[c] = Append(q, seg)
       /\ \A d \in Channels : d # c => queued'[d] = queued[d]
  BY <1>4, <1>7, <1>8, <1>9, <1>10, MaybeEmitPartialShows
<1>13. q \in {queued'[c], SubSeq(queued'[c], 1, Len(queued'[c]) - 1)}
  <2>1. ASSUME NEW seg \in SegmentRecords, queued'[c] = Append(q, seg)
        PROVE  SubSeq(queued'[c], 1, Len(queued'[c]) - 1) = q
    BY <1>10, <2>1
  <2> QED BY <1>12, <2>1
<1> QED BY <1>1, <1>3, <1>4, <1>10, <1>11, <1>12, <1>13 DEF Stream!Cut, NoId

LEMMA FlushEnds ==
  ASSUME VadInv, NEW S \in SUBSET Channels, FlushChannels(S), UNCHANGED taken,
         NEW c \in Channels
  PROVE  Stream(c)!End \/ UNCHANGED Stream(c)!stream
<1> DEFINE F == {d \in S : Flushable(d)}
<1>1. /\ queued'[c] = IF c \in F THEN PutNowait(c, queued[c], FlushedSegment(c))
                      ELSE queued[c]
      /\ dropped'[c] = IF c \in F /\ ~HasRoom(c, queued[c])
                       THEN Append(dropped[c], FlushedSegment(c)) ELSE dropped[c]
      /\ segment_id'[c] = IF c \in F THEN NoId ELSE segment_id[c]
      /\ seg_counter'[c] = seg_counter[c] /\ taken'[c] = taken[c]
  BY DEF FlushChannels
<1>2. CASE c \notin F
  BY <1>1, <1>2 DEF Stream!stream
<1>3. CASE c \in F
  <2> DEFINE final == FlushedSegment(c)
  <2>1. /\ segment_start_ts[c] \in Nat /\ segment_id[c] \in Nat \ {NoId}
        /\ segment_chunks[c] \in Seq(Timestamps)
    BY <1>3 DEF VadInv, TypeOK, DetectorInSync, Flushable, Finalizable
  <2>2. final \in SegmentRecords
    <3>1. segment_start_ts[c] + Len(segment_chunks[c]) \in Nat
      BY <2>1
    <3> QED BY <2>1, <3>1, SegmentType DEF FlushedSegment
  <2>3. final.id = segment_id[c] /\ ~final.is_partial
    BY DEF FlushedSegment, Segment
  <2> HIDE DEF final, F
  <2>4. queued[c] \in Seq(SegmentRecords) /\ dropped[c] \in Seq(SegmentRecords)
    BY DEF VadInv, TypeOK
  <2>5. Stream(c)!Closed(segment_id[c], queued[c],
          PutNowait(c, queued[c], final), dropped[c],
          IF HasRoom(c, queued[c]) THEN dropped[c] ELSE Append(dropped[c], final))
    BY <2>2, <2>3, <2>4, PutFinalCloses
  <2>6. /\ queued'[c] = PutNowait(c, queued[c], final)
        /\ dropped'[c] = IF HasRoom(c, queued[c]) THEN dropped[c]
                         ELSE Append(dropped[c], final)
        /\ segment_id'[c] = NoId
    BY <1>1, <1>3 DEF final
  <2>7. Stream(c)!Closed(segment_id[c], queued[c], queued'[c], dropped[c],
                         dropped'[c])
    BY <2>5, <2>6
  <2> QED BY <1>1, <2>1, <2>6, <2>7 DEF Stream!End, NoId
<1> QED BY <1>2, <1>3

-----------------------------------------------------------------------------
(* The refinement. *)

(* A step on channel c of the worker, seen from channel d. *)
LEMMA PacketStep ==
  ASSUME VadInv, NEW c \in Channels, HandlePacket(c), NEW d \in Channels
  PROVE  [Stream(d)!Next]_(Stream(d)!stream)
<1>1. PICK t \in Timestamps, ts \in Nat :
        /\ t <= ts /\ ts <= t + Jitter
        /\ \/ PushPreroll(c, t, ts) \/ StartSegment(c, t, ts)
           \/ EndSegment(c, t, ts)
           \/ \E p \in Scores : GrowSegment(c, t, p) \/ CutSegment(c, t, p)
  BY PacketCases
<1>2. CASE PushPreroll(c, t, ts)
  BY <1>2 DEF PushPreroll, Receive, seg_vars, out_vars, Stream!stream
<1>3. CASE StartSegment(c, t, ts)
  <2>1. CASE d = c
    BY <1>3, <2>1, StartBegins DEF Stream!Next
  <2>2. CASE d # c
    BY <1>3, <2>2 DEF VadInv, TypeOK, StartSegment, NewSegmentId, Receive,
       out_vars, Stream!stream
  <2> QED BY <2>1, <2>2
<1>4. CASE EndSegment(c, t, ts)
  <2>1. CASE d = c
    BY <1>4, <2>1, EndEnds DEF Stream!Next
  <2>2. CASE d # c
    <3> DEFINE ends == Finalizable(c, WithPacket(c, t))
               final == Segment(segment_id[c], segment_start_ts[c], ts,
                                WithPacket(c, t), FALSE)
    <3>1. /\ ends => /\ FanoutPut(c, final)
                     /\ segment_id' = [segment_id EXCEPT ![c] = NoId]
          /\ ~ends => UNCHANGED <<segment_id, queued, dropped>>
      BY <1>4 DEF EndSegment, out_vars
    <3> HIDE DEF ends, final
    <3>2. /\ segment_id'[d] = segment_id[d]
          /\ queued'[d] = queued[d] /\ dropped'[d] = dropped[d]
      BY <2>2, <3>1 DEF VadInv, TypeOK, FanoutPut
    <3>3. seg_counter'[d] = seg_counter[d] /\ taken'[d] = taken[d]
      BY <1>4 DEF EndSegment, Receive
    <3> QED BY <3>2, <3>3 DEF Stream!stream
  <2> QED BY <2>1, <2>2
<1>5. ASSUME NEW p \in Scores, GrowSegment(c, t, p)
      PROVE  [Stream(d)!Next]_(Stream(d)!stream)
  <2>1. CASE d = c
    BY <1>5, <2>1, GrowRevises DEF Stream!Next
  <2>2. CASE d # c
    <3>1. queued'[d] = queued[d]
      BY <1>5, <2>2, GrowRevises
    <3> QED BY <1>5, <3>1 DEF GrowSegment, Receive, Stream!stream
  <2> QED BY <2>1, <2>2
<1>6. ASSUME NEW p \in Scores, CutSegment(c, t, p)
      PROVE  [Stream(d)!Next]_(Stream(d)!stream)
  <2>1. CASE d = c
    BY <1>6, <2>1, CutCuts DEF Stream!Next
  <2>2. CASE d # c
    <3>1. queued'[d] = queued[d]
      BY <1>6, <2>2, CutCuts
    <3>2. /\ segment_id'[d] = segment_id[d] /\ seg_counter'[d] = seg_counter[d]
          /\ dropped'[d] = dropped[d] /\ taken'[d] = taken[d]
      BY <1>6, <2>2 DEF VadInv, TypeOK, CutSegment, NewSegmentId, Receive
    <3> QED BY <3>1, <3>2 DEF Stream!stream
  <2> QED BY <2>1, <2>2
<1> QED BY <1>1, <1>2, <1>3, <1>4, <1>5, <1>6

LEMMA StreamStep ==
  ASSUME VadInv, [Next]_vars, NEW d \in Channels
  PROVE  [Stream(d)!Next]_(Stream(d)!stream)
<1>1. ASSUME NEW c \in Channels, HandlePacket(c)
      PROVE  [Stream(d)!Next]_(Stream(d)!stream)
  BY <1>1, PacketStep
<1>2. ASSUME NEW c \in Channels, TakeSegment(c)
      PROVE  [Stream(d)!Next]_(Stream(d)!stream)
  <2>1. CASE d = c
    BY <1>2, <2>1 DEF VadInv, TypeOK, TakeSegment, seg_vars, out_vars,
       Stream!Take, Stream!Next
  <2>2. CASE d # c
    BY <1>2, <2>2 DEF VadInv, TypeOK, TakeSegment, seg_vars, out_vars,
       Stream!stream
  <2> QED BY <2>1, <2>2
<1>3. ASSUME NEW c \in Channels, GoQuiet(c)
      PROVE  [Stream(d)!Next]_(Stream(d)!stream)
  BY <1>3 DEF GoQuiet, seg_vars, out_vars, Stream!stream
<1>4. CASE Empty \/ Stop \/ UNCHANGED vars
  BY <1>4 DEF Empty, Stop, vars, seg_vars, out_vars, Stream!stream
<1>5. CASE FlushIdle
  <2>1. IdleChannels \in SUBSET Channels
    BY DEF IdleChannels, VadInv, TypeOK
  <2> QED BY <1>5, <2>1, FlushEnds DEF FlushIdle, Stream!Next
<1>6. CASE Shutdown
  BY <1>6, FlushEnds DEF Shutdown, Stream!Next
<1> QED BY <1>1, <1>2, <1>3, <1>4, <1>5, <1>6 DEF Next

(* The worker implements the utterance stream on every channel: whatever   *)
(* the detector answers and however full the queue, each utterance it      *)
(* begins is closed once, by a final or a reported drop, before the next.  *)
THEOREM Refinement == Spec => ImplementsStream
<1>1. Init => \A c \in Channels : Stream(c)!Init
  BY DEF Init, Stream!Init, NoId
<1>2. VadInv /\ [Next]_vars
        => [\A c \in Channels : [Stream(c)!Next]_(Stream(c)!stream)]_vars
  BY StreamStep
<1> QED BY <1>1, <1>2, AlwaysVadInv, PTL DEF Spec, ImplementsStream

-----------------------------------------------------------------------------
(* What the refinement gives the reader of a channel's segment queue: the  *)
(* promise of UtteranceStream, kept by VadWorker.                          *)

CONSTANT ch   (* any channel *)

opened == seg_counter[ch]
current == segment_id[ch]
out == queued[ch]
shed == dropped[ch]

Reader == INSTANCE UtteranceStream WITH Capacity <- SegmentQueueMax,
                                        lost <- shed, taken <- taken[ch]

IsSeq(s) == s \in Seq(Reader!Elements(s))

FinalsIn(s, id) == {i \in 1..Len(s) : s[i].id = id /\ ~s[i].is_partial}
LostIn(s, id) == {i \in 1..Len(s) : s[i].id = id}

(* The entries are of the first n utterances, *)
Upto(s, n) == IsSeq(s) /\ \A i \in 1..Len(s) : s[i].id \in 1..n

(* and in the order these began.              *)
Ordered(s) == \A i, j \in 1..Len(s) : i < j => s[i].id <= s[j].id

ExactlyOne(S) == \E i \in S : S = {i}

(* One of the two holds the final of id. *)
ClosedBy(q, l, id) ==
  \/ LostIn(l, id) = {} /\ ExactlyOne(FinalsIn(q, id))
  \/ FinalsIn(q, id) = {} /\ ExactlyOne(LostIn(l, id))

OpenIn(q, l, id) == FinalsIn(q, id) = {} /\ LostIn(l, id) = {}

(* The inductive invariant: the utterance in progress is the last and has  *)
(* no final yet; each before it has one.                                   *)
StreamInv ==
  /\ opened \in Nat /\ current \in {0, opened}
  /\ Upto(out, opened) /\ Ordered(out) /\ Upto(shed, opened)
  /\ \A id \in 1..opened :
       IF id = current THEN OpenIn(out, shed, id) ELSE ClosedBy(out, shed, id)

LEMMA AppendSeq ==
  ASSUME NEW s, NEW e, IsSeq(s)
  PROVE  /\ IsSeq(Append(s, e))
         /\ Len(s) \in Nat
         /\ Len(Append(s, e)) = Len(s) + 1
         /\ \A i \in 1..Len(s) : Append(s, e)[i] = s[i]
         /\ Append(s, e)[Len(s) + 1] = e
<1> DEFINE S == Reader!Elements(s) \cup {e}
<1>1. s \in Seq(Reader!Elements(s))
  BY DEF IsSeq
<1> HIDE DEF S
<1>2. Reader!Elements(s) \subseteq S /\ e \in S
  BY DEF S
<1>3. s \in Seq(S)
  BY <1>1, <1>2
<1>4. /\ Append(s, e) \in Seq(S) /\ Len(s) \in Nat
      /\ Len(Append(s, e)) = Len(s) + 1
      /\ \A i \in 1..Len(s) : Append(s, e)[i] = s[i]
      /\ Append(s, e)[Len(s) + 1] = e
  BY <1>2, <1>3
<1> HIDE DEF IsSeq
<1> DEFINE r == Append(s, e)
<1>5. r \in Seq(S) /\ \A i \in 1..Len(r) : r[i] \in Reader!Elements(r)
  BY <1>4 DEF Reader!Elements
<1> HIDE DEF r
<1>6. r \in Seq(Reader!Elements(r))
  BY <1>5
<1> QED BY <1>4, <1>6 DEF IsSeq, r

LEMMA AppendUpto ==
  ASSUME NEW s, NEW e, NEW n \in Nat, Upto(s, n), e.id \in 1..n
  PROVE  Upto(Append(s, e), n)
BY AppendSeq DEF Upto

LEMMA AppendOrdered ==
  ASSUME NEW s, NEW e, NEW n \in Nat, Upto(s, n), Ordered(s), e.id = n
  PROVE  Ordered(Append(s, e))
<1> DEFINE r == Append(s, e)
<1>1. /\ Len(s) \in Nat /\ Len(r) = Len(s) + 1
      /\ \A i \in 1..Len(s) : r[i] = s[i]
      /\ r[Len(s) + 1] = e
  BY AppendSeq DEF Upto
<1> HIDE DEF r
<1>2. ASSUME NEW i \in 1..Len(r), NEW j \in 1..Len(r), i < j
      PROVE  r[i].id <= r[j].id
  <2>1. i \in 1..Len(s) /\ r[i] = s[i] /\ s[i].id \in 1..n
    BY <1>1, <1>2 DEF Upto
  <2>2. CASE j = Len(s) + 1
    BY <1>1, <2>1, <2>2
  <2>3. CASE j \in 1..Len(s)
    BY <1>1, <1>2, <2>1, <2>3 DEF Ordered
  <2> QED BY <1>1, <2>2, <2>3
<1> QED BY <1>2 DEF Ordered, r

LEMMA AppendFinals ==
  ASSUME NEW s, NEW e, NEW id, IsSeq(s)
  PROVE  /\ e.is_partial \/ e.id # id =>
              FinalsIn(Append(s, e), id) = FinalsIn(s, id)
         /\ ~e.is_partial /\ e.id = id /\ FinalsIn(s, id) = {} =>
              ExactlyOne(FinalsIn(Append(s, e), id))
<1> DEFINE r == Append(s, e)
<1>1. /\ Len(s) \in Nat /\ Len(r) = Len(s) + 1
      /\ \A i \in 1..Len(s) : r[i] = s[i]
      /\ r[Len(s) + 1] = e
  BY AppendSeq
<1> HIDE DEF r
<1>2. 1..Len(r) = (1..Len(s)) \cup {Len(s) + 1}
  BY <1>1
<1>3. ASSUME e.is_partial \/ e.id # id
      PROVE  FinalsIn(r, id) = FinalsIn(s, id)
  BY <1>1, <1>2, <1>3 DEF FinalsIn
<1>4. ASSUME ~e.is_partial, e.id = id, FinalsIn(s, id) = {}
      PROVE  ExactlyOne(FinalsIn(r, id))
  <2>1. FinalsIn(r, id) = {Len(s) + 1}
    BY <1>1, <1>2, <1>4 DEF FinalsIn
  <2> QED BY <2>1 DEF ExactlyOne
<1> QED BY <1>3, <1>4 DEF r

LEMMA AppendLost ==
  ASSUME NEW s, NEW e, NEW id, IsSeq(s)
  PROVE  /\ e.id # id => LostIn(Append(s, e), id) = LostIn(s, id)
         /\ e.id = id /\ LostIn(s, id) = {} =>
              ExactlyOne(LostIn(Append(s, e), id))
<1> DEFINE r == Append(s, e)
<1>1. /\ Len(s) \in Nat /\ Len(r) = Len(s) + 1
      /\ \A i \in 1..Len(s) : r[i] = s[i]
      /\ r[Len(s) + 1] = e
  BY AppendSeq
<1> HIDE DEF r
<1>2. 1..Len(r) = (1..Len(s)) \cup {Len(s) + 1}
  BY <1>1
<1>3. ASSUME e.id # id PROVE LostIn(r, id) = LostIn(s, id)
  BY <1>1, <1>2, <1>3 DEF LostIn
<1>4. ASSUME e.id = id, LostIn(s, id) = {} PROVE ExactlyOne(LostIn(r, id))
  <2>1. LostIn(r, id) = {Len(s) + 1}
    BY <1>1, <1>2, <1>4 DEF LostIn
  <2> QED BY <2>1 DEF ExactlyOne
<1> QED BY <1>3, <1>4 DEF r

(* A partial adds no final. *)
LEMMA ShownKeeps ==
  ASSUME NEW n \in Nat \ {0}, NEW q, NEW r, Upto(q, n), Ordered(q),
         Reader!Shown(n, q, r)
  PROVE  /\ Upto(r, n) /\ Ordered(r)
         /\ \A id : FinalsIn(r, id) = FinalsIn(q, id)
<1>1. CASE r = q
  BY <1>1
<1>2. ASSUME NEW seg, seg.id = n, seg.is_partial, r = Append(q, seg)
      PROVE  /\ Upto(r, n) /\ Ordered(r)
             /\ \A id : FinalsIn(r, id) = FinalsIn(q, id)
  <2>1. n \in 1..n
    OBVIOUS
  <2>2. Upto(r, n) /\ Ordered(r)
    BY <1>2, <2>1, AppendUpto, AppendOrdered
  <2>3. \A id : FinalsIn(r, id) = FinalsIn(q, id)
    BY <1>2, AppendFinals DEF Upto
  <2> QED BY <2>2, <2>3
<1> QED BY <1>1, <1>2 DEF Reader!Shown

(* Closing the last utterance gives it its final and no other one another. *)
LEMMA ClosedKeeps ==
  ASSUME NEW n \in Nat \ {0}, NEW q, NEW r, NEW l, NEW m,
         Upto(q, n), Ordered(q), Upto(l, n), OpenIn(q, l, n),
         Reader!Closed(n, q, r, l, m)
  PROVE  /\ Upto(r, n) /\ Ordered(r) /\ Upto(m, n)
         /\ ClosedBy(r, m, n)
         /\ \A id : id # n => /\ FinalsIn(r, id) = FinalsIn(q, id)
                              /\ LostIn(m, id) = LostIn(l, id)
<1> DEFINE Goal == /\ Upto(r, n) /\ Ordered(r) /\ Upto(m, n)
                   /\ ClosedBy(r, m, n)
                   /\ \A id : id # n => /\ FinalsIn(r, id) = FinalsIn(q, id)
                                        /\ LostIn(m, id) = LostIn(l, id)
<1>1. ASSUME NEW seg, seg.id = n, ~seg.is_partial, r = Append(q, seg), m = l
      PROVE  Goal
  <2>1. Upto(r, n) /\ Ordered(r)
    BY <1>1, AppendUpto, AppendOrdered
  <2>2. ExactlyOne(FinalsIn(r, n)) /\ LostIn(m, n) = {}
    BY <1>1, AppendFinals DEF Upto, OpenIn
  <2>3. \A id : id # n => FinalsIn(r, id) = FinalsIn(q, id)
    BY <1>1, AppendFinals DEF Upto
  <2> QED BY <1>1, <2>1, <2>2, <2>3 DEF ClosedBy
<1>2. ASSUME NEW seg, seg.id = n, m = Append(l, seg), r = q
      PROVE  Goal
  <2>1. Upto(m, n)
    BY <1>2, AppendUpto
  <2>2. ExactlyOne(LostIn(m, n)) /\ FinalsIn(r, n) = {}
    BY <1>2, AppendLost DEF Upto, OpenIn
  <2>3. \A id : id # n => LostIn(m, id) = LostIn(l, id)
    BY <1>2, AppendLost DEF Upto
  <2> QED BY <1>2, <2>1, <2>2, <2>3 DEF ClosedBy
<1> QED BY <1>1, <1>2 DEF Reader!Closed

(* An utterance that has just begun has nothing on either list. *)
LEMMA BeginsOpen ==
  ASSUME NEW n \in Nat, NEW q, NEW l, Upto(q, n), Upto(l, n)
  PROVE  Upto(q, n + 1) /\ Upto(l, n + 1) /\ OpenIn(q, l, n + 1)
<1>1. 1..n \subseteq 1..(n + 1) /\ n + 1 \notin 1..n
  OBVIOUS
<1>2. Upto(q, n + 1) /\ Upto(l, n + 1)
  BY <1>1 DEF Upto
<1>3. OpenIn(q, l, n + 1)
  BY <1>1 DEF Upto, OpenIn, FinalsIn, LostIn
<1> QED BY <1>2, <1>3

LEMMA InitInv == Reader!Init => StreamInv
<1> SUFFICES ASSUME Reader!Init PROVE StreamInv
  OBVIOUS
<1>1. /\ opened = 0 /\ current = 0 /\ out = <<>> /\ shed = <<>>
  BY DEF Reader!Init
<1>2. Upto(out, opened) /\ Ordered(out) /\ Upto(shed, opened)
  BY <1>1 DEF Upto, IsSeq, Reader!Elements, Ordered
<1> QED BY <1>1, <1>2 DEF StreamInv

LEMMA BeginKeeps == StreamInv /\ Reader!Begin => StreamInv'
<1> SUFFICES ASSUME StreamInv, Reader!Begin PROVE StreamInv'
  OBVIOUS
<1>1. /\ opened \in Nat /\ opened' = opened + 1 /\ current' = opened + 1
      /\ out' = out /\ shed' = shed /\ current = 0
  BY DEF Reader!Begin, StreamInv
<1>2. /\ Upto(out, opened + 1) /\ Upto(shed, opened + 1)
      /\ OpenIn(out, shed, opened + 1)
  BY <1>1, BeginsOpen DEF StreamInv
<1>3. \A id \in 1..opened : ClosedBy(out, shed, id)
  BY <1>1 DEF StreamInv
<1>4. Ordered(out)
  BY DEF StreamInv
<1> QED BY <1>1, <1>2, <1>3, <1>4 DEF StreamInv

LEMMA ReviseKeeps == StreamInv /\ Reader!Revise => StreamInv'
<1> SUFFICES ASSUME StreamInv, Reader!Revise PROVE StreamInv'
  OBVIOUS
<1>1. /\ opened \in Nat \ {0} /\ current = opened
      /\ opened' = opened /\ current' = current /\ shed' = shed
      /\ Reader!Shown(opened, out, out')
  BY DEF Reader!Revise, StreamInv
<1>2. Upto(out, opened) /\ Ordered(out) /\ Upto(shed, opened)
  BY DEF StreamInv
<1>3. /\ Upto(out', opened) /\ Ordered(out')
      /\ \A id : FinalsIn(out', id) = FinalsIn(out, id)
  BY <1>1, <1>2, ShownKeeps
<1>4. \A id \in 1..opened :
        IF id = current THEN OpenIn(out', shed, id)
                        ELSE ClosedBy(out', shed, id)
  BY <1>3 DEF StreamInv, OpenIn, ClosedBy
<1> QED BY <1>1, <1>2, <1>3, <1>4 DEF StreamInv

LEMMA EndKeeps == StreamInv /\ Reader!End => StreamInv'
<1> SUFFICES ASSUME StreamInv, Reader!End PROVE StreamInv'
  OBVIOUS
<1>1. /\ opened \in Nat \ {0} /\ current = opened
      /\ opened' = opened /\ current' = 0
      /\ Reader!Closed(opened, out, out', shed, shed')
  BY DEF Reader!End, StreamInv
<1>2. /\ Upto(out, opened) /\ Ordered(out) /\ Upto(shed, opened)
      /\ OpenIn(out, shed, opened)
  BY <1>1 DEF StreamInv
<1>3. /\ Upto(out', opened) /\ Ordered(out') /\ Upto(shed', opened)
      /\ ClosedBy(out', shed', opened)
      /\ \A id : id # opened => /\ FinalsIn(out', id) = FinalsIn(out, id)
                                /\ LostIn(shed', id) = LostIn(shed, id)
  BY <1>1, <1>2, ClosedKeeps
<1>4. \A id \in 1..opened : ClosedBy(out', shed', id)
  BY <1>1, <1>3 DEF StreamInv, ClosedBy
<1> QED BY <1>1, <1>3, <1>4 DEF StreamInv

LEMMA CutKeeps == StreamInv /\ Reader!Cut => StreamInv'
<1> SUFFICES ASSUME StreamInv, Reader!Cut PROVE StreamInv'
  OBVIOUS
<1> DEFINE n == opened
<1>1. PICK q : /\ Reader!Closed(n, out, q, shed, shed')
               /\ Reader!Shown(n + 1, q, out')
  BY DEF Reader!Cut, StreamInv
<1>2. /\ n \in Nat \ {0} /\ current = n
      /\ opened' = n + 1 /\ current' = n + 1
  BY DEF Reader!Cut, StreamInv
<1>3. /\ Upto(out, n) /\ Ordered(out) /\ Upto(shed, n) /\ OpenIn(out, shed, n)
  BY <1>2 DEF StreamInv
<1> HIDE DEF n
<1>4. /\ Upto(q, n) /\ Ordered(q) /\ Upto(shed', n) /\ ClosedBy(q, shed', n)
      /\ \A id : id # n => /\ FinalsIn(q, id) = FinalsIn(out, id)
                           /\ LostIn(shed', id) = LostIn(shed, id)
  BY <1>1, <1>2, <1>3, ClosedKeeps
<1>5. /\ Upto(q, n + 1) /\ Upto(shed', n + 1) /\ OpenIn(q, shed', n + 1)
  BY <1>2, <1>4, BeginsOpen
<1>6. /\ Upto(out', n + 1) /\ Ordered(out')
      /\ \A id : FinalsIn(out', id) = FinalsIn(q, id)
  <2>1. n + 1 \in Nat \ {0}
    BY <1>2
  <2> QED BY <1>1, <1>4, <1>5, <2>1, ShownKeeps
<1>7. \A id \in 1..n : ClosedBy(out', shed', id)
  <2>1. ASSUME NEW id \in 1..n, id # n PROVE ClosedBy(out', shed', id)
    <3>1. ClosedBy(out, shed, id)
      BY <1>2, <2>1 DEF StreamInv, n
    <3> QED BY <1>4, <1>6, <2>1, <3>1 DEF ClosedBy
  <2>2. ClosedBy(out', shed', n)
    BY <1>4, <1>6 DEF ClosedBy
  <2> QED BY <2>1, <2>2
<1>8. OpenIn(out', shed', n + 1)
  BY <1>5, <1>6 DEF OpenIn
<1> QED BY <1>2, <1>5, <1>6, <1>7, <1>8 DEF StreamInv

LEMMA NextKeepsStreamInv ==
  StreamInv /\ [Reader!Next]_(Reader!stream) => StreamInv'
<1> SUFFICES ASSUME StreamInv, [Reader!Next]_(Reader!stream) PROVE StreamInv'
  OBVIOUS
<1>1. CASE Reader!Take \/ UNCHANGED Reader!stream
  BY <1>1 DEF Reader!Take, Reader!stream, StreamInv
<1> QED BY <1>1, BeginKeeps, ReviseKeeps, EndKeeps, CutKeeps DEF Reader!Next

(* Of every utterance that is over exactly one final was handed on or      *)
(* reported lost, whatever was shown of it and however often the queue was *)
(* full: it follows from the steps of UtteranceStream alone.               *)
THEOREM UtterancesClosedOnce == Reader!Spec => []Reader!ClosedOnce
<1>1. StreamInv => Reader!ClosedOnce
  BY DEF StreamInv, Reader!ClosedOnce, ClosedBy, ExactlyOne, FinalsIn,
     Reader!FinalsOf, LostIn, Reader!LostOf, Ordered
<1> QED BY <1>1, InitInv, NextKeepsStreamInv, PTL DEF Reader!Spec

(* Every utterance the VAD worker is done with has exactly one final, on   *)
(* the queue or reported dropped, and the queue shows them in the order    *)
(* they began: on each channel, for every detector, timing and load.       *)
THEOREM ReaderSeesEachClosedOnce ==
  ch \in Channels => (Spec => []Reader!ClosedOnce)
<1> SUFFICES ASSUME ch \in Channels
             PROVE  Spec => []Reader!ClosedOnce
  OBVIOUS
<1>1. Init => Reader!Init
  BY DEF Init, Reader!Init, NoId, opened, current, out, shed
<1>2. VadInv /\ [Next]_vars => [Reader!Next]_(Reader!stream)
  <2> SUFFICES ASSUME VadInv, [Next]_vars
               PROVE  [Reader!Next]_(Reader!stream)
    OBVIOUS
  <2>1. [Stream(ch)!Next]_(Stream(ch)!stream)
    BY StreamStep
  <2>2. /\ \A id, q, r : Stream(ch)!Shown(id, q, r) => Reader!Shown(id, q, r)
        /\ \A id, q, r, l, m :
             Stream(ch)!Closed(id, q, r, l, m) => Reader!Closed(id, q, r, l, m)
    BY DEF Reader!Shown, Stream!Shown, Reader!Closed, Stream!Closed,
       Reader!Room, Stream!Room, Reader!Elements, Stream!Elements
  <2>3. Stream(ch)!Next => Reader!Next
    BY <2>2 DEF Stream!Next, Stream!Begin, Stream!Revise, Stream!End,
       Stream!Cut, Stream!Take, Reader!Next, Reader!Begin, Reader!Revise,
       Reader!End, Reader!Cut, Reader!Take, opened, current, out, shed
  <2>4. UNCHANGED Stream(ch)!stream => UNCHANGED Reader!stream
    BY DEF Reader!stream, Stream!stream, opened, current, out, shed
  <2> QED BY <2>1, <2>3, <2>4
<1>3. Reader!Spec => []Reader!ClosedOnce
  BY UtterancesClosedOnce
<1> QED BY <1>1, <1>2, <1>3, AlwaysVadInv, PTL DEF Spec, Reader!Spec

-----------------------------------------------------------------------------
(***************************************************************************)
(* What the segments of a channel are made of: their audio and times       *)
(* (SpeechKept, AudioInOrder, TimelineOrdered), their lengths and their    *)
(* partials (SegmentsWithinLimits, PartialIsPrefix).                       *)
(*                                                                         *)
(* The first invariant is about one channel: its queue q, the drops l, the *)
(* segment in progress s with its start st, the preroll p, the time k of   *)
(* the last packet.                                                        *)
(***************************************************************************)
Until(s, k) == \A i \in 1..Len(s) : s[i] <= k

Before(s, t) == \A i \in 1..Len(s), j \in 1..Len(t) : s[i] < t[j]

(* Finals, segment and preroll follow one another. *)
AudioLine(q, s, p, k) ==
  /\ Increasing(s) /\ Increasing(p) /\ Before(s, p)
  /\ Until(s, k) /\ Until(p, k)
  /\ \A i \in Finals(q) :
       /\ Increasing(q[i].audio) /\ Until(q[i].audio, k)
       /\ Before(q[i].audio, s) /\ Before(q[i].audio, p)
       /\ \A j \in Finals(q) : i < j => Before(q[i].audio, q[j].audio)

(* Times are counted in chunks, of which there are never more than time    *)
(* has passed: so a time computed from a count is ahead of the clock by no *)
(* more than the timestamp was that the count began with.                  *)
TimeLine(q, n, p, st, k) ==
  /\ st # NoTs => st + n <= k + 1 + Jitter
  /\ \A i \in 1..Len(p) : p[i] + Len(p) <= k + i
  /\ \A i \in Finals(q) :
       /\ q[i].start <= q[i].end + Jitter /\ q[i].end <= k + 1 + Jitter
       /\ st # NoTs => q[i].end <= st + Jitter
       /\ \A j \in 1..Len(p) : q[i].end <= p[j] + Jitter
       /\ \A j \in Finals(q) : i < j => q[i].end <= q[j].start + Jitter

Line(q, s, p, st, k) == AudioLine(q, s, p, k) /\ TimeLine(q, Len(s), p, st, k)

(* Where speech may be. *)
Spoken(q, l, s) ==
  (UNION {Audio(q[i].audio) : i \in Finals(q)})
  \cup (UNION {Audio(l[i].audio) : i \in 1..Len(l)})
  \cup Audio(s)

Held(q, l, s, p, st, k, h) ==
  Line(q, s, p, st, k) /\ h \subseteq Spoken(q, l, s)

(* The timestamps of the preroll are those of its audio, up to the jitter.  *)
Stamped(p, ts) ==
  /\ Len(ts) = Len(p)
  /\ \A i \in 1..Len(p) : p[i] <= ts[i] /\ ts[i] <= p[i] + Jitter

InLine(c) ==
  /\ Stamped(preroll[c], preroll_ts[c])
  /\ Held(queued[c], dropped[c], segment_chunks[c], preroll[c],
          segment_start_ts[c], clock[c], heard[c])

AudioInv == VadInv /\ \A c \in Channels : InLine(c)

-----------------------------------------------------------------------------
(* Sequences. *)

LEMMA JitterNat == Jitter \in Nat
BY VadAssumption DEF VadAssumption

LEMMA Appended ==
  ASSUME NEW S, NEW s \in Seq(S), NEW e \in S
  PROVE  /\ Append(s, e) \in Seq(S)
         /\ Len(s) \in Nat /\ Len(Append(s, e)) = Len(s) + 1
         /\ Append(s, e)[Len(s) + 1] = e
         /\ \A i \in 1..Len(s) : Append(s, e)[i] = s[i]
<1>1. Len(s) \in Nat /\ Len(Append(s, e)) = Len(s) + 1
  OBVIOUS
<1>2. Append(s, e) \in Seq(S)
  BY AppendProperties
<1>3. \A i \in 1..Len(s) : Append(s, e)[i] = s[i]
  BY <1>1
<1>4. Append(s, e)[Len(s) + 1] = e
  BY <1>1
<1> QED BY <1>1, <1>2, <1>3, <1>4

LEMMA Entries ==
  ASSUME NEW s \in Seq(Timestamps)
  PROVE  Len(s) \in Nat /\ \A i \in 1..Len(s) : s[i] \in Nat
<1>1. Len(s) \in Nat
  OBVIOUS
<1>2. \A i \in 1..Len(s) : s[i] \in Timestamps
  OBVIOUS
<1>3. Timestamps \subseteq Nat
  BY DEF Timestamps
<1> QED BY <1>1, <1>2, <1>3

LEMMA FinalsAppended ==
  ASSUME NEW q \in Seq(SegmentRecords), NEW seg \in SegmentRecords
  PROVE  /\ \A i \in Finals(q) :
              i \in 1..Len(q) /\ Append(q, seg)[i] = q[i] /\ i < Len(q) + 1
         /\ Append(q, seg)[Len(q) + 1] = seg
         /\ Finals(Append(q, seg)) =
              Finals(q) \cup (IF seg.is_partial THEN {} ELSE {Len(q) + 1})
<1> DEFINE r == Append(q, seg)
<1>1. /\ Len(q) \in Nat /\ Len(r) = Len(q) + 1 /\ r[Len(q) + 1] = seg
      /\ \A i \in 1..Len(q) : r[i] = q[i]
  BY Appended
<1> HIDE DEF r
<1>2. \A i \in Finals(q) : i \in 1..Len(q) /\ r[i] = q[i] /\ i < Len(q) + 1
  BY <1>1 DEF Finals
<1>3. 1..Len(r) = (1..Len(q)) \cup {Len(q) + 1}
  BY <1>1
<1>4. Finals(r) = Finals(q) \cup (IF seg.is_partial THEN {} ELSE {Len(q) + 1})
  BY <1>1, <1>3 DEF Finals
<1> QED BY <1>1, <1>2, <1>4 DEF r

LEMMA FinalsTyped ==
  ASSUME NEW q \in Seq(SegmentRecords), NEW i \in Finals(q)
  PROVE  /\ i \in 1..Len(q) /\ i \in Nat
         /\ q[i].start \in Nat /\ q[i].end \in Nat
         /\ q[i].audio \in Seq(Timestamps)
<1>1. i \in 1..Len(q) /\ i \in Nat
  BY DEF Finals
<1>2. q[i] \in SegmentRecords
  BY <1>1
<1> QED BY <1>1, <1>2 DEF SegmentRecords

-----------------------------------------------------------------------------
(* What a packet, the start of a segment and what is emitted do to a line. *)

(* A packet is later than everything. *)
LEMMA LaterPacket ==
  ASSUME NEW s \in Seq(Timestamps), NEW k \in Nat, NEW t \in Timestamps, t > k,
         Increasing(s), Until(s, k)
  PROVE  /\ Increasing(Append(s, t)) /\ Until(Append(s, t), t)
         /\ \A a \in Seq(Timestamps) :
              Before(a, s) /\ Until(a, k) => Before(a, Append(s, t))
<1> DEFINE r == Append(s, t)
<1>1. /\ Len(s) \in Nat /\ Len(r) = Len(s) + 1 /\ r[Len(s) + 1] = t
      /\ \A i \in 1..Len(s) : r[i] = s[i]
  BY Appended
<1> HIDE DEF r
<1>2. t \in Nat /\ \A i \in 1..Len(s) : s[i] \in Nat /\ s[i] < t
  BY Entries DEF Until, Timestamps
<1>3. \A i \in 1..Len(r) : i \in 1..Len(s) \/ i = Len(s) + 1
  BY <1>1
<1>4. Increasing(r)
  <2> SUFFICES ASSUME NEW i \in 1..Len(r), NEW j \in 1..Len(r), i < j
               PROVE  r[i] < r[j]
    BY DEF Increasing
  <2>1. i \in 1..Len(s)
    BY <1>1
  <2> QED BY <1>1, <1>2, <1>3, <2>1 DEF Increasing
<1>5. Until(r, t)
  BY <1>1, <1>2, <1>3 DEF Until
<1>6. ASSUME NEW a \in Seq(Timestamps), Before(a, s), Until(a, k)
      PROVE  Before(a, r)
  <2>1. \A i \in 1..Len(a) : a[i] \in Nat /\ a[i] < t
    BY <1>2, <1>6, Entries DEF Until
  <2> QED BY <1>1, <1>3, <1>6, <2>1 DEF Before
<1> QED BY <1>4, <1>5, <1>6 DEF r

LEMMA UntilLater ==
  ASSUME NEW s \in Seq(Timestamps), NEW k \in Nat, NEW t \in Nat, t > k,
         Until(s, k)
  PROVE  Until(s, t)
BY Entries DEF Until

LEMMA NothingBefore ==
  /\ \A s : Before(<<>>, s) /\ Before(s, <<>>)
  /\ Increasing(<<>>) /\ \A k : Until(<<>>, k)
  /\ <<>> \in Seq(Timestamps)
BY DEF Before, Increasing, Until

(* The segment in progress takes the packet. *)
LEMMA SegmentGrows ==
  ASSUME NEW q \in Seq(SegmentRecords), NEW s \in Seq(Timestamps),
         NEW st \in Nat, NEW k \in Nat, NEW t \in Timestamps, t > k,
         Line(q, s, <<>>, st, k)
  PROVE  Line(q, Append(s, t), <<>>, st, t)
<1>1. t \in Nat /\ Len(s) \in Nat /\ Len(Append(s, t)) = Len(s) + 1
  BY Appended DEF Timestamps
<1>2. AudioLine(q, s, <<>>, k) /\ TimeLine(q, Len(s), <<>>, st, k)
  BY DEF Line
<1>3. AudioLine(q, Append(s, t), <<>>, t)
  <2>1. /\ Increasing(Append(s, t)) /\ Until(Append(s, t), t)
        /\ \A a \in Seq(Timestamps) :
             Before(a, s) /\ Until(a, k) => Before(a, Append(s, t))
    BY <1>2, LaterPacket DEF AudioLine
  <2>2. ASSUME NEW i \in Finals(q)
        PROVE  /\ Increasing(q[i].audio) /\ Until(q[i].audio, t)
               /\ Before(q[i].audio, Append(s, t)) /\ Before(q[i].audio, <<>>)
               /\ \A j \in Finals(q) : i < j => Before(q[i].audio, q[j].audio)
    BY <1>1, <1>2, <2>1, FinalsTyped, UntilLater DEF AudioLine
  <2> QED BY <2>1, <2>2, NothingBefore DEF AudioLine
<1>4. TimeLine(q, Len(s) + 1, <<>>, st, t)
  <2>1. \A i \in Finals(q) : q[i].end \in Nat
    BY FinalsTyped
  <2> QED BY <1>1, <1>2, <2>1, JitterNat DEF TimeLine
<1> QED BY <1>1, <1>3, <1>4 DEF Line

(* Between two segments a packet goes into the preroll. *)
LEMMA PrerollGrows ==
  ASSUME NEW q \in Seq(SegmentRecords), NEW p \in Seq(Timestamps),
         NEW k \in Nat, NEW t \in Timestamps, t > k,
         Line(q, <<>>, p, NoTs, k)
  PROVE  Line(q, <<>>, Append(p, t), NoTs, t)
<1> DEFINE r == Append(p, t)
<1>1. /\ Len(p) \in Nat /\ Len(r) = Len(p) + 1 /\ r[Len(p) + 1] = t
      /\ \A i \in 1..Len(p) : r[i] = p[i]
  BY Appended
<1>2. t \in Nat /\ \A i \in 1..Len(p) : p[i] \in Nat
  BY Entries DEF Timestamps
<1>3. AudioLine(q, <<>>, p, k) /\ TimeLine(q, Len(<<>>), p, NoTs, k)
  BY DEF Line
<1>4. AudioLine(q, <<>>, r, t)
  <2>1. /\ Increasing(r) /\ Until(r, t)
        /\ \A a \in Seq(Timestamps) :
             Before(a, p) /\ Until(a, k) => Before(a, r)
    BY <1>3, LaterPacket DEF AudioLine
  <2>2. ASSUME NEW i \in Finals(q)
        PROVE  /\ Increasing(q[i].audio) /\ Until(q[i].audio, t)
               /\ Before(q[i].audio, <<>>) /\ Before(q[i].audio, r)
               /\ \A j \in Finals(q) : i < j => Before(q[i].audio, q[j].audio)
    BY <1>2, <1>3, <2>1, FinalsTyped, UntilLater DEF AudioLine
  <2> QED BY <2>1, <2>2, NothingBefore DEF AudioLine
<1> HIDE DEF r
<1>5. TimeLine(q, Len(<<>>), r, NoTs, t)
  <2>1. \A i \in 1..Len(r) : i \in 1..Len(p) \/ i = Len(p) + 1
    BY <1>1
  <2>2. \A i \in 1..Len(r) : r[i] + Len(r) <= t + i
    BY <1>1, <1>2, <1>3, <2>1 DEF TimeLine
  <2>3. ASSUME NEW i \in Finals(q)
        PROVE  /\ q[i].start <= q[i].end + Jitter /\ q[i].end <= t + 1 + Jitter
               /\ \A j \in 1..Len(r) : q[i].end <= r[j] + Jitter
               /\ \A j \in Finals(q) :
                    i < j => q[i].end <= q[j].start + Jitter
    <3>1. q[i].end \in Nat /\ q[i].end <= k + 1 + Jitter
      BY <1>3, FinalsTyped DEF TimeLine
    <3>2. \A j \in 1..Len(p) : q[i].end <= p[j] + Jitter
      BY <1>3 DEF TimeLine
    <3>5. q[i].end <= t + Jitter
      BY <1>2, <3>1, JitterNat
    <3>3. \A j \in 1..Len(r) : q[i].end <= r[j] + Jitter
      BY <1>1, <2>1, <3>5, <3>2
    <3>4. /\ q[i].start <= q[i].end + Jitter
          /\ \A j \in Finals(q) : i < j => q[i].end <= q[j].start + Jitter
      BY <1>3 DEF TimeLine
    <3>6. q[i].end <= t + 1 + Jitter
      BY <1>2, <3>1, <3>5, JitterNat
    <3> QED BY <3>3, <3>4, <3>6
  <2> QED BY <2>2, <2>3 DEF TimeLine
<1> QED BY <1>4, <1>5 DEF Line, r

(* The preroll forgets its oldest packet. *)
LEMMA PrerollForgets ==
  ASSUME NEW q \in Seq(SegmentRecords), NEW p \in Seq(Timestamps), p # <<>>,
         NEW k \in Nat, Line(q, <<>>, p, NoTs, k)
  PROVE  Line(q, <<>>, Tail(p), NoTs, k)
<1> DEFINE r == Tail(p)
<1>1. /\ Len(p) \in Nat /\ Len(r) \in Nat /\ Len(r) = Len(p) - 1
      /\ \A i \in 1..Len(r) : r[i] = p[i + 1] /\ i + 1 \in 1..Len(p)
  BY HeadTailProperties, LenProperties
<1>2. \A i \in 1..Len(p) : p[i] \in Nat
  BY Entries
<1> HIDE DEF r
<1>3. AudioLine(q, <<>>, p, k) /\ TimeLine(q, Len(<<>>), p, NoTs, k)
  BY DEF Line
<1>4. AudioLine(q, <<>>, r, k)
  <2>1. /\ \A i, j \in 1..Len(p) : i < j => p[i] < p[j]
        /\ \A i \in 1..Len(p) : p[i] <= k
    BY <1>3 DEF AudioLine, Increasing, Until
  <2>2. Increasing(r)
    <3> SUFFICES ASSUME NEW i \in 1..Len(r), NEW j \in 1..Len(r), i < j
                 PROVE  r[i] < r[j]
      BY DEF Increasing
    <3>1. i + 1 < j + 1
      OBVIOUS
    <3> QED BY <1>1, <2>1, <3>1
  <2>3. Until(r, k)
    BY <1>1, <2>1 DEF Until
  <2>4. \A i \in Finals(q) : Before(q[i].audio, r)
    BY <1>1, <1>3 DEF AudioLine, Before
  <2> QED BY <1>3, <2>2, <2>3, <2>4, NothingBefore DEF AudioLine
<1>5. TimeLine(q, Len(<<>>), r, NoTs, k)
  <2>0. \A i \in 1..Len(p) : p[i] + Len(p) <= k + i
    BY <1>3 DEF TimeLine
  <2>1. \A i \in 1..Len(r) : r[i] + Len(r) <= k + i
    <3> SUFFICES ASSUME NEW i \in 1..Len(r)
                 PROVE  r[i] + Len(r) <= k + i
      OBVIOUS
    <3>1. r[i] = p[i + 1] /\ i + 1 \in 1..Len(p)
      BY <1>1
    <3>2. p[i + 1] + Len(p) <= k + (i + 1) /\ p[i + 1] \in Nat
      BY <1>2, <2>0, <3>1
    <3> QED BY <1>1, <3>1, <3>2
  <2>2. \A i \in Finals(q) : \A j \in 1..Len(r) : q[i].end <= r[j] + Jitter
    BY <1>1, <1>3 DEF TimeLine
  <2> QED BY <1>3, <2>1, <2>2 DEF TimeLine
<1> QED BY <1>4, <1>5 DEF Line, r

(* The preroll and the packet become the segment, whose start is the       *)
(* timestamp of the first of them.                                         *)
LEMMA SegmentStarts ==
  ASSUME NEW q \in Seq(SegmentRecords), NEW p \in Seq(Timestamps),
         NEW k \in Nat, NEW t \in Timestamps, t > k,
         Line(q, <<>>, p, NoTs, k),
         NEW st \in Nat, Append(p, t)[1] <= st, st <= Append(p, t)[1] + Jitter
  PROVE  Line(q, Append(p, t), <<>>, st, t)
<1> DEFINE r == Append(p, t)
<1>1. Line(q, <<>>, r, NoTs, t)
  BY PrerollGrows
<1>2. /\ Len(p) \in Nat /\ Len(r) = Len(p) + 1 /\ 1 \in 1..Len(r)
      /\ r \in Seq(Timestamps)
  BY Appended
<1>3. t \in Nat /\ r[1] \in Nat /\ Len(r) \in Nat
  BY <1>2, Entries DEF Timestamps
<1>4. r[1] <= st /\ st <= r[1] + Jitter
  OBVIOUS
<1> HIDE DEF r
<1>5. AudioLine(q, r, <<>>, t)
  BY <1>1, NothingBefore DEF Line, AudioLine
<1>6. TimeLine(q, Len(r), <<>>, st, t)
  <2>1. TimeLine(q, Len(<<>>), r, NoTs, t)
    BY <1>1 DEF Line
  <2>2. r[1] + Len(r) <= t + 1
    BY <1>2, <2>1 DEF TimeLine
  <2>3. st + Len(r) <= t + 1 + Jitter
    BY <1>3, <1>4, <2>2, JitterNat
  <2>4. \A i \in Finals(q) :
          /\ q[i].start <= q[i].end + Jitter /\ q[i].end <= t + 1 + Jitter
          /\ \A j \in 1..Len(r) : q[i].end <= r[j] + Jitter
          /\ \A j \in Finals(q) : i < j => q[i].end <= q[j].start + Jitter
    BY <2>1 DEF TimeLine
  <2>5. ASSUME NEW i \in Finals(q) PROVE q[i].end <= st + Jitter
    <3>1. q[i].end \in Nat /\ q[i].end <= r[1] + Jitter
      BY <1>2, <2>4, FinalsTyped
    <3> QED BY <1>3, <1>4, <3>1, JitterNat
  <2>6. \A j \in 1..Len(<<>>) : FALSE
    OBVIOUS
  <2> QED BY <2>3, <2>4, <2>5, <2>6 DEF TimeLine
<1> QED BY <1>5, <1>6 DEF Line, r

(* A segment s in two: the audio a of what is emitted, and the rest r. *)
Split(s, a, r) ==
  /\ Len(a) + Len(r) = Len(s)
  /\ \A i \in 1..Len(a) : a[i] = s[i]
  /\ \A i \in 1..Len(r) : r[i] = s[Len(a) + i]

LEMMA SplitParts ==
  ASSUME NEW s \in Seq(Timestamps), NEW a \in Seq(Timestamps),
         NEW r \in Seq(Timestamps), NEW k \in Nat, Split(s, a, r),
         Increasing(s), Until(s, k)
  PROVE  /\ Increasing(a) /\ Increasing(r) /\ Before(a, r)
         /\ Until(a, k) /\ Until(r, k)
         /\ \A b : Before(b, s) => Before(b, a) /\ Before(b, r)
<1>1. Len(s) \in Nat /\ Len(a) \in Nat /\ Len(r) \in Nat
  OBVIOUS
<1>2. \A i \in 1..Len(a) : a[i] = s[i] /\ i \in 1..Len(s) /\ i \in Nat
  BY <1>1 DEF Split
<1>3. \A i \in 1..Len(r) :
        r[i] = s[Len(a) + i] /\ Len(a) + i \in 1..Len(s) /\ i \in Nat
  BY <1>1 DEF Split
<1>4. \A i, j \in 1..Len(s) : i < j => s[i] < s[j]
  BY DEF Increasing
<1>5. Increasing(a)
  BY <1>2, <1>4 DEF Increasing
<1>6. Increasing(r)
  <2> SUFFICES ASSUME NEW i \in 1..Len(r), NEW j \in 1..Len(r), i < j
               PROVE  r[i] < r[j]
    BY DEF Increasing
  <2>1. Len(a) + i < Len(a) + j
    BY <1>1
  <2> QED BY <1>3, <1>4, <2>1
<1>7. Before(a, r)
  <2> SUFFICES ASSUME NEW i \in 1..Len(a), NEW j \in 1..Len(r)
               PROVE  a[i] < r[j]
    BY DEF Before
  <2>1. i < Len(a) + j
    BY <1>1
  <2> QED BY <1>2, <1>3, <1>4, <2>1
<1>8. Until(a, k) /\ Until(r, k)
  BY <1>2, <1>3 DEF Until
<1>9. ASSUME NEW b, Before(b, s)
      PROVE  Before(b, a) /\ Before(b, r)
  BY <1>2, <1>3, <1>9 DEF Before
<1> QED BY <1>5, <1>6, <1>7, <1>8, <1>9

(* The rest stays behind, with the start st2 it gets. *)
LEMMA RestInLine ==
  ASSUME NEW q \in Seq(SegmentRecords), NEW s \in Seq(Timestamps),
         NEW a \in Seq(Timestamps), NEW r \in Seq(Timestamps), Split(s, a, r),
         NEW st \in Nat, NEW st2 \in Nat \cup {NoTs}, NEW k \in Nat,
         Line(q, s, <<>>, st, k), st2 # NoTs => st2 = st + Len(a)
  PROVE  Line(q, r, <<>>, st2, k)
<1>1. AudioLine(q, s, <<>>, k) /\ TimeLine(q, Len(s), <<>>, st, k)
  BY DEF Line
<1>2. AudioLine(q, r, <<>>, k)
  <2>1. /\ Increasing(r) /\ Until(r, k)
        /\ \A b : Before(b, s) => Before(b, r)
    BY <1>1, SplitParts DEF AudioLine
  <2> QED BY <1>1, <2>1, NothingBefore DEF AudioLine
<1>3. TimeLine(q, Len(r), <<>>, st2, k)
  <2>1. Len(s) \in Nat /\ Len(a) \in Nat /\ Len(r) \in Nat
    OBVIOUS
  <2>2. Len(a) + Len(r) = Len(s) /\ st + Len(s) <= k + 1 + Jitter
    BY <1>1 DEF TimeLine, Split, NoTs
  <2>3. st2 # NoTs => st2 + Len(r) <= k + 1 + Jitter
    BY <2>1, <2>2, JitterNat
  <2>4. ASSUME NEW i \in Finals(q), st2 # NoTs
        PROVE  q[i].end <= st2 + Jitter
    <3>1. q[i].end <= st + Jitter /\ q[i].end \in Nat
      BY <1>1, FinalsTyped DEF TimeLine, NoTs
    <3> QED BY <2>1, <2>4, <3>1, JitterNat
  <2> QED BY <1>1, <2>3, <2>4 DEF TimeLine
<1> QED BY <1>2, <1>3 DEF Line

(* The final goes to the end of the queue. *)
LEMMA FinalInLine ==
  ASSUME NEW q \in Seq(SegmentRecords), NEW s \in Seq(Timestamps),
         NEW a \in Seq(Timestamps), NEW r \in Seq(Timestamps), Split(s, a, r),
         NEW st \in Nat, NEW st2 \in Nat \cup {NoTs}, NEW k \in Nat,
         Line(q, s, <<>>, st, k), st2 # NoTs => st2 = st + Len(a),
         NEW e \in Nat, st <= e + Jitter, e <= k + 1 + Jitter,
         st2 # NoTs => e <= st2,
         NEW seg \in SegmentRecords, ~seg.is_partial, seg.audio = a,
         seg.start = st, seg.end = e
  PROVE  Line(Append(q, seg), r, <<>>, st2, k)
<1> DEFINE x == Append(q, seg)
           n == Len(q) + 1
<1>1. /\ \A i \in Finals(q) : i \in 1..Len(q) /\ x[i] = q[i] /\ i < n
      /\ x[n] = seg /\ n \in Nat
      /\ Finals(x) = Finals(q) \cup {n}
  BY FinalsAppended
<1> HIDE DEF x, n
<1>2. \A i, j \in Finals(x) : i < j => i \in Finals(q)
  <2>1. Finals(q) \subseteq Nat
    BY FinalsTyped
  <2> QED BY <1>1, <2>1
<1>3. AudioLine(q, r, <<>>, k) /\ TimeLine(q, Len(r), <<>>, st2, k)
  BY RestInLine DEF Line
<1>4. AudioLine(q, s, <<>>, k) /\ TimeLine(q, Len(s), <<>>, st, k)
  BY DEF Line
<1>5. AudioLine(x, r, <<>>, k)
  <2>1. /\ Increasing(a) /\ Until(a, k) /\ Before(a, r)
        /\ \A b : Before(b, s) => Before(b, a)
    BY <1>4, SplitParts DEF AudioLine
  <2>2. ASSUME NEW i \in Finals(x)
        PROVE  /\ Increasing(x[i].audio) /\ Until(x[i].audio, k)
               /\ Before(x[i].audio, r) /\ Before(x[i].audio, <<>>)
    <3>1. CASE i = n
      BY <1>1, <2>1, <3>1, NothingBefore
    <3>2. CASE i \in Finals(q)
      BY <1>1, <1>3, <3>2 DEF AudioLine
    <3> QED BY <1>1, <3>1, <3>2
  <2>3. ASSUME NEW i \in Finals(x), NEW j \in Finals(x), i < j
        PROVE  Before(x[i].audio, x[j].audio)
    <3>1. i \in Finals(q)
      BY <1>2, <2>3
    <3>2. CASE j = n
      BY <1>1, <1>4, <2>1, <3>1, <3>2 DEF AudioLine
    <3>3. CASE j \in Finals(q)
      BY <1>1, <1>3, <2>3, <3>1, <3>3 DEF AudioLine
    <3> QED BY <1>1, <3>2, <3>3
  <2> QED BY <1>3, <2>2, <2>3 DEF AudioLine
<1>6. TimeLine(x, Len(r), <<>>, st2, k)
  <2>1. ASSUME NEW i \in Finals(x)
        PROVE  /\ x[i].start <= x[i].end + Jitter /\ x[i].end <= k + 1 + Jitter
               /\ st2 # NoTs => x[i].end <= st2 + Jitter
    <3>1. CASE i = n
      BY <1>1, <3>1, JitterNat
    <3>2. CASE i \in Finals(q)
      BY <1>1, <1>3, <3>2 DEF TimeLine
    <3> QED BY <1>1, <3>1, <3>2
  <2>2. ASSUME NEW i \in Finals(x), NEW j \in Finals(x), i < j
        PROVE  x[i].end <= x[j].start + Jitter
    <3>1. i \in Finals(q)
      BY <1>2, <2>2
    <3>2. CASE j = n
      <4>1. q[i].end <= st + Jitter
        BY <1>4, <3>1 DEF TimeLine, NoTs
      <4> QED BY <1>1, <3>1, <3>2, <4>1
    <3>3. CASE j \in Finals(q)
      BY <1>1, <1>3, <2>2, <3>1, <3>3 DEF TimeLine
    <3> QED BY <1>1, <3>2, <3>3
  <2> QED BY <1>3, <2>1, <2>2 DEF TimeLine
<1> QED BY <1>5, <1>6 DEF Line, x

(* A partial is not in the line. *)
LEMMA PartialInLine ==
  ASSUME NEW q \in Seq(SegmentRecords), NEW seg \in SegmentRecords,
         seg.is_partial, NEW s, NEW p, NEW st, NEW k, Line(q, s, p, st, k)
  PROVE  Line(Append(q, seg), s, p, st, k)
<1> DEFINE x == Append(q, seg)
<1>1. Finals(x) = Finals(q) /\ \A i \in Finals(q) : x[i] = q[i]
  <2>1. /\ \A i \in Finals(q) : x[i] = q[i]
        /\ Finals(x) = Finals(q) \cup {}
    BY FinalsAppended
  <2> QED BY <2>1
<1> HIDE DEF x
<1>2. AudioLine(x, s, p, k)
  BY <1>1 DEF Line, AudioLine
<1>3. TimeLine(x, Len(s), p, st, k)
  BY <1>1 DEF Line, TimeLine
<1> QED BY <1>2, <1>3 DEF Line, x

-----------------------------------------------------------------------------
(* Where speech is, after the same operations. *)

LEMMA QueueKeepsSpeech ==
  ASSUME NEW q \in Seq(SegmentRecords), NEW seg \in SegmentRecords,
         NEW l, NEW s
  PROVE  Spoken(q, l, s) \subseteq Spoken(Append(q, seg), l, s)
<1>1. \A i \in Finals(q) : Append(q, seg)[i] = q[i]
  BY FinalsAppended
<1>2. Finals(q) \subseteq Finals(Append(q, seg))
  BY FinalsAppended
<1> QED BY <1>1, <1>2 DEF Spoken

LEMMA PacketSpoken ==
  ASSUME NEW s \in Seq(Timestamps), NEW t \in Timestamps
  PROVE  Audio(s) \cup {t} \subseteq Audio(Append(s, t))
<1> DEFINE r == Append(s, t)
<1>1. /\ Len(s) \in Nat /\ Len(r) = Len(s) + 1 /\ r[Len(s) + 1] = t
      /\ \A i \in 1..Len(s) : r[i] = s[i]
  BY Appended
<1> HIDE DEF r
<1>2. Len(s) + 1 \in 1..Len(r) /\ \A i \in 1..Len(s) : i \in 1..Len(r)
  BY <1>1
<1>3. Audio(s) \cup {t} \subseteq Audio(r)
  BY <1>1, <1>2 DEF Audio
<1> QED BY <1>3 DEF r

LEMMA SplitSpoken ==
  ASSUME NEW s \in Seq(Timestamps), NEW a \in Seq(Timestamps),
         NEW r \in Seq(Timestamps), Split(s, a, r)
  PROVE  Audio(s) \subseteq Audio(a) \cup Audio(r)
<1> SUFFICES ASSUME NEW i \in 1..Len(s)
             PROVE  s[i] \in Audio(a) \cup Audio(r)
  BY DEF Audio
<1>1. Len(s) \in Nat /\ Len(a) \in Nat /\ Len(r) \in Nat /\ i \in Nat
  OBVIOUS
<1>2. CASE i <= Len(a)
  <2>1. i \in 1..Len(a) /\ a[i] = s[i]
    BY <1>1, <1>2 DEF Split
  <2> QED BY <2>1 DEF Audio
<1>3. CASE ~(i <= Len(a))
  <2>1. i - Len(a) \in 1..Len(r) /\ Len(a) + (i - Len(a)) = i
    BY <1>1, <1>3 DEF Split
  <2>2. r[i - Len(a)] = s[i]
    BY <2>1 DEF Split
  <2> QED BY <2>1, <2>2 DEF Audio
<1> QED BY <1>2, <1>3

(* A final on the queue, or among the drops. *)
LEMMA FinalSpoken ==
  ASSUME NEW q \in Seq(SegmentRecords), NEW l \in Seq(SegmentRecords),
         NEW s \in Seq(Timestamps), NEW a \in Seq(Timestamps),
         NEW r \in Seq(Timestamps), Split(s, a, r),
         NEW seg \in SegmentRecords, ~seg.is_partial, seg.audio = a
  PROVE  /\ Spoken(q, l, s) \subseteq Spoken(Append(q, seg), l, r)
         /\ Spoken(q, l, s) \subseteq Spoken(q, Append(l, seg), r)
<1>1. Audio(s) \subseteq Audio(a) \cup Audio(r)
  BY SplitSpoken
<1>2. Spoken(q, l, s) \subseteq Spoken(Append(q, seg), l, r)
  <2> DEFINE x == Append(q, seg)
             n == Len(q) + 1
  <2>1. /\ \A i \in Finals(q) : x[i] = q[i]
        /\ x[n] = seg /\ n \in Finals(x) /\ Finals(q) \subseteq Finals(x)
    BY FinalsAppended
  <2> HIDE DEF x, n
  <2>2. Spoken(q, l, s) \subseteq Spoken(x, l, r)
    BY <1>1, <2>1 DEF Spoken
  <2> QED BY <2>2 DEF x
<1>3. Spoken(q, l, s) \subseteq Spoken(q, Append(l, seg), r)
  <2> DEFINE x == Append(l, seg)
             n == Len(l) + 1
  <2>1. /\ Len(l) \in Nat /\ Len(x) = n /\ x[n] = seg
        /\ \A i \in 1..Len(l) : x[i] = l[i]
    BY Appended
  <2>2. n \in 1..Len(x) /\ \A i \in 1..Len(l) : i \in 1..Len(x)
    BY <2>1
  <2> HIDE DEF x, n
  <2>3. Spoken(q, l, s) \subseteq Spoken(q, x, r)
    BY <1>1, <2>1, <2>2 DEF Spoken
  <2> QED BY <2>3 DEF x
<1> QED BY <1>2, <1>3

LEMMA SegmentSpoken ==
  ASSUME NEW q, NEW l, NEW s \in Seq(Timestamps), NEW t \in Timestamps
  PROVE  Spoken(q, l, s) \cup {t} \subseteq Spoken(q, l, Append(s, t))
BY PacketSpoken DEF Spoken

(* What fanout_put does with the final that closes a segment. *)
LEMMA SegmentCloses ==
  ASSUME NEW q \in Seq(SegmentRecords), NEW l \in Seq(SegmentRecords),
         NEW s \in Seq(Timestamps), NEW a \in Seq(Timestamps),
         NEW r \in Seq(Timestamps), Split(s, a, r),
         NEW st \in Nat, NEW st2 \in Nat \cup {NoTs}, NEW k \in Nat, NEW h,
         Held(q, l, s, <<>>, st, k, h), st2 # NoTs => st2 = st + Len(a),
         NEW e \in Nat, st <= e + Jitter, e <= k + 1 + Jitter,
         st2 # NoTs => e <= st2,
         NEW seg \in SegmentRecords, ~seg.is_partial, seg.audio = a,
         seg.start = st, seg.end = e,
         NEW c, NEW room \in BOOLEAN, room <=> HasRoom(c, q)
  PROVE  Held(PutNowait(c, q, seg), IF room THEN l ELSE Append(l, seg), r,
              <<>>, st2, k, h)
<1>1. Line(q, s, <<>>, st, k) /\ h \subseteq Spoken(q, l, s)
  BY DEF Held
<1>2. Line(q, r, <<>>, st2, k)
  BY <1>1, RestInLine
<1>3. Line(Append(q, seg), r, <<>>, st2, k)
  BY <1>1, FinalInLine
<1>4. /\ h \subseteq Spoken(Append(q, seg), l, r)
      /\ h \subseteq Spoken(q, Append(l, seg), r)
  BY <1>1, FinalSpoken
<1>5. CASE room
  BY <1>3, <1>4, <1>5 DEF PutNowait, Held
<1>6. CASE ~room
  BY <1>2, <1>4, <1>6 DEF PutNowait, Held
<1> QED BY <1>5, <1>6

(* A partial closes nothing. *)
LEMMA PartialHeld ==
  ASSUME NEW q \in Seq(SegmentRecords), NEW seg \in SegmentRecords,
         seg.is_partial, NEW l, NEW s, NEW p, NEW st, NEW k, NEW h,
         Held(q, l, s, p, st, k, h)
  PROVE  Held(Append(q, seg), l, s, p, st, k, h)
<1>1. Line(Append(q, seg), s, p, st, k)
  BY PartialInLine DEF Held
<1>2. Spoken(q, l, s) \subseteq Spoken(Append(q, seg), l, s)
  BY QueueKeepsSpeech
<1> QED BY <1>1, <1>2 DEF Held

-----------------------------------------------------------------------------
(* One lemma per action. *)

LEMMA Elsewhere ==
  ASSUME NEW d, InLine(d),
         queued'[d] = queued[d], dropped'[d] = dropped[d],
         segment_chunks'[d] = segment_chunks[d], preroll'[d] = preroll[d],
         preroll_ts'[d] = preroll_ts[d],
         segment_start_ts'[d] = segment_start_ts[d], clock'[d] = clock[d],
         heard'[d] = heard[d]
  PROVE  InLine(d)'
BY DEF InLine

LEMMA ReceiveLater ==
  ASSUME VadInv, NEW c \in Channels, NEW t \in Timestamps, Receive(c, t)
  PROVE  /\ clock[c] \in Nat /\ t \in Nat /\ t > clock[c] /\ clock'[c] = t
         /\ \A d \in Channels : d # c => clock'[d] = clock[d]
<1>1. clock \in [Channels -> Nat] /\ clock[c] \in Nat
  BY DEF VadInv, TypeOK
<1>2. PICK g \in Gaps : t = clock[c] + 1 + g
  BY DEF Receive
<1>3. g \in Nat
  BY VadAssumption DEF VadAssumption
<1>4. clock' = [clock EXCEPT ![c] = t]
  BY DEF Receive
<1> QED BY <1>1, <1>2, <1>3, <1>4 DEF Timestamps

LEMMA ChannelTyped ==
  ASSUME VadInv, NEW c \in Channels
  PROVE  /\ queued[c] \in Seq(SegmentRecords)
         /\ dropped[c] \in Seq(SegmentRecords)
         /\ segment_chunks[c] \in Seq(Timestamps)
         /\ preroll[c] \in Seq(Timestamps) /\ preroll_ts[c] \in Seq(Nat)
         /\ segment_start_ts[c] \in Nat \cup {NoTs}
         /\ clock[c] \in Nat
BY DEF VadInv, TypeOK

(* The timestamps follow their audio through the preroll.                  *)
LEMMA StampsFollow ==
  ASSUME NEW p \in Seq(Timestamps), NEW s \in Seq(Nat), Stamped(p, s),
         NEW t \in Timestamps, NEW ts \in Nat, t <= ts, ts <= t + Jitter
  PROVE  /\ Stamped(Append(p, t), Append(s, ts))
         /\ Stamped(Push(p, t), Push(s, ts))
<1> DEFINE p2 == Append(p, t)
           s2 == Append(s, ts)
<1>1. /\ Len(p) \in Nat /\ Len(p2) = Len(p) + 1 /\ p2[Len(p) + 1] = t
      /\ \A i \in 1..Len(p) : p2[i] = p[i]
  BY Appended
<1>2. /\ Len(s) = Len(p) /\ Len(s2) = Len(s) + 1 /\ s2[Len(s) + 1] = ts
      /\ \A i \in 1..Len(s) : s2[i] = s[i]
  BY Appended DEF Stamped
<1> HIDE DEF p2, s2
<1>3. \A i \in 1..Len(p2) : i \in 1..Len(p) \/ i = Len(p) + 1
  BY <1>1
<1>4. \A i \in 1..Len(p2) : p2[i] <= s2[i] /\ s2[i] <= p2[i] + Jitter
  BY <1>1, <1>2, <1>3 DEF Stamped
<1>5. Stamped(p2, s2)
  BY <1>1, <1>2, <1>4 DEF Stamped
<1>6. Stamped(Push(p, t), Push(s, ts))
  <2> DEFINE p3 == Push(p, t)
             s3 == Push(s, ts)
             up == Len(p) + 1 > PrerollChunks
  <2>1. /\ Len(p3) = IF up THEN Len(p) ELSE Len(p) + 1
        /\ \A i \in 1..Len(p3) : p3[i] = p2[IF up THEN i + 1 ELSE i]
    BY Pushed, VadAssumption DEF p2
  <2>2. /\ Len(s3) = IF up THEN Len(p) ELSE Len(p) + 1
        /\ \A i \in 1..Len(s3) : s3[i] = s2[IF up THEN i + 1 ELSE i]
    <3>1. /\ Len(s3) = IF Len(s) + 1 > PrerollChunks THEN Len(s)
                       ELSE Len(s) + 1
          /\ \A i \in 1..Len(s3) :
               s3[i] = s2[IF Len(s) + 1 > PrerollChunks THEN i + 1 ELSE i]
      BY Pushed, VadAssumption DEF s2
    <3>2. Len(s) = Len(p)
      BY <1>2
    <3> HIDE DEF s3
    <3> QED BY <3>1, <3>2
  <2> HIDE DEF p3, s3, up
  <2>3. \A i \in 1..Len(p3) : (IF up THEN i + 1 ELSE i) \in 1..Len(p2)
    BY <1>1, <2>1
  <2>4. Stamped(p3, s3)
    BY <1>4, <2>1, <2>2, <2>3 DEF Stamped
  <2> QED BY <2>4 DEF p3, s3
<1> QED BY <1>5, <1>6 DEF p2, s2

LEMMA PushPrerollLine ==
  ASSUME AudioInv, NEW c \in Channels, NEW t \in Timestamps, NEW ts \in Nat,
         t <= ts, ts <= t + Jitter, PushPreroll(c, t, ts)
  PROVE  \A d \in Channels : InLine(d)'
<1> DEFINE q == queued[c]
           p == preroll[c]
           k == clock[c]
           r == Push(p, t)
           s == Push(preroll_ts[c], ts)
<1>1. VadInv /\ Receive(c, t)
  BY DEF AudioInv, PushPreroll
<1>2. /\ q \in Seq(SegmentRecords) /\ p \in Seq(Timestamps) /\ k \in Nat
      /\ t \in Nat /\ t > k /\ clock'[c] = t
      /\ \A d \in Channels : d # c => clock'[d] = clock[d]
  BY <1>1, ChannelTyped, ReceiveLater
<1>3. segment_start_ts[c] = NoTs /\ segment_chunks[c] = <<>>
  BY <1>1 DEF VadInv, DetectorInSync, PushPreroll
<1>4. /\ preroll' = [preroll EXCEPT ![c] = r]
      /\ preroll_ts' = [preroll_ts EXCEPT ![c] = s]
      /\ UNCHANGED <<queued, dropped, segment_chunks, segment_start_ts, heard>>
  BY DEF PushPreroll, seg_vars, out_vars
<1>5. \A d \in Channels :
        /\ preroll'[d] = IF d = c THEN r ELSE preroll[d]
        /\ preroll_ts'[d] = IF d = c THEN s ELSE preroll_ts[d]
  BY <1>1, <1>4 DEF VadInv, TypeOK
<1>6. InLine(c)
  BY DEF AudioInv
<1>14. Stamped(r, s)
  BY <1>2, <1>6, ChannelTyped, StampsFollow DEF AudioInv, InLine
<1> HIDE DEF q, p, k, r, s
<1>7. /\ Line(q, <<>>, p, NoTs, k)
      /\ heard[c] \subseteq Spoken(q, dropped[c], <<>>)
  BY <1>3, <1>6 DEF InLine, Held, q, p, k
<1>8. Line(q, <<>>, Append(p, t), NoTs, t)
  BY <1>2, <1>7, PrerollGrows
<1>9. Append(p, t) \in Seq(Timestamps) /\ Append(p, t) # <<>>
  BY <1>2, AppendProperties
<1>10. Line(q, <<>>, Tail(Append(p, t)), NoTs, t)
  BY <1>2, <1>8, <1>9, PrerollForgets
<1>11. Line(q, <<>>, r, NoTs, t)
  BY <1>8, <1>10 DEF r, Push
<1>12. InLine(c)'
  BY <1>2, <1>3, <1>4, <1>5, <1>7, <1>11, <1>14 DEF InLine, Held, q
<1>13. ASSUME NEW d \in Channels, d # c PROVE InLine(d)'
  BY <1>2, <1>4, <1>5, <1>13, Elsewhere DEF AudioInv
<1> QED BY <1>12, <1>13

LEMMA StartSegmentLine ==
  ASSUME AudioInv, NEW c \in Channels, NEW t \in Timestamps, NEW ts \in Nat,
         t <= ts, ts <= t + Jitter, StartSegment(c, t, ts)
  PROVE  \A d \in Channels : InLine(d)'
<1> DEFINE q == queued[c]
           p == preroll[c]
           k == clock[c]
           st == StartStamp(c, ts)
<1>1. VadInv /\ Receive(c, t)
  BY DEF AudioInv, StartSegment
<1>2. /\ q \in Seq(SegmentRecords) /\ p \in Seq(Timestamps) /\ k \in Nat
      /\ t \in Nat /\ t > k /\ clock'[c] = t
      /\ \A d \in Channels : d # c => clock'[d] = clock[d]
  BY <1>1, ChannelTyped, ReceiveLater
<1>3. segment_start_ts[c] = NoTs /\ segment_chunks[c] = <<>>
  BY <1>1 DEF VadInv, DetectorInSync, StartSegment
<1>4. /\ preroll' = [preroll EXCEPT ![c] = <<>>]
      /\ preroll_ts' = [preroll_ts EXCEPT ![c] = <<>>]
      /\ segment_chunks' = [segment_chunks EXCEPT ![c] = Append(p, t)]
      /\ segment_start_ts' = [segment_start_ts EXCEPT ![c] = st]
      /\ heard' = [heard EXCEPT ![c] = heard[c] \cup Audio(p) \cup {t}]
      /\ UNCHANGED <<queued, dropped>>
  BY DEF StartSegment, out_vars, StartStamp
<1> HIDE DEF st
<1>5. \A d \in Channels :
        /\ preroll'[d] = IF d = c THEN <<>> ELSE preroll[d]
        /\ preroll_ts'[d] = IF d = c THEN <<>> ELSE preroll_ts[d]
        /\ segment_chunks'[d] =
             IF d = c THEN Append(p, t) ELSE segment_chunks[d]
        /\ segment_start_ts'[d] = IF d = c THEN st ELSE segment_start_ts[d]
        /\ heard'[d] =
             IF d = c THEN heard[c] \cup Audio(p) \cup {t} ELSE heard[d]
  BY <1>1, <1>4 DEF VadInv, TypeOK
<1>6. InLine(c)
  BY DEF AudioInv
<1>12. st \in Nat /\ Append(p, t)[1] <= st /\ st <= Append(p, t)[1] + Jitter
  <2> DEFINE s == preroll_ts[c]
  <2>1. /\ s \in Seq(Nat) /\ Len(s) = Len(p)
        /\ Stamped(Append(p, t), Append(s, ts))
    BY <1>1, <1>2, <1>6, ChannelTyped, StampsFollow DEF InLine, Stamped
  <2>2. 1 \in 1..Len(Append(p, t))
    BY <1>2, Appended
  <2>3. /\ Append(p, t)[1] <= Append(s, ts)[1]
        /\ Append(s, ts)[1] <= Append(p, t)[1] + Jitter
    BY <2>1, <2>2 DEF Stamped
  <2>4. Append(s, ts)[1] = st
    <3>1. CASE p = <<>>
      BY <1>2, <2>1, <3>1 DEF st, StartStamp
    <3>2. CASE p # <<>>
      <4>1. Len(s) \in Nat \ {0} /\ Head(s) = s[1] /\ Append(s, ts)[1] = s[1]
        BY <1>2, <2>1, <3>2
      <4> QED BY <3>2, <4>1 DEF st, StartStamp
    <3> QED BY <3>1, <3>2
  <2>5. st \in Nat
    BY <1>1, StartStampType DEF st
  <2> QED BY <2>3, <2>4, <2>5
<1> HIDE DEF q, p, k
<1>7. /\ Line(q, <<>>, p, NoTs, k)
      /\ heard[c] \subseteq Spoken(q, dropped[c], <<>>)
  BY <1>3, <1>6 DEF InLine, Held, q, p, k
<1>8. Line(q, Append(p, t), <<>>, st, t)
  BY <1>2, <1>7, <1>12, SegmentStarts
<1>9. heard[c] \cup Audio(p) \cup {t}
        \subseteq Spoken(q, dropped[c], Append(p, t))
  <2>1. Audio(p) \cup {t} \subseteq Audio(Append(p, t))
    BY <1>2, PacketSpoken
  <2>2. Audio(<<>>) = {}
    BY DEF Audio
  <2> QED BY <1>7, <2>1, <2>2 DEF Spoken
<1>13. Stamped(<<>>, <<>>)
  BY DEF Stamped
<1>10. InLine(c)'
  BY <1>2, <1>4, <1>5, <1>8, <1>9, <1>13 DEF InLine, Held, q
<1>11. ASSUME NEW d \in Channels, d # c PROVE InLine(d)'
  BY <1>2, <1>4, <1>5, <1>11, Elsewhere DEF AudioInv
<1> QED BY <1>10, <1>11

(* A packet in mid-speech, before anything is cut off. *)
LEMMA SegmentHeld ==
  ASSUME AudioInv, NEW c \in Channels, NEW t \in Timestamps, vad_triggered[c],
         Receive(c, t)
  PROVE  /\ VadInv /\ preroll[c] = <<>>
         /\ segment_start_ts[c] \in Nat /\ segment_id[c] \in Nat \ {NoId}
         /\ WithPacket(c, t) \in Seq(Timestamps)
         /\ Len(WithPacket(c, t)) \in Nat \ {0}
         /\ segment_start_ts[c] + Len(WithPacket(c, t)) <= t + 1 + Jitter
         /\ Finalizable(c, WithPacket(c, t))
         /\ Held(queued[c], dropped[c], WithPacket(c, t), <<>>,
                 segment_start_ts[c], t, heard[c] \cup {t})
<1> DEFINE q == queued[c]
           s == segment_chunks[c]
           st == segment_start_ts[c]
           r == WithPacket(c, t)
<1>1. VadInv /\ InLine(c)
  BY DEF AudioInv
<1>2. /\ triggered[c] /\ st \in Nat /\ segment_id[c] \in Nat \ {NoId}
      /\ r = Append(s, t) /\ r \in Seq(Timestamps) /\ Len(r) \in Nat \ {0}
      /\ Finalizable(c, r)
  BY <1>1, MidSpeech
<1>3. preroll[c] = <<>>
  BY <1>1, <1>2 DEF VadInv, DetectorInSync
<1>4. /\ q \in Seq(SegmentRecords) /\ s \in Seq(Timestamps)
      /\ clock[c] \in Nat /\ t > clock[c]
  BY <1>1, ChannelTyped, ReceiveLater
<1>5. /\ Line(q, s, <<>>, st, clock[c])
      /\ heard[c] \subseteq Spoken(q, dropped[c], s)
  BY <1>1, <1>3 DEF InLine, Held
<1> HIDE DEF q, s, st, r
<1>6. Line(q, r, <<>>, st, t)
  BY <1>2, <1>4, <1>5, SegmentGrows
<1>7. heard[c] \cup {t} \subseteq Spoken(q, dropped[c], r)
  BY <1>2, <1>4, <1>5, SegmentSpoken
<1>8. st + Len(r) <= t + 1 + Jitter
  BY <1>2, <1>6 DEF Line, TimeLine, NoTs
<1> QED BY <1>1, <1>2, <1>3, <1>6, <1>7, <1>8 DEF Held, q, s, st, r

LEMMA EndSegmentLine ==
  ASSUME AudioInv, NEW c \in Channels, NEW t \in Timestamps, NEW ts \in Nat,
         t <= ts, ts <= t + Jitter, EndSegment(c, t, ts)
  PROVE  \A d \in Channels : InLine(d)'
<1> DEFINE q == queued[c]
           l == dropped[c]
           chunks == WithPacket(c, t)
           st == segment_start_ts[c]
           final == Segment(segment_id[c], st, ts, chunks, FALSE)
           room == HasRoom(c, q)
           l2 == IF room THEN l ELSE Append(l, final)
<1>1. /\ VadInv /\ preroll[c] = <<>>
      /\ st \in Nat /\ segment_id[c] \in Nat \ {NoId}
      /\ chunks \in Seq(Timestamps) /\ Len(chunks) \in Nat \ {0}
      /\ st + Len(chunks) <= t + 1 + Jitter /\ Finalizable(c, chunks)
      /\ Held(q, l, chunks, <<>>, st, t, heard[c] \cup {t})
  BY SegmentHeld DEF EndSegment
<1>2. /\ q \in Seq(SegmentRecords) /\ l \in Seq(SegmentRecords)
      /\ t \in Nat /\ clock'[c] = t
      /\ \A d \in Channels : d # c => clock'[d] = clock[d]
  BY <1>1, ChannelTyped, ReceiveLater DEF EndSegment
<1>3. /\ queued' = [queued EXCEPT ![c] = PutNowait(c, q, final)]
      /\ dropped' = [dropped EXCEPT ![c] = l2]
      /\ segment_chunks' = [segment_chunks EXCEPT ![c] = <<>>]
      /\ segment_start_ts' = [segment_start_ts EXCEPT ![c] = NoTs]
      /\ heard' = [heard EXCEPT ![c] = heard[c] \cup {t}]
      /\ UNCHANGED <<preroll, preroll_ts>>
  BY <1>1 DEF EndSegment, FanoutPut
<1>4. /\ final \in SegmentRecords /\ ~final.is_partial
      /\ final.audio = chunks /\ final.start = st /\ final.end = ts
  <2>1. final \in SegmentRecords
    BY <1>1, <1>2, SegmentType
  <2> QED BY <2>1 DEF Segment
<1>5. room \in BOOLEAN
  BY DEF HasRoom
<1> HIDE DEF q, l, chunks, st, final, room, l2
<1>6. \A d \in Channels :
        /\ queued'[d] = IF d = c THEN PutNowait(c, q, final) ELSE queued[d]
        /\ dropped'[d] = IF d = c THEN l2 ELSE dropped[d]
        /\ segment_chunks'[d] = IF d = c THEN <<>> ELSE segment_chunks[d]
        /\ segment_start_ts'[d] = IF d = c THEN NoTs ELSE segment_start_ts[d]
        /\ heard'[d] = IF d = c THEN heard[c] \cup {t} ELSE heard[d]
  BY <1>1, <1>3 DEF VadInv, TypeOK
<1>7. Split(chunks, chunks, <<>>)
  BY <1>1 DEF Split
<1>8. st <= ts + Jitter /\ ts <= t + 1 + Jitter
  BY <1>1, <1>2, JitterNat
<1>9. Held(PutNowait(c, q, final), l2, <<>>, <<>>, NoTs, t, heard[c] \cup {t})
  <2>1. /\ <<>> \in Seq(Timestamps) /\ NoTs \in Nat \cup {NoTs}
        /\ (room <=> HasRoom(c, q))
    BY <1>2 DEF room
  <2> QED BY <1>1, <1>2, <1>4, <1>5, <1>7, <1>8, <2>1, SegmentCloses DEF l2
<1>10. InLine(c)'
  BY <1>1, <1>2, <1>3, <1>6, <1>9 DEF InLine, AudioInv
<1>11. ASSUME NEW d \in Channels, d # c PROVE InLine(d)'
  BY <1>2, <1>3, <1>6, <1>11, Elsewhere DEF AudioInv
<1> QED BY <1>10, <1>11

(* What MaybeEmitPartial does to the queue it is given. *)
LEMMA MaybeEmitPartialPuts ==
  ASSUME NEW c \in Channels, NEW q \in Seq(SegmentRecords), NEW last,
         queued \in [Channels -> Seq(SegmentRecords)],
         segment_chunks'[c] \in Seq(Timestamps),
         segment_start_ts'[c] \in Nat, segment_id'[c] \in Nat \ {NoId},
         MaybeEmitPartial(c, q, last)
  PROVE  /\ \/ queued'[c] = q
            \/ \E seg \in SegmentRecords :
                 seg.is_partial /\ queued'[c] = Append(q, seg)
         /\ \A d \in Channels : d # c => queued'[d] = queued[d]
<1> DEFINE n == Len(segment_chunks'[c])
           prefix == Segment(segment_id'[c], segment_start_ts'[c],
                             segment_start_ts'[c] + n, segment_chunks'[c], TRUE)
           r == IF PartialDue(n, last) THEN PutNowait(c, q, prefix) ELSE q
<1>1. queued' = [queued EXCEPT ![c] = r]
  BY DEF MaybeEmitPartial
<1>2. prefix \in SegmentRecords
  <2>1. n \in Nat
    OBVIOUS
  <2>2. segment_start_ts'[c] + n \in Nat
    BY <2>1
  <2> QED BY <2>2, SegmentType
<1>3. prefix.is_partial
  BY DEF Segment
<1> HIDE DEF prefix, n
<1>4. r = q \/ r = Append(q, prefix)
  BY DEF PutNowait
<1> HIDE DEF r
<1> QED BY <1>1, <1>2, <1>3, <1>4

LEMMA GrowSegmentLine ==
  ASSUME AudioInv, NEW c \in Channels, NEW t \in Timestamps, NEW p \in Scores,
         GrowSegment(c, t, p)
  PROVE  \A d \in Channels : InLine(d)'
<1> DEFINE q == queued[c]
           chunks == WithPacket(c, t)
           h == heard[c] \cup {t}
<1>1. /\ VadInv /\ preroll[c] = <<>>
      /\ segment_start_ts[c] \in Nat /\ segment_id[c] \in Nat \ {NoId}
      /\ chunks \in Seq(Timestamps)
      /\ Held(q, dropped[c], chunks, <<>>, segment_start_ts[c], t, h)
  BY SegmentHeld DEF GrowSegment
<1>2. /\ q \in Seq(SegmentRecords) /\ clock'[c] = t
      /\ \A d \in Channels : d # c => clock'[d] = clock[d]
  BY <1>1, ChannelTyped, ReceiveLater DEF GrowSegment
<1>3. /\ segment_chunks' = [segment_chunks EXCEPT ![c] = chunks]
      /\ heard' = [heard EXCEPT ![c] = h]
      /\ UNCHANGED <<preroll, preroll_ts, segment_start_ts, segment_id, dropped>>
      /\ MaybeEmitPartial(c, q, last_partial[c])
  BY DEF GrowSegment, det_vars
<1> HIDE DEF q, chunks, h
<1>4. \A d \in Channels :
        /\ segment_chunks'[d] = IF d = c THEN chunks ELSE segment_chunks[d]
        /\ heard'[d] = IF d = c THEN h ELSE heard[d]
  BY <1>1, <1>3 DEF VadInv, TypeOK
<1>5. /\ \/ queued'[c] = q
         \/ \E seg \in SegmentRecords :
              seg.is_partial /\ queued'[c] = Append(q, seg)
      /\ \A d \in Channels : d # c => queued'[d] = queued[d]
  <2>1. queued \in [Channels -> Seq(SegmentRecords)]
    BY <1>1 DEF VadInv, TypeOK
  <2> QED BY <1>1, <1>2, <1>3, <1>4, <2>1, MaybeEmitPartialPuts
<1>6. Held(queued'[c], dropped[c], chunks, <<>>, segment_start_ts[c], t, h)
  BY <1>1, <1>2, <1>5, PartialHeld
<1>7. InLine(c)'
  BY <1>1, <1>2, <1>3, <1>4, <1>6 DEF InLine, AudioInv
<1>8. ASSUME NEW d \in Channels, d # c PROVE InLine(d)'
  BY <1>2, <1>3, <1>4, <1>5, <1>8, Elsewhere DEF AudioInv
<1> QED BY <1>7, <1>8

LEMMA CutSplits ==
  ASSUME NEW s \in Seq(Timestamps), NEW cut \in 1..Len(s)
  PROVE  /\ Split(s, SubSeq(s, 1, cut), CutTail(s, cut))
         /\ Len(SubSeq(s, 1, cut)) = cut
<1>1. Len(s) \in Nat /\ cut \in Nat
  OBVIOUS
<1>2. /\ Len(SubSeq(s, 1, cut)) = cut
      /\ \A i \in 1..cut : SubSeq(s, 1, cut)[i] = s[i]
  BY <1>1
<1>3. /\ Len(CutTail(s, cut)) = Len(s) - cut
      /\ \A i \in 1..(Len(s) - cut) : CutTail(s, cut)[i] = s[cut + i]
  BY <1>1 DEF CutTail
<1> QED BY <1>1, <1>2, <1>3 DEF Split

LEMMA CutSegmentLine ==
  ASSUME AudioInv, NEW c \in Channels, NEW t \in Timestamps, NEW p \in Scores,
         CutSegment(c, t, p)
  PROVE  \A d \in Channels : InLine(d)'
<1> DEFINE q == queued[c]
           l == dropped[c]
           chunks == WithPacket(c, t)
           n == Len(chunks)
           st == segment_start_ts[c]
           h == heard[c] \cup {t}
           room == HasRoom(c, q)
           head(k) == Segment(segment_id[c], st, st + k, SubSeq(chunks, 1, k),
                              FALSE)
<1>1. /\ VadInv /\ preroll[c] = <<>>
      /\ st \in Nat /\ segment_id[c] \in Nat \ {NoId}
      /\ chunks \in Seq(Timestamps) /\ n \in Nat \ {0} /\ st + n <= t + 1 + Jitter
      /\ Held(q, l, chunks, <<>>, st, t, h)
  BY SegmentHeld DEF CutSegment
<1>2. /\ q \in Seq(SegmentRecords) /\ l \in Seq(SegmentRecords)
      /\ t \in Nat /\ clock'[c] = t
      /\ \A d \in Channels : d # c => clock'[d] = clock[d]
  BY <1>1, ChannelTyped, ReceiveLater DEF CutSegment
<1>3. PICK cut \in 1..n :
        /\ segment_chunks' = [segment_chunks EXCEPT ![c] = CutTail(chunks, cut)]
        /\ segment_start_ts' = [segment_start_ts EXCEPT ![c] = st + cut]
        /\ NewSegmentId(c)
        /\ dropped' = [dropped EXCEPT ![c] =
             IF room THEN l ELSE Append(l, head(cut))]
        /\ MaybeEmitPartial(c, PutNowait(c, q, head(cut)), 0)
  BY DEF CutSegment
<1>4. /\ heard' = [heard EXCEPT ![c] = h]
      /\ UNCHANGED <<preroll, preroll_ts>>
  BY DEF CutSegment, det_vars
<1> DEFINE a == SubSeq(chunks, 1, cut)
           r == CutTail(chunks, cut)
           final == head(cut)
           l2 == IF room THEN l ELSE Append(l, final)
           q2 == PutNowait(c, q, final)
<1>5. /\ a \in Seq(Timestamps) /\ r \in Seq(Timestamps)
      /\ Split(chunks, a, r) /\ Len(a) = cut
  BY <1>1, CutTailType, CutSplits
<1>6. cut \in Nat /\ st + cut \in Nat /\ st <= st + cut /\ st + cut <= t + 1 + Jitter
  BY <1>1, <1>2, JitterNat
<1>7. /\ final \in SegmentRecords /\ ~final.is_partial
      /\ final.audio = a /\ final.start = st /\ final.end = st + cut
  <2>1. final \in SegmentRecords
    BY <1>1, <1>5, <1>6, SegmentType
  <2> QED BY <2>1 DEF Segment
<1>8. room \in BOOLEAN /\ (room <=> HasRoom(c, q))
  BY DEF HasRoom
<1>9. /\ dropped' = [dropped EXCEPT ![c] = l2]
      /\ MaybeEmitPartial(c, q2, 0)
  BY <1>3
<1> HIDE DEF q, l, chunks, n, st, h, room, head, a, r, final, l2, q2
<1>10. \A d \in Channels :
        /\ dropped'[d] = IF d = c THEN l2 ELSE dropped[d]
        /\ segment_chunks'[d] = IF d = c THEN r ELSE segment_chunks[d]
        /\ segment_start_ts'[d] =
             IF d = c THEN st + cut ELSE segment_start_ts[d]
        /\ heard'[d] = IF d = c THEN h ELSE heard[d]
  BY <1>1, <1>3, <1>4, <1>9 DEF VadInv, TypeOK, r
<1>11. segment_id'[c] \in Nat \ {NoId}
  <2>1. seg_counter[c] \in Nat /\ segment_id \in [Channels -> Nat]
    BY <1>1 DEF VadInv, TypeOK
  <2>2. segment_id'[c] = seg_counter[c] + 1
    BY <1>3, <2>1 DEF NewSegmentId
  <2> QED BY <2>1, <2>2 DEF NoId
<1>12. Held(q2, l2, r, <<>>, st + cut, t, h)
  <2> DEFINE e == st + cut
  <2>1. e \in Nat /\ e \in Nat \cup {NoTs} /\ e = st + Len(a)
    BY <1>5, <1>6
  <2>2. st <= e + Jitter /\ e <= t + 1 + Jitter /\ e <= e /\ final.end = e
    BY <1>1, <1>6, <1>7, JitterNat
  <2> HIDE DEF e
  <2>3. Held(PutNowait(c, q, final), IF room THEN l ELSE Append(l, final), r,
             <<>>, e, t, h)
    BY <1>1, <1>2, <1>5, <1>7, <1>8, <2>1, <2>2, SegmentCloses
  <2> QED BY <2>3 DEF l2, q2, e
<1>13. q2 \in Seq(SegmentRecords)
  BY <1>2, <1>7, PutNowaitType DEF q2
<1>14. /\ \/ queued'[c] = q2
          \/ \E seg \in SegmentRecords :
               seg.is_partial /\ queued'[c] = Append(q2, seg)
       /\ \A d \in Channels : d # c => queued'[d] = queued[d]
  <2>1. queued \in [Channels -> Seq(SegmentRecords)]
    BY <1>1 DEF VadInv, TypeOK
  <2>2. /\ segment_chunks'[c] \in Seq(Timestamps)
        /\ segment_start_ts'[c] \in Nat
    BY <1>5, <1>6, <1>10
  <2> QED BY <1>9, <1>11, <1>13, <2>1, <2>2, MaybeEmitPartialPuts
<1>15. Held(queued'[c], l2, r, <<>>, st + cut, t, h)
  BY <1>12, <1>13, <1>14, PartialHeld
<1>16. InLine(c)'
  BY <1>1, <1>2, <1>4, <1>10, <1>15 DEF InLine, AudioInv
<1>17. ASSUME NEW d \in Channels, d # c PROVE InLine(d)'
  BY <1>2, <1>4, <1>10, <1>14, <1>17, Elsewhere DEF AudioInv
<1> QED BY <1>16, <1>17

LEMMA FlushChannelsLine ==
  ASSUME AudioInv, NEW S \in SUBSET Channels, FlushChannels(S),
         UNCHANGED <<clock, heard>>
  PROVE  \A d \in Channels : InLine(d)'
<1> DEFINE F == {c \in S : Flushable(c)}
<1>1. /\ queued' = [c \in Channels |->
            IF c \in F THEN PutNowait(c, queued[c], FlushedSegment(c))
            ELSE queued[c]]
      /\ dropped' = [c \in Channels |->
            IF c \in F /\ ~HasRoom(c, queued[c])
            THEN Append(dropped[c], FlushedSegment(c)) ELSE dropped[c]]
      /\ segment_chunks' =
           [c \in Channels |-> IF c \in F THEN <<>> ELSE segment_chunks[c]]
      /\ segment_start_ts' =
           [c \in Channels |-> IF c \in F THEN NoTs ELSE segment_start_ts[c]]
      /\ UNCHANGED <<preroll, preroll_ts>>
  BY DEF FlushChannels
<1>2. VadInv
  BY DEF AudioInv
<1>3. ASSUME NEW c \in Channels, c \in F PROVE InLine(c)'
  <2> DEFINE q == queued[c]
             l == dropped[c]
             s == segment_chunks[c]
             st == segment_start_ts[c]
             k == clock[c]
             h == heard[c]
             final == FlushedSegment(c)
             room == HasRoom(c, q)
             l2 == IF room THEN l ELSE Append(l, final)
  <2>1. /\ q \in Seq(SegmentRecords) /\ l \in Seq(SegmentRecords)
        /\ s \in Seq(Timestamps) /\ k \in Nat
    BY <1>2, ChannelTyped
  <2>2. /\ st \in Nat /\ segment_id[c] \in Nat \ {NoId} /\ preroll[c] = <<>>
    BY <1>2, <1>3 DEF VadInv, TypeOK, DetectorInSync, Flushable, Finalizable
  <2>3. Held(q, l, s, <<>>, st, k, h)
    BY <2>2 DEF AudioInv, InLine
  <2>4. Len(s) \in Nat /\ st + Len(s) <= k + 1 + Jitter
    BY <2>1, <2>2, <2>3 DEF Held, Line, TimeLine, NoTs
  <2>5. st + Len(s) \in Nat /\ st <= st + Len(s) + Jitter
    BY <2>2, <2>4, JitterNat
  <2>6. /\ final \in SegmentRecords /\ ~final.is_partial
        /\ final.audio = s /\ final.start = st /\ final.end = st + Len(s)
    <3>1. final \in SegmentRecords
      BY <2>1, <2>2, <2>5, SegmentType DEF FlushedSegment
    <3> QED BY <3>1 DEF FlushedSegment, Segment
  <2>7. room \in BOOLEAN /\ (room <=> HasRoom(c, q))
    BY DEF HasRoom
  <2>8. /\ queued'[c] = PutNowait(c, q, final) /\ dropped'[c] = l2
        /\ segment_chunks'[c] = <<>> /\ segment_start_ts'[c] = NoTs
    BY <1>1, <1>3
  <2> HIDE DEF F, q, l, s, st, k, h, final, room, l2
  <2>9. Split(s, s, <<>>)
    BY <2>1, <2>4 DEF Split
  <2>10. Held(PutNowait(c, q, final), l2, <<>>, <<>>, NoTs, k, h)
    <3>1. <<>> \in Seq(Timestamps) /\ NoTs \in Nat \cup {NoTs}
      OBVIOUS
    <3> QED BY <2>1, <2>2, <2>3, <2>4, <2>5, <2>6, <2>7, <2>9, <3>1,
               SegmentCloses DEF l2
  <2> QED BY <1>1, <2>2, <2>8, <2>10 DEF InLine, AudioInv, k, h
<1>4. ASSUME NEW c \in Channels, c \notin F PROVE InLine(c)'
  BY <1>1, <1>4, Elsewhere DEF AudioInv
<1> QED BY <1>3, <1>4

-----------------------------------------------------------------------------
(* The inductive invariant, and the theorems read off it. *)

LEMMA InitAudioInv == Init => AudioInv
<1> SUFFICES ASSUME Init PROVE AudioInv
  OBVIOUS
<1>1. Finals(<<>>) = {}
  BY DEF Finals
<1>2. \A c \in Channels : InLine(c)
  <2> SUFFICES ASSUME NEW c \in Channels PROVE InLine(c)
    OBVIOUS
  <2>1. /\ queued[c] = <<>> /\ dropped[c] = <<>> /\ segment_chunks[c] = <<>>
        /\ preroll[c] = <<>> /\ preroll_ts[c] = <<>>
        /\ segment_start_ts[c] = NoTs /\ heard[c] = {}
    BY DEF Init
  <2>2. AudioLine(<<>>, <<>>, <<>>, clock[c])
    BY <1>1, NothingBefore DEF AudioLine
  <2>3. TimeLine(<<>>, Len(<<>>), <<>>, NoTs, clock[c])
    BY <1>1 DEF TimeLine
  <2> QED BY <2>1, <2>2, <2>3 DEF InLine, Held, Line, Stamped
<1> QED BY <1>2, InitVadInv DEF AudioInv

LEMMA NextAudioInv == AudioInv /\ [Next]_vars => AudioInv'
<1> SUFFICES ASSUME AudioInv, [Next]_vars PROVE AudioInv'
  OBVIOUS
<1>1. VadInv /\ VadInv'
  BY NextVadInv DEF AudioInv
<1> SUFFICES \A d \in Channels : InLine(d)'
  BY <1>1 DEF AudioInv
<1>2. ASSUME NEW c \in Channels, HandlePacket(c)
      PROVE  \A d \in Channels : InLine(d)'
  <2>1. PICK t \in Timestamps, ts \in Nat :
          /\ t <= ts /\ ts <= t + Jitter
          /\ \/ PushPreroll(c, t, ts) \/ StartSegment(c, t, ts)
             \/ EndSegment(c, t, ts)
             \/ \E p \in Scores : GrowSegment(c, t, p) \/ CutSegment(c, t, p)
    BY <1>2, PacketCases
  <2> QED BY <2>1, PushPrerollLine, StartSegmentLine, EndSegmentLine,
             GrowSegmentLine, CutSegmentLine
<1>3. ASSUME UNCHANGED <<queued, dropped, segment_chunks, preroll,
                         preroll_ts, segment_start_ts, clock, heard>>
      PROVE  \A d \in Channels : InLine(d)'
  BY <1>3, Elsewhere DEF AudioInv
<1>4. ASSUME NEW c \in Channels, GoQuiet(c) \/ TakeSegment(c)
      PROVE  \A d \in Channels : InLine(d)'
  BY <1>3, <1>4 DEF GoQuiet, TakeSegment, det_vars, seg_vars, out_vars
<1>5. CASE Empty \/ Stop \/ UNCHANGED vars
  BY <1>3, <1>5 DEF Empty, Stop, vars, det_vars, seg_vars, out_vars
<1>6. CASE FlushIdle
  <2>1. IdleChannels \in SUBSET Channels
    BY <1>1 DEF IdleChannels, VadInv, TypeOK
  <2> QED BY <1>6, <2>1, FlushChannelsLine DEF FlushIdle
<1>7. CASE Shutdown
  BY <1>7, FlushChannelsLine DEF Shutdown
<1> QED BY <1>2, <1>4, <1>5, <1>6, <1>7 DEF Next

LEMMA AlwaysAudioInv == Spec => []AudioInv
<1> QED BY InitAudioInv, NextAudioInv, PTL DEF Spec

(* No speech is lost inside the worker: preroll, cuts, idle flush,         *)
(* shutdown and a full queue only move it between the queue's finals, the  *)
(* reported drops and the segment in progress.                             *)
THEOREM SpeechIsKept == Spec => []SpeechKept
<1>1. AudioInv => SpeechKept
  BY DEF AudioInv, InLine, Held, Spoken, SpeechKept
<1> QED BY <1>1, AlwaysAudioInv, PTL

LEMMA Concatenated ==
  ASSUME NEW s \in Seq(Timestamps), NEW t \in Seq(Timestamps),
         Increasing(s), Increasing(t), Before(s, t)
  PROVE  Increasing(s \o t)
<1> DEFINE x == s \o t
<1>1. /\ Len(s) \in Nat /\ Len(t) \in Nat /\ Len(x) = Len(s) + Len(t)
      /\ \A i \in 1..(Len(s) + Len(t)) :
           x[i] = IF i <= Len(s) THEN s[i] ELSE t[i - Len(s)]
  BY ConcatProperties, LenProperties
<1> HIDE DEF x
<1> SUFFICES ASSUME NEW i \in 1..Len(x), NEW j \in 1..Len(x), i < j
             PROVE  x[i] < x[j]
  BY DEF Increasing, x
<1>2. i \in Nat /\ j \in Nat
  BY <1>1
<1>3. CASE j <= Len(s)
  <2>1. i \in 1..Len(s) /\ j \in 1..Len(s) /\ x[i] = s[i] /\ x[j] = s[j]
    BY <1>1, <1>2, <1>3
  <2> QED BY <2>1 DEF Increasing
<1>4. CASE i <= Len(s) /\ ~(j <= Len(s))
  <2>1. /\ i \in 1..Len(s) /\ j - Len(s) \in 1..Len(t)
        /\ x[i] = s[i] /\ x[j] = t[j - Len(s)]
    BY <1>1, <1>2, <1>4
  <2> QED BY <2>1 DEF Before
<1>5. CASE ~(i <= Len(s))
  <2>1. /\ i - Len(s) \in 1..Len(t) /\ j - Len(s) \in 1..Len(t)
        /\ i - Len(s) < j - Len(s)
        /\ x[i] = t[i - Len(s)] /\ x[j] = t[j - Len(s)]
    BY <1>1, <1>2, <1>5
  <2> QED BY <2>1 DEF Increasing
<1> QED BY <1>3, <1>4, <1>5

(* A channel's audio reaches the STT side at most once and in the order it *)
(* arrived, whatever the cuts and flushes.                                 *)
THEOREM AudioStaysInOrder == Spec => []AudioInOrder
<1>1. ASSUME AudioInv PROVE AudioInOrder
  <2> SUFFICES ASSUME NEW c \in Channels
               PROVE  LET audio(i) == queued[c][i].audio
                          held == segment_chunks[c] \o preroll[c]
                      IN  /\ Increasing(held)
                          /\ \A i \in Finals(queued[c]) :
                               /\ Increasing(audio(i) \o held)
                               /\ \A j \in Finals(queued[c]) :
                                    i < j => Increasing(audio(i) \o audio(j))
    BY DEF AudioInOrder
  <2> DEFINE q == queued[c]
             s == segment_chunks[c]
             p == preroll[c]
  <2>1. /\ q \in Seq(SegmentRecords) /\ s \in Seq(Timestamps)
        /\ p \in Seq(Timestamps) /\ s \o p \in Seq(Timestamps)
    BY <1>1, ChannelTyped, ConcatProperties DEF AudioInv
  <2>2. AudioLine(q, s, p, clock[c])
    BY <1>1 DEF AudioInv, InLine, Held, Line
  <2> HIDE DEF q, s, p
  <2>3. Increasing(s \o p)
    BY <2>1, <2>2, Concatenated DEF AudioLine
  <2>4. s \o p = s \/ s \o p = p
    <3>1. s = <<>> \/ p = <<>>
      BY <1>1 DEF AudioInv, VadInv, DetectorInSync, s, p
    <3> QED BY <2>1, <3>1, ConcatEmptySeq
  <2>5. ASSUME NEW i \in Finals(q)
        PROVE  /\ Increasing(q[i].audio \o (s \o p))
               /\ \A j \in Finals(q) :
                    i < j => Increasing(q[i].audio \o q[j].audio)
    <3>1. \A j \in Finals(q) : q[j].audio \in Seq(Timestamps)
      BY <2>1, FinalsTyped
    <3>2. Before(q[i].audio, s \o p)
      BY <2>2, <2>4 DEF AudioLine
    <3>3. Increasing(q[i].audio \o (s \o p))
      BY <2>1, <2>2, <2>3, <3>1, <3>2, Concatenated DEF AudioLine
    <3>4. ASSUME NEW j \in Finals(q), i < j
          PROVE  Increasing(q[i].audio \o q[j].audio)
      BY <2>2, <3>1, <3>4, Concatenated DEF AudioLine
    <3> QED BY <3>3, <3>4
  <2> QED BY <2>3, <2>5 DEF q, s, p
<1> QED BY <1>1, AlwaysAudioInv, PTL

(* The finals of a channel overlap by no more than the jitter of the       *)
(* router's clock, and what is in progress starts after them but for it,   *)
(* whether the detector, a cut or a flush set the end.                     *)
THEOREM TimelineStaysOrdered == Spec => []TimelineOrdered
<1>1. ASSUME AudioInv PROVE TimelineOrdered
  <2> SUFFICES ASSUME NEW c \in Channels, NEW i \in Finals(queued[c])
               PROVE  LET seg == queued[c][i]
                          Follows(ts) == seg.end <= ts + Jitter
                      IN  /\ seg.start <= seg.end + Jitter
                          /\ segment_start_ts[c] # NoTs =>
                               Follows(segment_start_ts[c])
                          /\ preroll[c] # <<>> => Follows(Head(preroll_ts[c]))
                          /\ \A j \in Finals(queued[c]) :
                               i < j => Follows(queued[c][j].start)
    BY DEF TimelineOrdered
  <2> DEFINE e == queued[c][i].end
  <2>1. TimeLine(queued[c], Len(segment_chunks[c]), preroll[c],
                 segment_start_ts[c], clock[c])
    BY <1>1 DEF AudioInv, InLine, Held, Line
  <2>2. ASSUME preroll[c] # <<>> PROVE e <= Head(preroll_ts[c]) + Jitter
    <3>1. /\ preroll[c] \in Seq(Timestamps) /\ preroll_ts[c] \in Seq(Nat)
          /\ queued[c] \in Seq(SegmentRecords)
          /\ Stamped(preroll[c], preroll_ts[c])
      BY <1>1, ChannelTyped DEF AudioInv, InLine
    <3>2. /\ 1 \in 1..Len(preroll[c]) /\ 1 \in 1..Len(preroll_ts[c])
          /\ Head(preroll_ts[c]) = preroll_ts[c][1]
          /\ preroll_ts[c][1] \in Nat /\ preroll[c][1] \in Nat
      BY <2>2, <3>1, Entries DEF Stamped
    <3>3. /\ e \in Nat /\ e <= preroll[c][1] + Jitter
          /\ preroll[c][1] <= preroll_ts[c][1]
      BY <2>1, <3>1, <3>2, FinalsTyped DEF TimeLine, Stamped
    <3> QED BY <3>2, <3>3, JitterNat
  <2> QED BY <2>1, <2>2 DEF TimeLine
<1> QED BY <1>1, AlwaysAudioInv, PTL

-----------------------------------------------------------------------------
(* Partials: the queue q, the id of the segment in progress, its audio s,  *)
(* its start st, and last_partial.                                         *)

Within(n) == LimitsEnabled => n < MaxSegment \/ n <= PrerollChunks + 1

WithinClosed(n) == LimitsEnabled => n <= MaxSegment \/ n <= PrerollChunks + 2

Paced(q, id, last) ==
  \A i \in 1..Len(q) : q[i].is_partial =>
    /\ Len(q[i].audio) >= PartialMin
    /\ q[i].id = id => Len(q[i].audio) <= last
    /\ \A j \in 1..Len(q) :
         i < j /\ q[j].is_partial /\ q[i].id = q[j].id =>
           Len(q[j].audio) - Len(q[i].audio) >= PartialInterval

InLimits(q, id, s, last) ==
  /\ Within(Len(s))
  /\ \A i \in 1..Len(q) : WithinClosed(Len(q[i].audio))
  /\ Paced(q, id, last)

Prefixes(q, id, s, st) ==
  \A i \in 1..Len(q) : q[i].is_partial =>
    /\ q[i].id = id =>
         /\ q[i].start = st /\ q[i].end = st + Len(q[i].audio)
         /\ StartsWith(s, q[i].audio)
    /\ \A j \in 1..Len(q) : ~q[j].is_partial /\ q[i].id = q[j].id =>
         /\ q[i].start = q[j].start /\ q[i].end <= q[j].end + Jitter
         /\ StartsWith(q[j].audio, q[i].audio)

(* With the soft cut the final ends behind the partials.                   *)
WellShown(q, id, s, st, last) ==
  /\ InLimits(q, id, s, last)
  /\ SoftCutEnabled \/ Prefixes(q, id, s, st)

Shown(c) ==
  WellShown(queued[c], segment_id[c], segment_chunks[c], segment_start_ts[c],
            last_partial[c])

PartialInv == AudioInv /\ \A c \in Channels : Shown(c)

LEMMA WithinCloses ==
  ASSUME NEW n \in Nat, Within(n)
  PROVE  WithinClosed(n) /\ WithinClosed(n + 1)
<1>1. MaxSegment \in Nat /\ PrerollChunks \in Nat
  BY VadAssumption DEF VadAssumption
<1> QED BY <1>1 DEF Within, WithinClosed

LEMMA WithinShorter ==
  ASSUME NEW n \in Nat, Within(n), NEW m \in Nat, m <= n
  PROVE  Within(m) /\ WithinClosed(m)
<1>1. MaxSegment \in Nat /\ PrerollChunks \in Nat
  BY VadAssumption DEF VadAssumption
<1> QED BY <1>1 DEF Within, WithinClosed

LEMMA NothingWithin == Within(Len(<<>>))
<1>1. MaxSegment \in Nat \ {0} /\ PrerollChunks \in Nat /\ Len(<<>>) = 0
  BY VadAssumption DEF VadAssumption
<1> QED BY <1>1 DEF Within

LEMMA RecordsTyped ==
  ASSUME NEW q \in Seq(SegmentRecords), NEW i \in 1..Len(q)
  PROVE  /\ q[i].id \in Nat \ {NoId} /\ q[i].start \in Nat /\ q[i].end \in Nat
         /\ q[i].audio \in Seq(Timestamps) /\ Len(q[i].audio) \in Nat
         /\ q[i].is_partial \in BOOLEAN /\ i \in Nat
<1>1. q[i] \in SegmentRecords
  OBVIOUS
<1>2. q[i].audio \in Seq(Timestamps)
  BY <1>1 DEF SegmentRecords
<1>3. Len(q[i].audio) \in Nat
  BY <1>2
<1> QED BY <1>1, <1>2, <1>3 DEF SegmentRecords

(* Nothing on the queue has the id of a segment that is about to begin.    *)
LEMMA NewSegmentShown ==
  ASSUME NEW q \in Seq(SegmentRecords), NEW id, NEW s, NEW st, NEW last,
         WellShown(q, id, s, st, last),
         NEW id2, \A i \in 1..Len(q) : q[i].id # id2,
         NEW s2, Within(Len(s2)), NEW st2, NEW last2
  PROVE  WellShown(q, id2, s2, st2, last2)
<1>1. InLimits(q, id2, s2, last2)
  BY DEF WellShown, InLimits, Paced
<1>2. SoftCutEnabled \/ Prefixes(q, id2, s2, st2)
  BY DEF WellShown, Prefixes
<1> QED BY <1>1, <1>2 DEF WellShown

(* The final that closes the segment in progress: a is its audio with the  *)
(* last packet, where there is one; n is the counter.                      *)
LEMMA FinalShown ==
  ASSUME VadAssumption, NEW q \in Seq(SegmentRecords), NEW id \in Nat,
         NEW s \in Seq(Timestamps), NEW st \in Nat, NEW last \in Nat,
         WellShown(q, id, s, st, last), NEW n, IdsOK(q, id, n),
         NEW seg \in SegmentRecords, ~seg.is_partial, seg.id = id,
         seg.start = st, WithinClosed(Len(seg.audio)),
         \/ SoftCutEnabled
         \/ StartsWith(seg.audio, s) /\ st + Len(s) <= seg.end + Jitter
  PROVE  WellShown(Append(q, seg), NoId, <<>>, NoTs, 0)
<1> DEFINE x == Append(q, seg)
           m == Len(q) + 1
<1>1. /\ Len(q) \in Nat /\ Len(x) = m /\ x[m] = seg
      /\ \A i \in 1..Len(q) : x[i] = q[i]
  BY Appended
<1> HIDE DEF x
<1>2. \A i \in 1..Len(x) : i \in 1..Len(q) \/ i = m
  BY <1>1
<1>3. \A i \in 1..Len(x) : x[i].is_partial => i \in 1..Len(q) /\ x[i] = q[i]
  BY <1>1, <1>2
<1>4. \A i \in 1..Len(q) : q[i].id # NoId
  BY RecordsTyped
<1> HIDE DEF m
<1>5. InLimits(x, NoId, <<>>, 0)
  <2>1. InLimits(q, id, s, last)
    BY DEF WellShown
  <2>2. \A i \in 1..Len(x) : WithinClosed(Len(x[i].audio))
    BY <1>1, <1>2, <2>1 DEF InLimits
  <2>3. Paced(q, id, last)
    BY <2>1 DEF InLimits
  <2>4. Paced(x, NoId, 0)
    BY <1>3, <1>4, <2>3 DEF Paced
  <2> QED BY <2>2, <2>4, NothingWithin DEF InLimits
<1>6. ASSUME Prefixes(q, id, s, st), StartsWith(seg.audio, s),
             st + Len(s) <= seg.end + Jitter
      PROVE  Prefixes(x, NoId, <<>>, NoTs)
  <2> SUFFICES ASSUME NEW i \in 1..Len(x), x[i].is_partial
               PROVE  /\ x[i].id # NoId
                      /\ \A j \in 1..Len(x) :
                           ~x[j].is_partial /\ x[i].id = x[j].id =>
                             /\ x[i].start = x[j].start
                             /\ x[i].end <= x[j].end + Jitter
                             /\ StartsWith(x[j].audio, x[i].audio)
    BY DEF Prefixes
  <2>1. i \in 1..Len(q) /\ x[i] = q[i] /\ x[i].id # NoId
    BY <1>3, <1>4
  <2>2. ASSUME NEW j \in 1..Len(q), ~x[j].is_partial, x[i].id = x[j].id
        PROVE  /\ x[i].start = x[j].start /\ x[i].end <= x[j].end + Jitter
               /\ StartsWith(x[j].audio, x[i].audio)
    <3>1. x[j] = q[j]
      BY <1>1
    <3>2. q[i].is_partial /\ ~q[j].is_partial /\ q[i].id = q[j].id
      BY <2>1, <2>2, <3>1
    <3>3. /\ q[i].start = q[j].start /\ q[i].end <= q[j].end + Jitter
          /\ StartsWith(q[j].audio, q[i].audio)
      BY <1>6, <2>1, <3>2 DEF Prefixes
    <3> QED BY <2>1, <3>1, <3>3
  <2>3. ASSUME x[i].id = seg.id
        PROVE  /\ x[i].start = seg.start /\ x[i].end <= seg.end + Jitter
               /\ StartsWith(seg.audio, x[i].audio)
    <3>1. /\ q[i].start = st /\ q[i].end = st + Len(q[i].audio)
          /\ StartsWith(s, q[i].audio)
      BY <1>6, <2>1, <2>3 DEF Prefixes
    <3>2. /\ Len(q[i].audio) \in Nat /\ Len(s) \in Nat /\ seg.end \in Nat
          /\ Len(seg.audio) \in Nat
      <4>1. seg.end \in Nat /\ seg.audio \in Seq(Timestamps)
        BY DEF SegmentRecords
      <4> QED BY <2>1, <4>1, RecordsTyped
    <3>3. Len(q[i].audio) <= Len(s) /\ Len(s) <= Len(seg.audio)
      BY <1>6, <3>1 DEF StartsWith
    <3>4. q[i].end <= seg.end + Jitter
      <4>1. st + Len(q[i].audio) <= st + Len(s)
        BY <3>2, <3>3
      <4>2. st + Len(q[i].audio) \in Nat /\ st + Len(s) \in Nat
        BY <3>2
      <4>3. st + Len(s) <= seg.end + Jitter /\ Jitter \in Nat
        BY <1>6, JitterNat
      <4> DEFINE u == st + Len(q[i].audio)
                 v == st + Len(s)
      <4>4. u \in Nat /\ v \in Nat /\ u <= v /\ v <= seg.end + Jitter
        BY <4>1, <4>2, <4>3
      <4>5. q[i].end = u
        BY <3>1
      <4> HIDE DEF u, v
      <4> QED BY <3>2, <4>3, <4>4, <4>5
    <3>5. StartsWith(seg.audio, q[i].audio)
      <4>1. \A k \in 1..Len(s) : s[k] = seg.audio[k]
        BY <1>6 DEF StartsWith
      <4>2. \A k \in 1..Len(q[i].audio) :
              k \in 1..Len(s) /\ q[i].audio[k] = s[k]
        <5>1. \A k \in 1..Len(q[i].audio) : k \in 1..Len(s)
          BY <3>2, <3>3
        <5>2. \A k \in 1..Len(q[i].audio) : q[i].audio[k] = s[k]
          BY <3>1 DEF StartsWith
        <5> QED BY <5>1, <5>2
      <4>3. Len(q[i].audio) <= Len(seg.audio)
        BY <3>2, <3>3
      <4> QED BY <4>1, <4>2, <4>3 DEF StartsWith
    <3> QED BY <2>1, <3>1, <3>4, <3>5
  <2> QED BY <1>1, <1>2, <2>1, <2>2, <2>3
<1>7. SoftCutEnabled \/ Prefixes(x, NoId, <<>>, NoTs)
  BY <1>6 DEF WellShown
<1> QED BY <1>5, <1>7 DEF WellShown, x

(* A partial of the segment in progress, when one is due.                  *)
LEMMA PartialShown ==
  ASSUME VadAssumption, NEW q \in Seq(SegmentRecords), NEW id \in Nat,
         NEW s \in Seq(Timestamps), NEW st \in Nat, NEW last \in Nat,
         WellShown(q, id, s, st, last), NEW n, IdsOK(q, id, n),
         PartialDue(Len(s), last),
         NEW seg \in SegmentRecords, seg.is_partial, seg.id = id,
         seg.start = st, seg.end = st + Len(s), seg.audio = s
  PROVE  /\ WellShown(q, id, s, st, Len(s))
         /\ WellShown(Append(q, seg), id, s, st, Len(s))
<1> DEFINE x == Append(q, seg)
           m == Len(q) + 1
<1>1. /\ Len(q) \in Nat /\ Len(x) = m /\ x[m] = seg
      /\ \A i \in 1..Len(q) : x[i] = q[i]
  BY Appended
<1> HIDE DEF x
<1>2. /\ \A i \in 1..Len(x) : i \in 1..Len(q) \/ i = m
      /\ \A i \in 1..Len(q) : i < m /\ i \in Nat
  BY <1>1
<1>3. /\ Len(s) \in Nat /\ last <= Len(s) /\ Len(s) >= PartialMin
      /\ Len(s) - last >= PartialInterval /\ PartialInterval \in Nat
  BY DEF PartialDue, VadAssumption
<1>4. /\ InLimits(q, id, s, last) /\ Paced(q, id, last) /\ Within(Len(s))
      /\ \A i \in 1..Len(q) : WithinClosed(Len(q[i].audio))
  BY DEF WellShown, InLimits
<1>5. \A i \in 1..Len(q) : Len(q[i].audio) \in Nat
  BY RecordsTyped
<1>6. Paced(q, id, Len(s)) /\ InLimits(q, id, s, Len(s))
  <2>1. \A k \in Nat : k <= last => k <= Len(s)
    BY <1>3
  <2>2. Paced(q, id, Len(s))
    BY <1>4, <1>5, <2>1 DEF Paced
  <2> QED BY <1>4, <2>2 DEF InLimits
<1>7. InLimits(x, id, s, Len(s))
  <2>1. \A i \in 1..Len(x) : WithinClosed(Len(x[i].audio))
    BY <1>1, <1>2, <1>3, <1>4, WithinCloses
  <2> HIDE DEF m
  <2>2. ASSUME NEW i \in 1..Len(x), x[i].is_partial
        PROVE  /\ Len(x[i].audio) >= PartialMin
               /\ x[i].id = id => Len(x[i].audio) <= Len(s)
    <3>1. CASE i = m
      BY <1>1, <1>3, <3>1
    <3>2. CASE i \in 1..Len(q)
      BY <1>1, <1>6, <2>2, <3>2 DEF Paced
    <3> QED BY <1>2, <3>1, <3>2
  <2>3. ASSUME NEW i \in 1..Len(x), NEW j \in 1..Len(x), i < j,
               x[i].is_partial, x[j].is_partial, x[i].id = x[j].id
        PROVE  Len(x[j].audio) - Len(x[i].audio) >= PartialInterval
    <3>1. i \in 1..Len(q) /\ x[i] = q[i]
      <4>1. i # m
        BY <1>1, <2>3 DEF m
      <4> QED BY <1>1, <1>2, <4>1
    <3>2. CASE j \in 1..Len(q)
      BY <1>1, <1>4, <2>3, <3>1, <3>2 DEF Paced
    <3>3. CASE j = m
      <4>1. Len(q[i].audio) <= last
        BY <1>1, <1>4, <2>3, <3>1, <3>3 DEF Paced
      <4> QED BY <1>1, <1>3, <1>5, <3>1, <3>3, <4>1
    <3> QED BY <1>2, <3>2, <3>3
  <2>4. Paced(x, id, Len(s))
    BY <2>2, <2>3 DEF Paced
  <2> QED BY <1>4, <2>1, <2>4 DEF InLimits
<1> HIDE DEF m
<1>8. ASSUME Prefixes(q, id, s, st) PROVE Prefixes(x, id, s, st)
  <2>1. StartsWith(s, s)
    BY <1>3 DEF StartsWith
  <2>2. ASSUME NEW i \in 1..Len(x), x[i].is_partial, x[i].id = id
        PROVE  /\ x[i].start = st /\ x[i].end = st + Len(x[i].audio)
               /\ StartsWith(s, x[i].audio)
    BY <1>1, <1>2, <1>8, <2>1, <2>2 DEF Prefixes
  <2>3. ASSUME NEW i \in 1..Len(x), x[i].is_partial,
               NEW j \in 1..Len(x), ~x[j].is_partial, x[i].id = x[j].id
        PROVE  /\ x[i].start = x[j].start /\ x[i].end <= x[j].end + Jitter
               /\ StartsWith(x[j].audio, x[i].audio)
    <3>1. j \in 1..Len(q) /\ x[j] = q[j]
      BY <1>1, <1>2, <2>3
    <3>2. q[j].id # id
      BY <2>3, <3>1 DEF IdsOK
    <3>3. i \in 1..Len(q) /\ x[i] = q[i]
      BY <1>1, <1>2, <2>3, <3>1, <3>2
    <3> QED BY <1>8, <2>3, <3>1, <3>3 DEF Prefixes
  <2> QED BY <2>2, <2>3 DEF Prefixes
<1>9. SoftCutEnabled \/ Prefixes(x, id, s, st)
  BY <1>8 DEF WellShown
<1> QED BY <1>6, <1>7, <1>9 DEF WellShown, x

(* The segment in progress takes the packet and is not cut.                *)
LEMMA GrownShown ==
  ASSUME NEW q \in Seq(SegmentRecords), NEW id,
         NEW s \in Seq(Timestamps), NEW st, NEW last,
         WellShown(q, id, s, st, last),
         NEW t \in Timestamps, Within(Len(Append(s, t)))
  PROVE  WellShown(q, id, Append(s, t), st, last)
<1> DEFINE r == Append(s, t)
<1>1. InLimits(q, id, r, last)
  BY DEF WellShown, InLimits
<1>2. ASSUME Prefixes(q, id, s, st) PROVE Prefixes(q, id, r, st)
  <2>1. /\ Len(s) \in Nat /\ Len(r) = Len(s) + 1
        /\ \A i \in 1..Len(s) : r[i] = s[i]
    BY Appended
  <2> HIDE DEF r
  <2>2. ASSUME NEW i \in 1..Len(q), StartsWith(s, q[i].audio)
        PROVE  StartsWith(r, q[i].audio)
    <3>1. Len(q[i].audio) \in Nat
      BY RecordsTyped
    <3> QED BY <2>1, <2>2, <3>1 DEF StartsWith
  <2> QED BY <1>2, <2>2 DEF Prefixes
<1> QED BY <1>1, <1>2 DEF WellShown

(* What fanout_put leaves of it, the final queued or dropped.              *)
LEMMA ClosedShown ==
  ASSUME VadAssumption, NEW q \in Seq(SegmentRecords),
         NEW id \in Nat \ {NoId}, NEW s \in Seq(Timestamps), NEW st \in Nat,
         NEW last \in Nat, WellShown(q, id, s, st, last),
         NEW n \in Nat, IdsOK(q, id, n),
         NEW seg \in SegmentRecords, ~seg.is_partial, seg.id = id,
         seg.start = st, WithinClosed(Len(seg.audio)),
         \/ SoftCutEnabled
         \/ StartsWith(seg.audio, s) /\ st + Len(s) <= seg.end + Jitter,
         NEW c
  PROVE  WellShown(PutNowait(c, q, seg), NoId, <<>>, NoTs, 0)
<1>1. WellShown(Append(q, seg), NoId, <<>>, NoTs, 0)
  BY FinalShown
<1>2. WellShown(q, NoId, <<>>, NoTs, 0)
  <2>1. \A i \in 1..Len(q) : q[i].id # NoId
    BY RecordsTyped
  <2> QED BY <2>1, NothingWithin, NewSegmentShown
<1> QED BY <1>1, <1>2 DEF PutNowait

LEMMA MaybeEmitPartialShown ==
  ASSUME VadInv, NEW c \in Channels, NEW q \in Seq(SegmentRecords),
         NEW last \in Nat, NEW n,
         segment_chunks'[c] \in Seq(Timestamps),
         segment_start_ts'[c] \in Nat, segment_id'[c] \in Nat \ {NoId},
         IdsOK(q, segment_id'[c], n),
         WellShown(q, segment_id'[c], segment_chunks'[c],
                   segment_start_ts'[c], last),
         MaybeEmitPartial(c, q, last)
  PROVE  /\ WellShown(queued'[c], segment_id'[c], segment_chunks'[c],
                      segment_start_ts'[c], last_partial'[c])
         /\ \A d \in Channels : d # c => /\ queued'[d] = queued[d]
                                         /\ last_partial'[d] = last_partial[d]
<1> DEFINE s == segment_chunks'[c]
           st == segment_start_ts'[c]
           id == segment_id'[c]
           due == PartialDue(Len(s), last)
           prefix == Segment(id, st, st + Len(s), s, TRUE)
           r == IF due THEN PutNowait(c, q, prefix) ELSE q
           m == IF due THEN Len(s) ELSE last
<1>1. /\ queued' = [queued EXCEPT ![c] = r]
      /\ last_partial' = [last_partial EXCEPT ![c] = m]
  BY DEF MaybeEmitPartial
<1> HIDE DEF r, m
<1>2. \A d \in Channels :
        /\ queued'[d] = IF d = c THEN r ELSE queued[d]
        /\ last_partial'[d] = IF d = c THEN m ELSE last_partial[d]
  BY <1>1 DEF VadInv, TypeOK
<1> HIDE DEF s, st, id, due, prefix
<1>3. s \in Seq(Timestamps) /\ st \in Nat /\ id \in Nat \ {NoId}
  BY DEF s, st, id
<1>4. /\ prefix \in SegmentRecords /\ prefix.is_partial /\ prefix.id = id
      /\ prefix.start = st /\ prefix.end = st + Len(s) /\ prefix.audio = s
  <2>1. Len(s) \in Nat
    BY <1>3
  <2>2. st + Len(s) \in Nat
    BY <1>3, <2>1
  <2>3. prefix \in SegmentRecords
    BY <1>3, <2>2, SegmentType DEF prefix
  <2> QED BY <2>3 DEF prefix, Segment
<1>5. WellShown(q, id, s, st, last) /\ IdsOK(q, id, n)
  BY DEF s, st, id
<1>6. WellShown(r, id, s, st, m)
  <2>1. CASE due
    <3>1. /\ WellShown(q, id, s, st, Len(s))
          /\ WellShown(Append(q, prefix), id, s, st, Len(s))
      BY <1>3, <1>4, <1>5, <2>1, PartialShown, VadAssumption DEF due
    <3> QED BY <2>1, <3>1 DEF r, m, PutNowait
  <2>2. CASE ~due
    BY <1>5, <2>2 DEF r, m
  <2> QED BY <2>1, <2>2
<1> QED BY <1>2, <1>6 DEF s, st, id

LEMMA ShownElsewhere ==
  ASSUME NEW d, Shown(d), queued'[d] = queued[d],
         segment_id'[d] = segment_id[d],
         segment_chunks'[d] = segment_chunks[d],
         segment_start_ts'[d] = segment_start_ts[d],
         last_partial'[d] = last_partial[d]
  PROVE  Shown(d)'
BY DEF Shown

LEMMA ShownTyped ==
  ASSUME PartialInv, NEW c \in Channels
  PROVE  /\ VadInv /\ AudioInv /\ Shown(c)
         /\ queued[c] \in Seq(SegmentRecords)
         /\ segment_chunks[c] \in Seq(Timestamps)
         /\ Len(segment_chunks[c]) \in Nat
         /\ last_partial[c] \in Nat /\ seg_counter[c] \in Nat
         /\ IdsOK(queued[c], segment_id[c], seg_counter[c])
         /\ Within(Len(segment_chunks[c]))
<1>1. VadInv /\ AudioInv /\ Shown(c)
  BY DEF PartialInv, AudioInv
<1>2. /\ queued[c] \in Seq(SegmentRecords)
      /\ segment_chunks[c] \in Seq(Timestamps)
      /\ last_partial[c] \in Nat /\ seg_counter[c] \in Nat
  BY <1>1 DEF VadInv, TypeOK
<1>3. IdsOK(queued[c], segment_id[c], seg_counter[c])
  BY <1>1, IdsSplit DEF VadInv
<1>4. Len(segment_chunks[c]) \in Nat
  BY <1>2
<1>5. Within(Len(segment_chunks[c]))
  BY <1>1 DEF Shown, WellShown, InLimits
<1> QED BY <1>1, <1>2, <1>3, <1>4, <1>5

LEMMA StartSegmentShown ==
  ASSUME PartialInv, NEW c \in Channels, NEW t \in Timestamps,
         NEW ts, StartSegment(c, t, ts)
  PROVE  \A d \in Channels : Shown(d)'
<1> DEFINE q == queued[c]
           n == seg_counter[c]
           r == Append(preroll[c], t)
           st == StartStamp(c, ts)
<1>1. /\ VadInv /\ q \in Seq(SegmentRecords) /\ n \in Nat
      /\ IdsOK(q, segment_id[c], n) /\ Shown(c)
  BY ShownTyped
<1>2. /\ segment_chunks' = [segment_chunks EXCEPT ![c] = r]
      /\ segment_start_ts' = [segment_start_ts EXCEPT ![c] = st]
      /\ segment_id' = [segment_id EXCEPT ![c] = n + 1]
      /\ last_partial' = [last_partial EXCEPT ![c] = 0]
      /\ queued' = queued
  BY DEF StartSegment, StartStamp, NewSegmentId, out_vars
<1> HIDE DEF r, st, n
<1>3. \A d \in Channels :
        /\ segment_chunks'[d] = IF d = c THEN r ELSE segment_chunks[d]
        /\ segment_start_ts'[d] = IF d = c THEN st ELSE segment_start_ts[d]
        /\ segment_id'[d] = IF d = c THEN n + 1 ELSE segment_id[d]
        /\ last_partial'[d] = IF d = c THEN 0 ELSE last_partial[d]
  BY <1>1, <1>2 DEF VadInv, TypeOK
<1>4. \A i \in 1..Len(q) : q[i].id # n + 1
  BY <1>1, RecordsTyped DEF IdsOK
<1>5. Within(Len(r))
  <2>1. /\ preroll[c] \in Seq(Timestamps) /\ Len(preroll[c]) <= PrerollChunks
        /\ PrerollChunks \in Nat
    BY <1>1, VadAssumption DEF VadInv, TypeOK, VadAssumption
  <2>2. Len(preroll[c]) \in Nat /\ Len(r) = Len(preroll[c]) + 1
    BY <2>1, Appended DEF r
  <2> QED BY <2>1, <2>2 DEF Within
<1>6. WellShown(q, n + 1, r, st, 0)
  BY <1>1, <1>4, <1>5, NewSegmentShown DEF Shown
<1>7. Shown(c)'
  BY <1>2, <1>3, <1>6 DEF Shown
<1>8. ASSUME NEW d \in Channels, d # c PROVE Shown(d)'
  BY <1>2, <1>3, <1>8, ShownElsewhere DEF PartialInv
<1> QED BY <1>7, <1>8

LEMMA EndSegmentShown ==
  ASSUME PartialInv, NEW c \in Channels, NEW t \in Timestamps,
         NEW ts \in Nat, t <= ts, EndSegment(c, t, ts)
  PROVE  \A d \in Channels : Shown(d)'
<1> DEFINE q == queued[c]
           s == segment_chunks[c]
           id == segment_id[c]
           chunks == WithPacket(c, t)
           st == segment_start_ts[c]
           final == Segment(id, st, ts, chunks, FALSE)
<1>1. /\ VadInv /\ AudioInv /\ q \in Seq(SegmentRecords)
      /\ s \in Seq(Timestamps) /\ Len(s) \in Nat /\ last_partial[c] \in Nat
      /\ seg_counter[c] \in Nat
      /\ IdsOK(q, id, seg_counter[c]) /\ Within(Len(s))
      /\ WellShown(q, id, s, st, last_partial[c])
  BY ShownTyped DEF Shown
<1>2. /\ st \in Nat /\ id \in Nat \ {NoId}
      /\ chunks \in Seq(Timestamps)
      /\ st + Len(chunks) <= t + 1 + Jitter /\ Finalizable(c, chunks)
      /\ t \in Nat
  <2>1. t \in Nat
    BY DEF Timestamps
  <2> QED BY <1>1, <2>1, SegmentHeld DEF EndSegment
<1>3. /\ chunks = Append(s, t) /\ Len(chunks) = Len(s) + 1
      /\ \A i \in 1..Len(s) : chunks[i] = s[i]
  <2>1. chunks = Append(s, t)
    BY <1>1, MidSpeech DEF EndSegment
  <2> QED BY <1>1, <2>1, Appended
<1>4. /\ queued' = [queued EXCEPT ![c] = PutNowait(c, q, final)]
      /\ segment_chunks' = [segment_chunks EXCEPT ![c] = <<>>]
      /\ segment_start_ts' = [segment_start_ts EXCEPT ![c] = NoTs]
      /\ segment_id' = [segment_id EXCEPT ![c] = NoId]
      /\ last_partial' = [last_partial EXCEPT ![c] = 0]
  BY <1>2 DEF EndSegment, FanoutPut
<1>5. /\ final \in SegmentRecords /\ ~final.is_partial /\ final.id = id
      /\ final.audio = chunks /\ final.start = st /\ final.end = ts
  <2>1. final \in SegmentRecords
    BY <1>2, SegmentType
  <2> QED BY <2>1 DEF Segment
<1> HIDE DEF q, s, id, chunks, st, final
<1>6. \A d \in Channels :
        /\ queued'[d] = IF d = c THEN PutNowait(c, q, final) ELSE queued[d]
        /\ segment_chunks'[d] = IF d = c THEN <<>> ELSE segment_chunks[d]
        /\ segment_start_ts'[d] = IF d = c THEN NoTs ELSE segment_start_ts[d]
        /\ segment_id'[d] = IF d = c THEN NoId ELSE segment_id[d]
        /\ last_partial'[d] = IF d = c THEN 0 ELSE last_partial[d]
  BY <1>1, <1>4 DEF VadInv, TypeOK
<1>7. StartsWith(chunks, s) /\ st + Len(s) <= ts + Jitter
  BY <1>1, <1>2, <1>3, JitterNat DEF StartsWith
<1>8. WithinClosed(Len(chunks))
  BY <1>1, <1>3, WithinCloses
<1>9. WellShown(PutNowait(c, q, final), NoId, <<>>, NoTs, 0)
  BY <1>1, <1>2, <1>5, <1>7, <1>8, ClosedShown, VadAssumption
<1>10. Shown(c)'
  BY <1>6, <1>9 DEF Shown
<1>11. ASSUME NEW d \in Channels, d # c PROVE Shown(d)'
  BY <1>6, <1>11, ShownElsewhere DEF PartialInv
<1> QED BY <1>10, <1>11

LEMMA GrowSegmentShown ==
  ASSUME PartialInv, NEW c \in Channels, NEW t \in Timestamps,
         NEW p \in Scores, GrowSegment(c, t, p)
  PROVE  \A d \in Channels : Shown(d)'
<1> DEFINE q == queued[c]
           s == segment_chunks[c]
           chunks == WithPacket(c, t)
           n == Len(chunks)
<1>1. /\ VadInv /\ AudioInv /\ q \in Seq(SegmentRecords)
      /\ s \in Seq(Timestamps) /\ last_partial[c] \in Nat
      /\ IdsOK(q, segment_id[c], seg_counter[c])
      /\ WellShown(q, segment_id[c], s, segment_start_ts[c], last_partial[c])
  BY ShownTyped DEF Shown
<1>2. /\ segment_start_ts[c] \in Nat /\ segment_id[c] \in Nat \ {NoId}
      /\ chunks \in Seq(Timestamps) /\ n \in Nat \ {0}
  BY <1>1, SegmentHeld DEF GrowSegment
<1>3. chunks = Append(s, t)
  BY <1>1, MidSpeech DEF GrowSegment
<1>4. /\ segment_chunks' = [segment_chunks EXCEPT ![c] = chunks]
      /\ UNCHANGED <<segment_start_ts, segment_id>>
      /\ MaybeEmitPartial(c, q, last_partial[c])
      /\ ~\E cut \in 1..n : CutsAt(cut, n, WithScore(c, n, p), p)
  BY DEF GrowSegment
<1> HIDE DEF q, s, chunks, n
<1>5. Within(n)
  <2>1. n \in 1..n
    BY <1>2
  <2>2. ~(LimitsEnabled /\ n >= MaxSegment)
    BY <1>4, <2>1 DEF CutsAt
  <2> QED BY <1>2, <2>2, VadAssumption DEF Within, VadAssumption
<1>6. WellShown(q, segment_id[c], chunks, segment_start_ts[c], last_partial[c])
  BY <1>1, <1>3, <1>5, GrownShown DEF n
<1>7. \A d \in Channels :
        segment_chunks'[d] = IF d = c THEN chunks ELSE segment_chunks[d]
  BY <1>1, <1>4 DEF VadInv, TypeOK
<1>8. /\ WellShown(queued'[c], segment_id'[c], segment_chunks'[c],
                   segment_start_ts'[c], last_partial'[c])
      /\ \A d \in Channels : d # c => /\ queued'[d] = queued[d]
                                      /\ last_partial'[d] = last_partial[d]
  BY <1>1, <1>2, <1>4, <1>6, <1>7, MaybeEmitPartialShown
<1>9. Shown(c)'
  BY <1>8 DEF Shown
<1>10. ASSUME NEW d \in Channels, d # c PROVE Shown(d)'
  BY <1>4, <1>7, <1>8, <1>10, ShownElsewhere DEF PartialInv
<1> QED BY <1>9, <1>10

LEMMA CutSegmentShown ==
  ASSUME PartialInv, NEW c \in Channels, NEW t \in Timestamps,
         NEW p \in Scores, CutSegment(c, t, p)
  PROVE  \A d \in Channels : Shown(d)'
<1> DEFINE q == queued[c]
           s == segment_chunks[c]
           id == segment_id[c]
           m == seg_counter[c]
           chunks == WithPacket(c, t)
           n == Len(chunks)
           st == segment_start_ts[c]
           head(k) == Segment(id, st, st + k, SubSeq(chunks, 1, k), FALSE)
<1>1. /\ VadInv /\ AudioInv /\ q \in Seq(SegmentRecords)
      /\ s \in Seq(Timestamps) /\ Len(s) \in Nat /\ last_partial[c] \in Nat
      /\ m \in Nat /\ IdsOK(q, id, m) /\ Within(Len(s))
      /\ WellShown(q, id, s, st, last_partial[c])
  BY ShownTyped DEF Shown
<1>2. /\ st \in Nat /\ id \in Nat \ {NoId}
      /\ chunks \in Seq(Timestamps) /\ n \in Nat \ {0}
  BY <1>1, SegmentHeld DEF CutSegment
<1>3. /\ n = Len(s) + 1 /\ \A i \in 1..Len(s) : chunks[i] = s[i]
  <2>1. chunks = Append(s, t)
    BY <1>1, MidSpeech DEF CutSegment
  <2> QED BY <1>1, <2>1, Appended
<1>4. PICK cut \in 1..n :
        /\ CutsAt(cut, n, WithScore(c, n, p), p)
        /\ segment_chunks' = [segment_chunks EXCEPT ![c] = CutTail(chunks, cut)]
        /\ segment_start_ts' = [segment_start_ts EXCEPT ![c] = st + cut]
        /\ NewSegmentId(c)
        /\ MaybeEmitPartial(c, PutNowait(c, q, head(cut)), 0)
  BY DEF CutSegment
<1> DEFINE a == SubSeq(chunks, 1, cut)
           r == CutTail(chunks, cut)
           final == head(cut)
           q2 == PutNowait(c, q, final)
<1>5. /\ a \in Seq(Timestamps) /\ r \in Seq(Timestamps)
      /\ Split(chunks, a, r) /\ Len(a) = cut
  BY <1>2, CutTailType, CutSplits
<1>6. cut \in Nat /\ cut <= n /\ st + cut \in Nat
  BY <1>2
<1>7. /\ final \in SegmentRecords /\ ~final.is_partial /\ final.id = id
      /\ final.audio = a /\ final.start = st /\ final.end = st + cut
  <2>1. final \in SegmentRecords
    BY <1>2, <1>5, <1>6, SegmentType
  <2> QED BY <2>1 DEF Segment
<1>8. MaybeEmitPartial(c, q2, 0)
  BY <1>4
<1>9. /\ segment_id' = [segment_id EXCEPT ![c] = m + 1]
      /\ m + 1 \in Nat \ {NoId}
  BY <1>1, <1>4 DEF NewSegmentId, NoId
<1> HIDE DEF q, s, id, m, chunks, n, st, head, a, r, final, q2
<1>10. \A d \in Channels :
         /\ segment_chunks'[d] = IF d = c THEN r ELSE segment_chunks[d]
         /\ segment_start_ts'[d] =
              IF d = c THEN st + cut ELSE segment_start_ts[d]
         /\ segment_id'[d] = IF d = c THEN m + 1 ELSE segment_id[d]
  BY <1>1, <1>4, <1>9 DEF VadInv, TypeOK, r
<1>11. WithinClosed(Len(a))
  <2>1. cut = Len(s) + 1 \/ cut <= Len(s)
    BY <1>1, <1>3, <1>6
  <2> QED BY <1>1, <1>5, <1>6, <2>1, WithinCloses, WithinShorter
<1>12. Within(Len(r))
  <2>1. Len(r) \in Nat /\ Len(a) + Len(r) = n /\ cut >= 1
    BY <1>2, <1>5 DEF Split, n
  <2>2. Len(r) <= Len(s)
    BY <1>1, <1>3, <1>5, <1>6, <2>1
  <2> QED BY <1>1, <2>1, <2>2, WithinShorter
<1>13. \/ SoftCutEnabled
       \/ StartsWith(a, s) /\ st + Len(s) <= st + cut + Jitter
  <2> SUFFICES ASSUME ~SoftCutEnabled
               PROVE  StartsWith(a, s) /\ st + Len(s) <= st + cut + Jitter
    OBVIOUS
  <2>1. cut = n
    BY <1>4 DEF CutsAt, NearSoftCut
  <2>2. \A i \in 1..Len(a) : a[i] = chunks[i]
    BY <1>5 DEF Split
  <2>3. StartsWith(a, s)
    <3>1. Len(a) = Len(s) + 1 /\ Len(s) <= Len(a)
      BY <1>1, <1>3, <1>5, <2>1
    <3>2. \A i \in 1..Len(s) : i \in 1..Len(a)
      BY <1>1, <3>1
    <3> QED BY <1>3, <2>2, <3>1, <3>2 DEF StartsWith
  <2> QED BY <1>1, <1>2, <1>3, <1>6, <2>1, <2>3, JitterNat
<1>14. WellShown(q2, NoId, <<>>, NoTs, 0)
  BY <1>1, <1>2, <1>7, <1>11, <1>13, ClosedShown, VadAssumption DEF q2
<1>15. q2 \in Seq(SegmentRecords) /\ IdsOK(q2, NoId, m)
       /\ IdsOK(q2, m + 1, m + 1)
  BY <1>1, <1>2, <1>7, PutNowaitType, PutFinalIds DEF q2
<1>16. \A i \in 1..Len(q2) : q2[i].id # m + 1
  BY <1>1, <1>15, RecordsTyped DEF IdsOK
<1>17. WellShown(q2, m + 1, r, st + cut, 0)
  BY <1>12, <1>14, <1>15, <1>16, NewSegmentShown
<1>18. /\ WellShown(queued'[c], segment_id'[c], segment_chunks'[c],
                    segment_start_ts'[c], last_partial'[c])
       /\ \A d \in Channels : d # c => /\ queued'[d] = queued[d]
                                       /\ last_partial'[d] = last_partial[d]
  <2>1. /\ segment_chunks'[c] = r /\ segment_start_ts'[c] = st + cut
        /\ segment_id'[c] = m + 1
    BY <1>10
  <2> QED BY <1>1, <1>5, <1>6, <1>8, <1>9, <1>15, <1>17, <2>1,
             MaybeEmitPartialShown
<1>19. Shown(c)'
  BY <1>18 DEF Shown
<1>20. ASSUME NEW d \in Channels, d # c PROVE Shown(d)'
  BY <1>10, <1>18, <1>20, ShownElsewhere DEF PartialInv
<1> QED BY <1>19, <1>20

LEMMA FlushChannelsShown ==
  ASSUME PartialInv, NEW S \in SUBSET Channels, FlushChannels(S)
  PROVE  \A d \in Channels : Shown(d)'
<1> DEFINE F == {c \in S : Flushable(c)}
<1>1. /\ queued' = [c \in Channels |->
            IF c \in F THEN PutNowait(c, queued[c], FlushedSegment(c))
            ELSE queued[c]]
      /\ segment_chunks' =
           [c \in Channels |-> IF c \in F THEN <<>> ELSE segment_chunks[c]]
      /\ segment_start_ts' =
           [c \in Channels |-> IF c \in F THEN NoTs ELSE segment_start_ts[c]]
      /\ segment_id' =
           [c \in Channels |-> IF c \in F THEN NoId ELSE segment_id[c]]
      /\ last_partial' =
           [c \in Channels |-> IF c \in F THEN 0 ELSE last_partial[c]]
  BY DEF FlushChannels
<1>2. ASSUME NEW c \in Channels, c \in F PROVE Shown(c)'
  <2> DEFINE q == queued[c]
             s == segment_chunks[c]
             st == segment_start_ts[c]
             id == segment_id[c]
             final == FlushedSegment(c)
  <2>1. /\ VadInv /\ q \in Seq(SegmentRecords)
        /\ s \in Seq(Timestamps) /\ Len(s) \in Nat /\ last_partial[c] \in Nat
        /\ seg_counter[c] \in Nat /\ IdsOK(q, id, seg_counter[c])
        /\ Within(Len(s)) /\ WellShown(q, id, s, st, last_partial[c])
    BY ShownTyped DEF Shown
  <2>2. st \in Nat /\ id \in Nat \ {NoId}
    BY <1>2, <2>1 DEF VadInv, TypeOK, DetectorInSync, Flushable, Finalizable
  <2>3. st + Len(s) \in Nat /\ st + Len(s) <= st + Len(s) + Jitter
    BY <2>1, <2>2, JitterNat
  <2>4. /\ final \in SegmentRecords /\ ~final.is_partial /\ final.id = id
        /\ final.audio = s /\ final.start = st /\ final.end = st + Len(s)
    <3>1. final \in SegmentRecords
      BY <2>1, <2>2, <2>3, SegmentType DEF FlushedSegment
    <3> QED BY <3>1 DEF FlushedSegment, Segment
  <2>5. /\ queued'[c] = PutNowait(c, q, final) /\ segment_chunks'[c] = <<>>
        /\ segment_start_ts'[c] = NoTs /\ segment_id'[c] = NoId
        /\ last_partial'[c] = 0
    BY <1>1, <1>2
  <2> HIDE DEF F, q, s, st, id, final
  <2>6. StartsWith(s, s)
    BY <2>1 DEF StartsWith
  <2>7. WithinClosed(Len(s))
    BY <2>1, WithinCloses
  <2>8. WellShown(PutNowait(c, q, final), NoId, <<>>, NoTs, 0)
    BY <2>1, <2>2, <2>3, <2>4, <2>6, <2>7, ClosedShown, VadAssumption
  <2> QED BY <2>5, <2>8 DEF Shown
<1>3. ASSUME NEW c \in Channels, c \notin F PROVE Shown(c)'
  BY <1>1, <1>3, ShownElsewhere DEF PartialInv
<1> QED BY <1>2, <1>3

LEMMA InitPartialInv == Init => PartialInv
<1> SUFFICES ASSUME Init PROVE PartialInv
  OBVIOUS
<1>1. \A c \in Channels : Shown(c)
  <2> SUFFICES ASSUME NEW c \in Channels PROVE Shown(c)
    OBVIOUS
  <2>1. queued[c] = <<>> /\ segment_chunks[c] = <<>>
    BY DEF Init
  <2>2. InLimits(<<>>, segment_id[c], <<>>, last_partial[c])
    BY NothingWithin DEF InLimits, Paced
  <2>3. Prefixes(<<>>, segment_id[c], <<>>, segment_start_ts[c])
    BY DEF Prefixes
  <2> QED BY <2>1, <2>2, <2>3 DEF Shown, WellShown
<1> QED BY <1>1, InitAudioInv DEF PartialInv

LEMMA NextPartialInv == PartialInv /\ [Next]_vars => PartialInv'
<1> SUFFICES ASSUME PartialInv, [Next]_vars PROVE PartialInv'
  OBVIOUS
<1>1. VadInv /\ AudioInv'
  BY NextAudioInv DEF PartialInv, AudioInv
<1> SUFFICES \A d \in Channels : Shown(d)'
  BY <1>1 DEF PartialInv
<1>2. ASSUME UNCHANGED <<queued, seg_vars>>
      PROVE  \A d \in Channels : Shown(d)'
  BY <1>2, ShownElsewhere DEF PartialInv, seg_vars
<1>3. ASSUME NEW c \in Channels, HandlePacket(c)
      PROVE  \A d \in Channels : Shown(d)'
  <2>1. PICK t \in Timestamps, ts \in Nat :
          /\ t <= ts /\ ts <= t + Jitter
          /\ \/ PushPreroll(c, t, ts) \/ StartSegment(c, t, ts)
             \/ EndSegment(c, t, ts)
             \/ \E p \in Scores : GrowSegment(c, t, p) \/ CutSegment(c, t, p)
    BY <1>3, PacketCases
  <2>2. CASE PushPreroll(c, t, ts)
    BY <1>2, <2>2 DEF PushPreroll, out_vars
  <2> QED BY <2>1, <2>2, StartSegmentShown, EndSegmentShown,
             GrowSegmentShown, CutSegmentShown
<1>4. ASSUME NEW c \in Channels, GoQuiet(c) \/ TakeSegment(c)
      PROVE  \A d \in Channels : Shown(d)'
  BY <1>2, <1>4 DEF GoQuiet, TakeSegment, out_vars
<1>5. CASE Empty \/ Stop \/ UNCHANGED vars
  BY <1>2, <1>5 DEF Empty, Stop, vars, out_vars
<1>6. CASE FlushIdle
  <2>1. IdleChannels \in SUBSET Channels
    BY <1>1 DEF IdleChannels, VadInv, TypeOK
  <2> QED BY <1>6, <2>1, FlushChannelsShown DEF FlushIdle
<1>7. CASE Shutdown
  BY <1>7, FlushChannelsShown DEF Shutdown
<1> QED BY <1>3, <1>4, <1>5, <1>6, <1>7 DEF Next

LEMMA AlwaysPartialInv == Spec => []PartialInv
<1> QED BY InitPartialInv, NextPartialInv, PTL DEF Spec

(* The hard cap holds for every final and partial, and the partials of a   *)
(* segment come partial_interval_s apart: the counts restart wherever a    *)
(* segment starts or is cut.                                               *)
THEOREM LimitsKept == Spec => []SegmentsWithinLimits
<1>1. PartialInv => SegmentsWithinLimits
  BY DEF PartialInv, Shown, WellShown, InLimits, WithinClosed, Paced,
         SegmentsWithinLimits
<1> QED BY <1>1, AlwaysPartialInv, PTL

(* Without the soft cut a partial is a prefix of the final with its id.    *)
THEOREM PartialsArePrefixes == Spec => [](SoftCutEnabled \/ PartialIsPrefix)
<1>1. PartialInv => SoftCutEnabled \/ PartialIsPrefix
  BY DEF PartialInv, Shown, WellShown, Prefixes, PartialIsPrefix
<1> QED BY <1>1, AlwaysPartialInv, PTL

-----------------------------------------------------------------------------
(***************************************************************************)
(* What the debugging copies of the segments cost the pipeline: module     *)
(* Fanout, whose stage is the VAD worker in time.                          *)
(***************************************************************************)

(* FanoutAssumption, and that a full queue is waited for at all. *)
Sizes ==
  /\ SourceMax \in Nat \ {0} /\ DstMax \in Nat \ {0} /\ DumpMax \in Nat \ {0}
  /\ Period \in Nat \ {0} /\ Wait \in Nat \ {0}
  /\ Lag \in Nat /\ WriteTime \in Nat

LEMMA SizesAre == Wait # 0 => Sizes
BY FanoutAssumption DEF Sizes

(* What the variables hold. *)
Ranges ==
  /\ at \in {"get", "dst", "dump", "off"}
  /\ made \in Nat /\ gap \in 0..Period
  /\ waited \in 0..Wait /\ lag \in 0..Lag
  /\ source \in Seq(Nat) /\ dst \in Seq(Nat) /\ item \in Nat

(* An item has come that the next stage's queue does not have yet. *)
Pending == at = "dst" \/ source # <<>>

(* An item is handed on before time passes; a copy may be waited for until *)
(* the next item is due.                                                   *)
StagePace ==
  /\ Len(source) <= 1
  /\ Pending => gap = 0
  /\ at = "dst" => source = <<>> /\ waited = 0
  /\ at = "dump" => waited = Wait \/ (source = <<>> /\ gap <= waited)

(* The next stage has taken an item before the next one comes, but for the *)
(* instant in which both are due.                                          *)
ReaderPace ==
  /\ Pending => Len(dst) = 0 \/ (Len(dst) = 1 /\ lag = Lag)
  /\ ~Pending => \/ Len(dst) = 0
                 \/ Len(dst) = 1 /\ (gap <= lag \/ lag = Lag)
                 \/ Len(dst) = 2 /\ gap = 0 /\ lag = Lag

PaceInv == Ranges /\ lost = {} /\ (at # "off" => StagePace /\ ReaderPace)

(* It has no copy on the queue either. *)
Uncopied == Pending \/ at = "dump"

(* While the writer lives it is done with a copy when the next one comes:  *)
(* the stage finds room on its queue and waits for no copy.                *)
WriterPace ==
  /\ ~writer_stop /\ dump \in Seq(Nat)
  /\ writer \in {"test", "get", "write"}
  /\ writer # "write" => written = <<>>
  /\ writer = "write" => left \in Nat /\ left + gap <= Period
  /\ Uncopied => gap = 0 /\ dump = <<>>
  /\ at = "dump" => source = <<>>
  /\ dump # <<>> => gap = 0 /\ Len(dump) = 1
  /\ writer = "write" /\ (Uncopied \/ dump # <<>>) => left = 0

CopyInv == writer # "dead" => PaceInv /\ (at # "off" => WriterPace)

LEMMA SeqEnds ==
  ASSUME NEW s \in Seq(Nat), NEW e \in Nat
  PROVE  /\ Len(s) \in Nat
         /\ Append(s, e) \in Seq(Nat) /\ Len(Append(s, e)) = Len(s) + 1
         /\ Append(s, e) # <<>>
         /\ s = <<>> <=> Len(s) = 0
         /\ s # <<>> => /\ Head(s) \in Nat /\ Tail(s) \in Seq(Nat)
                        /\ Len(Tail(s)) = Len(s) - 1
OBVIOUS

LEMMA PaceStep ==
  ASSUME Sizes, Lag <= Period, PaceInv, [FanoutNext]_fanout,
         at = "dump" /\ gap = Period => waited = Wait
  PROVE  PaceInv'
<1> USE DEF Sizes, Ranges
<1>1. /\ Len(source) \in Nat /\ Len(dst) \in Nat
      /\ source = <<>> <=> Len(source) = 0
      /\ dst = <<>> <=> Len(dst) = 0
  BY SeqEnds DEF PaceInv
<1>2. CASE Arrive
  <2>1. ~Pending /\ StagePace /\ ReaderPace
    BY <1>2 DEF Arrive, PaceInv, StagePace
  <2>2. source = <<>> /\ at # "dst"
    BY <2>1 DEF Pending
  <2>3. source' = Append(source, made + 1) /\ made' = made + 1 /\ lost' = lost
    BY <1>1, <1>2, <2>2 DEF Arrive
  <2>4. source' \in Seq(Nat) /\ Len(source') = 1 /\ source' # <<>>
    BY <1>1, <2>2, <2>3, SeqEnds DEF PaceInv
  <2>5. /\ gap = Period /\ gap' = 0 /\ at' = at /\ waited' = waited
        /\ item' = item /\ dst' = dst /\ lag' = lag
    BY <1>2 DEF Arrive, stage, consumer
  <2>6. Len(dst) = 0 \/ (Len(dst) = 1 /\ lag = Lag)
    BY <2>1, <2>5 DEF ReaderPace, PaceInv
  <2> QED BY <2>2, <2>3, <2>4, <2>5, <2>6 DEF PaceInv, StagePace, ReaderPace,
     Pending
<1>3. CASE Take
  <2>1. /\ StagePace /\ ReaderPace /\ at = "get" /\ source # <<>>
        /\ item' = Head(source) /\ source' = Tail(source)
        /\ at' = "dst" /\ waited' = 0
        /\ made' = made /\ gap' = gap /\ dst' = dst /\ lag' = lag
        /\ lost' = lost
    BY <1>3 DEF Take, PaceInv, consumer
  <2>2. source' \in Seq(Nat) /\ Len(source') = 0 /\ source' = <<>>
    <3>1. Len(source) = 1
      <4>1. source # <<>> /\ Len(source) <= 1
        BY <2>1 DEF StagePace
      <4>2. \A n \in Nat : n # 0 /\ n <= 1 => n = 1
        OBVIOUS
      <4> QED BY ONLY <1>1, <4>1, <4>2
    <3>2. Tail(source) \in Seq(Nat) /\ Len(Tail(source)) = 0
      BY <2>1, <3>1, SeqEnds DEF PaceInv
    <3> QED BY <2>1, <3>2, SeqEnds
  <2>3. item' \in Nat
    BY <2>1, SeqEnds DEF PaceInv
  <2> QED BY <2>1, <2>2, <2>3 DEF PaceInv, StagePace, ReaderPace, Pending
<1>4. CASE PutDst
  <2>1. /\ StagePace /\ ReaderPace /\ Pending /\ at = "dst" /\ source = <<>>
        /\ gap = 0 /\ waited = 0
    BY <1>4 DEF PutDst, PaceInv, StagePace, Pending
  <2>2. /\ dst' = Append(dst, item) /\ lost' = lost
        /\ at' = "dump" /\ waited' = 0 /\ source' = source
        /\ made' = made /\ gap' = gap /\ lag' = lag /\ item' = item
    BY <1>4, <2>1 DEF PutDst, TimedOut
  <2>3. dst' \in Seq(Nat) /\ Len(dst') = Len(dst) + 1
    BY <2>2, SeqEnds DEF PaceInv
  <2>4. /\ lag \in Nat
        /\ Len(dst) = 0 \/ (Len(dst) = 1 /\ lag = Lag)
    BY <2>1 DEF PaceInv, ReaderPace
  <2> QED BY <2>1, <2>2, <2>3, <2>4 DEF PaceInv, StagePace, ReaderPace,
     Pending
<1>5. CASE PutDump
  BY <1>5 DEF PutDump, PaceInv, StagePace, ReaderPace, Pending,
     consumer
<1>6. CASE Consume
  <2>1. /\ dst # <<>> /\ dst' = Tail(dst) /\ lag' = 0
        /\ made' = made /\ gap' = gap /\ source' = source /\ at' = at
        /\ item' = item /\ waited' = waited /\ lost' = lost
    BY <1>6 DEF Consume, stage
  <2>2. dst' \in Seq(Nat) /\ Len(dst') = Len(dst) - 1
    BY <2>1, SeqEnds DEF PaceInv
  <2> QED BY <1>1, <2>1, <2>2 DEF PaceInv, StagePace, ReaderPace, Pending
<1>7. CASE \/ WriterTests \/ WriterEmpty \/ WriterGets \/ WriterDone
           \/ WriteFails \/ StopWriter
  <2>1. UNCHANGED <<made, gap, source, at, item, waited, dst, lag, lost>>
    BY <1>7 DEF WriterTests, WriterEmpty, WriterGets, WriterDone, WriteFails,
       StopWriter, stage, consumer
  <2> QED BY <2>1 DEF PaceInv, StagePace, ReaderPace, Pending
<1>8. CASE StopStage
  BY <1>8 DEF StopStage, PaceInv, consumer
<1>9. CASE Tick
  <2>1. /\ made' = made /\ source' = source /\ at' = at /\ item' = item
        /\ dst' = dst /\ lost' = lost
        /\ gap' = IF gap < Period THEN gap + 1 ELSE gap
        /\ waited' = IF at \in {"dst", "dump"} /\ waited < Wait THEN waited + 1
                     ELSE waited
        /\ lag' = IF dst # <<>> THEN lag + 1 ELSE 0
        /\ dst # <<>> => lag < Lag
    BY <1>9 DEF Tick
  <2>2. Ranges'
    BY <2>1 DEF PaceInv
  <2>3. ASSUME at # "off" PROVE StagePace' /\ ReaderPace'
    <3>1. StagePace /\ ReaderPace
      BY <2>3 DEF PaceInv
    <3>2. at # "dst"
      BY <1>1, <1>9, <2>1, <3>1 DEF Tick, ReaderPace, Pending
    <3>3. ~Pending
      <4>1. at = "get" => source = <<>>
        BY <1>9 DEF Tick
      <4>2. at = "dump" => source = <<>>
        BY <1>9, <3>1 DEF Tick, TimedOut, StagePace
      <4> QED BY <2>3, <3>2, <4>1, <4>2 DEF Pending, PaceInv
    <3>4. at = "dump" => waited < Wait
      BY <1>9 DEF Tick, TimedOut, PaceInv
    <3> QED BY <1>1, <2>1, <3>1, <3>2, <3>3, <3>4 DEF PaceInv, StagePace,
       ReaderPace, Pending
  <2> QED BY <2>1, <2>2, <2>3 DEF PaceInv
<1>10. CASE UNCHANGED fanout
  BY <1>10 DEF fanout, stage, consumer, PaceInv, StagePace,
     ReaderPace, Pending
<1> QED BY <1>2, <1>3, <1>4, <1>5, <1>6, <1>7, <1>8, <1>9, <1>10 DEF
   FanoutNext

LEMMA InitPace == Sizes /\ FanoutInit => PaceInv /\ WriterPace
BY DEF Sizes, FanoutInit, PaceInv, Ranges, StagePace, ReaderPace, Pending,
   Uncopied, WriterPace

LEMMA WriterStep ==
  ASSUME Sizes, Lag <= Period, WriteTime <= Period,
         PaceInv, at # "off", WriterPace, [FanoutNext]_fanout,
         at' # "off", writer' # "dead"
  PROVE  WriterPace'
<1> USE DEF Sizes, Ranges
<1>1. /\ Len(source) \in Nat /\ Len(dst) \in Nat /\ Len(dump) \in Nat
      /\ source = <<>> <=> Len(source) = 0
      /\ dst = <<>> <=> Len(dst) = 0
      /\ dump = <<>> <=> Len(dump) = 0
      /\ gap \in Nat /\ StagePace /\ ReaderPace
  BY SeqEnds DEF PaceInv, WriterPace
<1>2. CASE Arrive
  <2>1. /\ gap = Period /\ gap' = 0 /\ at' = at
        /\ UNCHANGED <<dump, writer, writer_stop, written, left>>
    BY <1>2 DEF Arrive, stage, dumper
  <2>2. /\ ~Uncopied /\ dump = <<>>
        /\ writer = "write" => left = 0
    BY <2>1 DEF WriterPace, PaceInv
  <2>3. at # "dump"
    BY <2>2 DEF Uncopied
  <2> QED BY <2>1, <2>2, <2>3 DEF WriterPace
<1>3. CASE Take \/ PutDst
  <2>1. /\ gap' = gap /\ Uncopied
        /\ UNCHANGED <<dump, writer, writer_stop, written, left>>
    BY <1>3 DEF Take, PutDst, dumper, Uncopied, Pending
  <2>2. at' = "dump" => source' = <<>>
    BY <1>1, <1>3 DEF Take, PutDst, StagePace
  <2> QED BY <2>1, <2>2 DEF WriterPace
<1>4. CASE PutDump
  <2>1. /\ Uncopied /\ gap = 0 /\ dump = <<>> /\ gap' = 0
        /\ UNCHANGED <<writer, writer_stop, written, left, source>>
        /\ dump' = Append(dump, item) /\ at' = "get"
    BY <1>1, <1>4 DEF PutDump, dumper, Uncopied, WriterPace
  <2>2. dump' \in Seq(Nat) /\ Len(dump') = 1
    BY <1>1, <2>1, SeqEnds DEF PaceInv, WriterPace
  <2>3. source = <<>>
    BY <1>4 DEF PutDump, WriterPace
  <2> QED BY <2>1, <2>2, <2>3 DEF WriterPace, Uncopied, Pending
<1>5. CASE Consume
  <2>1. UNCHANGED <<gap, at, source, dump, writer, writer_stop, written, left>>
    BY <1>5 DEF Consume, stage, dumper
  <2> QED BY <2>1 DEF WriterPace, Uncopied, Pending
<1>6. CASE WriterGets
  <2>1. /\ dump # <<>> /\ dump' = Tail(dump) /\ writer' = "write"
        /\ Len(written') = 1 /\ left' = WriteTime * Len(written')
        /\ UNCHANGED <<gap, at, source, writer_stop>>
    BY <1>6 DEF WriterGets, WriterPace, stage
  <2>2. left' = WriteTime
    BY <2>1
  <2>3. gap = 0 /\ ~Uncopied /\ Len(dump) = 1
    BY <2>1 DEF WriterPace
  <2>4. dump' = <<>>
    <3>1. Tail(dump) \in Seq(Nat) /\ Len(Tail(dump)) = 0
      BY <2>1, <2>3, SeqEnds DEF WriterPace
    <3> QED BY <2>1, <3>1, SeqEnds
  <2> QED BY <2>1, <2>2, <2>3, <2>4 DEF WriterPace, Uncopied, Pending
<1>7. CASE WriterDone
  <2>1. /\ writer' = "test" /\ written' = <<>>
        /\ UNCHANGED <<gap, at, source, dump, writer_stop>>
    BY <1>7 DEF WriterDone, Cleared, stage
  <2> QED BY <2>1 DEF WriterPace, Uncopied, Pending
<1>8. ~(WriteFails \/ StopStage \/ StopWriter)
  BY DEF WriteFails, StopStage, StopWriter, WriterPace
<1>9. CASE Tick
  <2>1. /\ UNCHANGED <<at, source, dump, writer, writer_stop, written>>
        /\ gap' = IF gap < Period THEN gap + 1 ELSE gap
        /\ writer = "write" => left' = left - 1 /\ left > 0
        /\ writer # "test" /\ (writer = "get" => dump = <<>>)
    BY <1>9 DEF Tick
  <2>2. dump = <<>>
    BY <2>1 DEF WriterPace
  <2>3. ~Uncopied
    <3>1. at # "dst"
      BY <1>1, <1>9 DEF Tick, ReaderPace, Pending
    <3>2. at # "dump"
      BY <1>1, <1>9, <2>2 DEF Tick
    <3>3. at = "get" => source = <<>>
      BY <1>9 DEF Tick
    <3> QED BY <3>1, <3>2, <3>3 DEF Uncopied, Pending, PaceInv
  <2>4. writer = "write" => left' \in Nat /\ left' + gap' <= Period
    BY <1>1, <2>1 DEF WriterPace
  <2> QED BY <2>1, <2>2, <2>3, <2>4 DEF WriterPace, Uncopied, Pending
<1>10. CASE UNCHANGED fanout
  BY <1>10 DEF fanout, stage, dumper, WriterPace, Uncopied,
     Pending
<1>11. CASE WriterTests \/ WriterEmpty
  <2>1. /\ UNCHANGED <<gap, at, source, dump, writer_stop, written>>
        /\ writer' \in {"test", "get"} /\ writer # "write"
    BY <1>11 DEF WriterTests, WriterEmpty, WriterPace, stage
  <2> QED BY <2>1 DEF WriterPace, Uncopied, Pending
<1> QED BY <1>2, <1>3, <1>4, <1>5, <1>6, <1>7, <1>8, <1>9, <1>10, <1>11 DEF
   FanoutNext

LEMMA CopyStep ==
  ASSUME Sizes, Lag <= Period, WriteTime <= Period,
         CopyInv, [FanoutNext]_fanout
  PROVE  CopyInv'
<1> SUFFICES ASSUME writer' # "dead"
             PROVE  PaceInv' /\ (at' # "off" => WriterPace')
  BY DEF CopyInv
<1>1. writer # "dead" /\ (at' # "off" => at # "off")
  BY DEF FanoutNext, Arrive, Take, PutDst,
     PutDump, Consume, WriterTests, WriterEmpty, WriterGets, WriterDone,
     WriteFails, StopStage, StopWriter, Tick, fanout, stage, dumper
<1>2. PaceInv /\ (at # "off" => WriterPace)
  BY <1>1 DEF CopyInv
<1>3. ~(at = "dump" /\ gap = Period)
  BY <1>2 DEF WriterPace, Uncopied, Sizes
<1>4. PaceInv'
  BY <1>2, <1>3, PaceStep
<1>5. at' # "off" => WriterPace'
  BY <1>1, <1>2, WriterStep
<1> QED BY <1>4, <1>5

(* fanout_put waits for two queues one after the other, and yet copying    *)
(* costs the pipeline no item as long as the dump thread lives, if a file  *)
(* takes no longer to write than the items are apart and the next stage    *)
(* keeps up with them: for queues of any size and waits of any length.     *)
THEOREM CopiesCostNothing ==
  Wait # 0 /\ Lag <= Period /\ WriteTime <= Period
    => (FanoutSpec => []MainPathKept)
<1> SUFFICES ASSUME Wait # 0, Lag <= Period, WriteTime <= Period
             PROVE  FanoutSpec => []MainPathKept
  OBVIOUS
<1>0. Sizes
  BY SizesAre
<1>1. FanoutInit => CopyInv
  BY <1>0, InitPace DEF CopyInv
<1>2. CopyInv /\ [FanoutNext]_fanout => CopyInv'
  BY <1>0, CopyStep
<1>3. CopyInv => MainPathKept
  BY DEF CopyInv, PaceInv, MainPathKept
<1> QED BY <1>1, <1>2, <1>3, PTL DEF FanoutSpec

(* Where the items are at least put_timeout apart it costs none even when  *)
(* writing is slower or the dump thread is dead: the bound within which    *)
(* the comment in fanout_put, that losing a copy costs nothing, is true.   *)
THEOREM ShortWaitsCostNothing ==
  Wait # 0 /\ Wait <= Period /\ Lag <= Period
    => (FanoutSpec => []CopyCostsNothing)
<1> SUFFICES ASSUME Wait # 0, Lag <= Period, Wait <= Period
             PROVE  FanoutSpec => []CopyCostsNothing
  OBVIOUS
<1>0. Sizes
  BY SizesAre
<1>1. FanoutInit => PaceInv
  BY <1>0, InitPace
<1>2. PaceInv /\ [FanoutNext]_fanout => PaceInv'
  <2>1. PaceInv => (at = "dump" /\ gap = Period => waited = Wait)
    BY <1>0 DEF PaceInv, Ranges, StagePace, Sizes
  <2> QED BY <1>0, <2>1, PaceStep
<1>3. PaceInv => CopyCostsNothing
  BY DEF PaceInv, CopyCostsNothing
<1> QED BY <1>1, <1>2, <1>3, PTL DEF FanoutSpec

=============================================================================
