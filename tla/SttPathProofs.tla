----------------------------- MODULE SttPathProofs -----------------------------
(***************************************************************************)
(* TranscriptsInOrder of module SttPath, for any number of utterances and  *)
(* of child processes and any capacity.                                    *)
(*                                                                         *)
(* What is on its way lies in stages, the oldest first: published, the     *)
(* pipes of the children in their order, the feeder, the segment in hand,  *)
(* the segment queue.  Every step moves the head of a stage behind an      *)
(* earlier one, puts a segment last, or forgets a stage.                   *)
(***************************************************************************)
EXTENDS SttPath, TLAPS

Feeder == MaxChildren + 1
Hand == MaxChildren + 2
Waiting == MaxChildren + 3

Stages ==
  [n \in 0..Waiting |->
     IF n = 0 THEN published
     ELSE IF n \in 1..MaxChildren THEN transcripts[n]
     ELSE IF n = Feeder THEN feeder
     ELSE IF n = Hand THEN IF work = None THEN <<>> ELSE <<work>>
     ELSE segment_queue]

StageFunctions == [0..Waiting -> Seq(Events)]

Run(s) == \A i, j \in 1..Len(s) : i < j => Follows(s[i], s[j])

Ahead(s, t) == \A i \in 1..Len(s), j \in 1..Len(t) : Follows(s[i], t[j])

(* A pipe the receiver has left is not compared with what it published.    *)
Compared(a, b, r) == a < b /\ (a # 0 \/ b >= r)

InOrder(f, r) ==
  /\ \A a \in 0..Waiting : Run(f[a])
  /\ \A a, b \in 0..Waiting : Compared(a, b, r) => Ahead(f[a], f[b])

(* Nothing is newer than what the VAD emitted last. *)
Upto(f, last) ==
  \A a \in 0..Waiting : \A i \in 1..Len(f[a]) :
    f[a][i] = last \/ Follows(f[a][i], last)

Moved(f, g, x, y) ==
  /\ g[x] = Tail(f[x]) /\ g[y] = Append(f[y], Head(f[x]))
  /\ \A c \in 0..Waiting : c # x /\ c # y => g[c] = f[c]

Put(f, g, e) ==
  /\ g[Waiting] = Append(f[Waiting], e)
  /\ \A c \in 0..Waiting : c # Waiting => g[c] = f[c]

PathInv ==
  /\ TypeOK
  /\ InOrder(Stages, receiving) /\ Upto(Stages, made)
  /\ \A k \in 1..MaxChildren : k > handle => transcripts[k] = <<>>

-----------------------------------------------------------------------------
(* Stages. *)

LEMMA StageFacts ==
  /\ MaxChildren \in Nat \ {0}
  /\ 0..Waiting = {0} \cup (1..MaxChildren) \cup {Feeder, Hand, Waiting}
  /\ MaxChildren < Feeder /\ Feeder < Hand /\ Hand < Waiting
  /\ Feeder \in Nat /\ Hand \in Nat /\ Waiting \in Nat
BY SttAssumption DEF SttAssumption, Feeder, Hand, Waiting

LEMMA FollowsTransitive ==
  ASSUME NEW a \in Events, NEW b \in Events \cup {None}, NEW c \in Events,
         Follows(a, b), Follows(b, c)
  PROVE  Follows(a, c)
BY DEF Follows, Events, None

(* The head of stage x moves behind stage y, with nothing between them. *)
LEMMA MoveKeeps ==
  ASSUME NEW f \in StageFunctions, NEW g \in StageFunctions,
         NEW r \in Nat \ {0},
         NEW last \in Events \cup {None},
         NEW x \in 0..Waiting, NEW y \in 0..Waiting, y < x,
         f[x] # <<>>, Moved(f, g, x, y),
         Compared(y, x, r),
         \A c \in 0..Waiting : Compared(y, c, r) /\ c < x => f[c] = <<>>,
         InOrder(f, r), Upto(f, last)
  PROVE  InOrder(g, r) /\ Upto(g, last)
<1> DEFINE e == Head(f[x])
<1>1. f[x] \in Seq(Events) /\ f[y] \in Seq(Events)
  BY DEF StageFunctions
<1>2. /\ e = f[x][1] /\ 1 \in 1..Len(f[x]) /\ e \in Events
      /\ Len(Tail(f[x])) = Len(f[x]) - 1
      /\ \A i \in 1..Len(Tail(f[x])) :
           i + 1 \in 1..Len(f[x]) /\ Tail(f[x])[i] = f[x][i + 1]
  BY <1>1
<1>3. /\ Len(Append(f[y], e)) = Len(f[y]) + 1 /\ Len(f[y]) \in Nat
      /\ \A i \in 1..Len(f[y]) : Append(f[y], e)[i] = f[y][i]
      /\ Append(f[y], e)[Len(f[y]) + 1] = e
  BY <1>1, <1>2
<1>4. /\ g[x] = Tail(f[x]) /\ g[y] = Append(f[y], e)
      /\ \A c \in 0..Waiting : c # x /\ c # y => g[c] = f[c]
  BY DEF StageFunctions, Moved
<1> HIDE DEF e
(* Every entry of g is one of f, of a stage as early or earlier. *)
<1>5. \A i \in 1..Len(g[y]) :
        \/ i \in 1..Len(f[y]) /\ g[y][i] = f[y][i]
        \/ i = Len(f[y]) + 1 /\ g[y][i] = e
  BY <1>3, <1>4
<1>6. \A i \in 1..Len(g[x]) :
        i + 1 \in 1..Len(f[x]) /\ i + 1 > 1 /\ g[x][i] = f[x][i + 1]
  BY <1>2, <1>4
<1> USE StageFacts
<1>7. Upto(g, last)
  <2> SUFFICES ASSUME NEW a \in 0..Waiting, NEW i \in 1..Len(g[a])
               PROVE  g[a][i] = last \/ Follows(g[a][i], last)
    BY DEF Upto
  <2>1. CASE a = x
    BY <1>6, <2>1 DEF Upto
  <2>2. CASE a = y
    BY <1>2, <1>5, <2>2 DEF Upto
  <2>3. CASE a # x /\ a # y
    BY <1>4, <2>3 DEF Upto
  <2> QED BY <2>1, <2>2, <2>3
<1>8. \A i \in 1..Len(f[y]) : Follows(f[y][i], e)
  BY <1>2 DEF InOrder, Ahead
<1>9. \A i \in 1..Len(f[x]) : i > 1 => Follows(e, f[x][i])
  BY <1>2 DEF InOrder, Run
<1>10. ASSUME NEW a \in 0..Waiting PROVE Run(g[a])
  <2>1. CASE a = x
    BY <1>6, <2>1 DEF InOrder, Run
  <2>2. CASE a = y
    <3> SUFFICES ASSUME NEW i \in 1..Len(g[y]), NEW j \in 1..Len(g[y]), i < j
                 PROVE  Follows(g[y][i], g[y][j])
      BY <2>2 DEF Run
    <3>1. i \in 1..Len(f[y]) /\ g[y][i] = f[y][i]
      BY <1>3, <1>4, <1>5
    <3> QED BY <1>5, <1>8, <3>1 DEF InOrder, Run
  <2>3. CASE a # x /\ a # y
    BY <1>4, <2>3 DEF InOrder
  <2> QED BY <2>1, <2>2, <2>3
<1>11. ASSUME NEW a \in 0..Waiting, NEW b \in 0..Waiting, Compared(a, b, r)
       PROVE  Ahead(g[a], g[b])
  <2> SUFFICES ASSUME NEW i \in 1..Len(g[a]), NEW j \in 1..Len(g[b])
               PROVE  Follows(g[a][i], g[b][j])
    BY DEF Ahead
  <2>1. Ahead(f[a], f[b])
    BY <1>11 DEF InOrder
  <2>2. CASE a = y /\ b = x
    <3>1. j + 1 \in 1..Len(f[x]) /\ g[x][j] = f[x][j + 1] /\ j + 1 > 1
      BY <1>6, <2>2
    <3> QED BY <1>5, <1>9, <2>1, <2>2, <3>1 DEF Ahead
  <2>3. CASE a = y /\ b # x
    <3>1. b # y /\ g[b] = f[b]
      BY <1>4, <1>11, <2>3 DEF Compared
    <3>2. Compared(x, b, r)
      <4>1. ~(b < x)
        BY <1>11, <2>3, <3>1
      <4> QED BY <2>3, <4>1 DEF Compared
    <3>3. Follows(e, f[b][j])
      BY <1>2, <3>1, <3>2 DEF InOrder, Ahead
    <3> QED BY <1>5, <2>1, <2>3, <3>1, <3>3 DEF Ahead
  <2>4. CASE a = x
    <3>1. b # x /\ b # y /\ g[b] = f[b]
      BY <1>4, <1>11, <2>4 DEF Compared
    <3> QED BY <1>6, <2>1, <2>4, <3>1 DEF Ahead
  <2>5. CASE a # x /\ a # y /\ b = y
    <3>1. g[a] = f[a]
      BY <1>4, <2>5
    <3>2. Compared(a, x, r)
      BY <1>11, <2>5 DEF Compared
    <3>3. Follows(f[a][i], e)
      BY <1>2, <3>1, <3>2 DEF InOrder, Ahead
    <3> QED BY <1>5, <2>1, <2>5, <3>1, <3>3 DEF Ahead
  <2>6. CASE a # x /\ a # y /\ b # y
    <3>1. g[a] = f[a]
      BY <1>4, <2>6
    <3>2. CASE b = x
      BY <1>6, <2>1, <3>1, <3>2 DEF Ahead
    <3>3. CASE b # x
      BY <1>4, <2>1, <2>6, <3>1, <3>3 DEF Ahead
    <3> QED BY <3>2, <3>3
  <2> QED BY <2>2, <2>3, <2>4, <2>5, <2>6
<1> QED BY <1>7, <1>10, <1>11 DEF InOrder

(* Stages may be forgotten. *)
LEMMA ForgetKeeps ==
  ASSUME NEW f, NEW g, NEW r, NEW last,
         \A a \in 0..Waiting : g[a] = f[a] \/ g[a] = <<>>,
         InOrder(f, r), Upto(f, last)
  PROVE  InOrder(g, r) /\ Upto(g, last)
<1>1. \A a \in 0..Waiting : \A i \in 1..Len(g[a]) : g[a] = f[a]
  OBVIOUS
<1>2. InOrder(g, r)
  BY <1>1 DEF InOrder, Run, Ahead
<1> QED BY <1>1, <1>2 DEF Upto

(* The receiver may only go on to a later pipe. *)
LEMMA RereadKeeps ==
  ASSUME NEW f, NEW r \in Nat, NEW s \in Nat, r <= s, InOrder(f, r)
  PROVE  InOrder(f, s)
<1>1. \A a, b \in 0..Waiting : Compared(a, b, s) => Compared(a, b, r)
  BY StageFacts DEF Compared
<1> QED BY <1>1 DEF InOrder

LEMMA NewestKeeps ==
  ASSUME NEW f \in StageFunctions, NEW last \in Events \cup {None},
         NEW e \in Events, Follows(last, e), Upto(f, last)
  PROVE  /\ Upto(f, e)
         /\ \A a \in 0..Waiting : \A i \in 1..Len(f[a]) : Follows(f[a][i], e)
<1>1. ASSUME NEW a \in 0..Waiting, NEW i \in 1..Len(f[a])
      PROVE  Follows(f[a][i], e)
  <2>1. f[a] \in Seq(Events) /\ f[a][i] \in Events
    BY DEF StageFunctions
  <2>2. f[a][i] = last \/ Follows(f[a][i], last)
    BY DEF Upto
  <2> QED BY <2>1, <2>2, FollowsTransitive
<1> QED BY <1>1 DEF Upto

(* A new segment goes last. *)
LEMMA PutKeeps ==
  ASSUME NEW f \in StageFunctions, NEW g \in StageFunctions,
         NEW r \in Nat \ {0},
         NEW last \in Events \cup {None}, NEW e \in Events,
         Follows(last, e), Put(f, g, e),
         InOrder(f, r), Upto(f, last)
  PROVE  InOrder(g, r) /\ Upto(g, e)
<1>1. f[Waiting] \in Seq(Events) /\ Waiting \in 0..Waiting
  BY StageFacts DEF StageFunctions
<1>2. \A a \in 0..Waiting : \A i \in 1..Len(f[a]) : Follows(f[a][i], e)
  BY NewestKeeps
<1>3. /\ g[Waiting] = Append(f[Waiting], e)
      /\ \A a \in 0..Waiting : a # Waiting => g[a] = f[a]
  BY <1>1 DEF StageFunctions, Put
<1>4. \A i \in 1..Len(g[Waiting]) :
        \/ i \in 1..Len(f[Waiting]) /\ g[Waiting][i] = f[Waiting][i]
        \/ i = Len(f[Waiting]) + 1 /\ g[Waiting][i] = e
  BY <1>1, <1>3
<1>5. ASSUME NEW a \in 0..Waiting PROVE Run(g[a])
  <2>1. CASE a = Waiting
    <3> SUFFICES ASSUME NEW i \in 1..Len(g[a]), NEW j \in 1..Len(g[a]), i < j
                 PROVE  Follows(g[a][i], g[a][j])
      BY DEF Run
    <3>1. Len(g[a]) = Len(f[a]) + 1 /\ Len(f[a]) \in Nat
      BY <1>1, <1>3, <2>1
    <3>2. i \in 1..Len(f[a]) /\ g[a][i] = f[a][i]
      BY <1>4, <2>1, <3>1
    <3> QED BY <1>2, <1>4, <2>1, <3>2 DEF InOrder, Run
  <2>2. CASE a # Waiting
    BY <1>3, <2>2 DEF InOrder
  <2> QED BY <2>1, <2>2
<1>6. ASSUME NEW a \in 0..Waiting, NEW b \in 0..Waiting, Compared(a, b, r)
      PROVE  Ahead(g[a], g[b])
  <2>1. a # Waiting /\ g[a] = f[a]
    BY <1>3, <1>6, StageFacts DEF Compared
  <2>2. Ahead(f[a], f[b])
    BY <1>6 DEF InOrder
  <2>3. CASE b = Waiting
    BY <1>2, <1>4, <2>1, <2>2, <2>3 DEF Ahead
  <2>4. CASE b # Waiting
    BY <1>3, <2>1, <2>2, <2>4
  <2> QED BY <2>3, <2>4
<1>7. Upto(g, e)
  <2> SUFFICES ASSUME NEW a \in 0..Waiting, NEW i \in 1..Len(g[a])
               PROVE  g[a][i] = e \/ Follows(g[a][i], e)
    BY DEF Upto
  <2>1. CASE a = Waiting
    BY <1>1, <1>2, <1>4, <2>1
  <2>2. CASE a # Waiting
    BY <1>2, <1>3, <2>2
  <2> QED BY <2>1, <2>2
<1> QED BY <1>5, <1>6, <1>7 DEF InOrder

-----------------------------------------------------------------------------
(* Types. *)

LEMMA VadTypes ==
  ASSUME TypeOK, (\E e \in Events : VadEmits(e)) \/ StopVad
  PROVE  TypeOK'
<1>1. \/ made' = made /\ UNCHANGED <<segment_queue, shed>>
      \/ \E e \in Events : Enqueue(e)
  BY DEF VadEmits, StopVad
<1>2. /\ UNCHANGED <<handle, child, work, proc_stop, worker_stop, feeder,
                     transcripts, receiver, receiving, published, lock_lost,
                     silent, died>>
      /\ phase' \in {phase, "stt"}
  BY DEF VadEmits, StopVad, child_vars, recv_vars
<1>3. /\ made' \in Events \cup {None} /\ shed' \subseteq Events
      /\ segment_queue' \in Seq(Events)
      /\ Len(segment_queue') <= SegmentQueueMax
  <2>1. CASE made' = made /\ UNCHANGED <<segment_queue, shed>>
    BY <2>1 DEF TypeOK
  <2>2. ASSUME NEW e \in Events, Enqueue(e)
        PROVE  /\ made' \in Events \cup {None} /\ shed' \subseteq Events
               /\ segment_queue' \in Seq(Events)
               /\ Len(segment_queue') <= SegmentQueueMax
    <3>1. CASE HasRoom
      <4>1. /\ segment_queue \in Seq(Events)
            /\ Len(segment_queue) < SegmentQueueMax
        BY <3>1 DEF TypeOK, HasRoom
      <4>2. /\ Append(segment_queue, e) \in Seq(Events)
            /\ Len(Append(segment_queue, e)) = Len(segment_queue) + 1
        BY <4>1
      <4>3. Len(Append(segment_queue, e)) <= SegmentQueueMax
        BY <4>1, <4>2, SttAssumption DEF SttAssumption
      <4>4. /\ made' = e /\ segment_queue' = Append(segment_queue, e)
            /\ shed' = shed
        BY <2>2, <3>1 DEF Enqueue
      <4> QED BY <4>2, <4>3, <4>4 DEF TypeOK
    <3>2. CASE ~HasRoom
      BY <2>2, <3>2 DEF Enqueue, TypeOK
    <3> QED BY <3>1, <3>2
  <2> QED BY <1>1, <2>1, <2>2
<1> QED BY <1>2, <1>3 DEF TypeOK

(* The steps that touch no stage. *)
QuietChild == Ready \/ BridgeStop \/ CheckStop \/ Timeout \/ Exit \/ SignalOld
              \/ Restart
QuietParent == ReceiverTimeout \/ ReceiverOff \/ Stop \/ StopStt \/ SttJoined
               \/ ReceiversJoined

LEMMA QuietTypes ==
  ASSUME TypeOK, QuietChild \/ QuietParent \/ ReceiverPolls
  PROVE  TypeOK'
<1>1. CASE QuietChild
  <2>1. CASE Restart
    <3>1. handle' \in 1..MaxChildren /\ receiving \in 1..handle'
      BY <2>1, SttAssumption DEF SttAssumption, TypeOK, Restart
    <3> QED BY <2>1, <3>1 DEF TypeOK, Restart, recv_vars, loss_vars
  <2>2. CASE Ready \/ BridgeStop \/ CheckStop
    BY <2>2 DEF TypeOK, Ready, BridgeStop, CheckStop, recv_vars, loss_vars
  <2>3. CASE Timeout \/ Exit \/ SignalOld
    BY <2>3 DEF TypeOK, Timeout, Exit, SignalOld, recv_vars, loss_vars
  <2> QED BY <1>1, <2>1, <2>2, <2>3 DEF QuietChild
<1>2. CASE QuietParent
  BY <1>2 DEF TypeOK, QuietParent, ReceiverTimeout, ReceiverOff, Stop,
     StopStt, SttJoined, ReceiversJoined, child_vars, recv_vars, loss_vars
<1>3. CASE ReceiverPolls
  BY <1>3, SttAssumption DEF SttAssumption, TypeOK, ReceiverPolls,
     RereadHandle, child_vars, loss_vars
<1> QED BY <1>1, <1>2, <1>3

LEMMA DecodeTypes ==
  ASSUME TypeOK, Dequeue \/ Skip \/ Transcribe \/ NoTranscript
  PROVE  TypeOK'
<1>1. CASE Dequeue
  <2>1. /\ Head(segment_queue) \in Events /\ Tail(segment_queue) \in Seq(Events)
        /\ Len(Tail(segment_queue)) <= SegmentQueueMax
    BY <1>1, SttAssumption DEF SttAssumption, TypeOK, Dequeue
  <2>2. Head(segment_queue) # None
    BY <2>1 DEF Events, None
  <2> QED BY <1>1, <2>1, <2>2 DEF TypeOK, Dequeue, recv_vars, loss_vars
<1>2. CASE Skip \/ NoTranscript
  BY <1>2 DEF TypeOK, Skip, NoTranscript, recv_vars, loss_vars
<1>3. CASE Transcribe
  <2>1. work \in Events
    BY <1>3 DEF TypeOK, Transcribe
  <2> QED BY <1>3, <2>1 DEF TypeOK, Transcribe, Event, recv_vars, loss_vars
<1> QED BY <1>1, <1>2, <1>3

LEMMA PipeTypes ==
  ASSUME TypeOK, Flush \/ Crash \/ Receive
  PROVE  TypeOK'
<1>1. CASE Flush
  <2>1. Head(feeder) \in Events /\ Tail(feeder) \in Seq(Events)
    BY <1>1 DEF TypeOK, Flush
  <2>2. transcripts' \in [1..MaxChildren -> Seq(Events)]
    <3>1. /\ transcripts \in [1..MaxChildren -> Seq(Events)]
          /\ handle \in 1..MaxChildren
      BY DEF TypeOK
    <3>2. Append(transcripts[handle], Head(feeder)) \in Seq(Events)
      BY <2>1, <3>1
    <3>3. transcripts' = [transcripts EXCEPT ![handle] =
                            Append(transcripts[handle], Head(feeder))]
      BY <1>1 DEF Flush
    <3> QED BY <3>1, <3>2, <3>3
  <2> QED BY <1>1, <2>1, <2>2 DEF TypeOK, Flush, recv_vars, loss_vars
<1>2. CASE Crash
  <2>1. Elements(feeder) \subseteq Events
    BY DEF TypeOK, Elements
  <2> QED BY <1>2, <2>1 DEF TypeOK, Crash, Die, recv_vars
<1>3. CASE Receive
  <2>1. receiving \in 1..MaxChildren
    BY SttAssumption DEF SttAssumption, TypeOK
  <2>2. transcripts[receiving] \in Seq(Events)
    BY <2>1 DEF TypeOK
  <2>3. /\ Head(transcripts[receiving]) \in Events
        /\ Tail(transcripts[receiving]) \in Seq(Events)
    BY <1>3, <2>2 DEF Receive
  <2>4. /\ transcripts' \in [1..MaxChildren -> Seq(Events)]
        /\ published' \in Seq(Events)
    BY <1>3, <2>1, <2>3 DEF TypeOK, Receive
  <2> QED BY <1>3, <2>4 DEF TypeOK, Receive, child_vars, loss_vars
<1> QED BY <1>1, <1>2, <1>3

LEMMA NextTypes == TypeOK /\ [Next]_vars => TypeOK'
<1> SUFFICES ASSUME TypeOK, [Next]_vars PROVE TypeOK'
  OBVIOUS
<1>1. CASE UNCHANGED vars
  BY <1>1 DEF TypeOK, vars, child_vars, recv_vars, loss_vars
<1> QED BY <1>1, VadTypes, QuietTypes, DecodeTypes, PipeTypes DEF Next,
       ChildStep, ReceiverStep, StopStep, QuietChild, QuietParent

-----------------------------------------------------------------------------
(* Order. *)

LEMMA StageIs ==
  /\ Stages[0] = published
  /\ \A k \in 1..MaxChildren : Stages[k] = transcripts[k]
  /\ Stages[Feeder] = feeder
  /\ Stages[Hand] = IF work = None THEN <<>> ELSE <<work>>
  /\ Stages[Waiting] = segment_queue
BY StageFacts DEF Stages

LEMMA NextStageIs ==
  /\ Stages'[0] = published'
  /\ \A k \in 1..MaxChildren : Stages'[k] = transcripts'[k]
  /\ Stages'[Feeder] = feeder'
  /\ Stages'[Hand] = IF work' = None THEN <<>> ELSE <<work'>>
  /\ Stages'[Waiting] = segment_queue'
BY StageFacts DEF Stages, Feeder, Hand, Waiting, None

LEMMA StagesTyped == TypeOK => Stages \in StageFunctions
<1> SUFFICES ASSUME TypeOK PROVE Stages \in StageFunctions
  OBVIOUS
<1>1. /\ published \in Seq(Events) /\ feeder \in Seq(Events)
      /\ segment_queue \in Seq(Events)
      /\ \A k \in 1..MaxChildren : transcripts[k] \in Seq(Events)
  BY DEF TypeOK
<1>2. (IF work = None THEN <<>> ELSE <<work>>) \in Seq(Events)
  BY DEF TypeOK
<1>3. \A n \in 0..Waiting : Stages[n] \in Seq(Events)
  BY <1>1, <1>2, StageIs, StageFacts
<1> QED BY <1>3 DEF Stages, StageFunctions

LEMMA Typed ==
  ASSUME PathInv, TypeOK'
  PROVE  /\ Stages \in StageFunctions /\ Stages' \in StageFunctions
         /\ receiving \in Nat \ {0} /\ receiving \in 1..handle
         /\ handle \in 1..MaxChildren /\ made \in Events \cup {None}
<1>1. Stages \in StageFunctions
  BY StagesTyped DEF PathInv
<1>2. Stages' \in StageFunctions
  <2>1. /\ published' \in Seq(Events) /\ feeder' \in Seq(Events)
        /\ segment_queue' \in Seq(Events)
        /\ \A k \in 1..MaxChildren : transcripts'[k] \in Seq(Events)
    BY DEF TypeOK
  <2>2. (IF work' = None THEN <<>> ELSE <<work'>>) \in Seq(Events)
    BY DEF TypeOK
  <2>3. \A n \in 0..Waiting : Stages'[n] \in Seq(Events)
    BY <2>1, <2>2, NextStageIs, StageFacts
  <2> QED BY <2>3 DEF Stages, StageFunctions, Waiting
<1> QED BY <1>1, <1>2, SttAssumption DEF SttAssumption, PathInv, TypeOK

NoneBeyond(h, t) == \A k \in 1..MaxChildren : k > h => t[k] = <<>>

LEMMA QuietKeeps ==
  ASSUME PathInv, TypeOK', QuietChild \/ QuietParent
  PROVE  PathInv'
<1>1. /\ UNCHANGED <<made, segment_queue, work, feeder, transcripts, receiving,
                     published>>
      /\ handle' \in {handle, handle + 1}
  BY DEF QuietChild, QuietParent, Ready, BridgeStop, CheckStop, Timeout, Exit,
     SignalOld, Restart, ReceiverTimeout, ReceiverOff, Stop, StopStt,
     SttJoined, ReceiversJoined, child_vars, recv_vars
<1>2. Stages' = Stages
  BY <1>1 DEF Stages, Feeder, Hand, Waiting, None
<1>3. \A k \in 1..MaxChildren : k > handle' => transcripts'[k] = <<>>
  BY <1>1, Typed DEF PathInv
<1> QED BY <1>1, <1>2, <1>3 DEF PathInv, InOrder, Upto

LEMMA RereadStep ==
  ASSUME PathInv, TypeOK', ReceiverPolls
  PROVE  PathInv'
<1>1. /\ UNCHANGED <<made, segment_queue, work, feeder, transcripts, handle,
                     published>>
      /\ receiving' = handle
  BY DEF ReceiverPolls, RereadHandle, child_vars
<1>2. Stages' = Stages
  BY <1>1 DEF Stages, Feeder, Hand, Waiting, None
<1>3. InOrder(Stages, handle)
  BY Typed, RereadKeeps DEF PathInv
<1> QED BY <1>1, <1>2, <1>3 DEF PathInv, InOrder, Upto

LEMMA VadKeeps ==
  ASSUME PathInv, TypeOK', (\E e \in Events : VadEmits(e)) \/ StopVad
  PROVE  PathInv'
<1>1. /\ UNCHANGED <<work, feeder, transcripts, handle, receiving, published>>
      /\ \/ made' = made /\ UNCHANGED segment_queue
         \/ \E e \in Events : Emits(e) /\ Enqueue(e)
  BY DEF VadEmits, StopVad, child_vars, recv_vars
<1>2. \A k \in 1..MaxChildren : k > handle' => transcripts'[k] = <<>>
  BY <1>1 DEF PathInv
<1>3. CASE made' = made /\ UNCHANGED segment_queue
  <2>1. Stages' = Stages
    BY <1>1, <1>3 DEF Stages, Feeder, Hand, Waiting, None
  <2> QED BY <1>1, <1>2, <1>3, <2>1 DEF PathInv, InOrder, Upto
<1>4. ASSUME NEW e \in Events, Emits(e), Enqueue(e) PROVE PathInv'
  <2>1. made' = e /\ Follows(made, e)
    BY <1>4 DEF Enqueue, Emits
  <2>2. CASE HasRoom
    <3>1. segment_queue' = Append(segment_queue, e)
      BY <1>4, <2>2 DEF Enqueue
    <3>2. Put(Stages, Stages', e)
      BY <1>1, <3>1, StageIs, NextStageIs, StageFacts DEF Put
    <3>3. InOrder(Stages', receiving) /\ Upto(Stages', e)
      BY <2>1, <3>2, Typed, PutKeeps DEF PathInv
    <3> QED BY <1>1, <1>2, <2>1, <3>3 DEF PathInv, InOrder, Upto
  <2>3. CASE ~HasRoom
    <3>1. segment_queue' = segment_queue
      BY <1>4, <2>3 DEF Enqueue
    <3>2. Stages' = Stages
      BY <1>1, <3>1 DEF Stages, Feeder, Hand, Waiting, None
    <3>3. Upto(Stages, e)
      BY <2>1, Typed, NewestKeeps DEF PathInv
    <3> QED BY <1>1, <1>2, <2>1, <3>2, <3>3 DEF PathInv, InOrder, Upto
  <2> QED BY <2>2, <2>3
<1> QED BY <1>1, <1>3, <1>4

(* Every step but those moves a head, or forgets. *)
LEMMA MoveStep ==
  ASSUME PathInv, TypeOK', NEW x \in 0..Waiting, NEW y \in 0..Waiting, y < x,
         Stages[x] # <<>>, Moved(Stages, Stages', x, y),
         Compared(y, x, receiving),
         \A c \in 0..Waiting :
           Compared(y, c, receiving) /\ c < x => Stages[c] = <<>>,
         made' = made, receiving' = receiving,
         \A k \in 1..MaxChildren : k > handle' => transcripts'[k] = <<>>
  PROVE  PathInv'
<1>1. InOrder(Stages', receiving) /\ Upto(Stages', made)
  BY Typed, MoveKeeps DEF PathInv
<1> QED BY <1>1 DEF PathInv, InOrder, Upto

LEMMA ForgetStep ==
  ASSUME PathInv, TypeOK', Skip \/ NoTranscript \/ Crash
  PROVE  PathInv'
<1>1. /\ UNCHANGED <<made, segment_queue, handle, transcripts, receiving,
                     published>>
      /\ work' = None /\ feeder' \in {feeder, <<>>}
  BY DEF Skip, NoTranscript, Crash, Die, recv_vars
<1>2. \A a \in 0..Waiting : Stages'[a] = Stages[a] \/ Stages'[a] = <<>>
  BY <1>1, StageIs, NextStageIs, StageFacts
<1>3. InOrder(Stages', receiving) /\ Upto(Stages', made)
  BY <1>2, ForgetKeeps DEF PathInv
<1>4. \A k \in 1..MaxChildren : k > handle' => transcripts'[k] = <<>>
  BY <1>1 DEF PathInv
<1> QED BY <1>1, <1>3, <1>4 DEF PathInv, InOrder, Upto

LEMMA DequeueStep ==
  ASSUME PathInv, TypeOK', Dequeue
  PROVE  PathInv'
<1>1. /\ UNCHANGED <<made, handle, feeder, transcripts, receiving, published>>
      /\ work = None /\ work' = Head(segment_queue) /\ work' # None
      /\ segment_queue # <<>> /\ segment_queue' = Tail(segment_queue)
  BY DEF Dequeue, recv_vars, PathInv, TypeOK
<1>2. Append(<<>>, Head(segment_queue)) = <<Head(segment_queue)>>
  OBVIOUS
<1>3. Moved(Stages, Stages', Waiting, Hand)
  BY <1>1, <1>2, StageIs, NextStageIs, StageFacts DEF Moved
<1>4. /\ Hand \in 0..Waiting /\ Waiting \in 0..Waiting /\ Hand < Waiting
      /\ Stages[Waiting] # <<>> /\ Compared(Hand, Waiting, receiving)
      /\ \A c \in 0..Waiting : ~(Compared(Hand, c, receiving) /\ c < Waiting)
  BY <1>1, StageIs, StageFacts DEF Compared, Hand, Waiting
<1>5. \A k \in 1..MaxChildren : k > handle' => transcripts'[k] = <<>>
  BY <1>1 DEF PathInv
<1> QED BY <1>1, <1>3, <1>4, <1>5, MoveStep

LEMMA TranscribeStep ==
  ASSUME PathInv, TypeOK', Transcribe
  PROVE  PathInv'
<1>1. /\ UNCHANGED <<made, handle, segment_queue, transcripts, receiving,
                     published>>
      /\ work # None /\ work' = None /\ feeder' = Append(feeder, work)
  BY DEF Transcribe, Event, recv_vars, PathInv, TypeOK
<1>2. Head(<<work>>) = work /\ Tail(<<work>>) = <<>> /\ <<work>> # <<>>
  OBVIOUS
<1>3. Moved(Stages, Stages', Hand, Feeder)
  BY <1>1, <1>2, StageIs, NextStageIs, StageFacts DEF Moved
<1>4. /\ Feeder \in 0..Waiting /\ Hand \in 0..Waiting /\ Feeder < Hand
      /\ Stages[Hand] # <<>> /\ Compared(Feeder, Hand, receiving)
      /\ \A c \in 0..Waiting : ~(Compared(Feeder, c, receiving) /\ c < Hand)
  BY <1>1, <1>2, StageIs, StageFacts DEF Compared, Feeder, Hand
<1>5. \A k \in 1..MaxChildren : k > handle' => transcripts'[k] = <<>>
  BY <1>1 DEF PathInv
<1> QED BY <1>1, <1>3, <1>4, <1>5, MoveStep

(* The pipes of later children are empty when a feeder is flushed. *)
LEMMA FlushStep ==
  ASSUME PathInv, TypeOK', Flush
  PROVE  PathInv'
<1>1. /\ UNCHANGED <<made, handle, segment_queue, work, receiving, published>>
      /\ feeder # <<>> /\ feeder' = Tail(feeder)
      /\ transcripts' = [transcripts EXCEPT ![handle] = Append(@, Head(feeder))]
  BY DEF Flush, recv_vars
<1>2. handle \in 1..MaxChildren
  BY Typed
<1>3. /\ transcripts'[handle] = Append(transcripts[handle], Head(feeder))
      /\ \A k \in 1..MaxChildren :
           k # handle => transcripts'[k] = transcripts[k]
  BY <1>1, <1>2 DEF PathInv, TypeOK
<1>4. Moved(Stages, Stages', Feeder, handle)
  BY <1>1, <1>2, <1>3, StageIs, NextStageIs, StageFacts DEF Moved
<1>5. /\ Feeder \in 0..Waiting /\ handle \in 0..Waiting /\ handle < Feeder
      /\ Stages[Feeder] # <<>> /\ Compared(handle, Feeder, receiving)
  BY <1>1, <1>2, StageIs, StageFacts DEF Compared
<1>6. ASSUME NEW c \in 0..Waiting, Compared(handle, c, receiving), c < Feeder
      PROVE  Stages[c] = <<>>
  <2>1. c \in 1..MaxChildren /\ c > handle
    BY <1>2, <1>6, StageFacts DEF Compared, Feeder
  <2> QED BY <2>1, StageIs DEF PathInv
<1>7. \A k \in 1..MaxChildren : k > handle' => transcripts'[k] = <<>>
  BY <1>1, <1>2, <1>3 DEF PathInv
<1> QED BY <1>1, <1>4, <1>5, <1>6, <1>7, MoveStep

(* Pipes before the one it reads do not matter to the receiver any more. *)
LEMMA ReceiveStep ==
  ASSUME PathInv, TypeOK', Receive
  PROVE  PathInv'
<1>1. /\ UNCHANGED <<made, handle, segment_queue, work, feeder, receiving>>
      /\ transcripts[receiving] # <<>>
      /\ published' = Append(published, Head(transcripts[receiving]))
      /\ transcripts' = [transcripts EXCEPT ![receiving] = Tail(@)]
  BY DEF Receive, child_vars
<1>2. receiving \in 1..MaxChildren /\ receiving <= handle
  BY Typed, StageFacts
<1>3. /\ transcripts'[receiving] = Tail(transcripts[receiving])
      /\ \A k \in 1..MaxChildren :
           k # receiving => transcripts'[k] = transcripts[k]
  BY <1>1, <1>2 DEF PathInv, TypeOK
<1>4. Moved(Stages, Stages', receiving, 0)
  BY <1>1, <1>2, <1>3, StageIs, NextStageIs, StageFacts DEF Moved
<1>5. /\ receiving \in 0..Waiting /\ 0 \in 0..Waiting /\ 0 < receiving
      /\ Stages[receiving] # <<>> /\ Compared(0, receiving, receiving)
      /\ \A c \in 0..Waiting : ~(Compared(0, c, receiving) /\ c < receiving)
  BY <1>1, <1>2, StageIs, StageFacts DEF Compared
<1>6. \A k \in 1..MaxChildren : k > handle' => transcripts'[k] = <<>>
  BY <1>1, <1>2, <1>3 DEF PathInv
<1> QED BY <1>1, <1>4, <1>5, <1>6, MoveStep

LEMMA NextKeepsPathInv == PathInv /\ [Next]_vars => PathInv'
<1> SUFFICES ASSUME PathInv, [Next]_vars PROVE PathInv'
  OBVIOUS
<1>1. TypeOK'
  BY NextTypes DEF PathInv
<1>2. CASE UNCHANGED vars
  <2>1. UNCHANGED <<made, segment_queue, handle, work, feeder, transcripts,
                    receiving, published>>
    BY <1>2 DEF vars, child_vars, recv_vars
  <2>2. Stages' = Stages
    BY <2>1 DEF Stages, Feeder, Hand, Waiting, None
  <2> QED BY <1>1, <2>1, <2>2 DEF PathInv, InOrder, Upto
<1> QED BY <1>1, <1>2, QuietKeeps, RereadStep, VadKeeps, ForgetStep,
       DequeueStep, TranscribeStep, FlushStep, ReceiveStep DEF Next, ChildStep,
       ReceiverStep, StopStep, QuietChild, QuietParent

LEMMA InitPathInv == Init => PathInv
<1> SUFFICES ASSUME Init PROVE PathInv
  OBVIOUS
<1>1. TypeOK
  <2>1. /\ <<>> \in Seq(Events) /\ Len(<<>>) = 0
        /\ 1 \in 1..MaxChildren /\ 1 \in 1..1 /\ 0 <= SegmentQueueMax
    BY SttAssumption DEF SttAssumption
  <2>2. [k \in 1..MaxChildren |-> <<>>] \in [1..MaxChildren -> Seq(Events)]
    BY <2>1
  <2> QED BY <2>1, <2>2 DEF Init, TypeOK
<1>2. \A a \in 0..Waiting : Stages[a] = <<>>
  BY StageIs, StageFacts DEF Init
<1>3. InOrder(Stages, receiving) /\ Upto(Stages, made)
  BY <1>2 DEF InOrder, Run, Ahead, Upto
<1>4. \A k \in 1..MaxChildren : transcripts[k] = <<>>
  BY DEF Init
<1> QED BY <1>1, <1>3, <1>4 DEF PathInv

(* However children fail, are replaced or stopped, and whatever is dropped *)
(* on the way, a channel's transcripts reach the hub in the order the VAD  *)
(* emitted their segments.                                                 *)
THEOREM InOrderThroughout == Spec => []TranscriptsInOrder
<1>1. PathInv => TranscriptsInOrder
  BY StageIs, StageFacts DEF PathInv, InOrder, Run, TranscriptsInOrder
<1> QED BY <1>1, InitPathInv, NextKeepsPathInv, PTL DEF Spec

=============================================================================
