---------------------------- MODULE ChannelRouter ----------------------------
(***************************************************************************)
(* From the MQTT callback to the routed queue: ingest                      *)
(* (src/edge_voice/audio_ingest/mqtt_client.py) stamps each payload with   *)
(* its arrival time and queues it, and the router thread                   *)
(* (src/edge_voice/channel/router.py) cuts each channel's audio into       *)
(* frames of another size and queues these for the VAD.                    *)
(*                                                                         *)
(* Audio and time are counted in the same unit, a common divisor of the    *)
(* two frame sizes (4 ms for the deployed 20 ms in, 32 ms out); unit u of  *)
(* a channel is the u-th that its source captured.  Both queues drop what  *)
(* still finds them full after 0.2 s; the wait is the consumer taking      *)
(* first.  The dump queue's copy and the freshness counters are left out.  *)
(***************************************************************************)
EXTENDS Integers, Sequences

CONSTANTS
  Channels,
  IncomingUnits,  (* incoming_ms                                           *)
  OutgoingUnits,  (* outgoing_ms                                           *)
  IngestMax,      (* capacity of the ingest queue                          *)
  RoutedMax,      (* capacity of the routed queue                          *)
  Jitter,         (* most time a packet spends between source and ingest   *)
  MaxPackets,     (* BOUND: [c] packets its source sends                   *)
  MaxRestarts     (* BOUND: routers the supervisor replaces                *)

ASSUME RouterAssumption ==
  /\ IncomingUnits \in Nat \ {0} /\ OutgoingUnits \in Nat \ {0}
  /\ IngestMax \in Nat \ {0} /\ RoutedMax \in Nat \ {0}
  /\ Jitter \in Nat /\ MaxPackets \in [Channels -> Nat] /\ MaxRestarts \in Nat

VARIABLES
  sent,        (* [c] packets the source has sent                          *)
  arrived,     (* [c] timestamp of the last one that reached ingest        *)
  ingest,      (* the ingest queue                                         *)
  pc,          (* where the router thread is in run(): "check" the stop    *)
               (* event, "get" a packet, "put" the frames, or "dead"       *)
  stop_event,  (* the router's _stop_event.is_set()                        *)
  buffer,      (* [c] Repacketizer._buffers: the carry                     *)
  start_ts,    (* [c] Repacketizer._buffer_start_ts                        *)
  outgoing,    (* frames process() returned that are still to be put       *)
  routed,      (* every frame ever put into the routed queue               *)
  taken,       (* how many of them the VAD has taken                       *)
  restarts,    (* routers replaced so far                                  *)
  dropped,     (* history: frames dropped because the routed queue is full *)
  accepted,    (* [c] history: packets process() accepted                  *)
  lost         (* [c] history: audio that died with a router               *)

router_vars == <<pc, stop_event, buffer, start_ts, outgoing>>
vars == <<sent, arrived, ingest, router_vars, routed, taken, restarts, dropped,
          accepted, lost>>

Init ==
  /\ sent = [c \in Channels |-> 0] /\ arrived = [c \in Channels |-> 0]
  /\ ingest = <<>>
  /\ pc = "check" /\ stop_event = FALSE
  /\ buffer = [c \in Channels |-> <<>>]
  /\ start_ts = [c \in Channels |-> 0]
  /\ outgoing = <<>>
  /\ routed = <<>> /\ taken = 0
  /\ restarts = 0
  /\ dropped = <<>>
  /\ accepted = [c \in Channels |-> {}]
  /\ lost = [c \in Channels |-> {}]

-----------------------------------------------------------------------------
(* Ingest *)

Send(c) == sent[c] < MaxPackets[c] /\ sent' = [sent EXCEPT ![c] = @ + 1]

(* A packet the broker never delivers, or with an empty payload. *)
Lose(c) ==
  /\ Send(c)
  /\ UNCHANGED <<arrived, ingest, router_vars, routed, taken, restarts,
                 dropped, accepted, lost>>

(* The k-th packet arrives once captured, in order, at most Jitter late.   *)
Arrivals(c, k) ==
  {t \in k * IncomingUnits..k * IncomingUnits + Jitter : t >= arrived[c]}

(* _on_message; valid: the topic is a known channel's and the payload one  *)
(* frame.                                                                  *)
OnMessage(c, t, valid) ==
  /\ Send(c)
  /\ t \in Arrivals(c, sent[c] + 1)
  /\ arrived' = [arrived EXCEPT ![c] = t]
  /\ ingest' = IF Len(ingest) < IngestMax
               THEN Append(ingest, [channel |-> c, number |-> sent[c] + 1,
                                    timestamp |-> t, valid |-> valid])
               ELSE ingest
  /\ UNCHANGED <<router_vars, routed, taken, restarts, dropped, accepted, lost>>

-----------------------------------------------------------------------------
(* The router thread *)

CheckStop ==
  /\ pc = "check"
  /\ pc' = IF stop_event THEN "dead" ELSE "get"
  /\ UNCHANGED <<sent, arrived, ingest, stop_event, buffer, start_ts, outgoing,
                 routed, taken, restarts, dropped, accepted, lost>>

(* get() timed out. *)
Empty ==
  /\ pc = "get" /\ ingest = <<>>
  /\ pc' = "check"
  /\ UNCHANGED <<sent, arrived, ingest, stop_event, buffer, start_ts, outgoing,
                 routed, taken, restarts, dropped, accepted, lost>>

Get == pc = "get" /\ ingest # <<>> /\ ingest' = Tail(ingest)

(* An unknown channel, or process() raised on the payload's size. *)
Reject ==
  /\ Get
  /\ ~Head(ingest).valid
  /\ pc' = "check"
  /\ UNCHANGED <<sent, arrived, stop_event, buffer, start_ts, outgoing, routed,
                 taken, restarts, dropped, accepted, lost>>

(* The audio of the k-th packet. *)
Samples(k) == [i \in 1..IncomingUnits |-> (k - 1) * IncomingUnits + i]

AnchorMutant(p) ==
  IF start_ts[p.channel] = 0 THEN p.timestamp ELSE start_ts[p.channel]

(* The clock is taken from a packet only when there is no carry. *)
Anchor(p) ==
  IF buffer[p.channel] = <<>> THEN p.timestamp ELSE start_ts[p.channel]

WithCarryMutant(p) == Samples(p.number) \o buffer[p.channel]

WithCarry(p) == buffer[p.channel] \o Samples(p.number)

FrameAudio(audio, i) ==
  SubSeq(audio, (i - 1) * OutgoingUnits + 1, i * OutgoingUnits)

CarryMutant(audio) == <<>>

Carry(audio) ==
  SubSeq(audio, (Len(audio) \div OutgoingUnits) * OutgoingUnits + 1, Len(audio))

(* Repacketizer.process(): append to the carry, emit every whole frame. *)
Process ==
  LET p == Head(ingest)
      c == p.channel
      audio == WithCarry(p)
      frames == Len(audio) \div OutgoingUnits
  IN  /\ Get
      /\ p.valid
      /\ accepted' = [accepted EXCEPT ![c] = @ \cup {p.number}]
      /\ outgoing' = [i \in 1..frames |->
                        [channel |-> c, audio |-> FrameAudio(audio, i),
                         timestamp |-> Anchor(p) + (i - 1) * OutgoingUnits]]
      /\ buffer' = [buffer EXCEPT ![c] = Carry(audio)]
      /\ start_ts' = [start_ts EXCEPT ![c] = Anchor(p) + frames * OutgoingUnits]
      /\ pc' = "put"
      /\ UNCHANGED <<sent, arrived, stop_event, routed, taken, restarts,
                     dropped, lost>>

HasRoom == Len(routed) - taken < RoutedMax

(* fanout_put of one frame. *)
PutFrame ==
  /\ pc = "put" /\ outgoing # <<>>
  /\ outgoing' = Tail(outgoing)
  /\ IF HasRoom
     THEN routed' = Append(routed, Head(outgoing)) /\ UNCHANGED dropped
     ELSE dropped' = Append(dropped, Head(outgoing)) /\ UNCHANGED routed
  /\ UNCHANGED <<sent, arrived, ingest, pc, stop_event, buffer, start_ts, taken,
                 restarts, accepted, lost>>

AllPut ==
  /\ pc = "put" /\ outgoing = <<>>
  /\ pc' = "check"
  /\ UNCHANGED <<sent, arrived, ingest, stop_event, buffer, start_ts, outgoing,
                 routed, taken, restarts, dropped, accepted, lost>>

-----------------------------------------------------------------------------
(* The environment: the VAD, and the supervisor's view of the thread. *)

TakeFrame ==
  /\ taken < Len(routed) /\ taken' = taken + 1
  /\ UNCHANGED <<sent, arrived, ingest, router_vars, routed, restarts, dropped,
                 accepted, lost>>

Die ==
  /\ pc # "dead" /\ pc' = "dead"
  /\ UNCHANGED <<sent, arrived, ingest, stop_event, buffer, start_ts, outgoing,
                 routed, taken, restarts, dropped, accepted, lost>>

Signal ==
  /\ ~stop_event /\ stop_event' = TRUE
  /\ UNCHANGED <<sent, arrived, ingest, pc, buffer, start_ts, outgoing, routed,
                 taken, restarts, dropped, accepted, lost>>

AudioOf(c, frames) ==
  UNION {{frames[i].audio[j] : j \in 1..Len(frames[i].audio)} :
           i \in {k \in 1..Len(frames) : frames[k].channel = c}}

CarryOf(c) == {buffer[c][i] : i \in 1..Len(buffer[c])}

(* _restart once the old thread has exited: a new router, with a new       *)
(* repacketizer, on the same queues.                                       *)
Restart ==
  /\ pc = "dead" /\ restarts < MaxRestarts
  /\ restarts' = restarts + 1
  /\ pc' = "check" /\ stop_event' = FALSE
  /\ lost' = [c \in Channels |->
                lost[c] \cup CarryOf(c) \cup AudioOf(c, outgoing)]
  /\ buffer' = [c \in Channels |-> <<>>]
  /\ start_ts' = [c \in Channels |-> 0]
  /\ outgoing' = <<>>
  /\ UNCHANGED <<sent, arrived, ingest, routed, taken, dropped, accepted>>

Next ==
  \/ \E c \in Channels :
       \/ Lose(c)
       \/ \E t \in Arrivals(c, sent[c] + 1), valid \in BOOLEAN :
            OnMessage(c, t, valid)
  \/ CheckStop \/ Empty \/ Reject \/ Process \/ PutFrame \/ AllPut
  \/ TakeFrame \/ Die \/ Signal \/ Restart

Spec == Init /\ [][Next]_vars
-----------------------------------------------------------------------------
(* Properties *)

AcceptedAudio(c) ==
  UNION {{(k - 1) * IncomingUnits + i : i \in 1..IncomingUnits} :
           k \in accepted[c]}

(* Re-cutting the stream loses nothing of its own: what a channel's        *)
(* packets brought in was routed, dropped on a full queue, died with a     *)
(* router, or is still in the thread's hands.                              *)
AudioAccounted ==
  \A c \in Channels :
    AcceptedAudio(c) =
      AudioOf(c, routed) \cup AudioOf(c, dropped) \cup AudioOf(c, outgoing)
        \cup CarryOf(c) \cup lost[c]

Increasing(s) == \A i \in 1..Len(s) - 1 : s[i] < s[i + 1]

(* The VAD gets each unit of a channel's audio at most once and in the     *)
(* order it was captured, also across gaps, full queues and a replaced     *)
(* router, and what the router still holds comes after it.                 *)
RoutedInOrder ==
  \A c \in Channels :
    LET held == routed \o outgoing
        mine == {i \in 1..Len(held) : held[i].channel = c}
    IN  /\ \A i \in mine : Increasing(held[i].audio \o buffer[c])
        /\ \A i, j \in mine :
             i < j => Increasing(held[i].audio \o held[j].audio)

(* Packets until the carry is empty again, whatever was lost. *)
Window ==
  CHOOSE w \in 1..OutgoingUnits :
    /\ (w * IncomingUnits) % OutgoingUnits = 0
    /\ \A v \in 1..w - 1 : (v * IncomingUnits) % OutgoingUnits # 0

PacketOf(unit) == (unit - 1) \div IncomingUnits + 1

(* A gap shifts the timestamps of the frames cut from the carry it left,   *)
(* and no others: once Window packets in a row got through, a frame is     *)
(* stamped with its audio's capture time up to the jitter of one packet.   *)
DriftHeals ==
  \A i \in 1..Len(routed) :
    LET frame == routed[i]
        first == frame.audio[1]
        late == frame.timestamp - first - (IncomingUnits - 1)
        recent == {k \in 1..PacketOf(first) : k > PacketOf(first) - Window}
    IN  recent \subseteq accepted[frame.channel] => late \in 0..Jitter

(* What router.py says of outgoing timestamps: on a stream without gaps    *)
(* they advance a per-channel clock, re-anchored so that they do not jump. *)
TimestampsAdvance ==
  \A i, j \in 1..Len(routed) :
    LET c == routed[i].channel
        contiguous == \A k \in accepted[c] : 1..k \subseteq accepted[c]
    IN  i < j /\ routed[j].channel = c /\ contiguous
          => routed[i].timestamp <= routed[j].timestamp
=============================================================================
