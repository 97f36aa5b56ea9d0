---------------------------- MODULE TranscriptHub ----------------------------
(***************************************************************************)
(* The in-process publish/subscribe of transcripts                         *)
(* (src/edge_voice/pipeline/transcript_hub.py).  Each channel has one      *)
(* publishing thread; each browser connection subscribes with a bounded    *)
(* queue that is seeded with the backlog.  publish() takes the lock once,  *)
(* to record the event and copy the set of subscribers, and puts the event *)
(* into their queues one by one after releasing it.                        *)
(*                                                                         *)
(* An event is one of a channel's n-th utterance; n also stands for when   *)
(* it was spoken, so utterances of two channels may be published out of    *)
(* the order they were spoken in.  A subscriber's queue is kept as all     *)
(* that was ever put into it, and how much of it was taken out.            *)
(***************************************************************************)
EXTENDS Integers, Sequences, SequencesExt

CONSTANTS
  Channels,
  BacklogMax,     (* transcript_backlog                                    *)
  SubscriberMax,  (* DEFAULT_SUBSCRIBER_MAXSIZE                            *)
  Events,         (* BOUND: events the channels' workers may publish       *)
  MaxConns        (* BOUND: connections                                    *)

ASSUME HubAssumption ==
  /\ BacklogMax \in Nat
  /\ SubscriberMax \in Nat \ {0}
  /\ MaxConns \in Nat
  /\ Events \subseteq [channel : Channels, segment : Nat \ {0},
                       is_final : BOOLEAN]

Conns == 1..MaxConns

VARIABLES
  backlog,      (* _backlog, finals only                                   *)
  subscribers,  (* connections in _subscribers                             *)
  opened,       (* connections made so far, numbered in this order         *)
  refused,      (* those whose subscribe() raised queue.Full               *)
  got,          (* [k] everything put into connection k's queue, in order  *)
  read,         (* [k] how many of these were taken out                    *)
  sending,      (* [c] the event channel c publishes, or published last    *)
  targets,      (* [c] subscribers publish() has still to put it to        *)
  dropped       (* [k] history: events dropped because k's queue was full  *)

hub_vars == <<backlog, subscribers, opened, refused, got, read, sending,
              targets, dropped>>

(* The publisher has sent nothing yet. *)
Nothing(c) == [channel |-> c, segment |-> 0, is_final |-> TRUE]

HubInit ==
  /\ backlog = <<>>
  /\ subscribers = {} /\ opened = 0 /\ refused = {}
  /\ got = [k \in Conns |-> <<>>] /\ read = [k \in Conns |-> 0]
  /\ sending = [c \in Channels |-> Nothing(c)]
  /\ targets = [c \in Channels |-> {}]
  /\ dropped = [k \in Conns |-> {}]

(* What the worker of one channel publishes after event last: a later      *)
(* utterance, or the final of the one last was a partial of.  A final may  *)
(* never come: the worker crashed, or it was dropped upstream.  BOUND: one *)
(* partial per utterance.                                                  *)
Follows(last, e) ==
  /\ e.channel = last.channel
  /\ \/ e.segment > last.segment
     \/ e.segment = last.segment /\ e.is_final /\ ~last.is_final

(* A deque with maxlen forgets its oldest entries. *)
Newest(s) == IF Len(s) <= BacklogMax THEN s
             ELSE SubSeq(s, Len(s) - BacklogMax + 1, Len(s))

SortedByStartMutant(s) == Reverse(s)

(* The sort key is the start, and the sort is stable. *)
Before(s, i, j) ==
  \/ s[i].segment < s[j].segment
  \/ s[i].segment = s[j].segment /\ i < j

(* Where the i-th element ends up. *)
Place(s, i) == Cardinality({j \in DOMAIN s : Before(s, j, i)}) + 1

(* sorted(backlog, key=start) *)
SortedByStart(s) ==
  [r \in DOMAIN s |-> s[CHOOSE i \in DOMAIN s : Place(s, i) = r]]

-----------------------------------------------------------------------------

(* publish(), under the lock. *)
Publish(c, e) ==
  /\ targets[c] = {}
  /\ Follows(sending[c], e)
  /\ backlog' = IF e.is_final THEN Newest(Append(backlog, e)) ELSE backlog
  /\ sending' = [sending EXCEPT ![c] = e]
  /\ targets' = [targets EXCEPT ![c] = subscribers]
  /\ UNCHANGED <<subscribers, opened, refused, got, read, dropped>>

HasRoom(k) == Len(got[k]) - read[k] < SubscriberMax

AfterPutMutant(c, k) == UNCHANGED targets

AfterPut(c, k) == targets' = [targets EXCEPT ![c] = @ \ {k}]

Put(c, k) ==
  /\ k \in targets[c] /\ HasRoom(k)
  /\ got' = [got EXCEPT ![k] = Append(@, sending[c])]
  /\ AfterPut(c, k)
  /\ UNCHANGED <<backlog, subscribers, opened, refused, read, sending,
                 dropped>>

(* queue.Full after PUT_TIMEOUT_S. *)
PutFull(c, k) ==
  /\ k \in targets[c] /\ ~HasRoom(k)
  /\ dropped' = [dropped EXCEPT ![k] = @ \cup {sending[c]}]
  /\ AfterPut(c, k)
  /\ UNCHANGED <<backlog, subscribers, opened, refused, got, read, sending>>

(* A seed that misses the event published last. *)
SeedMutant == SelectSeq(SortedByStart(backlog), LAMBDA e : e # Last(backlog))

Seed == SortedByStart(backlog)

Subscribe(k) ==
  /\ k = opened + 1 /\ k \in Conns
  /\ Len(backlog) <= SubscriberMax
  /\ got' = [got EXCEPT ![k] = Seed]
  /\ subscribers' = subscribers \cup {k}
  /\ opened' = k
  /\ UNCHANGED <<backlog, refused, read, sending, targets, dropped>>

(* put_nowait raises: the queue is smaller than the backlog. *)
SubscribeRaises(k) ==
  /\ k = opened + 1 /\ k \in Conns
  /\ Len(backlog) > SubscriberMax
  /\ opened' = k /\ refused' = refused \cup {k}
  /\ UNCHANGED <<backlog, subscribers, got, read, sending, targets, dropped>>

Unsubscribe(k) ==
  /\ k \in subscribers
  /\ subscribers' = subscribers \ {k}
  /\ UNCHANGED <<backlog, opened, refused, got, read, sending, targets,
                 dropped>>

(* The request handler takes an event from its queue. *)
Get(k) ==
  /\ k \in subscribers /\ read[k] < Len(got[k])
  /\ read' = [read EXCEPT ![k] = @ + 1]
  /\ UNCHANGED <<backlog, subscribers, opened, refused, got, sending, targets,
                 dropped>>

Clear ==
  /\ backlog # <<>>
  /\ backlog' = <<>>
  /\ UNCHANGED <<subscribers, opened, refused, got, read, sending, targets,
                 dropped>>

PublishStep ==
  \E c \in Channels :
    \/ \E e \in Events : Publish(c, e)
    \/ \E k \in targets[c] : Put(c, k) \/ PutFull(c, k)

HubNext ==
  \/ PublishStep
  \/ \E k \in Conns : Subscribe(k) \/ SubscribeRaises(k) \/ Unsubscribe(k)
                      \/ Get(k)
  \/ Clear

HubSpec == HubInit /\ [][HubNext]_hub_vars

-----------------------------------------------------------------------------
(* Properties *)

InFlight(e, k) == \E c \in Channels : sending[c] = e /\ k \in targets[c]

(* An event reaches a connection once: from the backlog or live, never     *)
(* both, although it is put after the lock was released.                   *)
DeliveredOnce ==
  \A k \in Conns : \A i, j \in 1..Len(got[k]) :
    got[k][i] = got[k][j] => i = j

(* Nothing falls between the backlog and the live feed: what the backlog   *)
(* holds reaches every open connection, also one that subscribed while the *)
(* event was being put to the others, unless its queue was full.           *)
BacklogReachesAll ==
  \A k \in subscribers : \A i \in 1..Len(backlog) :
    \/ backlog[i] \in ToSet(got[k]) \cup dropped[k]
    \/ InFlight(backlog[i], k)

(* A connection sees a channel's events in the order they were published,  *)
(* whether replayed or live: partials before their final, utterances in    *)
(* the order they were spoken.                                             *)
ChannelOrder ==
  \A k \in Conns : \A i, j \in 1..Len(got[k]) :
    i < j /\ got[k][i].channel = got[k][j].channel =>
      Follows(got[k][i], got[k][j])

(* What the setting and the docstring promise a client that connects: it   *)
(* is seeded with the backlog.                                             *)
SubscribeNeverFails == refused = {}
=============================================================================
