----------------------------- MODULE ConsoleFeed -----------------------------
(***************************************************************************)
(* The console page (src/edge_voice/webui/static/console.js) fed by the    *)
(* transcript hub through the event stream of src/edge_voice/webui/app.py. *)
(* The page outlives its connections: the browser's EventSource opens a    *)
(* new one when one breaks, and the hub replays its backlog into it.       *)
(*                                                                         *)
(* A bubble is [id, partial]; the sequence is their order on the page.     *)
(* liveBubbles holds exactly the bubbles shown as partial: an entry is     *)
(* made with a partial bubble and deleted when its final is applied.       *)
(***************************************************************************)
EXTENDS TranscriptHub

VARIABLES
  page,      (* the connection the page listens to, NoConn or Failed       *)
  bubbles,   (* the feed, top to bottom                                    *)
  clearing   (* a POST /api/transcripts/clear is on its way                *)

page_vars == <<page, bubbles, clearing>>
vars == <<hub_vars, page_vars>>

NoConn == 0
Failed == 0 - 1

Init ==
  /\ HubInit
  /\ page = NoConn /\ bubbles = <<>> /\ clearing = FALSE

Ids == Channels \X Nat

Id(e) == <<e.channel, e.segment>>

Live(id) == \E i \in 1..Len(bubbles) : bubbles[i].id = id /\ bubbles[i].partial

(* Rewrite the live bubble of a message's utterance. *)
RewriteMutant(m) == bubbles

Rewrite(m) ==
  [i \in 1..Len(bubbles) |->
     IF bubbles[i].id = Id(m) /\ bubbles[i].partial
     THEN [bubbles[i] EXCEPT !.partial = ~m.is_final] ELSE bubbles[i]]

InsertMutant(b) == Append(bubbles, b)

(* insertByTimestamp: before the first bubble spoken later. *)
Insert(b) ==
  LET later == {i \in 1..Len(bubbles) : bubbles[i].id[2] > b.id[2]}
  IN  IF later = {} THEN Append(bubbles, b)
      ELSE InsertAt(bubbles, Min(later), b)

(* applyMessage *)
Apply(m) ==
  IF Live(Id(m)) THEN Rewrite(m)
  ELSE Insert([id |-> Id(m), partial |-> ~m.is_final])

-----------------------------------------------------------------------------

Connect(k) ==
  /\ page = NoConn /\ Subscribe(k)
  /\ page' = k
  /\ UNCHANGED <<bubbles, clearing>>

(* EventSource gives up for good on an error response. *)
ConnectFails(k) ==
  /\ page = NoConn /\ SubscribeRaises(k)
  /\ page' = Failed
  /\ UNCHANGED <<bubbles, clearing>>

(* The connection breaks: what its queue still holds is lost. *)
Disconnect ==
  /\ page \in Conns /\ page' = NoConn
  /\ UNCHANGED <<hub_vars, bubbles, clearing>>

(* The kiosk reloads the page. *)
Reload ==
  /\ bubbles # <<>>
  /\ page' = NoConn /\ bubbles' = <<>>
  /\ UNCHANGED <<hub_vars, clearing>>

(* The event stream's generator: is_disconnected, or the next event. *)
StreamEnds(k) == page # k /\ Unsubscribe(k) /\ UNCHANGED page_vars

StreamSends(k) ==
  /\ Get(k)
  /\ bubbles' = IF page = k THEN Apply(got[k][read[k] + 1]) ELSE bubbles
  /\ UNCHANGED <<page, clearing>>

(* The clear button empties the page at once and posts the request, which  *)
(* may fail.                                                               *)
ClearPage ==
  /\ bubbles # <<>> /\ ~clearing
  /\ bubbles' = <<>> /\ clearing' = TRUE
  /\ UNCHANGED <<hub_vars, page>>

ClearArrives ==
  /\ clearing /\ clearing' = FALSE
  /\ Clear
  /\ UNCHANGED <<page, bubbles>>

ClearLost ==
  /\ clearing /\ clearing' = FALSE
  /\ UNCHANGED <<hub_vars, page, bubbles>>

Next ==
  \/ PublishStep /\ UNCHANGED page_vars
  \/ \E k \in Conns :
       Connect(k) \/ ConnectFails(k) \/ StreamEnds(k) \/ StreamSends(k)
  \/ Disconnect \/ Reload
  \/ ClearPage \/ ClearArrives \/ ClearLost

Spec == Init /\ [][Next]_vars

-----------------------------------------------------------------------------
(* Properties *)

(* However channels overtake each other and connections come and go, the   *)
(* feed shows the utterances in the order they were spoken.                *)
ChronologicalFeed ==
  \A i, j \in 1..Len(bubbles) : i < j => bubbles[i].id[2] <= bubbles[j].id[2]

CaughtUp(k) ==
  /\ k \in subscribers /\ read[k] = Len(got[k]) /\ dropped[k] = {}
  /\ \A c \in Channels : k \notin targets[c]

(* A bubble left half-written by a broken connection is settled by the     *)
(* replay: once the page has caught up, no utterance whose final is in the *)
(* backlog is still shown as partial.                                      *)
SettledWhenCaughtUp ==
  page \in Conns /\ CaughtUp(page) =>
    \A i \in 1..Len(backlog) : ~Live(Id(backlog[i]))

(* console.js: nothing arrives for an id after its final, so there is one  *)
(* bubble per utterance.                                                   *)
OneBubblePerUtterance ==
  \A i, j \in 1..Len(bubbles) : bubbles[i].id = bubbles[j].id => i = j
=============================================================================
