-------------------------------- MODULE Health --------------------------------
(***************************************************************************)
(* What the kiosk says of the pipeline, against what is true of it: the    *)
(* MQTT client's connected flag (audio_ingest/mqtt_client.py), the metrics *)
(* tick that samples it (observability/metrics.py), the status request that*)
(* puts a report together from live state and from the last tick           *)
(* (orchestrator.get_status and health, health/reporting.py), and the page *)
(* that polls it (webui/static/console.js).                                *)
(*                                                                         *)
(* The supervisor is reduced to what the report reads of it: its own       *)
(* thread, and of each worker the state it recorded and whether the        *)
(* current instance lives.  Supervision has the rest.                      *)
(***************************************************************************)
EXTENDS Naturals

CONSTANTS
  Workers,      \* the supervised workers
  Router,       \* the one that keeps the channels' last-seen table
  Channels,     \* configured channel ids
  MaxRestarts   \* restarts in the budget of a worker (the window never slides)

ASSUME HealthAssumption == MaxRestarts \in Nat /\ Router \in Workers

VARIABLES
  link,       \* the session as paho holds it
  connected,  \* _connected_event
  running,    \* _running
  watcher,    \* the supervisor's own thread lives
  alive,      \* is_alive() of each worker's current instance
  recorded,   \* the supervisor's _TargetState.state
  restarts,   \* restarts triggered
  instance,   \* replacements swapped in
  last_seen,  \* [router instance] its channels, against stale_after_s
  enabled,    \* metrics.enabled
  snapshot,   \* the last metrics tick
  request,    \* the status request being served
  page        \* what the page shows

supervised == <<watcher, alive, recorded, restarts, instance>>
truth == <<link, connected, running, supervised, last_seen, enabled>>
vars == <<truth, snapshot, request, page>>

NoSnapshot == [taken |-> FALSE]
Idle == [at |-> "idle"]

Blank ==
  [pill |-> "stopped", rows |-> [w \in Workers |-> "none"],
   watcher |-> "none", dots |-> [c \in Channels |-> "dim"]]

Init ==
  /\ link = "off" /\ connected = FALSE
  /\ running = TRUE /\ watcher = TRUE
  /\ alive = [w \in Workers |-> TRUE]
  /\ recorded = [w \in Workers |-> "running"]
  /\ restarts = [w \in Workers |-> 0]
  /\ instance = [w \in Workers |-> 0]
  /\ last_seen = [i \in 0..MaxRestarts |-> [c \in Channels |-> "never"]]
  /\ enabled \in BOOLEAN
  /\ snapshot = NoSnapshot /\ request = Idle /\ page = Blank

(***************************************************************************)
(* The MQTT client.                                                        *)
(***************************************************************************)

\* Wrong: only the first connection is noted.
ConnectedMutant == connected' = (snapshot = NoSnapshot)

\* on_connect sets the event, whatever return code it is called with.
Connected == connected' = TRUE

LinkChanges ==
  UNCHANGED <<running, supervised, last_seen, enabled, snapshot, request, page>>

\* The broker accepts the session, or refuses it: paho calls on_connect with
\* the code either way, and then disconnects from one that refused.
OnConnect ==
  /\ link = "off" /\ link' \in {"up", "refused"}
  /\ Connected
  /\ LinkChanges

\* Wrong: the event stays set, as nothing waits for it any more.
DisconnectedMutant == UNCHANGED connected

Disconnected == connected' = FALSE

OnDisconnect ==
  /\ link # "off" /\ link' = "off"
  /\ Disconnected
  /\ LinkChanges

(***************************************************************************)
(* The workers and the supervisor.                                         *)
(***************************************************************************)

WorkersChange ==
  UNCHANGED <<link, connected, last_seen, enabled, snapshot, request, page>>

Crash(w) ==
  /\ running /\ alive[w]
  /\ alive' = [alive EXCEPT ![w] = FALSE]
  /\ UNCHANGED <<running, watcher, recorded, restarts, instance>>
  /\ WorkersChange

\* Nothing restarts the supervisor's own thread.
WatcherDies ==
  /\ running /\ watcher /\ watcher' = FALSE
  /\ UNCHANGED <<running, alive, recorded, restarts, instance>>
  /\ WorkersChange

\* A scan finds the worker dead, or alive and stalled.
Trigger(w) ==
  /\ running /\ watcher
  /\ recorded[w] = "running"
  /\ IF restarts[w] < MaxRestarts
     THEN /\ restarts' = [restarts EXCEPT ![w] = @ + 1]
          /\ recorded' = [recorded EXCEPT ![w] = "restarting"]
     ELSE /\ recorded' = [recorded EXCEPT ![w] = "degraded"]
          /\ UNCHANGED restarts
  /\ UNCHANGED <<running, watcher, alive, instance>>
  /\ WorkersChange

\* The restart thread swaps the replacement in, and then says so.
Replaced(w) ==
  /\ running
  /\ recorded[w] = "restarting" /\ instance[w] < restarts[w]
  /\ instance' = [instance EXCEPT ![w] = restarts[w]]
  /\ alive' = [alive EXCEPT ![w] = TRUE]
  /\ UNCHANGED <<running, watcher, recorded, restarts>>
  /\ WorkersChange

Restarted(w) ==
  /\ recorded[w] = "restarting" /\ instance[w] = restarts[w]
  /\ recorded' = [recorded EXCEPT ![w] = "running"]
  /\ UNCHANGED <<running, watcher, alive, restarts, instance>>
  /\ WorkersChange

\* stop(): every worker ends, and the supervisor and the metrics before them.
Stop ==
  /\ running /\ running' = FALSE
  /\ watcher' = FALSE
  /\ alive' = [w \in Workers |-> FALSE]
  /\ UNCHANGED <<recorded, restarts, instance>>
  /\ WorkersChange

(***************************************************************************)
(* The channels.  The last-seen table is the router instance's own.        *)
(***************************************************************************)

Hear(c) ==
  /\ running /\ link = "up" /\ alive[Router]
  /\ last_seen' = [last_seen EXCEPT ![instance[Router]][c] = "fresh"]
  /\ UNCHANGED <<link, connected, running, supervised, enabled>>
  /\ UNCHANGED <<snapshot, request, page>>

\* No packet on c for stale_after_s.
Silence(c) ==
  /\ last_seen' = [i \in 0..MaxRestarts |->
       [last_seen[i] EXCEPT ![c] = IF @ = "never" THEN @ ELSE "stale"]]
  /\ UNCHANGED <<link, connected, running, supervised, enabled>>
  /\ UNCHANGED <<snapshot, request, page>>

\* Wrong: the router of the time the pipeline was built.
CurrentRouterMutant == 0

CurrentRouter == instance[Router]

Freshness == last_seen[CurrentRouter]

(***************************************************************************)
(* The metrics tick and the status request, which reads one thing after    *)
(* the other while everything else goes on.                                *)
(***************************************************************************)

MetricsTick ==
  /\ running /\ enabled
  /\ snapshot' = [taken |-> TRUE, mqtt |-> connected]
  /\ UNCHANGED <<truth, request, page>>

\* get_status: _running and is_alive() of each worker.
ReadWorkers ==
  /\ request.at = "idle"
  /\ request' = [at |-> "workers", running |-> running,
                 rows |-> [w \in Workers |-> IF alive[w] THEN "running" ELSE "stopped"]]
  /\ UNCHANGED <<truth, snapshot, page>>

\* Wrong: the record replaces what the thread says of itself.
RefinedMutant(row, w) == recorded[w]

\* The supervisor's record refines the row of a live worker only.
Refined(row, w) == IF row = "running" THEN recorded[w] ELSE row

ReadRecorded ==
  /\ request.at = "workers"
  /\ request' = [request EXCEPT
       !.at = "recorded", !.rows = [w \in Workers |-> Refined(@[w], w)]]
  /\ UNCHANGED <<truth, snapshot, page>>

Degraded == \E w \in Workers : recorded[w] = "degraded"

ReadDegraded ==
  /\ request.at = "recorded"
  /\ request' = [at |-> "degraded", running |-> request.running,
                 rows |-> request.rows, degraded |-> Degraded,
                 watcher |-> IF watcher THEN "running" ELSE "stopped"]
  /\ UNCHANGED <<truth, snapshot, page>>

\* mqtt_connected is unknown without metrics and before their first tick.
MqttDown == snapshot.taken /\ ~snapshot.mqtt

ReadSnapshot ==
  /\ request.at = "degraded"
  /\ request' = [at |-> "snapshot", running |-> request.running,
                 rows |-> request.rows, degraded |-> request.degraded,
                 watcher |-> request.watcher, mqtt_down |-> MqttDown]
  /\ UNCHANGED <<truth, snapshot, page>>

Verdict(r) ==
  IF ~r.running THEN "down" ELSE IF r.degraded \/ r.mqtt_down THEN "warn" ELSE "ok"

\* setStatus: the label of the pill.
Pill(r) ==
  CASE Verdict(r) = "down" -> "stopped"
    [] Verdict(r) # "down" /\ r.degraded -> "degraded"
    [] Verdict(r) # "down" /\ ~r.degraded /\ r.mqtt_down -> "mqtt down"
    [] OTHER -> "live"

\* renderChannels: a channel never seen is neither fresh nor stale.
Dot(seen) == CASE seen = "never" -> "dim" [] seen = "fresh" -> "ok"
               [] seen = "stale" -> "warn"

\* Freshness is read last, the report built, and the page redrawn.
Answer ==
  /\ request.at = "snapshot"
  /\ page' = [pill |-> Pill(request), rows |-> request.rows,
              watcher |-> request.watcher,
              dots |-> [c \in Channels |-> Dot(Freshness[c])]]
  /\ request' = Idle
  /\ UNCHANGED <<truth, snapshot>>

\* A poll that does not reach the server blanks the page.
PollFails ==
  /\ request.at = "idle"
  /\ page' = Blank
  /\ UNCHANGED <<truth, snapshot, request>>

RequestStep ==
  ReadWorkers \/ ReadRecorded \/ ReadDegraded \/ ReadSnapshot \/ Answer

Next ==
  \/ OnConnect \/ OnDisconnect
  \/ \E w \in Workers : Crash(w) \/ Trigger(w) \/ Replaced(w) \/ Restarted(w)
  \/ WatcherDies \/ Stop
  \/ \E c \in Channels : Hear(c) \/ Silence(c)
  \/ MetricsTick
  \/ RequestStep
  \/ PollFails

Spec == Init /\ [][Next]_vars

\* The page polls on an interval, and the metrics thread ticks on one.
FairSpec == Spec /\ WF_vars(MetricsTick) /\ WF_vars(RequestStep)

-----------------------------------------------------------------------------
(***************************************************************************)
(* Properties.                                                             *)
(***************************************************************************)

\* With metrics on, a broker that stays away is on the page for good, however
\* old the tick the report is made of.
OutageShown == enabled /\ <>[](link = "off") => <>[](page.pill # "live")

\* With the session back for good and no worker degraded, the page says so
\* again and again, whatever polls fail and whether or not metrics are on.
OutageClears ==
  <>[](link = "up" /\ running /\ ~Degraded) => []<>(page.pill = "live")

\* A worker that stays dead is not shown as running for ever, the supervisor
\* itself included: its records freeze when its own thread dies
\* (orchestrator.py:377-381).
DeadRowShown ==
  /\ \A w \in Workers : <>[]~alive[w] => <>[](page.rows[w] # "running")
  /\ <>[]~watcher => <>[](page.watcher # "running")

\* A channel's dot follows the router in charge: green while the packets keep
\* coming, not green when they stay away, also after the router was replaced
\* (orchestrator.py:418-422).
ChannelsFollowed ==
  \A c \in Channels :
    /\ <>[](last_seen[instance[Router]][c] = "fresh") => []<>(page.dots[c] = "ok")
    /\ <>[](last_seen[instance[Router]][c] # "fresh") => <>[](page.dots[c] # "ok")

\* "Amber | degraded | Blew its restart budget" (docs/HEALTH.md:47): a degraded
\* worker's row comes to say so while the pipeline runs.
DegradedRowShown ==
  \A w \in Workers :
    (recorded[w] = "degraded")
      ~> (~running \/ page.rows[w] = "degraded")

\* "Whether the broker connection is currently up" (mqtt_client.py:103).
ConnectedIsUp == connected => link = "up"
=============================================================================
