-------------------------------- MODULE Startup -------------------------------
(***************************************************************************)
(* From `systemctl start` to a pipeline that serves, in time: the unit     *)
(* deploy/edge-voice.service, main() of src/edge_voice/cli.py, build(),    *)
(* start() and _await_stt_ready() of pipeline/orchestrator.py, and what    *)
(* the supervisor's notifications mean to systemd.  Supervision has the    *)
(* races of restarts with start and stop; here a restart is one step that  *)
(* takes time.                                                             *)
(*                                                                         *)
(* A tick is the unit's RestartSec; what can happen at once does before    *)
(* the next tick.                                                          *)
(***************************************************************************)
EXTENDS Settings

CONSTANTS
  Channels,        (* in the order of settings.mqtt.channels               *)
  StartTimeout,    (* systemd's default TimeoutStartSec                    *)
  WatchdogSec, StartLimitInterval, StartLimitBurst,
  ProcessStart,    (* stt.process_start_timeout_s                          *)
  LoadTime,        (* ticks a child takes to load its model, at most       *)
  RestartTime,     (* ticks a restart takes, at most                       *)
  Configurations,  (* BOUND: files and environments to start with          *)
  MaxFailures      (* BOUND                                                *)

Stages == {"router", "vad"}
Stt == {Channels[i] : i \in 1..Len(Channels)}
Workers == Stages \cup Stt

ASSUME StartupAssumption ==
  /\ Channels \in Seq(STRING) /\ Channels # <<>> /\ Stages \cap Stt = {}
  /\ {StartTimeout, WatchdogSec, StartLimitInterval, StartLimitBurst,
      ProcessStart, LoadTime, RestartTime} \subseteq Nat \ {0}
  /\ MaxFailures \in Nat

ASSUME ConfigurationAssumption == Configurations \subseteq Sources

Never == LoadTime + 1

VARIABLES
  sources,        (* the files and the environment                         *)
  fault,          (* what is wrong with the machine, if anything is        *)
  unit, since,    (* wait, activating, active, failed; ticks in that state *)
                  (* or since the last ping                                *)
  begun, starts,  (* the start limit: age of its window, starts in it      *)
  at,             (* main(): off, load, build, start, await, serve         *)
  settings,
  loading,        (* per channel, ticks until its child is ready           *)
  next, awaited,  (* _await_stt_ready: the channel it waits for, and for   *)
                  (* how long it has waited in all                         *)
  supervisor,     (* it runs                                               *)
  queues,         (* the queues, by the worker that reads each             *)
  worker,         (* what each worker was given, and whether it lives      *)
  restarting,     (* per target, ticks left of its restart; 0 if none      *)
  failures

systemd == <<unit, since, begun, starts>>
process == <<at, settings, loading, next, awaited, supervisor>>
pipeline == <<queues, worker, restarting, failures>>
vars == <<sources, fault, systemd, process, pipeline>>

(* Where a worker's output goes. *)
Readers(w) == IF w = "router" THEN {"vad"} ELSE IF w = "vad" THEN Stt ELSE {}

Built(w) == [alive |-> FALSE, reads |-> queues[w],
             writes |-> {queues[r] : r \in Readers(w)}]

Nothing == [w \in Workers |-> [alive |-> FALSE, reads |-> 0, writes |-> {}]]

Init ==
  /\ sources \in Configurations
  /\ fault \in {"none", "hang", "model", "port"}
  /\ unit = "wait" /\ since = 1 /\ begun = 0 /\ starts = 0
  /\ at = "off" /\ settings = Null
  /\ loading = [c \in Stt |-> 0] /\ next = 1 /\ awaited = 0
  /\ supervisor = FALSE
  /\ queues = [w \in Workers |-> 0] /\ worker = Nothing
  /\ restarting = [w \in Workers |-> 0] /\ failures = 0

-----------------------------------------------------------------------------
(* systemd. *)

WindowMutant == WatchdogSec

(* StartLimitIntervalSec=300s: the default would be 10s. *)
Window == StartLimitInterval

WithinLimit == starts = 0 \/ begun > Window \/ starts < StartLimitBurst

StartUnit ==
  /\ unit = "wait" /\ since = 1 /\ WithinLimit
  /\ unit' = "activating" /\ since' = 0
  /\ IF starts = 0 \/ begun > Window
     THEN begun' = 0 /\ starts' = 1
     ELSE starts' = starts + 1 /\ UNCHANGED begun
  /\ at' = "load"
  /\ UNCHANGED <<sources, fault, settings, loading, next, awaited, supervisor, pipeline>>

StartLimitHit ==
  /\ unit = "wait" /\ since = 1 /\ ~WithinLimit
  /\ unit' = "failed"
  /\ UNCHANGED <<sources, fault, since, begun, starts, process, pipeline>>

(* The process is gone, for whatever reason: Restart=always. *)
Gone ==
  /\ unit' = "wait" /\ since' = 0
  /\ at' = "off" /\ supervisor' = FALSE
  /\ loading' = [c \in Stt |-> 0] /\ next' = 1 /\ awaited' = 0
  /\ queues' = [w \in Workers |-> 0] /\ worker' = Nothing
  /\ restarting' = [w \in Workers |-> 0]
  /\ UNCHANGED <<fault, begun, starts, failures>>

TimeoutStart ==
  /\ unit = "activating" /\ since >= StartTimeout
  /\ Gone /\ UNCHANGED <<sources, settings>>

WatchdogFires ==
  /\ unit = "active" /\ since >= WatchdogSec
  /\ Gone /\ UNCHANGED <<sources, settings>>

-----------------------------------------------------------------------------
(* main(). *)

(* Layers that come to the same settings are the same from here on. *)
LoadSettings ==
  /\ at = "load"
  /\ settings' = Load(Layers(sources))
  /\ settings' # Invalid
  /\ sources' = <<settings', <<>>, <<>>>>
  /\ at' = "build"
  /\ UNCHANGED <<fault, systemd, loading, next, awaited, supervisor, pipeline>>

LoadFails ==
  /\ at = "load" /\ Load(Layers(sources)) = Invalid
  /\ settings' = Invalid
  /\ sources' = <<[vad |-> Null], <<>>, <<>>>>
  /\ Gone

Build ==
  /\ at = "build"
  /\ queues' = [w \in Workers |-> queues[w] + 1]
  /\ worker' = [w \in Workers |-> Built(w)']
  /\ at' = "start"
  /\ UNCHANGED <<sources, fault, systemd, settings, loading, next, awaited,
                 supervisor, restarting, failures>>

(* w.start() for each; a child loads its model before it is ready. *)
StartWorkers ==
  /\ at = "start"
  /\ worker' = [w \in Workers |-> [worker[w] EXCEPT !.alive = TRUE]]
  /\ IF fault = "model"
     THEN loading' = [c \in Stt |-> Never]
     ELSE loading' \in [Stt -> 1..LoadTime]
  /\ at' = "await" /\ next' = 1 /\ awaited' = 0
  /\ UNCHANGED <<sources, fault, systemd, settings, supervisor, queues,
                 restarting, failures>>

(* One deadline for all channels, taken before the first wait. *)
Remaining == ProcessStart - awaited

(* The next child is ready, or the time is over. *)
AwaitStep ==
  /\ at = "await" /\ next <= Len(Channels)
  /\ loading[Channels[next]] = 0 \/ Remaining <= 0
  /\ next' = next + 1
  /\ UNCHANGED <<sources, fault, systemd, at, settings, loading, awaited,
                 supervisor, pipeline>>

(* The supervisor starts last, and its first message is READY=1. *)
StartSupervisor ==
  /\ at = "await" /\ next > Len(Channels)
  /\ at' = "serve"
  /\ supervisor' = settings.reliability.enabled
  /\ IF supervisor' THEN unit' = "active" /\ since' = 0
     ELSE UNCHANGED <<unit, since>>
  /\ UNCHANGED <<sources, fault, begun, starts, settings, loading, next,
                 awaited, pipeline>>

(* uvicorn cannot bind its port: stop(), and main() ends. *)
ServeFails ==
  /\ at = "serve" /\ fault = "port"
  /\ Gone /\ UNCHANGED <<sources, settings>>
-----------------------------------------------------------------------------
(* The supervisor. *)

PingsMutant == supervisor /\ fault # "hang" /\ \A w \in Workers : restarting[w] = 0

(* WATCHDOG=1 on every tick, ahead of the scan: restarts have threads of   *)
(* their own.  A process that hangs sends none.                            *)
Pings == supervisor /\ fault # "hang"

Fail(w) ==
  /\ at = "serve" /\ supervisor /\ fault = "none"
  /\ worker[w].alive /\ failures < MaxFailures
  /\ worker' = [worker EXCEPT ![w].alive = FALSE]
  /\ failures' = failures + 1
  /\ UNCHANGED <<sources, fault, systemd, process, queues, restarting>>

BoundMutant(w) == IF w \in Stt THEN Channels[Len(Channels)] ELSE w

(* The worker a target's callables act on. *)
Bound(w) == w

Trigger(w) ==
  /\ supervisor /\ fault = "none" /\ restarting[w] = 0
  /\ ~worker[Bound(w)].alive
  /\ \E t \in 1..RestartTime : restarting' = [restarting EXCEPT ![w] = t + 1]
  /\ UNCHANGED <<sources, fault, systemd, process, queues, worker, failures>>

(* A fresh worker on the same queues. *)
Replace(w) ==
  /\ restarting[w] = 1
  /\ restarting' = [restarting EXCEPT ![w] = 0]
  /\ worker' = [worker EXCEPT ![Bound(w)] = [Built(Bound(w)) EXCEPT !.alive = TRUE]]
  /\ UNCHANGED <<sources, fault, systemd, process, queues, failures>>
-----------------------------------------------------------------------------
Urgent ==
  \/ unit = "wait" /\ since = 1
  \/ unit = "activating" /\ since >= StartTimeout
  \/ unit = "active" /\ since >= WatchdogSec
  \/ at \in {"load", "build", "start"}
  \/ /\ at = "await"
     /\ next <= Len(Channels) => loading[Channels[next]] = 0 \/ Remaining <= 0
  \/ at = "serve" /\ fault = "port"
  \/ \E w \in Workers :
       \/ restarting[w] = 1
       \/ supervisor /\ fault = "none" /\ restarting[w] = 0 /\ ~worker[Bound(w)].alive

Capped(n, max) == IF n < max THEN n + 1 ELSE n

Tick ==
  /\ unit # "failed" /\ ~Urgent
  /\ since' = IF unit = "active" /\ Pings THEN 0
              ELSE IF unit = "activating" THEN Capped(since, StartTimeout)
              ELSE IF unit = "active" THEN Capped(since, WatchdogSec) ELSE since + 1
  /\ begun' = Capped(begun, Window + 1)
  /\ loading' = [c \in Stt |-> IF loading[c] \in 1..LoadTime THEN loading[c] - 1
                               ELSE loading[c]]
  /\ awaited' = IF at = "await" THEN awaited + 1 ELSE awaited
  /\ restarting' = [w \in Workers |-> IF restarting[w] > 1 THEN restarting[w] - 1
                                      ELSE restarting[w]]
  /\ UNCHANGED <<sources, fault, unit, starts, at, settings, next, supervisor,
                 queues, worker, failures>>

Next ==
  \/ StartUnit \/ StartLimitHit \/ TimeoutStart \/ WatchdogFires
  \/ LoadSettings \/ LoadFails \/ Build \/ StartWorkers
  \/ AwaitStep \/ StartSupervisor \/ ServeFails
  \/ \E w \in Workers : Fail(w) \/ Trigger(w) \/ Replace(w)
  \/ Tick

(* All but failures happens by itself. *)
Fairness ==
  /\ WF_vars(StartUnit \/ StartLimitHit \/ TimeoutStart \/ WatchdogFires)
  /\ WF_vars(LoadSettings \/ LoadFails \/ Build \/ StartWorkers)
  /\ WF_vars(AwaitStep \/ StartSupervisor \/ ServeFails)
  /\ \A w \in Workers : WF_vars(Trigger(w)) /\ WF_vars(Replace(w))
  /\ WF_vars(Tick)

Spec == Init /\ [][Next]_vars

FairSpec == Spec /\ Fairness
-----------------------------------------------------------------------------
(* Properties *)

(* The order of precedence that README.md and settings.py state is what    *)
(* merging the files and the variables that are read comes to, a           *)
(* validator's refusal included: a field of a section that two layers name *)
(* is not lost with the rest of the lower one.                             *)
LayersMerged ==
  at = "load" => Load(Layers(sources)) = Promised(Layers(sources))

(* What README.md says of the environment: EDGE_VOICE__<SECTION>__<FIELD>  *)
(* overrides the files.  An environment spelled so has that effect.        *)
DocumentedSpelling == "EDGE_VOICE__"

DocumentedOverrides ==
  (at = "load" /\ \A v \in DOMAIN sources[3] : v.prefix = DocumentedSpelling)
  => Load(Layers(sources))
       = Promised(<<sources[1], sources[2],
                    Spelled(DocumentedSpelling, sources[3])>>)

(* What orchestrator.py says of a child that never is ready: it is left to *)
(* the supervisor, which starts whatever the children do.                  *)
SupervisorTakesOver ==
  (at = "await" /\ settings.reliability.enabled) ~> supervisor

(* The children load at once and are waited for one after the other, and   *)
(* the wait is over after process_start_timeout_s, however many they are   *)
(* and however slow their models: only where TimeoutStartSec is no longer  *)
(* than that does systemd give up on a boot whose supervisor is to come.   *)
OneDeadline ==
  /\ at = "await" => since = awaited /\ awaited <= ProcessStart
  /\ unit = "activating" /\ since >= StartTimeout
       => (at = "serve" /\ ~supervisor) \/ StartTimeout <= ProcessStart

(* deploy/edge-voice.service: what fails on every boot ends in `failed`,   *)
(* be it settings that do not validate, a port that is taken or a hang     *)
(* that the watchdog finds, and not in restarts for ever.                  *)
LoopBreaks ==
  (\/ settings = Invalid
   \/ fault = "port" /\ at = "serve"
   \/ fault = "hang" /\ unit = "active")
  ~> (unit = "failed")

(* With nothing wrong the unit stays active: the pings do not stop during  *)
(* a restart that takes longer than WatchdogSec.                           *)
RestartsKeepPings == [][fault = "none" /\ unit = "active" => unit' = "active"]_vars

(* Whatever worker dies, one that lives reads the queue that its producer  *)
(* writes again: a target's callables act on its own worker.               *)
FailureHealed ==
  \A w \in Workers :
    (supervisor /\ ~worker[w].alive)
    ~> (\/ /\ worker[w].alive
           /\ \A p \in Stages : w \in Readers(p) => worker[w].reads \in worker[p].writes
        \/ ~supervisor)

(* What orchestrator.py says of reliability.enabled: without it the        *)
(* pipeline behaves as it did before there was a supervisor.               *)
UnsupervisedServes ==
  (at = "build" /\ fault = "none" /\ ~settings.reliability.enabled)
  ~> [](at = "serve")

(* What the unit says of a hang that recurs on every restart, of one in a  *)
(* child's load too.  It is killed after TimeoutStartSec, too seldom to    *)
(* reach the start limit.                                                  *)
LoadLoopBreaks == (fault = "model" /\ at = "await") ~> (unit = "failed")
=============================================================================
