----------------------------- MODULE Supervision -----------------------------
(***************************************************************************)
(* Restarting and stopping workers: the supervisor thread                  *)
(* (src/edge_voice/pipeline/supervisor.py), the restart threads it         *)
(* dispatches, and the orchestrator's start(), stop() and _restart()       *)
(* (src/edge_voice/pipeline/orchestrator.py), which run on other threads.  *)
(*                                                                         *)
(* A worker is replaced, never restarted, so an instance is a pair <<w,k>>:*)
(* the k-th object held for worker w; cur[w] is the one the orchestrator's *)
(* attribute holds.  What the worker does is left out: an instance runs,   *)
(* crashes, wedges in a native call, wakes, or leaves its loop after its   *)
(* stop event was set.  systemd is external: it restarts the unit when the *)
(* process dies or its WATCHDOG=1 pings stop.                              *)
(***************************************************************************)
EXTENDS Integers, Sequences

CONSTANTS
  Order,        (* the workers, producers before consumers (_get_workers)  *)
  Killable,     (* workers held as a process handle: they expose .kill     *)
  MaxRestarts,  (* restart budget per worker and window                    *)
  BuildMayFail, (* whether building or starting a replacement can raise    *)
  MaxInstances, (* BOUND: objects per worker                               *)
  MaxBoots      (* BOUND: process starts; systemd's StartLimitBurst        *)

Workers == {Order[i] : i \in 1..Len(Order)}

ASSUME SupervisionAssumption ==
  /\ Order \in Seq(Workers)
  /\ Killable \subseteq Workers
  /\ MaxRestarts \in Nat /\ BuildMayFail \in BOOLEAN
  /\ MaxInstances \in Nat /\ MaxRestarts < MaxInstances
  /\ MaxBoots \in Nat \ {0}

Instances == Workers \X (1..MaxInstances)

VARIABLES
  cur,        (* [w] index of the instance the orchestrator holds          *)
  started,    (* instances whose thread or process was started             *)
  alive,      (* instances whose is_alive() is true                        *)
  wedged,     (* live instances stuck where they cannot see the stop event *)
  signalled,  (* instances whose stop event is set                         *)
  running,    (* orchestrator._running                                     *)
  stop_event, (* orchestrator._stop_event; only build() clears it          *)
  sup,        (* the supervisor thread: off, waiting, scanning, awaiting,  *)
              (* ended                                                     *)
  sup_stop,   (* its stop event                                            *)
  to_scan,    (* workers this tick has still to look at                    *)
  restarts,   (* [w] restarts inside the window                            *)
  degraded,   (* [w] _TargetState.degraded                                 *)
  restarting, (* [w] _TargetState.restarting                               *)
  rt,         (* [w] where the restart thread is; idle: there is none      *)
  old,        (* [w] the instance it is replacing                          *)
  starter,    (* the thread in start(): idle, boot (cli.main), api         *)
  to_start,   (* the instances it has still to start                       *)
  stopper,    (* the thread in stop(): idle, metrics, supervisor, signal,  *)
              (* join; where a second Ctrl-C left it: raised, cut.         *)
              (* BOUND: one start() and one stop() at a time               *)
  snap,       (* [w] stop()'s snapshot of the workers                      *)
  stop_at,    (* position in Order it has reached                          *)
  boots,      (* how often systemd started the process                     *)
  asked       (* run or stop: what the operator last asked for, or after a *)
              (* crash of the process what Restart=always asks for         *)

inst_vars == <<cur, started, alive, wedged, signalled>>
sup_vars  == <<sup, sup_stop, to_scan, restarts, degraded, restarting>>
rt_vars   == <<rt, old>>
start_vars == <<starter, to_start>>
stop_vars == <<stopper, snap, stop_at>>
sys_vars  == <<boots, asked>>
vars == <<inst_vars, running, stop_event, sup_vars, rt_vars, start_vars,
          stop_vars, sys_vars>>

Current(w) == <<w, cur[w]>>

Each(x) == [w \in Workers |-> x]

(* build() in a new process: every worker built, nothing started. *)
Init ==
  /\ cur = Each(1)
  /\ started = {} /\ alive = {} /\ wedged = {} /\ signalled = {}
  /\ running = FALSE /\ stop_event = FALSE
  /\ sup = "off" /\ sup_stop = FALSE /\ to_scan = {}
  /\ restarts = Each(0) /\ degraded = Each(FALSE) /\ restarting = Each(FALSE)
  /\ rt = Each("idle") /\ old = Each(1)
  /\ starter = "idle" /\ to_start = <<>>
  /\ stopper = "idle" /\ snap = Each(1) /\ stop_at = 1
  /\ boots = 1 /\ asked = "run"

-----------------------------------------------------------------------------
(* A worker's own steps. *)

Crash(i) ==
  /\ i \in alive
  /\ alive' = alive \ {i} /\ wedged' = wedged \ {i}
  /\ UNCHANGED <<cur, started, signalled, running, stop_event, sup_vars,
                 rt_vars, start_vars, stop_vars, sys_vars>>

Wedge(i) ==
  /\ i \in alive \ wedged
  /\ wedged' = wedged \cup {i}
  /\ UNCHANGED <<cur, started, alive, signalled, running, stop_event, sup_vars,
                 rt_vars, start_vars, stop_vars, sys_vars>>

Wake(i) ==
  /\ i \in wedged
  /\ wedged' = wedged \ {i}
  /\ UNCHANGED <<cur, started, alive, signalled, running, stop_event, sup_vars,
                 rt_vars, start_vars, stop_vars, sys_vars>>

(* The run loop sees its stop event and returns. *)
Exit(i) ==
  /\ i \in (alive \cap signalled) \ wedged
  /\ alive' = alive \ {i}
  /\ UNCHANGED <<cur, started, wedged, signalled, running, stop_event,
                 sup_vars, rt_vars, start_vars, stop_vars, sys_vars>>

-----------------------------------------------------------------------------
(* The supervisor thread. *)

(* wait(tick_interval_s) ran out: ping, then scan every target. *)
Tick ==
  /\ sup = "waiting" /\ ~sup_stop
  /\ sup' = "scanning" /\ to_scan' = Workers
  /\ UNCHANGED <<inst_vars, running, stop_event, sup_stop, restarts, degraded,
                 restarting, rt_vars, start_vars, stop_vars, sys_vars>>

(* A stall is seen only after stall_timeout_s with input waiting, so a     *)
(* wedged worker may pass a scan.                                          *)
Failed(w) ==
  /\ Current(w) \notin signalled
  /\ Current(w) \notin alive \/ Current(w) \in wedged

SkipTarget(w) ==
  /\ sup = "scanning" /\ w \in to_scan
  /\ \/ degraded[w] \/ restarting[w]
     \/ ~Failed(w)
     \/ Current(w) \in wedged
  /\ to_scan' = to_scan \ {w}
  /\ UNCHANGED <<inst_vars, running, stop_event, sup, sup_stop, restarts,
                 degraded, restarting, rt_vars, start_vars, stop_vars, sys_vars>>

MayTriggerMutant(w) == ~degraded[w] /\ Failed(w)

MayTrigger(w) == ~degraded[w] /\ ~restarting[w] /\ Failed(w)

InBudget(w) == restarts[w] < MaxRestarts

(* _trigger_restart: the budget decides between degrading and a restart. *)
Degrade(w) ==
  /\ sup = "scanning" /\ w \in to_scan
  /\ MayTrigger(w)
  /\ ~InBudget(w)
  /\ degraded' = [degraded EXCEPT ![w] = TRUE]
  /\ to_scan' = to_scan \ {w}
  /\ UNCHANGED <<inst_vars, running, stop_event, sup, sup_stop, restarts,
                 restarting, rt_vars, start_vars, stop_vars, sys_vars>>

TriggerRestart(w) ==
  /\ sup = "scanning" /\ w \in to_scan
  /\ MayTrigger(w)
  /\ InBudget(w)
  /\ restarts' = [restarts EXCEPT ![w] = @ + 1]
  /\ restarting' = [restarting EXCEPT ![w] = TRUE]
  /\ to_scan' = to_scan \ {w}
  /\ rt' = [rt EXCEPT ![w] = "signal"]
  /\ old' = [old EXCEPT ![w] = cur[w]]
  /\ UNCHANGED <<inst_vars, running, stop_event, sup, sup_stop, degraded,
                 start_vars, stop_vars, sys_vars>>

ScanDone ==
  /\ sup = "scanning" /\ to_scan = {}
  /\ sup' = "waiting"
  /\ UNCHANGED <<inst_vars, running, stop_event, sup_stop, to_scan, restarts,
                 degraded, restarting, rt_vars, start_vars, stop_vars, sys_vars>>

SupervisorLeaves ==
  /\ sup = "waiting" /\ sup_stop
  /\ sup' = "awaiting"
  /\ UNCHANGED <<inst_vars, running, stop_event, sup_stop, to_scan, restarts,
                 degraded, restarting, rt_vars, start_vars, stop_vars, sys_vars>>

(* _await_restarts joins each restart thread for tick_interval_s at most,  *)
(* so it may end with one still running.                                   *)
AwaitRestarts ==
  /\ sup = "awaiting"
  /\ sup' = "ended"
  /\ UNCHANGED <<inst_vars, running, stop_event, sup_stop, to_scan, restarts,
                 degraded, restarting, rt_vars, start_vars, stop_vars, sys_vars>>

(* restart_window_s has passed since the oldest counted restart.  BOUND:   *)
(* only while MaxInstances leaves room for the restart it gives back, and  *)
(* between two restarts.                                                   *)
WindowSlides(w) ==
  /\ restarts[w] > 0 /\ rt[w] = "idle"
  /\ cur[w] + MaxRestarts - restarts[w] < MaxInstances
  /\ restarts' = [restarts EXCEPT ![w] = @ - 1]
  /\ UNCHANGED <<inst_vars, running, stop_event, sup, sup_stop, to_scan,
                 degraded, restarting, rt_vars, start_vars, stop_vars, sys_vars>>

-----------------------------------------------------------------------------
(* A restart thread: _restart_worker around _restart / _restart_dict_worker*)

SignalOldMutant(w) == UNCHANGED signalled

SignalOld(w) == signalled' = signalled \cup {<<w, old[w]>>}

RestartSignal(w) ==
  /\ rt[w] = "signal"
  /\ SignalOld(w)
  /\ rt' = [rt EXCEPT ![w] = "join"]
  /\ UNCHANGED <<cur, started, alive, wedged, running, stop_event, sup_vars,
                 old, start_vars, stop_vars, sys_vars>>

(* _join returns when the instance is gone, or after its timeout: then a   *)
(* process is killed and a thread is left behind as a zombie.              *)
Joined(i) ==
  /\ alive' = IF i[1] \in Killable THEN alive \ {i} ELSE alive
  /\ wedged' = wedged \cap alive'

RestartJoin(w) ==
  /\ rt[w] = "join"
  /\ Joined(<<w, old[w]>>)
  /\ rt' = [rt EXCEPT ![w] = "build"]
  /\ UNCHANGED <<cur, started, signalled, running, stop_event, sup_vars, old,
                 start_vars, stop_vars, sys_vars>>

(* The replacement is built and swapped in. *)
RestartBuild(w) ==
  /\ rt[w] = "build"
  /\ cur' = [cur EXCEPT ![w] = @ + 1]
  /\ rt' = [rt EXCEPT ![w] = "check"]
  /\ UNCHANGED <<started, alive, wedged, signalled, running, stop_event,
                 sup_vars, old, start_vars, stop_vars, sys_vars>>

EndRestartMutant(w) == rt' = [rt EXCEPT ![w] = "idle"] /\ UNCHANGED restarting

EndRestart(w) ==
  /\ rt' = [rt EXCEPT ![w] = "idle"]
  /\ restarting' = [restarting EXCEPT ![w] = FALSE]

StartAllowedMutant == TRUE

StartAllowed == running /\ ~stop_event

RestartCheck(w) ==
  /\ rt[w] = "check"
  /\ IF StartAllowed
     THEN rt' = [rt EXCEPT ![w] = "start"] /\ UNCHANGED restarting
     ELSE EndRestart(w)
  /\ UNCHANGED <<inst_vars, running, stop_event, sup, sup_stop, to_scan,
                 restarts, degraded, old, start_vars, stop_vars, sys_vars>>

RestartStart(w) ==
  /\ rt[w] = "start"
  /\ started' = started \cup {Current(w)}
  /\ alive' = alive \cup {Current(w)}
  /\ rt' = [rt EXCEPT ![w] = "ready"]
  /\ UNCHANGED <<cur, wedged, signalled, running, stop_event, sup_vars, old,
                 start_vars, stop_vars, sys_vars>>

(* wait_ready: a child has loaded its model or the wait timed out; for a   *)
(* thread there is nothing to wait for.                                    *)
RestartReady(w) ==
  /\ rt[w] = "ready"
  /\ EndRestart(w)
  /\ UNCHANGED <<inst_vars, running, stop_event, sup, sup_stop, to_scan,
                 restarts, degraded, old, start_vars, stop_vars, sys_vars>>

(* build_fn() or start() raised: logged, and the finally clause runs. *)
RestartFails(w) ==
  /\ BuildMayFail
  /\ rt[w] \in {"build", "start"}
  /\ EndRestart(w)
  /\ UNCHANGED <<inst_vars, running, stop_event, sup, sup_stop, to_scan,
                 restarts, degraded, old, start_vars, stop_vars, sys_vars>>

-----------------------------------------------------------------------------
(* start(): cli.main runs it in a new process before it serves the web UI; *)
(* afterwards POST /api/start may.                                         *)

(* The guard, _running, and the list of workers to start. *)
StartCall(who) ==
  /\ starter = "idle" /\ ~running /\ stopper \notin {"raised", "cut"}
  /\ starter' = who
  /\ running' = TRUE
  /\ to_start' = [n \in 1..Len(Order) |-> Current(Order[n])]
  /\ UNCHANGED <<inst_vars, stop_event, sup_vars, rt_vars, stop_vars, boots>>

BootStart == started = {} /\ StartCall("boot") /\ UNCHANGED asked
ApiStart == started # {} /\ StartCall("api") /\ asked' = "run"

StartWorker ==
  /\ to_start # <<>> /\ Head(to_start) \notin started
  /\ started' = started \cup {Head(to_start)}
  /\ alive' = alive \cup {Head(to_start)}
  /\ to_start' = Tail(to_start)
  /\ UNCHANGED <<cur, wedged, signalled, running, stop_event, sup_vars,
                 rt_vars, starter, stop_vars, sys_vars>>

(* Thread.start() raises RuntimeError on an object started before; start() *)
(* lets it through, with _running already set.                             *)
StartRaises ==
  /\ to_start # <<>> /\ Head(to_start) \in started
  /\ starter' = "idle" /\ to_start' = <<>>
  /\ UNCHANGED <<inst_vars, running, stop_event, sup_vars, rt_vars, stop_vars,
                 sys_vars>>

(* The supervisor starts last (and raises when it was started before). *)
StartSupervisor ==
  /\ starter # "idle" /\ to_start = <<>>
  /\ starter' = "idle"
  /\ sup' = IF sup = "off" THEN "waiting" ELSE sup
  /\ UNCHANGED <<inst_vars, running, stop_event, sup_stop, to_scan, restarts,
                 degraded, restarting, rt_vars, to_start, stop_vars, sys_vars>>

-----------------------------------------------------------------------------
(* stop(), also from another thread (POST /api/stop, or cli.main's end).   *)
(* The metrics thread is joined first, and the supervisor told after it.   *)

StopCall ==
  /\ stopper = "idle" /\ started # {} /\ starter # "boot"
  /\ running' = FALSE /\ stop_event' = TRUE
  /\ stopper' = "metrics"
  /\ asked' = "stop"
  /\ UNCHANGED <<inst_vars, sup_vars, rt_vars, start_vars, snap, stop_at,
                 boots>>

StopJoinsMetrics ==
  /\ stopper = "metrics"
  /\ sup_stop' = TRUE
  /\ stopper' = "supervisor"
  /\ UNCHANGED <<inst_vars, running, stop_event, sup, to_scan, restarts,
                 degraded, restarting, rt_vars, start_vars, snap, stop_at,
                 sys_vars>>

(* The supervisor leaves its loop at once; only its join of the restart    *)
(* threads can outlast the stopper's own join of it.                       *)
StopJoinsSupervisor ==
  /\ stopper = "supervisor"
  /\ sup \in {"off", "awaiting", "ended"}
  /\ snap' = cur
  /\ stop_at' = 1
  /\ stopper' = "signal"
  /\ UNCHANGED <<inst_vars, running, stop_event, sup_vars, rt_vars,
                 start_vars, sys_vars>>

StopSignals ==
  /\ stopper = "signal" /\ stop_at <= Len(Order)
  /\ signalled' = signalled \cup {<<Order[stop_at], snap[Order[stop_at]]>>}
  /\ stopper' = "join"
  /\ UNCHANGED <<cur, started, alive, wedged, running, stop_event, sup_vars,
                 rt_vars, start_vars, snap, stop_at, sys_vars>>

StopJoins ==
  /\ stopper = "join"
  /\ Joined(<<Order[stop_at], snap[Order[stop_at]]>>)
  /\ stop_at' = stop_at + 1
  /\ stopper' = "signal"
  /\ UNCHANGED <<cur, started, signalled, running, stop_event, sup_vars,
                 rt_vars, start_vars, snap, sys_vars>>

SignalAll == signalled' = signalled \cup {<<w, snap[w]>> : w \in Workers}

StopFinally ==
  /\ stopper = "signal" /\ stop_at > Len(Order)
  /\ SignalAll
  /\ stopper' = "idle"
  /\ UNCHANGED <<cur, started, alive, wedged, running, stop_event, sup_vars,
                 rt_vars, start_vars, snap, stop_at, sys_vars>>

(* A second Ctrl-C ends cli.main with stop() half way.  The joins of the   *)
(* workers are in a try whose finally clause signals them all; those of    *)
(* the metrics thread and the supervisor come before it.                   *)
InterruptDrain ==
  /\ stopper \in {"signal", "join"}
  /\ SignalAll
  /\ stopper' = "cut"
  /\ UNCHANGED <<cur, started, alive, wedged, running, stop_event, sup_vars,
                 rt_vars, start_vars, snap, stop_at, sys_vars>>

InterruptEarly ==
  /\ stopper \in {"metrics", "supervisor"}
  /\ stopper' = "raised"
  /\ UNCHANGED <<inst_vars, running, stop_event, sup_vars, rt_vars,
                 start_vars, snap, stop_at, sys_vars>>

-----------------------------------------------------------------------------
(* The process dies, or the watchdog kills it because the supervisor sends *)
(* no more pings; Restart=always starts it again, until StartLimitBurst.   *)

Reboot ==
  /\ boots < MaxBoots /\ boots' = boots + 1
  /\ cur' = Each(1)
  /\ started' = {} /\ alive' = {} /\ wedged' = {} /\ signalled' = {}
  /\ running' = FALSE /\ stop_event' = FALSE
  /\ sup' = "off" /\ sup_stop' = FALSE /\ to_scan' = {}
  /\ restarts' = Each(0) /\ degraded' = Each(FALSE)
  /\ restarting' = Each(FALSE)
  /\ rt' = Each("idle") /\ old' = Each(1)
  /\ starter' = "idle" /\ to_start' = <<>>
  /\ stopper' = "idle" /\ snap' = Each(1) /\ stop_at' = 1

WatchdogExpires == sup = "ended" /\ Reboot /\ UNCHANGED asked
ProcessDies == started # {} /\ Reboot /\ asked' = "run"

WorkerStep(i) == Crash(i) \/ Wedge(i) \/ Wake(i) \/ Exit(i)

SupervisorStep ==
  \/ Tick \/ ScanDone \/ SupervisorLeaves \/ AwaitRestarts
  \/ \E w \in Workers : SkipTarget(w) \/ Degrade(w) \/ TriggerRestart(w)

RestartStep(w) ==
  \/ RestartSignal(w) \/ RestartJoin(w) \/ RestartBuild(w) \/ RestartCheck(w)
  \/ RestartStart(w) \/ RestartReady(w) \/ RestartFails(w)

StartStep == StartWorker \/ StartRaises \/ StartSupervisor

StopStep ==
  \/ StopJoinsMetrics \/ StopJoinsSupervisor \/ StopSignals \/ StopJoins
  \/ StopFinally

Interrupt == InterruptDrain \/ InterruptEarly

Next ==
  \/ \E i \in Instances : WorkerStep(i)
  \/ SupervisorStep
  \/ \E w \in Workers : RestartStep(w) \/ WindowSlides(w)
  \/ BootStart \/ ApiStart \/ StartStep \/ StopCall \/ StopStep
  \/ Interrupt \/ WatchdogExpires \/ ProcessDies

(* Threads run, and systemd acts on silence.  Nothing makes a worker       *)
(* crash, wedge, wake, or the operator call.                               *)
Fairness ==
  /\ WF_vars(SupervisorStep)
  /\ \A w \in Workers : WF_vars(RestartStep(w))
  /\ WF_vars(BootStart) /\ WF_vars(StartStep) /\ WF_vars(StopStep)
  /\ WF_vars(WatchdogExpires)

Spec == Init /\ [][Next]_vars

FairSpec == Spec /\ Fairness

-----------------------------------------------------------------------------
(* Properties *)

InstancesTyped ==
  /\ cur \in [Workers -> 1..MaxInstances]
  /\ started \subseteq Instances /\ alive \subseteq started
  /\ wedged \subseteq alive /\ signalled \subseteq Instances

ScanTyped ==
  /\ sup \in {"off", "waiting", "scanning", "awaiting", "ended"}
  /\ sup_stop \in BOOLEAN
  /\ to_scan \subseteq Workers

BudgetTyped ==
  /\ restarts \in [Workers -> 0..MaxRestarts]
  /\ degraded \in [Workers -> BOOLEAN]
  /\ restarting \in [Workers -> BOOLEAN]

RestartTyped ==
  /\ rt \in [Workers -> {"idle", "signal", "join", "build", "check", "start",
                          "ready"}]
  /\ old \in [Workers -> 1..MaxInstances]

StartTyped ==
  /\ starter \in {"idle", "boot", "api"}
  /\ to_start \in Seq(Instances) /\ Len(to_start) <= Len(Order)

StopTyped ==
  /\ stopper \in {"idle", "metrics", "supervisor", "signal", "join", "raised",
                  "cut"}
  /\ snap \in [Workers -> 1..MaxInstances]
  /\ stop_at \in 1..(Len(Order) + 1)
  /\ stopper = "join" => stop_at <= Len(Order)

SystemTyped ==
  /\ running \in BOOLEAN /\ stop_event \in BOOLEAN
  /\ boots \in 1..MaxBoots
  /\ asked \in {"run", "stop"}

(* Type invariant. *)
TypeOK ==
  /\ InstancesTyped /\ ScanTyped /\ BudgetTyped /\ RestartTyped
  /\ StartTyped /\ StopTyped /\ SystemTyped

(* Two instances of a worker never both serve its queues: a live instance  *)
(* nobody told to stop is the one the orchestrator holds.  A zombie that   *)
(* wakes up therefore always finds its stop event set.                     *)
OneActiveInstance ==
  \A i \in alive \ signalled : i = Current(i[1])

(* After a stop() that got as far as its workers, and until the next      *)
(* start(), every instance that still lives was told to stop -- whatever a *)
(* restart thread was doing meanwhile, and whether stop() came to its end  *)
(* or a second Ctrl-C cut the drain short.  (One that a Ctrl-C ended in    *)
(* the joins before the drain told nobody: InterruptSignalsAll.)           *)
NothingSurvivesStop ==
  stop_event /\ ~running /\ stopper \in {"idle", "cut"} =>
    alive \subseteq signalled

(* What stop()'s comment says of a second Ctrl-C: no worker is left        *)
(* unsignalled to keep the process alive forever, they are all signalled   *)
(* before the interrupt propagates.                                        *)
InterruptSignalsAll ==
  stopper \in {"raised", "cut"} => alive \subseteq signalled

(* Degraded is a one-way door for the life of the process: the worker is   *)
(* not replaced again, not even by a restart already under way.            *)
DegradedIsFinal ==
  [][\A w \in Workers :
       degraded[w] /\ boots' = boots =>
         degraded'[w] /\ cur'[w] = cur[w] /\ ~restarting'[w]]_vars

Down(w) == Current(w) \in started \ alive /\ sup \in {"waiting", "scanning"}

Settled(w) ==
  Current(w) \in alive \/ degraded[w] \/ stop_event \/ started = {}

\* _restart signalled the instance and then failed to build another
Abandoned(w) == Current(w) \in signalled /\ rt[w] = "idle" /\ ~restarting[w]

(* A worker that died while the pipeline runs is replaced by a live one,   *)
(* given up as degraded, or left signalled by a restart whose build        *)
(* raised.  The loop never just forgets about it, and never hangs on it.   *)
CrashHandled ==
  \A w \in Workers : Down(w) ~> (Settled(w) \/ Abandoned(w))

(* What supervisor.py says of a restart that raised: a later tick retries  *)
(* it or degrades the worker.                                              *)
FailedRestartRetried == \A w \in Workers : Down(w) ~> Settled(w)

(* What the settings and the supervisor's log line say of a degraded       *)
(* worker: the OS watchdog's restart of the whole process recovers it,     *)
(* while systemd still has starts left and the operator wants it to run.   *)
DegradedRecovered ==
  \A w \in Workers :
    degraded[w] ~> (~degraded[w] \/ asked = "stop" \/ boots = MaxBoots)

(* What the orchestrator says of joining the supervisor: no worker gets    *)
(* swapped out from under the teardown.                                    *)
NoSwapDuringTeardown ==
  [][(stopper \in {"signal", "join"} /\ boots' = boots) => (cur' = cur)]_vars

(* POST /api/stop stops the pipeline: it does not run again unless asked.  *)
StopIsObeyed == asked = "stop" => ~running

(* What the web UI says its lifecycle calls answer, whether the call took   *)
(* effect: once start() is over, "running" means a supervised pipeline.    *)
StartTakesEffect ==
  running /\ starter = "idle" => sup \in {"waiting", "scanning"}
=============================================================================
