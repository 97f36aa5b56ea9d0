-------------------------- MODULE SupervisionProofs --------------------------
(***************************************************************************)
(* Proofs about Supervision for any workers, restart budget and bounds.    *)
(***************************************************************************)
EXTENDS Supervision, SequenceTheorems, TLAPS

Replacing == {"signal", "join", "build"}

(* Every restart the budget still allows has an instance left to use. *)
RoomForRestarts ==
  \A w \in Workers :
    /\ cur[w] + MaxRestarts - restarts[w] <= MaxInstances
    /\ rt[w] \in Replacing =>
         cur[w] + 1 + MaxRestarts - restarts[w] <= MaxInstances

(* A restart thread works on the instance the orchestrator still holds,    *)
(* and has told it to stop before it replaces it.                          *)
ReplacesSignalled ==
  \A w \in Workers :
    /\ rt[w] \in Replacing => old[w] = cur[w]
    /\ rt[w] \in {"join", "build"} => <<w, old[w]>> \in signalled

(* What start() has still to start was not replaced behind its back,       *)
(* unless the replaced instance was told to stop.                          *)
StartsCurrent ==
  \A n \in 1..Len(to_start) :
    to_start[n] \in signalled \/ to_start[n] = Current(to_start[n][1])

(* An instance that is told to stop, or that stop() will still tell. *)
Told(i) ==
  \/ i \in signalled
  \/ stopper \in {"signal", "join"} /\ i[2] = snap[i[1]]

(* Where stop() has its snapshot, or is not. *)
Reached == {"idle", "signal", "join", "cut"}

(* Once stop() has its snapshot, what lives, what start() has still to     *)
(* start and what a restart thread is about to start will be told to stop. *)
StopReachesAll ==
  /\ stopper # "idle" => stop_event
  /\ stop_event /\ ~running /\ stopper \in Reached =>
       /\ \A i \in alive : Told(i)
       /\ \A n \in 1..Len(to_start) : Told(to_start[n])
       /\ \A w \in Workers : rt[w] = "start" => Told(Current(w))

SupervisionInv ==
  /\ TypeOK /\ RoomForRestarts
  /\ OneActiveInstance /\ ReplacesSignalled /\ StartsCurrent
  /\ StopReachesAll

-----------------------------------------------------------------------------
(* Types. *)

LEMMA OrderFacts ==
  ASSUME SupervisionAssumption
  PROVE  /\ Len(Order) \in Nat
         /\ \A n \in 1..Len(Order) : Order[n] \in Workers
         /\ MaxRestarts \in Nat /\ MaxInstances \in Nat /\ MaxBoots \in Nat
         /\ MaxRestarts < MaxInstances /\ MaxBoots >= 1
BY DEF SupervisionAssumption, Workers

LEMMA InstanceOf ==
  ASSUME NEW w \in Workers, NEW k \in 1..MaxInstances
  PROVE  <<w, k>> \in Instances
BY DEF Instances

LEMMA InitTypes ==
  ASSUME SupervisionAssumption, Init
  PROVE  TypeOK /\ RoomForRestarts
<1>1. 1 \in 1..MaxInstances /\ 0 \in 0..MaxRestarts /\ 1 \in 1..MaxBoots
  BY OrderFacts
<1>2. InstancesTyped /\ ScanTyped
  <2>1. cur \in [Workers -> 1..MaxInstances]
    BY <1>1 DEF Init, Each
  <2> QED BY <2>1 DEF Init, InstancesTyped, ScanTyped
<1>3. BudgetTyped
  <2>1. /\ restarts \in [Workers -> 0..MaxRestarts]
        /\ degraded \in [Workers -> BOOLEAN]
        /\ restarting \in [Workers -> BOOLEAN]
    BY <1>1 DEF Init, Each
  <2> QED BY <2>1 DEF BudgetTyped
<1>4. RestartTyped
  BY <1>1 DEF Init, Each, RestartTyped
<1>5. StartTyped
  <2>1. to_start \in Seq(Instances) /\ Len(to_start) <= Len(Order)
    BY OrderFacts DEF Init
  <2> QED BY <2>1 DEF Init, StartTyped
<1>6. StopTyped
  <2>1. snap \in [Workers -> 1..MaxInstances]
    BY <1>1 DEF Init, Each
  <2>2. stop_at \in 1..(Len(Order) + 1)
    BY OrderFacts DEF Init
  <2> QED BY <2>1, <2>2 DEF Init, StopTyped
<1>7. SystemTyped
  BY <1>1 DEF Init, SystemTyped
<1>8. RoomForRestarts
  BY OrderFacts DEF Init, RoomForRestarts, Replacing, Each
<1> QED BY <1>2, <1>3, <1>4, <1>5, <1>6, <1>7, <1>8 DEF TypeOK

(* What a step leaves alone keeps its type. *)
LEMMA InstancesFrame ==
  ASSUME InstancesTyped, UNCHANGED inst_vars
  PROVE  InstancesTyped'
BY DEF InstancesTyped, inst_vars

LEMMA ScanFrame ==
  ASSUME ScanTyped, UNCHANGED <<sup, sup_stop, to_scan>>
  PROVE  ScanTyped'
BY DEF ScanTyped

LEMMA BudgetFrame ==
  ASSUME BudgetTyped, UNCHANGED <<restarts, degraded, restarting>>
  PROVE  BudgetTyped'
BY DEF BudgetTyped

LEMMA RestartFrame ==
  ASSUME RestartTyped, UNCHANGED rt_vars
  PROVE  RestartTyped'
BY DEF RestartTyped, rt_vars

LEMMA StartFrame ==
  ASSUME StartTyped, UNCHANGED start_vars
  PROVE  StartTyped'
BY DEF StartTyped, start_vars

LEMMA StopFrame ==
  ASSUME StopTyped, UNCHANGED stop_vars
  PROVE  StopTyped'
BY DEF StopTyped, stop_vars

LEMMA SystemFrame ==
  ASSUME SystemTyped, UNCHANGED <<running, stop_event, boots, asked>>
  PROVE  SystemTyped'
BY DEF SystemTyped

LEMMA RoomFrame ==
  ASSUME RoomForRestarts, UNCHANGED <<cur, restarts, rt>>
  PROVE  RoomForRestarts'
BY DEF RoomForRestarts

(* Steps that move only the instances' life: no counter, no thread. *)
LEMMA LifeTypes ==
  ASSUME TypeOK, RoomForRestarts, InstancesTyped',
         UNCHANGED <<cur, running, stop_event, sup_vars, rt_vars, start_vars,
                     stop_vars, sys_vars>>
  PROVE  TypeOK' /\ RoomForRestarts'
<1>1. ScanTyped' /\ BudgetTyped'
  BY ScanFrame, BudgetFrame DEF TypeOK, sup_vars
<1>2. RestartTyped' /\ StartTyped' /\ StopTyped'
  BY RestartFrame, StartFrame, StopFrame DEF TypeOK
<1>3. SystemTyped'
  BY SystemFrame DEF TypeOK, sys_vars
<1>4. RoomForRestarts'
  BY RoomFrame DEF sup_vars, rt_vars
<1> QED BY <1>1, <1>2, <1>3, <1>4 DEF TypeOK

LEMMA WorkerTypes ==
  ASSUME TypeOK, RoomForRestarts, NEW i \in Instances, WorkerStep(i)
  PROVE  TypeOK' /\ RoomForRestarts'
<1>1. InstancesTyped'
  <2>1. CASE Crash(i)
    BY <2>1 DEF Crash, TypeOK, InstancesTyped
  <2>2. CASE Wedge(i)
    BY <2>2 DEF Wedge, TypeOK, InstancesTyped
  <2>3. CASE Wake(i)
    BY <2>3 DEF Wake, TypeOK, InstancesTyped
  <2>4. CASE Exit(i)
    BY <2>4 DEF Exit, TypeOK, InstancesTyped
  <2> QED BY <2>1, <2>2, <2>3, <2>4 DEF WorkerStep
<1>2. UNCHANGED <<cur, running, stop_event, sup_vars, rt_vars, start_vars,
                  stop_vars, sys_vars>>
  BY DEF WorkerStep, Crash, Wedge, Wake, Exit
<1> QED BY <1>1, <1>2, LifeTypes

LEMMA SupervisorTypes ==
  ASSUME SupervisionAssumption, TypeOK, RoomForRestarts, SupervisorStep
  PROVE  TypeOK' /\ RoomForRestarts'
<1>1. InstancesTyped' /\ StartTyped' /\ StopTyped' /\ SystemTyped'
  <2>1. UNCHANGED <<inst_vars, running, stop_event, start_vars, stop_vars,
                    sys_vars>>
    BY DEF SupervisorStep, Tick, ScanDone, SupervisorLeaves, AwaitRestarts,
           SkipTarget, Degrade, TriggerRestart
  <2>2. InstancesTyped' /\ StartTyped' /\ StopTyped'
    BY <2>1, InstancesFrame, StartFrame, StopFrame DEF TypeOK
  <2>3. SystemTyped'
    BY <2>1, SystemFrame DEF TypeOK, sys_vars
  <2> QED BY <2>2, <2>3
<1>2. ScanTyped'
  <2>1. CASE Tick \/ ScanDone \/ SupervisorLeaves \/ AwaitRestarts
    BY <2>1 DEF Tick, ScanDone, SupervisorLeaves, AwaitRestarts, TypeOK,
                ScanTyped
  <2>2. CASE \E w \in Workers : SkipTarget(w) \/ Degrade(w) \/ TriggerRestart(w)
    BY <2>2 DEF SkipTarget, Degrade, TriggerRestart, TypeOK, ScanTyped
  <2> QED BY <2>1, <2>2 DEF SupervisorStep
<1>3. CASE UNCHANGED <<restarts, degraded, restarting, rt_vars>>
  <2>1. BudgetTyped' /\ RestartTyped'
    BY <1>3, BudgetFrame, RestartFrame DEF TypeOK
  <2>2. UNCHANGED <<cur, restarts, rt>>
    BY <1>3 DEF rt_vars, inst_vars, SupervisorStep, Tick, ScanDone,
                SupervisorLeaves, AwaitRestarts, SkipTarget, Degrade,
                TriggerRestart
  <2> QED BY <1>1, <1>2, <2>1, <2>2, RoomFrame DEF TypeOK
<1>4. CASE \E w \in Workers : Degrade(w)
  <2>1. PICK w \in Workers : Degrade(w)
    BY <1>4
  <2>2. BudgetTyped'
    BY <2>1 DEF Degrade, TypeOK, BudgetTyped
  <2>3. RestartTyped'
    BY <2>1, RestartFrame DEF Degrade, TypeOK
  <2>4. RoomForRestarts'
    BY <2>1, RoomFrame DEF Degrade, inst_vars, rt_vars
  <2> QED BY <1>1, <1>2, <2>2, <2>3, <2>4 DEF TypeOK
<1>5. CASE \E w \in Workers : TriggerRestart(w)
  <2>1. PICK w \in Workers : TriggerRestart(w)
    BY <1>5
  <2>2. /\ restarts[w] + 1 \in 0..MaxRestarts
        /\ restarts' = [restarts EXCEPT ![w] = restarts[w] + 1]
        /\ cur' = cur /\ rt' = [rt EXCEPT ![w] = "signal"]
    BY <2>1, OrderFacts DEF TriggerRestart, InBudget, TypeOK, BudgetTyped,
                            inst_vars
  <2>3. BudgetTyped'
    BY <2>1, <2>2 DEF TriggerRestart, TypeOK, BudgetTyped
  <2>4. RestartTyped'
    BY <2>1 DEF TriggerRestart, TypeOK, RestartTyped, InstancesTyped
  <2>5. RoomForRestarts'
    <3> SUFFICES ASSUME NEW v \in Workers
                 PROVE  /\ cur[v] + MaxRestarts - restarts'[v] <= MaxInstances
                        /\ rt'[v] \in Replacing =>
                             cur[v] + 1 + MaxRestarts - restarts'[v]
                               <= MaxInstances
      BY <2>2 DEF RoomForRestarts
    <3>1. cur[v] \in Nat /\ restarts[v] \in Nat
      BY OrderFacts DEF TypeOK, InstancesTyped, BudgetTyped
    <3>2. CASE v = w
      BY <2>2, <3>1, <3>2, OrderFacts, SMTT(40)
         DEF RoomForRestarts, TypeOK, BudgetTyped, RestartTyped
    <3>3. CASE v # w
      BY <2>2, <3>1, <3>3
         DEF RoomForRestarts, TypeOK, BudgetTyped, RestartTyped
    <3> QED BY <3>2, <3>3
  <2> QED BY <1>1, <1>2, <2>3, <2>4, <2>5 DEF TypeOK
<1> QED
  BY <1>3, <1>4, <1>5 DEF SupervisorStep, Tick, ScanDone, SupervisorLeaves,
     AwaitRestarts, SkipTarget

(* A restart thread moves its program counter; only RestartBuild uses up   *)
(* an instance, and the budget set that one aside.                         *)
LEMMA RestartTypes ==
  ASSUME SupervisionAssumption, TypeOK, RoomForRestarts,
         NEW w \in Workers, RestartStep(w)
  PROVE  TypeOK' /\ RoomForRestarts'
<1>1. /\ UNCHANGED <<running, stop_event, sup, sup_stop, to_scan, restarts,
                     degraded, old, start_vars, stop_vars, sys_vars>>
      /\ \E pc \in {"idle", "join", "build", "check", "start", "ready"} :
           rt' = [rt EXCEPT ![w] = pc]
  BY DEF RestartStep, RestartSignal, RestartJoin, RestartBuild, RestartCheck,
         RestartStart, RestartReady, RestartFails, EndRestart, sup_vars
<1>2. ScanTyped' /\ StartTyped' /\ StopTyped' /\ SystemTyped'
  <2>1. ScanTyped' /\ SystemTyped'
    BY <1>1, ScanFrame, SystemFrame DEF TypeOK, sys_vars
  <2> QED BY <1>1, <2>1, StartFrame, StopFrame DEF TypeOK
<1>3. RestartTyped'
  BY <1>1 DEF TypeOK, RestartTyped
<1>4. BudgetTyped'
  <2>1. restarting' \in [Workers -> BOOLEAN]
    BY DEF RestartStep, RestartSignal, RestartJoin, RestartBuild, RestartCheck,
           RestartStart, RestartReady, RestartFails, EndRestart, sup_vars,
           TypeOK, BudgetTyped
  <2> QED BY <1>1, <2>1 DEF TypeOK, BudgetTyped
<1>5. CASE RestartBuild(w)
  <2>1. /\ cur[w] + 1 + MaxRestarts - restarts[w] <= MaxInstances
        /\ cur' = [cur EXCEPT ![w] = cur[w] + 1]
        /\ rt' = [rt EXCEPT ![w] = "check"]
        /\ UNCHANGED <<started, alive, wedged, signalled, restarts>>
    BY <1>5 DEF RestartBuild, RoomForRestarts, Replacing, sup_vars
  <2>2. cur[w] + 1 \in 1..MaxInstances
    BY <2>1, OrderFacts DEF TypeOK, InstancesTyped, BudgetTyped
  <2>3. InstancesTyped'
    BY <2>1, <2>2 DEF TypeOK, InstancesTyped
  <2>4. RoomForRestarts'
    BY <2>1 DEF RoomForRestarts, TypeOK, InstancesTyped, RestartTyped,
                Replacing
  <2> QED BY <1>2, <1>3, <1>4, <2>3, <2>4 DEF TypeOK
<1>6. CASE ~RestartBuild(w)
  <2>1. /\ cur' = cur
        /\ rt[w] = "signal" \/ rt'[w] \notin Replacing \/ rt[w] = "join"
    BY <1>6, <1>1 DEF RestartStep, RestartSignal, RestartJoin, RestartCheck,
           RestartStart, RestartReady, RestartFails, EndRestart, inst_vars,
           Replacing, TypeOK, RestartTyped
  <2>2. RoomForRestarts'
    BY <1>1, <2>1 DEF RoomForRestarts, TypeOK, RestartTyped, Replacing
  <2>3. InstancesTyped'
    <3>1. Current(w) \in Instances /\ <<w, old[w]>> \in Instances
      BY InstanceOf DEF Current, TypeOK, InstancesTyped, RestartTyped
    <3>2. CASE RestartSignal(w)
      BY <3>1, <3>2 DEF RestartSignal, SignalOld, TypeOK, InstancesTyped
    <3>3. CASE RestartJoin(w)
      BY <3>3 DEF RestartJoin, Joined, TypeOK, InstancesTyped
    <3>4. CASE RestartStart(w)
      BY <3>1, <3>4 DEF RestartStart, TypeOK, InstancesTyped
    <3>5. CASE RestartCheck(w) \/ RestartReady(w) \/ RestartFails(w)
      BY <3>5, InstancesFrame
         DEF RestartCheck, RestartReady, RestartFails, TypeOK
    <3> QED BY <1>6, <3>2, <3>3, <3>4, <3>5 DEF RestartStep
  <2> QED BY <1>2, <1>3, <1>4, <2>2, <2>3 DEF TypeOK
<1> QED BY <1>5, <1>6

LEMMA WindowTypes ==
  ASSUME SupervisionAssumption, TypeOK, RoomForRestarts,
         NEW w \in Workers, WindowSlides(w)
  PROVE  TypeOK' /\ RoomForRestarts'
<1>1. /\ restarts' = [restarts EXCEPT ![w] = restarts[w] - 1]
      /\ restarts[w] > 0 /\ rt[w] \notin Replacing
      /\ cur[w] + MaxRestarts - restarts[w] < MaxInstances
      /\ UNCHANGED <<inst_vars, running, stop_event, sup, sup_stop, to_scan,
                     degraded, restarting, rt_vars, start_vars, stop_vars,
                     sys_vars>>
  BY DEF WindowSlides, Replacing
<1>2. BudgetTyped'
  BY <1>1, OrderFacts DEF TypeOK, BudgetTyped
<1>3. RoomForRestarts'
  <2>1. /\ cur \in [Workers -> Nat] /\ restarts \in [Workers -> Nat]
        /\ cur' = cur /\ rt' = rt
    BY <1>1, OrderFacts DEF TypeOK, InstancesTyped, BudgetTyped, inst_vars,
                            rt_vars
  <2>2. cur[w] + MaxRestarts - (restarts[w] - 1) <= MaxInstances
    BY <1>1, <2>1, OrderFacts
  <2> QED BY <1>1, <2>1, <2>2 DEF RoomForRestarts
<1>4. InstancesTyped' /\ ScanTyped' /\ RestartTyped'
  BY <1>1, InstancesFrame, ScanFrame, RestartFrame DEF TypeOK
<1>5. StartTyped' /\ StopTyped'
  BY <1>1, StartFrame, StopFrame DEF TypeOK
<1>6. SystemTyped'
  BY <1>1, SystemFrame DEF TypeOK, sys_vars
<1> QED BY <1>2, <1>3, <1>4, <1>5, <1>6 DEF TypeOK

LEMMA StartTypes ==
  ASSUME SupervisionAssumption, TypeOK, RoomForRestarts,
         BootStart \/ ApiStart \/ StartStep
  PROVE  TypeOK' /\ RoomForRestarts'
<1>1. /\ UNCHANGED <<cur, restarts, degraded, restarting, sup_stop, to_scan,
                     rt_vars, stop_vars>>
      /\ sup' \in {sup, "waiting"}
      /\ UNCHANGED <<stop_event, boots>> /\ running' \in {running, TRUE}
      /\ asked' \in {asked, "run"}
  BY DEF BootStart, ApiStart, StartCall, StartStep, StartWorker, StartRaises,
         StartSupervisor, inst_vars, sup_vars, sys_vars
<1>2. ScanTyped' /\ SystemTyped'
  BY <1>1 DEF TypeOK, ScanTyped, SystemTyped
<1>3. BudgetTyped' /\ RestartTyped' /\ StopTyped'
  BY <1>1, BudgetFrame, RestartFrame, StopFrame DEF TypeOK
<1>4. RoomForRestarts'
  BY <1>1, RoomFrame DEF rt_vars
<1>5. CASE BootStart \/ ApiStart
  <2>1. /\ to_start' = [n \in 1..Len(Order) |-> Current(Order[n])]
        /\ starter' \in {"boot", "api"} /\ UNCHANGED inst_vars
    BY <1>5 DEF BootStart, ApiStart, StartCall
  <2>2. \A n \in 1..Len(Order) : Current(Order[n]) \in Instances
    BY InstanceOf, OrderFacts DEF Current, TypeOK, InstancesTyped
  <2>3. to_start' \in Seq(Instances) /\ Len(to_start') = Len(Order)
    BY <2>1, <2>2, OrderFacts
  <2>4. StartTyped'
    BY <2>1, <2>3, OrderFacts DEF StartTyped
  <2> QED
    BY <1>2, <1>3, <1>4, <2>1, <2>4, InstancesFrame DEF TypeOK
<1>6. CASE StartWorker
  <2>1. Head(to_start) \in Instances
    BY <1>6 DEF StartWorker, TypeOK, StartTyped
  <2>2. /\ Tail(to_start) \in Seq(Instances)
        /\ Len(Tail(to_start)) <= Len(Order)
    BY <1>6, OrderFacts DEF StartWorker, TypeOK, StartTyped
  <2>3. StartTyped'
    BY <1>6, <2>2 DEF StartWorker, TypeOK, StartTyped
  <2>4. InstancesTyped'
    BY <1>6, <2>1 DEF StartWorker, TypeOK, InstancesTyped
  <2> QED BY <1>2, <1>3, <1>4, <2>3, <2>4 DEF TypeOK
<1>7. CASE StartRaises \/ StartSupervisor
  <2>1. UNCHANGED inst_vars /\ starter' = "idle" /\ to_start' = <<>>
    BY <1>7 DEF StartRaises, StartSupervisor
  <2>2. StartTyped'
    BY <2>1, OrderFacts DEF StartTyped
  <2> QED
    BY <1>2, <1>3, <1>4, <2>1, <2>2, InstancesFrame DEF TypeOK
<1> QED BY <1>5, <1>6, <1>7 DEF StartStep

LEMMA StopTypes ==
  ASSUME SupervisionAssumption, TypeOK, RoomForRestarts,
         StopCall \/ StopStep \/ Interrupt
  PROVE  TypeOK' /\ RoomForRestarts'
<1>1. /\ UNCHANGED <<cur, started, restarts, degraded, restarting, sup,
                     to_scan, rt_vars, start_vars, boots>>
      /\ sup_stop' \in {sup_stop, TRUE} /\ stop_event' \in {stop_event, TRUE}
      /\ running' \in {running, FALSE} /\ asked' \in {asked, "stop"}
  BY DEF StopCall, StopStep, Interrupt, StopJoinsMetrics, StopJoinsSupervisor,
         StopSignals, StopJoins, StopFinally, InterruptDrain, InterruptEarly,
         inst_vars, sup_vars, sys_vars
<1>2. ScanTyped' /\ SystemTyped'
  BY <1>1 DEF TypeOK, ScanTyped, SystemTyped
<1>3. BudgetTyped' /\ RestartTyped' /\ StartTyped'
  BY <1>1, BudgetFrame, RestartFrame, StartFrame DEF TypeOK
<1>4. RoomForRestarts'
  BY <1>1, RoomFrame DEF rt_vars
<1>5. StopTyped'
  <2>1. CASE \/ StopCall \/ StopJoinsMetrics \/ StopSignals \/ StopFinally
             \/ Interrupt
    BY <2>1 DEF StopCall, StopJoinsMetrics, StopSignals, StopFinally, Interrupt,
                InterruptDrain, InterruptEarly, TypeOK, StopTyped
  <2>2. CASE StopJoinsSupervisor
    BY <2>2, OrderFacts DEF StopJoinsSupervisor, TypeOK, StopTyped,
                            InstancesTyped
  <2>3. CASE StopJoins
    BY <2>3, OrderFacts DEF StopJoins, TypeOK, StopTyped
  <2> QED BY <2>1, <2>2, <2>3 DEF StopStep
<1>6. InstancesTyped'
  <2>1. CASE \/ StopCall \/ StopJoinsMetrics \/ StopJoinsSupervisor
             \/ InterruptEarly
    BY <2>1, InstancesFrame DEF StopCall, StopJoinsMetrics,
       StopJoinsSupervisor, InterruptEarly, TypeOK
  <2>2. CASE StopSignals
    <3>1. Order[stop_at] \in Workers
      BY <2>2, OrderFacts DEF StopSignals, TypeOK, StopTyped
    <3>2. <<Order[stop_at], snap[Order[stop_at]]>> \in Instances
      BY <3>1, InstanceOf DEF TypeOK, StopTyped
    <3> QED BY <2>2, <3>2 DEF StopSignals, TypeOK, InstancesTyped
  <2>3. CASE StopJoins
    BY <2>3 DEF StopJoins, Joined, TypeOK, InstancesTyped
  <2>4. CASE StopFinally \/ InterruptDrain
    <3>1. {<<w, snap[w]>> : w \in Workers} \subseteq Instances
      BY InstanceOf DEF TypeOK, StopTyped
    <3> QED BY <2>4, <3>1 DEF StopFinally, InterruptDrain, SignalAll, TypeOK, InstancesTyped
  <2> QED BY <2>1, <2>2, <2>3, <2>4 DEF StopStep, Interrupt
<1> QED BY <1>2, <1>3, <1>4, <1>5, <1>6 DEF TypeOK

LEMMA RebootTypes ==
  ASSUME SupervisionAssumption, TypeOK, WatchdogExpires \/ ProcessDies
  PROVE  TypeOK' /\ RoomForRestarts'
<1>1. Reboot /\ asked' \in {asked, "run"}
  BY DEF WatchdogExpires, ProcessDies
<1>2. 1 \in 1..MaxInstances /\ 0 \in 0..MaxRestarts
  BY OrderFacts
<1>3. InstancesTyped' /\ ScanTyped'
  <2>1. cur' \in [Workers -> 1..MaxInstances]
    BY <1>1, <1>2 DEF Reboot, Each
  <2> QED BY <1>1, <2>1 DEF Reboot, InstancesTyped, ScanTyped
<1>4. BudgetTyped'
  <2>1. /\ restarts' \in [Workers -> 0..MaxRestarts]
        /\ degraded' \in [Workers -> BOOLEAN]
        /\ restarting' \in [Workers -> BOOLEAN]
    BY <1>1, <1>2 DEF Reboot, Each
  <2> QED BY <2>1 DEF BudgetTyped
<1>5. RestartTyped'
  BY <1>1, <1>2 DEF Reboot, Each, RestartTyped
<1>6. StartTyped'
  <2>1. to_start' \in Seq(Instances) /\ Len(to_start') <= Len(Order)
    BY <1>1, OrderFacts DEF Reboot
  <2>2. starter' = "idle"
    BY <1>1 DEF Reboot
  <2> QED BY <2>1, <2>2 DEF StartTyped
<1>7. StopTyped'
  <2>1. snap' \in [Workers -> 1..MaxInstances]
    BY <1>1, <1>2 DEF Reboot, Each
  <2>2. stopper' = "idle" /\ stop_at' \in 1..(Len(Order) + 1)
    BY <1>1, OrderFacts DEF Reboot
  <2> QED BY <2>1, <2>2 DEF StopTyped
<1>8. SystemTyped'
  <2>1. boots \in 1..MaxBoots /\ boots < MaxBoots /\ boots' = boots + 1
    BY <1>1 DEF Reboot, TypeOK, SystemTyped
  <2>2. boots' \in 1..MaxBoots
    BY <2>1, OrderFacts
  <2>3. running' \in BOOLEAN /\ stop_event' \in BOOLEAN
    BY <1>1 DEF Reboot
  <2> QED BY <1>1, <2>2, <2>3 DEF TypeOK, SystemTyped
<1>9. RoomForRestarts'
  BY <1>1, OrderFacts DEF Reboot, RoomForRestarts, Replacing, Each
<1> QED BY <1>3, <1>4, <1>5, <1>6, <1>7, <1>8, <1>9 DEF TypeOK

LEMMA StutterTypes ==
  ASSUME TypeOK, RoomForRestarts, UNCHANGED vars
  PROVE  TypeOK' /\ RoomForRestarts'
<1>1. InstancesTyped'
  BY InstancesFrame DEF TypeOK, vars
<1> QED BY <1>1, LifeTypes DEF vars, inst_vars

-----------------------------------------------------------------------------
(* Which instances live, and which were told to stop. *)

Discipline ==
  OneActiveInstance /\ ReplacesSignalled /\ StartsCurrent /\ StopReachesAll

LEMMA InstanceShape ==
  ASSUME NEW i \in Instances
  PROVE  i[1] \in Workers /\ i = <<i[1], i[2]>>
BY DEF Instances

LEMMA InitDiscipline ==
  ASSUME Init
  PROVE  Discipline
BY DEF Init, Discipline, OneActiveInstance, ReplacesSignalled, StartsCurrent,
       StopReachesAll, Replacing, Each

(* Steps that start nothing and tell nothing, and that leave the threads   *)
(* in start(), stop() and the restarts where they are.                     *)
LEMMA QuietDiscipline ==
  ASSUME Discipline, alive' \subseteq alive,
         UNCHANGED <<cur, signalled, running, stop_event, rt_vars, start_vars,
                     stop_vars>>
  PROVE  Discipline'
<1>1. OneActiveInstance'
  BY DEF Discipline, OneActiveInstance, Current
<1>2. ReplacesSignalled'
  BY DEF Discipline, ReplacesSignalled, rt_vars
<1>3. StartsCurrent'
  BY DEF Discipline, StartsCurrent, Current, start_vars
<1>4. StopReachesAll'
  BY DEF Discipline, StopReachesAll, Told, Current, rt_vars, start_vars,
         stop_vars
<1> QED BY <1>1, <1>2, <1>3, <1>4 DEF Discipline

LEMMA RestartDiscipline ==
  ASSUME TypeOK, Discipline, NEW w \in Workers, RestartStep(w)
  PROVE  Discipline'
<1>1. CASE RestartSignal(w)
  <2>1. OneActiveInstance'
    BY <1>1 DEF RestartSignal, SignalOld, Discipline, OneActiveInstance,
                ReplacesSignalled, Replacing, Current, Instances, TypeOK,
                InstancesTyped, RestartTyped, StartTyped
  <2>2. ReplacesSignalled'
    BY <1>1 DEF RestartSignal, SignalOld, Discipline, ReplacesSignalled,
                Replacing, TypeOK,
                InstancesTyped, RestartTyped, StartTyped
  <2>3. StartsCurrent'
    BY <1>1, InstanceShape DEF RestartSignal, SignalOld, Discipline,
                StartsCurrent, ReplacesSignalled, Replacing, Current,
                TypeOK,
                InstancesTyped, RestartTyped, StartTyped, start_vars
  <2>4. StopReachesAll'
    BY <1>1 DEF RestartSignal, SignalOld, Discipline, StopReachesAll, Told,
                Current, start_vars, stop_vars, TypeOK,
                InstancesTyped, RestartTyped, StartTyped
  <2> QED BY <2>1, <2>2, <2>3, <2>4 DEF Discipline
<1>2. CASE RestartJoin(w)
  <2>1. OneActiveInstance'
    BY <1>2 DEF RestartJoin, Joined, Discipline, OneActiveInstance,
                ReplacesSignalled, Replacing, Current, Instances, TypeOK,
                InstancesTyped, RestartTyped, StartTyped
  <2>2. ReplacesSignalled'
    BY <1>2 DEF RestartJoin, Joined, Discipline, ReplacesSignalled,
                Replacing, TypeOK,
                InstancesTyped, RestartTyped, StartTyped
  <2>3. StartsCurrent'
    BY <1>2, InstanceShape DEF RestartJoin, Joined, Discipline, StartsCurrent,
                ReplacesSignalled, Replacing, Current, TypeOK,
                InstancesTyped, RestartTyped, StartTyped, start_vars
  <2>4. StopReachesAll'
    BY <1>2 DEF RestartJoin, Joined, Discipline, StopReachesAll, Told,
                Current, start_vars, stop_vars, TypeOK,
                InstancesTyped, RestartTyped, StartTyped
  <2> QED BY <2>1, <2>2, <2>3, <2>4 DEF Discipline
<1>3. CASE RestartBuild(w)
  <2>0. /\ signalled' = signalled /\ alive' = alive /\ to_start' = to_start
        /\ cur' = [cur EXCEPT ![w] = cur[w] + 1]
        /\ Current(w) \in signalled
    BY <1>3 DEF RestartBuild, Discipline, ReplacesSignalled, Replacing,
                Current, start_vars
  <2>5. \A i \in Instances : i \notin signalled /\ i = Current(i[1]) =>
          i = <<i[1], cur'[i[1]]>>
    <3> SUFFICES ASSUME NEW i \in Instances, i \notin signalled,
                        i = Current(i[1])
                 PROVE  cur'[i[1]] = cur[i[1]]
      BY DEF Current
    <3>1. i[1] \in Workers /\ i[1] # w
      BY <2>0, InstanceShape
    <3> QED BY <3>1, <2>0 DEF TypeOK,
                InstancesTyped, RestartTyped, StartTyped
  <2>1. OneActiveInstance'
    BY <2>0, <2>5 DEF Discipline, OneActiveInstance, Current, TypeOK,
                InstancesTyped, RestartTyped, StartTyped
  <2>2. ReplacesSignalled'
    BY <1>3 DEF RestartBuild, Discipline, ReplacesSignalled, Replacing, TypeOK,
                InstancesTyped, RestartTyped, StartTyped
  <2>3. StartsCurrent'
    <3>1. \A n \in 1..Len(to_start) : to_start[n] \in Instances
      BY DEF TypeOK,
                InstancesTyped, RestartTyped, StartTyped
    <3> QED BY <3>1, <2>0, <2>5 DEF Discipline, StartsCurrent, Current
  <2>4. StopReachesAll'
    BY <1>3 DEF RestartBuild, Discipline, StopReachesAll, Told, Current,
                start_vars, stop_vars, TypeOK,
                InstancesTyped, RestartTyped, StartTyped
  <2> QED BY <2>1, <2>2, <2>3, <2>4 DEF Discipline
<1>4. CASE RestartCheck(w)
  <2>1. OneActiveInstance'
    BY <1>4 DEF RestartCheck, EndRestart, StartAllowed, inst_vars,
                Discipline, OneActiveInstance, ReplacesSignalled, Replacing,
                Current, Instances, TypeOK,
                InstancesTyped, RestartTyped, StartTyped
  <2>2. ReplacesSignalled'
    BY <1>4 DEF RestartCheck, EndRestart, StartAllowed, inst_vars,
                Discipline, ReplacesSignalled, Replacing, TypeOK,
                InstancesTyped, RestartTyped, StartTyped
  <2>3. StartsCurrent'
    BY <1>4, InstanceShape DEF RestartCheck, EndRestart, StartAllowed,
                inst_vars, Discipline, StartsCurrent, ReplacesSignalled,
                Replacing, Current, TypeOK,
                InstancesTyped, RestartTyped, StartTyped, start_vars
  <2>4. StopReachesAll'
    BY <1>4 DEF RestartCheck, EndRestart, StartAllowed, inst_vars,
                Discipline, StopReachesAll, Told, Current, start_vars,
                stop_vars, TypeOK,
                InstancesTyped, RestartTyped, StartTyped
  <2> QED BY <2>1, <2>2, <2>3, <2>4 DEF Discipline
<1>5. CASE RestartStart(w)
  <2>1. OneActiveInstance'
    BY <1>5 DEF RestartStart, Discipline, OneActiveInstance,
                ReplacesSignalled, Replacing, Current, Instances, TypeOK,
                InstancesTyped, RestartTyped, StartTyped
  <2>2. ReplacesSignalled'
    BY <1>5 DEF RestartStart, Discipline, ReplacesSignalled, Replacing, TypeOK,
                InstancesTyped, RestartTyped, StartTyped
  <2>3. StartsCurrent'
    BY <1>5, InstanceShape DEF RestartStart, Discipline, StartsCurrent,
                ReplacesSignalled, Replacing, Current, TypeOK,
                InstancesTyped, RestartTyped, StartTyped, start_vars
  <2>4. StopReachesAll'
    BY <1>5 DEF RestartStart, Discipline, StopReachesAll, Told, Current,
                start_vars, stop_vars, TypeOK,
                InstancesTyped, RestartTyped, StartTyped
  <2> QED BY <2>1, <2>2, <2>3, <2>4 DEF Discipline
<1>6. CASE RestartReady(w)
  <2>1. OneActiveInstance'
    BY <1>6 DEF RestartReady, EndRestart, inst_vars, Discipline,
                OneActiveInstance, ReplacesSignalled, Replacing, Current,
                Instances, TypeOK,
                InstancesTyped, RestartTyped, StartTyped
  <2>2. ReplacesSignalled'
    BY <1>6 DEF RestartReady, EndRestart, inst_vars, Discipline,
                ReplacesSignalled, Replacing, TypeOK,
                InstancesTyped, RestartTyped, StartTyped
  <2>3. StartsCurrent'
    BY <1>6, InstanceShape DEF RestartReady, EndRestart, inst_vars,
                Discipline, StartsCurrent, ReplacesSignalled, Replacing,
                Current, TypeOK,
                InstancesTyped, RestartTyped, StartTyped, start_vars
  <2>4. StopReachesAll'
    BY <1>6 DEF RestartReady, EndRestart, inst_vars, Discipline,
                StopReachesAll, Told, Current, start_vars, stop_vars, TypeOK,
                InstancesTyped, RestartTyped, StartTyped
  <2> QED BY <2>1, <2>2, <2>3, <2>4 DEF Discipline
<1>7. CASE RestartFails(w)
  <2>1. OneActiveInstance'
    BY <1>7 DEF RestartFails, EndRestart, inst_vars, Discipline,
                OneActiveInstance, ReplacesSignalled, Replacing, Current,
                Instances, TypeOK,
                InstancesTyped, RestartTyped, StartTyped
  <2>2. ReplacesSignalled'
    BY <1>7 DEF RestartFails, EndRestart, inst_vars, Discipline,
                ReplacesSignalled, Replacing, TypeOK,
                InstancesTyped, RestartTyped, StartTyped
  <2>3. StartsCurrent'
    BY <1>7, InstanceShape DEF RestartFails, EndRestart, inst_vars,
                Discipline, StartsCurrent, ReplacesSignalled, Replacing,
                Current, TypeOK,
                InstancesTyped, RestartTyped, StartTyped, start_vars
  <2>4. StopReachesAll'
    BY <1>7 DEF RestartFails, EndRestart, inst_vars, Discipline,
                StopReachesAll, Told, Current, start_vars, stop_vars, TypeOK,
                InstancesTyped, RestartTyped, StartTyped
  <2> QED BY <2>1, <2>2, <2>3, <2>4 DEF Discipline
<1> QED
  BY <1>1, <1>2, <1>3, <1>4, <1>5, <1>6, <1>7 DEF RestartStep

LEMMA SupervisorDiscipline ==
  ASSUME TypeOK, Discipline, SupervisorStep
  PROVE  Discipline'
<1>1. CASE Tick \/ ScanDone \/ SupervisorLeaves \/ AwaitRestarts
  BY <1>1, QuietDiscipline DEF Tick, ScanDone, SupervisorLeaves,
     AwaitRestarts, inst_vars
<1>2. CASE \E w \in Workers : SkipTarget(w) \/ Degrade(w)
  BY <1>2, QuietDiscipline DEF SkipTarget, Degrade, inst_vars
<1>3. CASE \E w \in Workers : TriggerRestart(w)
  <2>1. PICK w \in Workers : TriggerRestart(w)
    BY <1>3
  <2>2. OneActiveInstance' /\ StartsCurrent'
    BY <2>1 DEF TriggerRestart, Discipline, OneActiveInstance, StartsCurrent,
                Current, inst_vars, start_vars
  <2>3. ReplacesSignalled'
    BY <2>1 DEF TriggerRestart, Discipline, ReplacesSignalled, Replacing,
                TypeOK,
                InstancesTyped, RestartTyped, StartTyped, inst_vars
  <2>4. StopReachesAll'
    BY <2>1 DEF TriggerRestart, Discipline, StopReachesAll, Told, Current,
                TypeOK,
                InstancesTyped, RestartTyped, StartTyped, inst_vars, start_vars, stop_vars
  <2> QED BY <2>2, <2>3, <2>4 DEF Discipline
<1> QED BY <1>1, <1>2, <1>3 DEF SupervisorStep

LEMMA StartDiscipline ==
  ASSUME SupervisionAssumption, TypeOK, Discipline,
         BootStart \/ ApiStart \/ StartStep
  PROVE  Discipline'
<1>1. CASE BootStart \/ ApiStart
  <2>1. /\ to_start' = [n \in 1..Len(Order) |-> Current(Order[n])]
        /\ running' = TRUE
        /\ UNCHANGED <<inst_vars, rt_vars, stop_event, stop_vars>>
    BY <1>1 DEF BootStart, ApiStart, StartCall
  <2>2. OneActiveInstance' /\ ReplacesSignalled'
    BY <2>1 DEF Discipline, OneActiveInstance, ReplacesSignalled, Current,
                inst_vars, rt_vars
  <2>3. StartsCurrent'
    <3>1. \A n \in 1..Len(Order) : Current(Order[n])[1] = Order[n]
      BY DEF Current
    <3>2. Len(to_start') = Len(Order) /\ cur' = cur
      BY <2>1, OrderFacts DEF inst_vars
    <3> QED BY <3>1, <3>2, <2>1 DEF StartsCurrent, Current
  <2>4. StopReachesAll'
    BY <2>1 DEF Discipline, StopReachesAll, stop_vars
  <2> QED BY <2>2, <2>3, <2>4 DEF Discipline
<1>2. CASE StartWorker
  <2> DEFINE i == Head(to_start)
  <2>0. /\ to_start \in Seq(Instances) /\ to_start # <<>>
        /\ alive' = alive \cup {i} /\ to_start' = Tail(to_start)
        /\ UNCHANGED <<cur, signalled, running, stop_event, rt_vars, stop_vars>>
    BY <1>2 DEF StartWorker, TypeOK, StartTyped
  <2>1. /\ i = to_start[1] /\ 1 \in 1..Len(to_start) /\ i \in Instances
        /\ alive' = alive \cup {i}
        /\ UNCHANGED <<cur, signalled, running, stop_event, rt_vars, stop_vars>>
    BY <2>0
  <2>2. \A n \in 1..Len(to_start') :
          n + 1 \in 1..Len(to_start) /\ to_start'[n] = to_start[n + 1]
    BY <2>0
  <2>3. OneActiveInstance'
    BY <2>1, ZenonT(60) DEF Discipline, OneActiveInstance, StartsCurrent, Current
  <2>4. ReplacesSignalled'
    BY <2>1 DEF Discipline, ReplacesSignalled, rt_vars
  <2>5. StartsCurrent'
    BY <2>1, <2>2 DEF Discipline, StartsCurrent, Current
  <2>6. StopReachesAll'
    <3>1. \A j : Told(j)' <=> Told(j)
      BY <2>1 DEF Told, stop_vars
    <3>2. StopReachesAll
      BY DEF Discipline
    <3> QED
      BY <2>1, <2>2, <3>1, <3>2 DEF StopReachesAll, Current, rt_vars,
                                          stop_vars
  <2> QED BY <2>3, <2>4, <2>5, <2>6 DEF Discipline
<1>3. CASE StartRaises \/ StartSupervisor
  <2>1. /\ to_start' = <<>>
        /\ UNCHANGED <<inst_vars, running, stop_event, rt_vars, stop_vars>>
    BY <1>3 DEF StartRaises, StartSupervisor
  <2>2. OneActiveInstance' /\ ReplacesSignalled' /\ StartsCurrent'
    BY <2>1 DEF Discipline, OneActiveInstance, ReplacesSignalled,
                StartsCurrent, Current, inst_vars, rt_vars
  <2>3. StopReachesAll'
    BY <2>1 DEF Discipline, StopReachesAll, Told, Current, inst_vars, rt_vars,
                stop_vars
  <2> QED BY <2>2, <2>3 DEF Discipline
<1> QED BY <1>1, <1>2, <1>3 DEF StartStep

LEMMA StopDiscipline ==
  ASSUME SupervisionAssumption, TypeOK, Discipline,
         StopCall \/ StopStep \/ Interrupt
  PROVE  Discipline'
<1>1. CASE StopCall \/ StopJoinsMetrics \/ InterruptEarly
  BY <1>1 DEF StopCall, StopJoinsMetrics, InterruptEarly, Reached, Discipline, OneActiveInstance, ReplacesSignalled,
     StartsCurrent, StopReachesAll, Current, inst_vars, rt_vars, start_vars
<1>2. CASE StopJoinsSupervisor
  <2>1. OneActiveInstance' /\ ReplacesSignalled' /\ StartsCurrent'
    BY <1>2 DEF StopJoinsSupervisor, Discipline, OneActiveInstance,
       ReplacesSignalled, StartsCurrent, Current, inst_vars, rt_vars, start_vars
  <2>2. \A i \in Instances : i \in signalled \/ i = Current(i[1]) => Told(i)'
    BY <1>2 DEF StopJoinsSupervisor, Told, Current, inst_vars
  <2>3. /\ stop_event' /\ alive' = alive /\ to_start' = to_start
        /\ \A w \in Workers : Current(w)' = Current(w)
    BY <1>2 DEF StopJoinsSupervisor, Discipline, StopReachesAll, Current,
       inst_vars, start_vars
  <2>4. \A i \in alive : Told(i)'
    BY <2>2 DEF Discipline, OneActiveInstance, TypeOK,
                InstancesTyped, RestartTyped, StartTyped
  <2>5. \A n \in 1..Len(to_start) : Told(to_start[n])'
    <3>1. \A n \in 1..Len(to_start) : to_start[n] \in Instances
      BY DEF TypeOK,
                InstancesTyped, RestartTyped, StartTyped
    <3>2. ASSUME NEW n \in 1..Len(to_start)
          PROVE  Told(to_start[n])'
      <4> DEFINE i == to_start[n]
      <4>1. i \in Instances /\ (i \in signalled \/ i = Current(i[1]))
        BY <3>1 DEF Discipline, StartsCurrent
      <4>2. to_start'[n] = i
        BY <2>3
      <4> HIDE DEF i
      <4>3. i \in signalled' \/ i[2] = snap'[i[1]]
        BY <4>1, <1>2 DEF StopJoinsSupervisor, Current, inst_vars
      <4> QED BY <4>2, <4>3, <1>2 DEF StopJoinsSupervisor, Told
    <3> QED BY <3>2
  <2>6. \A w \in Workers : Told(Current(w))'
    BY <1>2 DEF StopJoinsSupervisor, Told, Current, inst_vars
  <2>7. StopReachesAll'
    BY <2>3, <2>4, <2>5, <2>6 DEF StopReachesAll
  <2> QED BY <2>1, <2>7 DEF Discipline
<1>3. CASE StopSignals
  BY <1>3 DEF StopSignals, Discipline, OneActiveInstance, ReplacesSignalled,
     StartsCurrent, StopReachesAll, Reached, Told, Current, rt_vars,
     start_vars
<1>4. CASE StopJoins
  <2>1. alive' \subseteq alive
    BY <1>4 DEF StopJoins, Joined
  <2> QED BY <1>4, <2>1 DEF StopJoins, Discipline, OneActiveInstance,
     ReplacesSignalled, StartsCurrent, StopReachesAll, Reached, Told, Current,
     rt_vars, start_vars
<1>5. CASE StopFinally \/ InterruptDrain
  <2>1. OneActiveInstance' /\ ReplacesSignalled' /\ StartsCurrent'
    BY <1>5 DEF StopFinally, InterruptDrain, SignalAll, Discipline, OneActiveInstance,
       ReplacesSignalled, StartsCurrent, Current, rt_vars, start_vars
  <2>2. \A i \in Instances : Told(i) => i \in signalled'
    BY <1>5, InstanceShape DEF StopFinally, InterruptDrain, SignalAll, Told
  <2>3. \A i \in Instances : Told(i) => Told(i)'
    BY <2>2 DEF Told
  <2>4. /\ \A i \in alive : i \in Instances
        /\ \A n \in 1..Len(to_start) : to_start[n] \in Instances
        /\ \A w \in Workers : Current(w) \in Instances
    BY InstanceOf DEF TypeOK,
                InstancesTyped, RestartTyped, StartTyped, Current
  <2>5. /\ stopper \in {"signal", "join"} /\ stopper' \in {"idle", "cut"}
        /\ UNCHANGED <<cur, alive, running, stop_event, rt, to_start>>
    BY <1>5 DEF StopFinally, InterruptDrain, rt_vars, start_vars
  <2>6. \A i : Told(i)' <=> i \in signalled'
    BY <2>5 DEF Told
  <2>7. StopReachesAll'
    <3>1. StopReachesAll
      BY DEF Discipline
    <3> QED BY <3>1, <2>2, <2>4, <2>5, <2>6 DEF StopReachesAll, Reached,
           Current
  <2> QED BY <2>1, <2>7 DEF Discipline
<1> QED BY <1>1, <1>2, <1>3, <1>4, <1>5 DEF StopStep, Interrupt

LEMMA RebootDiscipline ==
  ASSUME Reboot
  PROVE  Discipline'
BY DEF Reboot, Discipline, OneActiveInstance, ReplacesSignalled,
       StartsCurrent, StopReachesAll, Replacing, Each

-----------------------------------------------------------------------------
(* The inductive invariant, and what it implies. *)

LEMMA NextInv ==
  ASSUME SupervisionAssumption, SupervisionInv, [Next]_vars
  PROVE  SupervisionInv'
<1> USE DEF SupervisionInv, Discipline
<1>1. CASE \E i \in Instances : WorkerStep(i)
  <2>1. PICK i \in Instances : WorkerStep(i)
    BY <1>1
  <2>2. TypeOK' /\ RoomForRestarts'
    BY <2>1, WorkerTypes
  <2>3. Discipline'
    BY <2>1, QuietDiscipline DEF WorkerStep, Crash, Wedge, Wake, Exit
  <2> QED BY <2>2, <2>3
<1>2. CASE SupervisorStep
  BY <1>2, SupervisorTypes, SupervisorDiscipline
<1>3. CASE \E w \in Workers : RestartStep(w)
  BY <1>3, RestartTypes, RestartDiscipline
<1>4. CASE \E w \in Workers : WindowSlides(w)
  <2>1. Discipline'
    BY <1>4, QuietDiscipline DEF WindowSlides, inst_vars
  <2> QED BY <1>4, <2>1, WindowTypes
<1>5. CASE BootStart \/ ApiStart \/ StartStep
  BY <1>5, StartTypes, StartDiscipline
<1>6. CASE StopCall \/ StopStep \/ Interrupt
  BY <1>6, StopTypes, StopDiscipline
<1>7. CASE WatchdogExpires \/ ProcessDies
  BY <1>7, RebootTypes, RebootDiscipline DEF WatchdogExpires, ProcessDies
<1>8. CASE UNCHANGED vars
  <2>1. TypeOK' /\ RoomForRestarts'
    BY <1>8, StutterTypes
  <2>2. Discipline'
    BY <1>8, QuietDiscipline DEF vars, inst_vars
  <2> QED BY <2>1, <2>2
<1> QED
  BY <1>1, <1>2, <1>3, <1>4, <1>5, <1>6, <1>7, <1>8 DEF Next

LEMMA Invariance == SupervisionAssumption => (Spec => []SupervisionInv)
<1> SUFFICES ASSUME SupervisionAssumption
             PROVE  Spec => []SupervisionInv
  OBVIOUS
<1>1. Init => SupervisionInv
  BY InitTypes, InitDiscipline DEF SupervisionInv, Discipline
<1>2. SupervisionInv /\ [Next]_vars => SupervisionInv'
  BY NextInv
<1> QED BY <1>1, <1>2, PTL DEF Spec

(* Every variable keeps its type, for any workers, budget and bounds. *)
THEOREM TypeCorrect == Spec => []TypeOK
<1>1. SupervisionInv => TypeOK
  BY DEF SupervisionInv
<1> QED BY <1>1, Invariance, SupervisionAssumption, PTL

(* However crashes, wedges, restarts, start() and stop() interleave, two   *)
(* instances of a worker never both serve its queues untold: an instance   *)
(* is replaced only after it was told to stop.                             *)
THEOREM OneActive == Spec => []OneActiveInstance
<1>1. SupervisionInv => OneActiveInstance
  BY DEF SupervisionInv
<1> QED BY <1>1, Invariance, SupervisionAssumption, PTL

(* The check-then-start of a restart thread, the bounded join of the       *)
(* supervisor, an overlapping start() and a second Ctrl-C in the drain     *)
(* cannot make stop() leave a worker behind that was never told to stop.   *)
(* Before the drain a Ctrl-C can: a theorem of stops that reached it.      *)
THEOREM StopLeavesNothing == Spec => []NothingSurvivesStop
<1>1. SupervisionInv => NothingSurvivesStop
  BY DEF SupervisionInv, StopReachesAll, Reached, Told, NothingSurvivesStop
<1> QED BY <1>1, Invariance, SupervisionAssumption, PTL

-----------------------------------------------------------------------------
(* Degraded is final. *)

(* A restart is under way exactly while its thread is, and never of a      *)
(* degraded worker.                                                        *)
NoRestartOfDegraded ==
  \A w \in Workers :
    /\ rt[w] # "idle" => restarting[w]
    /\ degraded[w] => ~restarting[w]

LEMMA RestartStepKeeps ==
  ASSUME TypeOK, NoRestartOfDegraded, NEW w \in Workers, RestartStep(w)
  PROVE  /\ NoRestartOfDegraded'
         /\ degraded' = degraded /\ restarting[w]
         /\ \A v \in Workers : v # w =>
              cur'[v] = cur[v] /\ restarting'[v] = restarting[v]
<1> USE DEF TypeOK, InstancesTyped, BudgetTyped, RestartTyped
<1>1. degraded' = degraded /\ rt[w] # "idle"
  BY DEF RestartStep, RestartSignal, RestartJoin, RestartBuild, RestartCheck,
     RestartStart, RestartReady, RestartFails, sup_vars
<1>2. restarting[w] /\ ~degraded[w]
  BY <1>1 DEF NoRestartOfDegraded
<1>3. \A v \in Workers : v # w => cur'[v] = cur[v]
  BY DEF RestartStep, RestartSignal, RestartJoin, RestartBuild, RestartCheck,
     RestartStart, RestartReady, RestartFails, inst_vars
<1>4. \/ /\ restarting' = restarting
         /\ \A v \in Workers : v # w => rt'[v] = rt[v]
      \/ EndRestart(w)
  BY DEF RestartStep, RestartSignal, RestartJoin, RestartBuild, RestartCheck,
     RestartStart, RestartReady, RestartFails, sup_vars
<1>5. CASE restarting' = restarting /\ \A v \in Workers : v # w => rt'[v] = rt[v]
  BY <1>1, <1>2, <1>3, <1>5 DEF NoRestartOfDegraded
<1>6. CASE EndRestart(w)
  BY <1>1, <1>2, <1>3, <1>6 DEF NoRestartOfDegraded, EndRestart
<1> QED BY <1>4, <1>5, <1>6

LEMMA DegradedStep ==
  ASSUME TypeOK, NoRestartOfDegraded, [Next]_vars
  PROVE  /\ NoRestartOfDegraded'
         /\ \A w \in Workers :
              degraded[w] /\ boots' = boots =>
                degraded'[w] /\ cur'[w] = cur[w] /\ ~restarting'[w]
<1> DEFINE Kept == \A w \in Workers :
                     degraded[w] =>
                       degraded'[w] /\ cur'[w] = cur[w] /\ ~restarting'[w]
<1>1. CASE UNCHANGED <<cur, degraded, restarting, rt>>
  BY <1>1 DEF NoRestartOfDegraded
<1>2. ASSUME NEW w \in Workers, Degrade(w)
      PROVE  NoRestartOfDegraded' /\ Kept
  BY <1>2 DEF Degrade, MayTrigger, NoRestartOfDegraded, TypeOK, BudgetTyped,
     inst_vars, rt_vars
<1>3. ASSUME NEW w \in Workers, TriggerRestart(w)
      PROVE  NoRestartOfDegraded' /\ Kept
  BY <1>3 DEF TriggerRestart, MayTrigger, NoRestartOfDegraded, TypeOK,
     BudgetTyped, RestartTyped, inst_vars
<1>4. ASSUME NEW w \in Workers, RestartStep(w)
      PROVE  NoRestartOfDegraded' /\ Kept
  BY <1>4, RestartStepKeeps DEF NoRestartOfDegraded
<1>5. CASE Reboot
  <2>1. NoRestartOfDegraded'
    BY <1>5 DEF Reboot, Each, NoRestartOfDegraded
  <2>2. boots' # boots
    BY <1>5, OrderFacts, SupervisionAssumption DEF Reboot, TypeOK, SystemTyped
  <2> QED BY <2>1, <2>2
<1>6. ASSUME NEW i \in Instances, WorkerStep(i)
      PROVE  UNCHANGED <<cur, degraded, restarting, rt>>
  BY <1>6 DEF WorkerStep, Crash, Wedge, Wake, Exit, sup_vars, rt_vars
<1>7. ASSUME NEW w \in Workers, SkipTarget(w) \/ WindowSlides(w)
      PROVE  UNCHANGED <<cur, degraded, restarting, rt>>
  BY <1>7 DEF SkipTarget, WindowSlides, inst_vars, rt_vars
<1>8. CASE Tick \/ ScanDone \/ SupervisorLeaves \/ AwaitRestarts
  <2>1. UNCHANGED <<cur, degraded, restarting, rt>>
    BY <1>8 DEF Tick, ScanDone, SupervisorLeaves, AwaitRestarts, inst_vars,
       rt_vars
  <2> QED BY <1>1, <2>1
<1>9. CASE BootStart \/ ApiStart \/ StartStep
  <2>1. UNCHANGED <<cur, degraded, restarting, rt>>
    BY <1>9 DEF BootStart, ApiStart, StartCall, StartStep, StartWorker,
       StartRaises, StartSupervisor, inst_vars, sup_vars, rt_vars
  <2> QED BY <1>1, <2>1
<1>10. CASE StopCall \/ StopStep \/ Interrupt
  <2>1. UNCHANGED <<cur, degraded, restarting, rt>>
    BY <1>10 DEF StopCall, StopStep, Interrupt, StopJoinsMetrics,
       StopJoinsSupervisor, StopSignals, StopJoins, StopFinally,
       InterruptDrain, InterruptEarly, inst_vars, sup_vars, rt_vars
  <2> QED BY <1>1, <2>1
<1>11. CASE UNCHANGED vars
  BY <1>1, <1>11 DEF vars, inst_vars, sup_vars, rt_vars
<1>12. CASE SupervisorStep
  BY <1>1, <1>2, <1>3, <1>7, <1>8, <1>12 DEF SupervisorStep
<1>13. CASE WatchdogExpires \/ ProcessDies
  BY <1>5, <1>13 DEF WatchdogExpires, ProcessDies
<1> QED BY <1>1, <1>4, <1>6, <1>7, <1>9, <1>10, <1>11, <1>12, <1>13 DEF Next

(* A worker that was given up is never replaced again while the process    *)
(* lives, and no restart that was under way when it was given up exists:   *)
(* a scan passes over a worker that is being restarted.                    *)
THEOREM DegradedStays == Spec => DegradedIsFinal
<1>1. Init => NoRestartOfDegraded
  BY DEF Init, Each, NoRestartOfDegraded
<1>2. TypeOK /\ NoRestartOfDegraded /\ [Next]_vars => NoRestartOfDegraded'
  BY DegradedStep
<1>3. TypeOK /\ NoRestartOfDegraded /\ [Next]_vars
        => [\A w \in Workers :
              degraded[w] /\ boots' = boots =>
                degraded'[w] /\ cur'[w] = cur[w] /\ ~restarting'[w]]_vars
  BY DegradedStep
<1> QED BY <1>1, <1>2, <1>3, TypeCorrect, PTL DEF Spec, DegradedIsFinal

=============================================================================
