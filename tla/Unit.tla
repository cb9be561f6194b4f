-------------------------------- MODULE Unit --------------------------------
(***************************************************************************)
(* The master restarter's unit: the per-instance lifecycle state machine   *)
(* of src/usr/src/agent/restartd/unit.c.                                   *)
(*                                                                         *)
(* A unit is driven by four kinds of event, each handled to completion on  *)
(* the restarter's single event thread: a start request from the manager   *)
(* (unit_msg), a process-tracker event for one of its PIDs (unit_ptevent), *)
(* a timer callback (unit_timer_event, unit_restart_begin_cb) and a        *)
(* readiness notification (unit_notify_ready).                             *)
(*                                                                         *)
(* A handler runs a chain of unit_enter_* calls.  The chain is modelled as *)
(* the sequence `pending` of calls still to make: each call is one step,   *)
(* and while `pending` is not empty no event can be handled, so a handler  *)
(* and every call it makes remain one atomic run of the event loop.        *)
(***************************************************************************)
EXTENDS Naturals, Sequences, FiniteSets

CONSTANTS
    Pid,            \* PIDs the kernel may hand out (model values)
    NoPid,          \* 0: "no PID" in main_pid, secondary_pid, fork failure
    UnitTypes,      \* unit types to explore: subset of UnitType
    MethodSets,     \* method sets to explore: each a set of methods
    ForkMayFail,    \* may S16ProcessForkAndWait fail to produce a PID?
    MaxTimerId,     \* timer ids are 1..MaxTimerId (bound on live timers)
    RequestStates,  \* states in which the manager sends RR_START
    ChildBound      \* a tracked process forks only while the unit
                    \* tracks fewer PIDs than this

ASSUME NoPid \notin Pid
ASSUME ForkMayFail \in BOOLEAN

UnitType == {"simple", "oneshot", "forks", "group", "notify"}
Method == {"prestart", "start", "poststart", "stop", "poststop"}

ASSUME UnitTypes \subseteq UnitType
ASSUME \A ms \in MethodSets : "start" \in ms /\ ms \subseteq Method

UnitState == {"Uninitialised", "Offline", "PreStart", "Start", "PostStart",
              "Online", "Stop", "StopTerm", "StopKill", "PostStop",
              "Maintenance", "None"}

\* fail_cnt is indexed by state_to_S16ServiceMethodype(state), which is -1
\* for a state without a method; "none" stands for that index, a write
\* outside the array.
FailSlot == Method \cup {"none"}

\* The callbacks a timer of the unit can carry.
TimerCb == {"unit_timer_event", "unit_restart_begin_cb"}
TimerId == 1..MaxTimerId

\* The calls of a handler's chain (unit_enter_*, unit_purge_and_target, and
\* the timerset_add that ends unit_retry_start).
Call == {"enter_prestart", "enter_start", "enter_poststart", "enter_online",
         "enter_stop", "enter_stopterm", "enter_stopkill", "enter_target",
         "purge_and_target", "arm_restart"}

\* A method fails this many times and the unit goes to maintenance.
FailLimit == 5

VARIABLES
    utype, methods,                 \* unit->type, unit->methods
    state, target,                  \* unit->state, unit->target
    main_pid, secondary_pid,        \* unit->main_pid, unit->secondary_pid
    pids,                           \* unit->pids: PIDs tracked for the unit
    timer_id,                       \* unit->timer_id
    meth_restart_timer_id,          \* unit->meth_restart_timer_id
    fail_cnt,                       \* unit->fail_cnt
    timers,                         \* the unit's timers in manager.ts
    pending,                        \* calls left in the running handler
    signalled                       \* PIDs sent a signal by the last step

vars == <<utype, methods, state, target, main_pid, secondary_pid, pids,
          timer_id, meth_restart_timer_id, fail_cnt, timers, pending,
          signalled>>

TypeOK ==
    /\ utype \in UnitType
    /\ methods \in SUBSET Method
    /\ state \in UnitState
    /\ target \in UnitState
    /\ main_pid \in Pid \cup {NoPid}
    /\ secondary_pid \in Pid \cup {NoPid}
    /\ pids \in SUBSET Pid
    /\ timer_id \in TimerId \cup {0}
    /\ meth_restart_timer_id \in TimerId \cup {0}
    /\ fail_cnt \in [FailSlot -> Nat]
    /\ timers \subseteq [id : TimerId, cb : TimerCb]
    /\ pending \in Seq(Call)
    /\ signalled \in SUBSET Pid

-----------------------------------------------------------------------------
(* Helpers of unit.c                                                       *)

\* state_to_S16ServiceMethodype
MethodOf(s) ==
    CASE s = "PreStart"  -> "prestart"
      [] s = "Start"     -> "start"
      [] s = "PostStart" -> "poststart"
      [] s = "Stop"      -> "stop"
      [] s = "PostStop"  -> "poststop"
      [] OTHER           -> "none"

\* Mutant of Stopping: StopTerm left out of unit_stopping.
StoppingWithoutStopTerm(s) == s \in {"Stop", "StopKill", "PostStop"}

\* unit_stopping
Stopping(s) == s \in {"Stop", "StopTerm", "StopKill", "PostStop"}

\* The results S16ProcessForkAndWait may give: a PID the unit does not
\* track (the kernel may reuse any other PID), or 0 when forking fails.
ForkResult == (Pid \ pids) \cup (IF ForkMayFail THEN {NoPid} ELSE {})

\* timerset_add hands out an id no live or remembered timer holds.
FreeTimerIds ==
    TimerId \ ({t.id : t \in timers} \cup {timer_id, meth_restart_timer_id})
FreshTimerId == CHOOSE i \in FreeTimerIds : TRUE

\* timerset_del
TimerDel(ts, id) == {t \in ts : t.id # id}

\* Continue the handler with call c in place of the current one (a call in
\* tail position), or return from the current call.
TailCall(c) == pending' = <<c>> \o Tail(pending)
Return == pending' = Tail(pending)

\* Mutant of UnitTimerReg: the id remembered is one past the id registered.
UnitTimerRegOffByOne ==
    /\ FreeTimerIds # {}
    /\ timer_id' = FreshTimerId + 1
    /\ timers' = timers \cup {[id |-> FreshTimerId, cb |-> "unit_timer_event"]}

\* UnitTimerReg: register a 2 s unit_timer_event timer and remember its id
\* (whatever timer_id held before is overwritten, not deleted).
UnitTimerReg ==
    /\ FreeTimerIds # {}
    /\ timer_id' = FreshTimerId
    /\ timers' = timers \cup {[id |-> FreshTimerId, cb |-> "unit_timer_event"]}

Running(c) == pending # <<>> /\ Head(pending) = c
Idle == pending = <<>>

-----------------------------------------------------------------------------
(* The calls of a handler's chain.                                         *)

\* unit_enter_prestart: with a prestart method, arm the timer and fork it
\* as the main PID; a failed fork sends the unit towards maintenance.
\* Without one, enter start.
EnterPrestart ==
    /\ Running("enter_prestart")
    /\ IF "prestart" \in methods
       THEN /\ state' = "PreStart"
            /\ UnitTimerReg
            /\ \E p \in ForkResult :
                 /\ main_pid' = p
                 /\ IF p = NoPid
                    THEN /\ target' = "Maintenance"
                         /\ TailCall("purge_and_target")
                         /\ UNCHANGED pids
                    ELSE /\ pids' = pids \cup {p}
                         /\ Return
                         /\ UNCHANGED target
            /\ UNCHANGED <<secondary_pid, meth_restart_timer_id>>
       ELSE /\ TailCall("enter_start")
            /\ UNCHANGED <<state, target, main_pid, secondary_pid, pids,
                           timer_id, meth_restart_timer_id, timers>>
    /\ signalled' = {}
    /\ UNCHANGED <<utype, methods, fail_cnt>>

\* unit_enter_start: fork the start method as the main PID.  Simple,
\* oneshot and group units go straight on to poststart; forks and notify
\* units arm the timer and wait.
EnterStart ==
    /\ Running("enter_start")
    /\ state' = "Start"
    /\ \E p \in ForkResult :
         /\ main_pid' = p
         /\ IF p = NoPid
            THEN /\ target' = "Maintenance"
                 /\ TailCall("purge_and_target")
                 /\ UNCHANGED <<pids, timer_id, timers>>
            ELSE /\ pids' = pids \cup {p}
                 /\ UNCHANGED target
                 /\ IF utype \in {"simple", "oneshot", "group"}
                    THEN /\ TailCall("enter_poststart")
                         /\ UNCHANGED <<timer_id, timers>>
                    ELSE /\ UnitTimerReg
                         /\ Return
    /\ signalled' = {}
    /\ UNCHANGED <<utype, methods, secondary_pid, meth_restart_timer_id,
                   fail_cnt>>

\* unit_enter_poststart: with a poststart method, arm the timer and fork it
\* as the secondary PID; without one, enter online.
EnterPoststart ==
    /\ Running("enter_poststart")
    /\ IF "poststart" \in methods
       THEN /\ state' = "PostStart"
            /\ UnitTimerReg
            /\ \E p \in ForkResult :
                 /\ secondary_pid' = p
                 /\ IF p = NoPid
                    THEN /\ target' = "Maintenance"
                         /\ TailCall("purge_and_target")
                         /\ UNCHANGED pids
                    ELSE /\ pids' = pids \cup {p}
                         /\ Return
                         /\ UNCHANGED target
            /\ UNCHANGED main_pid
       ELSE /\ TailCall("enter_online")
            /\ UNCHANGED <<state, target, main_pid, secondary_pid, pids,
                           timer_id, timers>>
    /\ signalled' = {}
    /\ UNCHANGED <<utype, methods, meth_restart_timer_id, fail_cnt>>

\* unit_enter_online only logs (and, for the repository's own unit, tells
\* the manager); it does not assign unit->state.
EnterOnline ==
    /\ Running("enter_online")
    /\ Return
    /\ signalled' = {}
    /\ UNCHANGED <<utype, methods, state, target, main_pid, secondary_pid,
                   pids, timer_id, meth_restart_timer_id, fail_cnt, timers>>

\* unit_enter_stop: with a stop method, arm the timer and fork it as the
\* secondary PID (a failed fork sends the unit towards maintenance, which
\* purges again); without one, enter stopterm.
EnterStop ==
    /\ Running("enter_stop")
    /\ IF "stop" \in methods
       THEN /\ state' = "Stop"
            /\ UnitTimerReg
            /\ \E p \in ForkResult :
                 /\ secondary_pid' = p
                 /\ IF p = NoPid
                    THEN /\ target' = "Maintenance"
                         /\ TailCall("purge_and_target")
                         /\ UNCHANGED pids
                    ELSE /\ pids' = pids \cup {p}
                         /\ Return
                         /\ UNCHANGED target
       ELSE /\ TailCall("enter_stopterm")
            /\ UNCHANGED <<state, target, secondary_pid, pids, timer_id,
                           timers>>
    /\ signalled' = {}
    /\ UNCHANGED <<utype, methods, main_pid, meth_restart_timer_id, fail_cnt>>

\* The PIDs unit_enter_stopterm and unit_enter_stopkill signal: main_pid
\* when it is not 0, then every tracked PID.
Victims == (IF main_pid # NoPid THEN {main_pid} ELSE {}) \cup pids

\* unit_enter_stopterm / unit_enter_stopkill: with no PID left, enter the
\* target; otherwise signal the unit's processes and arm the timer.
EnterSignalState(c, s) ==
    /\ Running(c)
    /\ IF pids = {}
       THEN /\ TailCall("enter_target")
            /\ signalled' = {}
            /\ UNCHANGED <<state, timer_id, timers>>
       ELSE /\ state' = s
            /\ signalled' = Victims
            /\ UnitTimerReg
            /\ Return
    /\ UNCHANGED <<utype, methods, target, main_pid, secondary_pid, pids,
                   meth_restart_timer_id, fail_cnt>>

EnterStopterm == EnterSignalState("enter_stopterm", "StopTerm")
EnterStopkill == EnterSignalState("enter_stopkill", "StopKill")

\* unit_enter_maintenance / unit_enter_offline (and the None case of
\* unit_enter_state): a rest state only records the state.
EnterRestState(s) == state' = s

\* unit_enter_state(unit, unit->target): the switch has a case for Offline,
\* Maintenance, PreStart, Start, PostStart, Online and None only.
EnterCallOf == [PreStart |-> "enter_prestart", Start |-> "enter_start",
                PostStart |-> "enter_poststart", Online |-> "enter_online"]
EnterTarget ==
    /\ Running("enter_target")
    /\ IF target \in DOMAIN EnterCallOf
       THEN /\ TailCall(EnterCallOf[target])
            /\ UNCHANGED state
       ELSE /\ IF target \in {"Offline", "Maintenance", "None"}
               THEN EnterRestState(target) ELSE UNCHANGED state
            /\ Return
    /\ signalled' = {}
    /\ UNCHANGED <<utype, methods, target, main_pid, secondary_pid, pids,
                   timer_id, meth_restart_timer_id, fail_cnt, timers>>

\* Mutant of PurgeAndTarget: enter the target without purging the PIDs.
PurgeAndTargetNoPurge ==
    /\ Running("purge_and_target")
    /\ TailCall("enter_target")
    /\ signalled' = {}
    /\ UNCHANGED <<utype, methods, state, target, main_pid, secondary_pid,
                   pids, timer_id, meth_restart_timer_id, fail_cnt, timers>>

\* unit_purge_and_target: stop the unit first if it still has PIDs.
PurgeAndTarget ==
    /\ Running("purge_and_target")
    /\ TailCall(IF pids # {} THEN "enter_stop" ELSE "enter_target")
    /\ signalled' = {}
    /\ UNCHANGED <<utype, methods, state, target, main_pid, secondary_pid,
                   pids, timer_id, meth_restart_timer_id, fail_cnt, timers>>

\* Mutant of ArmRestart: unit_retry_start forgets to register the timer.
ArmRestartForgotten ==
    /\ Running("arm_restart")
    /\ Return
    /\ signalled' = {}
    /\ UNCHANGED <<utype, methods, state, target, main_pid, secondary_pid,
                   pids, timer_id, meth_restart_timer_id, fail_cnt, timers>>

\* The end of unit_retry_start: register the 500 ms restart timer (any
\* earlier meth_restart_timer_id is overwritten, not deleted).
ArmRestart ==
    /\ Running("arm_restart")
    /\ FreeTimerIds # {}
    /\ meth_restart_timer_id' = FreshTimerId
    /\ timers' = timers \cup {[id |-> FreshTimerId,
                               cb |-> "unit_restart_begin_cb"]}
    /\ Return
    /\ signalled' = {}
    /\ UNCHANGED <<utype, methods, state, target, main_pid, secondary_pid,
                   pids, timer_id, fail_cnt>>

-----------------------------------------------------------------------------
(* Events.                                                                 *)

\* The failure rule shared by the main and secondary PID branches of
\* unit_ptevent: count the failure against the method's slot; past the
\* limit go to maintenance, else unit_retry_start (target None, purge, then
\* arm the restart timer).
MethodFailed(slot) ==
    /\ fail_cnt' = [fail_cnt EXCEPT ![slot] = @ + 1]
    /\ IF fail_cnt[slot] + 1 > FailLimit
       THEN /\ target' = "Maintenance"
            /\ pending' = <<"purge_and_target">>
       ELSE /\ target' = "None"
            /\ pending' = <<"purge_and_target", "arm_restart">>

\* unit_msg with RR_START: the manager asks the unit to come up.
UnitMsg ==
    /\ Idle
    /\ state \in RequestStates
    /\ pending' = <<"enter_prestart">>
    /\ signalled' = {}
    /\ UNCHANGED <<utype, methods, state, target, main_pid, secondary_pid,
                   pids, timer_id, meth_restart_timer_id, fail_cnt, timers>>

\* unit_has_pid
UnitHasPid(p) == p \in pids

\* unit_ptevent, kS16ProcessTrackerEventTypeChild: a tracked process forked
\* child p, which the unit starts tracking.
ChildBorn(p) ==
    /\ Idle
    /\ pids # {}
    /\ Cardinality(pids) < ChildBound
    /\ ~UnitHasPid(p)
    /\ pids' = pids \cup {p}
    /\ signalled' = {}
    /\ UNCHANGED <<utype, methods, state, target, main_pid, secondary_pid,
                   timer_id, meth_restart_timer_id, fail_cnt, timers, pending>>

\* Delete the unit's current state timer if timer_id is set (timer_id
\* itself keeps the stale id).
DelStateTimer ==
    timers' = IF timer_id # 0 THEN TimerDel(timers, timer_id) ELSE timers

\* unit_ptevent, exit while stopping: Stop and StopTerm move on once the
\* last PID is gone, after deleting the timer.
StopExit(rest) ==
    /\ IF state \in {"Stop", "StopTerm"} /\ rest = {}
       THEN /\ timers' = TimerDel(timers, timer_id)
            /\ pending' = IF state = "Stop" THEN <<"enter_stopterm">>
                                            ELSE <<"enter_stopkill">>
       ELSE UNCHANGED <<timers, pending>>
    /\ UNCHANGED <<target, main_pid, secondary_pid, fail_cnt>>

\* Mutant of MainExit: main_pid is not cleared when the main PID exits.
MainExitKeepsPid(abnormal, rest) ==
    /\ UNCHANGED <<main_pid, secondary_pid>>
    /\ DelStateTimer
    /\ IF abnormal
       THEN IF state = "Online"
            THEN /\ target' = "Offline"
                 /\ pending' = <<"purge_and_target">>
                 /\ UNCHANGED fail_cnt
            ELSE MethodFailed(MethodOf(state))
       ELSE /\ UNCHANGED fail_cnt
            /\ CASE state = "PreStart" ->
                      /\ target' = "Start"
                      /\ pending' = <<"purge_and_target">>
                 [] state \in {"Online", "PostStart"}
                    /\ (utype = "simple" \/ (utype # "group" /\ rest = {})) ->
                      /\ target' = "Offline"
                      /\ pending' = <<"enter_stop">>
                 [] OTHER -> UNCHANGED <<target, pending>>

\* unit_ptevent, exit of the main PID outside the stopping states.
MainExit(abnormal, rest) ==
    /\ main_pid' = NoPid
    /\ DelStateTimer
    /\ UNCHANGED secondary_pid
    /\ IF abnormal
       THEN IF state = "Online"
            THEN /\ target' = "Offline"
                 /\ pending' = <<"purge_and_target">>
                 /\ UNCHANGED fail_cnt
            ELSE MethodFailed(MethodOf(state))
       ELSE /\ UNCHANGED fail_cnt
            /\ CASE state = "PreStart" ->
                      /\ target' = "Start"
                      /\ pending' = <<"purge_and_target">>
                 [] state \in {"Online", "PostStart"}
                    /\ (utype = "simple" \/ (utype # "group" /\ rest = {})) ->
                      /\ target' = "Offline"
                      /\ pending' = <<"enter_stop">>
                 [] OTHER -> UNCHANGED <<target, pending>>

\* unit_ptevent, exit of the secondary PID (the poststart method) while in
\* PostStart; a successful exit calls unit_enter_online.
SecondaryExit(abnormal) ==
    /\ DelStateTimer
    /\ secondary_pid' = NoPid
    /\ UNCHANGED main_pid
    /\ IF abnormal
       THEN MethodFailed("poststart")
       ELSE /\ pending' = <<"enter_online">>
            /\ UNCHANGED <<target, fail_cnt>>

\* unit_deregister_pid: the tracker stops watching p and it leaves
\* unit->pids.
DeregisterPid(p) == pids' = pids \ {p}

\* unit_ptevent, kS16ProcessTrackerEventTypeExit: tracked process p exited,
\* normally or not; it is deregistered, then the handler branches.
ProcessExit(p, abnormal) ==
    /\ Idle
    /\ p \in pids
    /\ DeregisterPid(p)
    /\ CASE Stopping(state) -> StopExit(pids \ {p})
         [] p = main_pid -> MainExit(abnormal, pids \ {p})
         [] p = secondary_pid /\ state = "PostStart" -> SecondaryExit(abnormal)
         [] OTHER -> UNCHANGED <<target, main_pid, secondary_pid, fail_cnt,
                                 timers, pending>>
    /\ signalled' = {}
    /\ UNCHANGED <<utype, methods, state, timer_id, meth_restart_timer_id>>

\* unit_timer_event: the state timer t fires.  It forgets timer_id
\* whichever timer it was, then acts on the current state.
StateTimerFires(t) ==
    /\ Idle
    /\ t \in timers
    /\ t.cb = "unit_timer_event"
    /\ timers' = timers \ {t}
    /\ timer_id' = 0
    /\ CASE state = "Stop" ->
              /\ pending' = <<"enter_stopterm">>
              /\ UNCHANGED <<target, fail_cnt>>
         [] state = "StopKill" ->
              /\ pending' = <<"enter_target">>
              /\ UNCHANGED <<target, fail_cnt>>
         [] state \in {"PreStart", "Start"} ->
              /\ fail_cnt' = [fail_cnt EXCEPT !["prestart"] = @ + 1]
              /\ target' = IF fail_cnt["prestart"] + 1 > FailLimit
                           THEN "Maintenance" ELSE "PreStart"
              /\ pending' = <<"purge_and_target">>
         [] OTHER -> UNCHANGED <<target, fail_cnt, pending>>
    /\ signalled' = {}
    /\ UNCHANGED <<utype, methods, state, main_pid, secondary_pid, pids,
                   meth_restart_timer_id>>

\* unit_restart_begin_cb: the restart timer t fires and enters prestart,
\* whatever state the unit is in.
RestartTimerFires(t) ==
    /\ Idle
    /\ t \in timers
    /\ t.cb = "unit_restart_begin_cb"
    /\ timers' = timers \ {t}
    /\ meth_restart_timer_id' = 0
    /\ pending' = <<"enter_prestart">>
    /\ signalled' = {}
    /\ UNCHANGED <<utype, methods, state, target, main_pid, secondary_pid,
                   pids, timer_id, fail_cnt>>

\* unit_notify_ready: a readiness message; in Start it deregisters the
\* timer and enters poststart, elsewhere it is ignored.
NotifyReady ==
    /\ Idle
    /\ state = "Start"
    /\ timers' = TimerDel(timers, timer_id)
    /\ timer_id' = 0
    /\ pending' = <<"enter_poststart">>
    /\ signalled' = {}
    /\ UNCHANGED <<utype, methods, state, target, main_pid, secondary_pid,
                   pids, meth_restart_timer_id, fail_cnt>>

-----------------------------------------------------------------------------

\* unit_add: calloc'd, so every field is 0 (target included), and the state
\* is set to Uninitialised; the type and methods come from the repository.
Init ==
    /\ utype \in UnitTypes
    /\ methods \in MethodSets
    /\ state = "Uninitialised"
    /\ target = "Uninitialised"
    /\ main_pid = NoPid
    /\ secondary_pid = NoPid
    /\ pids = {}
    /\ timer_id = 0
    /\ meth_restart_timer_id = 0
    /\ fail_cnt = [s \in FailSlot |-> 0]
    /\ timers = {}
    /\ pending = <<>>
    /\ signalled = {}

\* One call of the running handler.
Step ==
    \/ EnterPrestart \/ EnterStart \/ EnterPoststart \/ EnterOnline
    \/ EnterStop \/ EnterStopterm \/ EnterStopkill \/ EnterTarget
    \/ PurgeAndTarget \/ ArmRestart

\* One event taken from the kernel queue.
Event ==
    \/ UnitMsg
    \/ \E p \in Pid : ChildBorn(p)
    \/ \E p \in Pid, abnormal \in BOOLEAN : ProcessExit(p, abnormal)
    \/ \E t \in timers : StateTimerFires(t) \/ RestartTimerFires(t)
    \/ NotifyReady

Next == Step \/ Event

\* The running handler always completes, and a registered timer always
\* fires: the timer set runs every callback whose time has come.
Fairness ==
    /\ WF_vars(Step)
    /\ \A i \in TimerId :
         WF_vars(\E t \in timers : t.id = i /\ (StateTimerFires(t) \/
                                                 RestartTimerFires(t)))

Spec == Init /\ [][Next]_vars /\ Fairness

-----------------------------------------------------------------------------
(* Properties.                                                             *)

\* unit_enter_stopterm / unit_enter_stopkill signal only processes the unit
\* still tracks: main_pid is not cleared when the main process exits while
\* stopping, so a stale main_pid (possibly reused by the kernel) must never
\* be signalled.
SignalsOnlyTrackedPids == signalled \subseteq pids

\* A unit at rest (Offline, Maintenance, the retry state None) has no
\* process left: unit_purge_and_target and the stop states only enter the
\* target once unit->pids is empty.
RestingUnitHasNoProcesses ==
    (Idle /\ state \in {"Offline", "Maintenance", "None"}) => pids = {}

\* fail_cnt is never indexed by -1 (a main PID failing in a state without a
\* method) and no method fails more than FailLimit + 1 times: the failure
\* past the limit sends the unit to maintenance for good.
FailCountInRange ==
    /\ fail_cnt["none"] = 0
    /\ \A m \in Method : fail_cnt[m] <= FailLimit + 1

\* A unit whose processes are all gone does not stay forever in a state
\* that claims they run: it eventually comes to rest or starts again.
ProcessesGoneEventuallyRests ==
    \A s \in {"Start", "PostStart", "Online"} :
        (Idle /\ pids = {} /\ state = s) ~> (state # s \/ pids # {})

\* Outside the stopping states, a main_pid the unit remembers is one of its
\* tracked processes, so the main-PID branch of unit_ptevent only ever
\* fires for the process it started.
MainPidTracked ==
    (Idle /\ state \in {"PreStart", "Start", "PostStart"} /\ main_pid # NoPid)
        => main_pid \in pids

\* A unit left in None by unit_retry_start is started again: the restart
\* timer armed by the retry eventually enters prestart.
RetryEventuallyRestarts ==
    (Idle /\ state = "None") ~> (state # "None")

=============================================================================
