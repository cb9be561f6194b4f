# TLA+ models of ServiceManager's graph engine and restarter units

This directory holds TLA+ models of the two agents of ServiceManager whose
source is in the repository. They are checked with TLC.

- **graphd** (`src/usr/src/agent/graphd/graph.c`) keeps the dependency graph
  of services, instances and dependency groups. It decides which instances
  may run, and it processes a FIFO queue of notes: admin requests
  (A_DISABLE, A_ENABLE) and state changes (SC_ONLINE, SC_OFFLINE,
  SC_DISABLED).
- **restartd's unit** (`src/usr/src/agent/restartd/unit.c`) is the
  per-instance lifecycle state machine. It runs the prestart, start,
  poststart and stop methods, tracks PIDs, arms timers and retries.

The two agents talk through the manager: graphd asks a unit to start, and
the unit reports state changes back. Only `manager.h` of that envelope is in
the repository, so the models treat the other side as an environment. In
Propagation, SC_OFFLINE notes arrive from the environment. In Unit, RR_START
requests arrive only while the unit is at rest.

## Modules

| Module | Models | State / actions |
|---|---|---|
| `GraphStore` | the vertex/edge store after building: `vtx_edge_add`, `dependencies`/`dependents` lists in insertion order, `vtx_*_do` | a constant `Store`; no variables |
| `Satisfiability` | `vtx_satisfies`, `depgroup_is_satisfied`, the three `vtx_inst_satisfies*` rules, `vtx_inst_can_come_up`; then spec section 4.3's definition (`RefVtx`, `RefGroup`) to compare against | variables `st`, `is_setup`, `is_enabled`; the C loops are recursive folds (`FoldRequired`, `AnyScan`, `FoldOptional`, `FoldExclusion`) |
| `SatisfiabilityCheck`, `MC_Satisfiability` | the evaluator asked about every state the instances can be in, before and after an SC_ONLINE | `Init` = any instance states and enable flags; `ScOnline` = `vtx_process_state_change(SC_ONLINE)` |
| `InstanceLifecycle` | the per-instance lifecycle the engine promises (spec sections 4.4, 4.7 and 6), without the graph | variables `state`, `enabled`; `SetEnabled`, `BringUp`, `TakeDown`, `Disable` |
| `Propagation`, `MC_Propagation` | `graph_process_note`, `vtx_process_admin_req`, `vtx_process_state_change`, and every walk they make | one action per handler; see below |
| `Builder`, `MC_Builder` | `graph_install_service`, `vtx_setup`, `vtx_update`, `setup_depgroup`, `setup_dep`, `vtx_dependency_add`, `vtx_is_reachable(_internal)` | the recursion is an explicit stack of `vtx_update` frames |
| `MC_Graphs` | built graphs, as `graph_install_service` and `graph_setup_all` produce them from small repositories | constants only |
| `Unit`, `MC_Unit` | every handler of unit.c (`unit_msg`, `unit_ptevent`, `unit_timer_event`, `unit_restart_begin_cb`, `unit_notify_ready`) and every `unit_enter_*` call | `pending` holds the calls a handler still has to make |

### How the actions correspond to the code

**Propagation.** A handler changes its vertex and then walks the graph. The
walks (`vtx_notify_start`, `vtx_notify_stop`, `vtx_notify_misc`,
`vtx_notify_admin_disable`, `vtx_can_go_down`, `vtx_offline_dependency`)
only append notes, so each is an operator returning the notes it appends in
order (`NotifyStart`, `NotifyStop`, and so on, over `WalkFrom`).

Where a walk reads what its handler has just written, the handler is two
actions. `ProcessOffline` and the other `Process*` actions make the
assignments. `Continue` then appends the walk's notes. `Continue` is the
only action enabled in between, so the pair is as atomic as the C call.

The walks have no visited set. A walk that comes back to a vertex it is
still inside yields `Overflow`, and the daemon is `crashed`: it died of
stack overflow.

The environment is the driver of `graph_setup_all`. `Init` queues SC_OFFLINE
for every instance that can come up. After that, each time the queue has
drained, the environment may send one request (`AdminDisable`,
`AdminEnable` or `UnitOffline`), at most `MaxRequests` in all. This follows
the driver and the event loop, which run `processNotes` to empty before the
next event.

**Builder.** A `vtx_update` frame is `[v, g, p, found]`: the vertex, its
current group, its current path (0 means the group vertex is not made yet)
and whether its `pathTo` list is non-empty. The emptiness of `pathTo` is all
`vtx_is_reachable` reads of it, and nothing empties it during the call. The
actions are:

- `SetupDepgroup`: `setup_depgroup` up to its loop;
- `SetupDep`: one `setup_dep`, including the cycle check and pushing the
  target's frame;
- `DepgroupDone` and `VtxUpdateDone`: the loop ends;
- `VtxSetup`: `graph_setup_all`'s loop over the growing `graph` list;
- `GraphInstallService`.

**Unit.** A handler puts its chain of `unit_enter_*` calls in `pending`, and
each call is one step. While `pending` is not empty, no event is taken. This
keeps the handler atomic, as on restartd's single event thread.

## Runs

| Run | Expect | What it shows |
|---|---|---|
| `sat_core` | pass | On `CoreGraph`, `vtx_satisfies` equals spec 4.3's definition for every vertex, recursive or not, in every instance state (`CodeMatchesReference`). An SC_ONLINE of an instance no exclusion names never lowers any vertex's result (`SatisfactionMonotone`). |
| `sat_any` | violation | A RequireAny group whose two targets are both Disabled, so UNSATISFIABLE, comes out UNSATISFIED. |
| `prop_core` | pass | On `CoreGraph`, with up to 8 admin or stop requests on c:k and d:l (stops with every restart reason), five things hold. The engine implements the abstract lifecycle `InstanceLifecycle` (`LifecycleSpec`, see Refinement). No instance runs while a RequireAll requirement that restarts it on Restart is Disabled (`RequirementNotDisabled`). Nothing that can come up is left down (`NoLostWakeup`). No enabled instance keeps a `to_offline` or `to_disable` mark once the queue drains (`NoStaleIntent`); a stale mark would send its next SC_OFFLINE down the drain branch (graph.c:856), which never restarts it. Every cascade of notes ends (`EventuallyQuiescent`). |
| `prop_redisable` | violation | On `ChainGraph`, an instance disabled by an admin request does not always end Disabled (`DisabledGoesDown`). Disable a:i, then its requirement b:j: a:i is re-marked by `vtx_notify_admin_disable` and rests Offline. |
| `prop_mutual` | violation | Two instances that exclude each other: SC_DISABLED of one recurses forever in `vtx_notify_misc`. |
| `build_one_each` | pass | Over all 2197 repositories of three instances, each with no group or one single-path RequireAll/ExcludeAll group, two things hold. No accepted edge closes a cycle outside ExcludeAll (`NoCycleAccepted`). The setup always finishes or aborts (`SetupTerminates`). |
| `build_exclude_first` | violation | An ExcludeAll group listed first hides a later RequireAll group from the cycle search, and the cycle is accepted. |
| `unit_safety` | pass | Simple and group units, every method set, one forking child and failing forks. A resting unit has no processes, `fail_cnt` is never indexed by -1 or past the limit, and `main_pid` is tracked while starting. |
| `unit_notify` | pass | The same safety properties for notify units. |
| `unit_liveness` | pass | When forks succeed, a retry always restarts the unit (`RetryEventuallyRestarts`). |
| `unit_stale_signal` | violation | `unit_enter_stopterm` signals a `main_pid` that already exited. |
| `unit_stuck_start` | violation | A simple unit without poststart stays in Start after its process exits. |

Every property of a passing run has a mutant in `PROJECT.json`: a plausible
bug in the mapped code, and TLC finds the property violated under the run's
configuration.

## Findings

| Where | Run | What |
|---|---|---|
| `graph.c:459` | `sat_any` | RequireAny keeps its result in a `bool` initialised to UNSATISFIABLE, so every non-SATISFIED result collapses to UNSATISFIED (1): a group whose targets are all Disabled is never UNSATISFIABLE. |
| `graph.c:732` | `prop_redisable` | `vtx_notify_admin_disable` sets `to_offline` on every dependent instance, whatever its state. An instance already Disabled is re-marked when one of its requirements is disabled. The scan sends it SC_OFFLINE, which drains the mark and leaves it Offline; `to_disable` is clear, so nothing brings it back to Disabled before A_ENABLE. |
| `graph.c:721` | `prop_mutual` | `vtx_notify_misc` has no visited set, and the builder accepts cycles through ExcludeAll groups, so the walk overflows the stack. |
| `graph.c:131` | `build_exclude_first` | Returning `false` for an ExcludeAll group also stops the caller's loop. The search misses later dependencies, and a cycle is accepted. |
| `unit.c:288` | `unit_stale_signal` | A stale `main_pid` is signalled. The PID may have been reused. |
| `unit.c:246` | `unit_stuck_start` | `unit_enter_online` never assigns `unit->state`. |

Other issues are seen in the code but not checked by a run. Each is listed
among the hazards of `PROJECT.json` with a note.

- **Wrong vertex in ExcludeAll over a service** (`graph.c:534`). The loop
  tests the service vertex `dv` instead of each instance `ddv`, so the
  assertion fails.
- **`pathTo` shared between groups** (`graph.c:282`). `vtx_update` passes one
  `pathTo` list to all of a vertex's groups. After one cyclic group, every
  later group is refused.
- **Partial group kept** (`graph.c:269`). `setup_depgroup` keeps the edges it
  added before a cyclic path, against spec line 195.
- **Exclusion not re-checked on re-enable** (`graph.c:863`). Re-enabling an
  excluded instance does not re-check the instance that excludes it.
- **Maintenance left by a pending restart timer** (`unit.c:150`). The
  restart timer armed by a retry is not deleted when a failed stop fork
  sends the unit to Maintenance, and it starts the unit again.
- **Leaked state timer** (`unit.c:43`). `UnitTimerReg` overwrites
  `timer_id` without deleting the live timer.
- **Duplicate SC_ONLINE** (`graph.c:848`). An instance that reaches a
  dependency over two groups gets two SC_ONLINE notes from one walk of
  `vtx_notify_start`. The SC_ONLINE handler does not compare the old
  state, so the second walks again (spec 4.7 asks for a no-op). TLC shows
  it in five states on such a graph. `CoreGraph` cannot reach it.
- **Heap overflow** (`graph.c:250`). `make_depgroup_path` sizes its buffer
  with one format string and writes with a longer one.

## Refinement

`InstanceLifecycle` states, for each instance alone, what the admin
requests and state changes may do to it:

- it comes up only while enabled and not Disabled;
- it becomes Disabled only from Offline, and only while disabled;
- it leaves Disabled only by going down to Offline, and comes up again
  only after A_ENABLE.

The way down from Disabled is spec 4.7's rule: SC_OFFLINE of an instance marked
`to_offline` always drains the mark. So a Disabled instance may go down to
Offline (`TakeDown`), and a later SC_OFFLINE with `to_disable` set brings
it back to Disabled.

`Propagation` maps onto it by `state <- st` and `enabled <- is_enabled`
(restricted to instances), and `LifecycleSpec` is the abstract `Spec` as a
temporal property. Every other step of the engine (the walks, the marks,
the flags `to_offline` and `to_disable`, the queue) is a stuttering step of
the abstract spec. The refinement holds on `CoreGraph` (`prop_core`). Its
mutant, `NotifyMiscAnyDown` in place of `NotifyMisc`, breaks it.

The abstract spec says nothing about where a disabled instance ends up.
That is `DisabledGoesDown`, a state invariant, and it fails on `ChainGraph`
(`prop_redisable`, graph.c:732). It is not checked on `CoreGraph`: there
no target of a request has a dependent that a second disable could
re-mark, so it would hold there only because of the graph.

## Bounds

**Graphs.** Each graph is the smallest one with the feature a property is
about.

- `CoreGraph` has four services, one instance each. It has a RequireAll group
  over an instance and over a service, an OptionalAll group and an ExcludeAll
  group, so every branch of `depgroup_is_satisfied` and every walk is taken.
- The graphs of the violation runs are two or three instances.

**Requests.** In `prop_core`, `MaxRequests` 8 allows two rounds of
disable and enable of each target, with stops in between. The stops carry
every restart reason (None to Any). Every group of `CoreGraph` restarts on
Any, so the `restart_on` filters of `vtx_notify_stop` and
`vtx_notify_admin_disable` pass every reason there; the filters that stop a
walk are exercised only by `prop_redisable` on `ChainGraph` (restart on
Error and on Restart); no passing run exercises them. The
run has 2586 states. The violation runs use 2 requests, the fewest that
show their finding.

**Builder.** Three one-instance services is the smallest repository with a
cycle through a third vertex. One group per instance, with one path of either
type to any of the six services and instances, gives 2197 repositories. They
include self-loops, 2-cycles, 3-cycles and ExcludeAll cycles.

**Unit.** Four PIDs cover the main, stop and secondary processes, a child and
a reused PID. The safety runs use PID symmetry. `unit_liveness` does not,
because symmetry is not sound for liveness. It uses three PIDs (at most
three processes run at once when forks succeed) and either no optional
method or all of them.

`MaxTimerId` 4 bounds the live timers. A registration needs a free id
(`FreeTimerIds # {}`), and the code never runs out. Because of the timer
leak at `unit.c:43`, a stop sequence that re-enters `unit_enter_stop` can
hold four timers. Its next registration then waits until a leaked timer
fires and frees an id. So the runs do not explore five or more live timers
at once. With deadlock checking off, such a wait does not show up as an
error.

## Fairness

graphd runs one thread, and it empties the note queue before it takes the
next event. Hence `WF_vars(Process)` in Propagation and `WF_vars(Next)` in
Builder, whose steps are one sequential call chain.

In Unit, the running handler always completes (`WF_vars(Step)`). A
registered timer always fires (weak fairness per timer id), because the
timer set runs every callback whose time has come.

No fairness is assumed for the environment: requests, process exits and
readiness notifications may never come. Deadlock checking is off wherever
the system may really stop: the driver has sent all its requests, or the
unit is at rest waiting for an event.

## Not modelled

- **The manager envelope** (`manager.h`). Only the header is present; the
  event routing is the environment of the models.
- **`print_all`.** It only prints.
- **String building in `make_depgroup_path`.** Group names are abstract
  distinct names.
- **Logging.** It is left out everywhere.
- **Reading the repository** (`s16db_lookup_path`). The groups come from a
  constant repository.
- **graphd and a unit together.** The two agents meet only through the
  manager envelope, and of it only `manager.h` is in the repository. A
  composed model would be built on the spec's words alone, so the graph
  sees its units through the environment: `UnitOffline` stands for a
  unit's SC_OFFLINE report, and `Unit` receives RR_START only at rest.
- **The sender of a readiness message.** `unit_notify_ready` gets no PID,
  and `NotifyReady` may happen at any moment. A late or duplicated READY
  is therefore explored, but whether it came from the current main
  process is not modelled.
- **Services' own dependency groups.** `vtx_setup` never reads them, because
  `graph_install_service` marks the service as set up.
