----------------------------- MODULE Propagation -----------------------------
(***************************************************************************)
(* The propagation engine of src/usr/src/agent/graphd/graph.c: the FIFO    *)
(* `notes` queue and graph_process_note, which pops one note and runs the *)
(* admin (A_DISABLE, A_ENABLE) or state-change (SC_ONLINE, SC_OFFLINE,     *)
(* SC_DISABLED) handler on its vertex.  A handler changes the vertex, then *)
(* walks the graph (the vtx_notify, vtx_can_go_down and vtx_offline      *)
(* functions), and the walks only append notes.  Where a walk reads what  *)
(* the handler has just written, the handler is two steps, the second     *)
(* (`cont`) enabled alone, so the pair is as atomic as the C call.        *)
(*                                                                         *)
(* The walks have no visited set: a walk that comes back to a vertex it is *)
(* still inside recurses forever, and the daemon dies of stack overflow   *)
(* (`crashed`).  The builder lets a graph have such a cycle through an     *)
(* ExcludeAll group.                                                       *)
(*                                                                         *)
(* The environment is the driver of graph_setup_all: it queues SC_OFFLINE *)
(* for every instance that can come up, and then, each time the queue has *)
(* drained (the event loop translates one event per tick and dispatches   *)
(* notes until the queue is empty), an admin request or an observed       *)
(* SC_OFFLINE, at most MaxRequests of them.                                *)
(***************************************************************************)
EXTENDS Satisfiability

CONSTANTS
    Targets,       \* instances the environment sends requests about
    ExtReasons,    \* reasons of the SC_OFFLINE notes it sends
    MaxRequests    \* how many requests it sends

VARIABLES
    to_offline,    \* v->to_offline
    to_disable,    \* v->to_disable
    notes,         \* the global note list, head first
    cont,          \* the rest of the handler being run: <<>> or <<call>>
    crashed,       \* a walk recursed without end
    requests       \* requests the environment has sent

vars == <<st, is_setup, is_enabled, to_offline, to_disable, notes, cont,
          crashed, requests>>

NoteType == {"A_DISABLE", "A_ENABLE", "SC_ONLINE", "SC_OFFLINE", "SC_DISABLED"}
Reason == RestartOnNone..RestartOnAny

\* s16note_new.  Only an SC_OFFLINE note's reason is ever compared (by
\* vtx_notify_stop); the others carry RestartOnNone.
Note(t, v, r) == [type |-> t, v |-> v, r |-> IF t = "SC_OFFLINE" THEN r ELSE 0]

\* vtx_online, vtx_offline, vtx_disable: the note each appends for v.
\* vtx_enable appends an SC_OFFLINE with reason RestartOnRestart.
VtxOnline(v, r) == <<Note("SC_ONLINE", v, r)>>
VtxOffline(v, r) == <<Note("SC_OFFLINE", v, r)>>
VtxEnable(v) == VtxOffline(v, RestartOnRestart)
VtxDisable(v, r) == <<Note("SC_DISABLED", v, r)>>

ASSUME Targets \subseteq Inst /\ ExtReasons \subseteq Reason
       /\ MaxRequests \in Nat

-----------------------------------------------------------------------------
(***************************************************************************)
(* A walk yields the notes it appends, in order; a walk that recursed     *)
(* without end yields the Overflow mark where the daemon died.             *)
(***************************************************************************)
Overflow == <<[type |-> "overflow", v |-> CHOOSE v \in Vtx : TRUE, r |-> 0]>>

CanComeUp(v) == InstCanComeUp(v, to_offline[v], to_disable[v])

\* vtx_can_go_down(v, root): "yes", "no" or "overflow".  The loop over the
\* dependents from index i on: an instance not marked to_offline is
\* skipped, any other dependent must itself be able to go down; the first
\* that cannot ends the loop.
RECURSIVE GoDown(_, _, _), GoDownFrom(_, _, _)
GoDownFrom(v, i, path) ==
    IF i > Len(Dependents(v)) THEN "yes"
    ELSE LET w == Dependents(v)[i] IN
         IF Store.type[w] = "inst" /\ ~to_offline[w]
         THEN GoDownFrom(v, i + 1, path)
         ELSE [yes |-> GoDownFrom(v, i + 1, path), no |-> "no",
               overflow |-> "overflow"][GoDown(w, FALSE, path \cup {v})]

GoDown(v, root, path) ==
    IF v \in path THEN "overflow"
    ELSE [yes |-> IF Store.type[v] = "inst" /\ Running(v) /\ ~root
                  THEN "no" ELSE "yes",
          no |-> "no", overflow |-> "overflow"][GoDownFrom(v, 1, path)]

\* The notes ns (vtx_offline) if vtx_can_go_down said yes.
IfDown(down, ns) == [yes |-> ns, no |-> <<>>, overflow |-> Overflow][down]

\* vtx_offline_if_possible on an instance.
OfflineIfPossible(v, r) ==
    IF ~to_offline[v] THEN <<>>
    ELSE IfDown(GoDown(v, TRUE, {}), VtxOffline(v, r))

\* The mark vtx_notify_admin_disable leaves on an instance (to_offline).
Mark(u) == <<[type |-> "mark", v |-> u, r |-> 0]>>

RECURSIVE NotifyStart(_, _), NotifyStop(_, _, _), NotifyMiscAnyDown(_, _),
          NotifyMisc(_, _),
          AdminDisableMarks(_, _), OfflineDependency(_, _, _),
          Walk(_, _, _, _), WalkFrom(_, _, _, _, _)

\* vtx_dependents_do / vtx_dependencies_do: the walk `kind` on the vertices
\* of list from index i on, in order, inside the calls on `path`.
WalkFrom(kind, list, i, r, path) ==
    IF i > Len(list) THEN <<>>
    ELSE Walk(kind, list[i], r, path) \o WalkFrom(kind, list, i + 1, r, path)

\* vtx_notify_start, called on u inside the calls on `path`.
NotifyStart(u, path) ==
    IF u \in path THEN Overflow
    ELSE IF Store.type[u] = "inst"
         THEN IF CanComeUp(u) /\ ~Running(u)
              THEN <<Note("SC_ONLINE", u, 0)>> ELSE <<>>
         ELSE WalkFrom("start", Dependents(u), 1, 0, path \cup {u})

\* vtx_notify_stop: stops pass through a group only if its restart_on is
\* at least the reason, and never through an ExcludeAll group.
NotifyStop(u, r, path) ==
    IF u \in path THEN Overflow
    ELSE CASE Store.type[u] = "inst" ->
                IF Running(u) THEN <<Note("SC_OFFLINE", u, r)>> ELSE <<>>
           [] Store.type[u] = "depgroup"
                /\ (Store.dg_type[u] = "ExcludeAll" \/ Store.restart_on[u] < r)
                -> <<>>
           [] OTHER -> WalkFrom("stop", Dependents(u), 1, r, path \cup {u})

\* Mutant: vtx_notify_misc without its vtx_inst_can_come_up guard.
NotifyMiscAnyDown(u, path) ==
    IF u \in path THEN Overflow
    ELSE (IF Store.type[u] = "inst" /\ ~Running(u)
          THEN VtxOnline(u, 0) ELSE <<>>)
         \o WalkFrom("misc", Dependents(u), 1, 0, path \cup {u})

\* vtx_notify_misc: an instance that can come up is brought up, and every
\* vertex passes the call on to all its dependents.
NotifyMisc(u, path) ==
    IF u \in path THEN Overflow
    ELSE (IF Store.type[u] = "inst" /\ CanComeUp(u) /\ ~Running(u)
          THEN VtxOnline(u, 0) ELSE <<>>)
         \o WalkFrom("misc", Dependents(u), 1, 0, path \cup {u})

\* vtx_notify_admin_disable: the Marks of the instances it sets to_offline.
\* ExcludeAll groups and groups restarting only on None or Error do not
\* pass it on.
AdminDisableMarks(u, path) ==
    IF u \in path THEN Overflow
    ELSE IF Store.type[u] = "depgroup"
            /\ (Store.dg_type[u] = "ExcludeAll"
                \/ Store.restart_on[u] \in {RestartOnNone, RestartOnError})
         THEN <<>>
         ELSE (IF Store.type[u] = "inst" THEN Mark(u) ELSE <<>>)
              \o WalkFrom("admin", Dependents(u), 1, 0, path \cup {u})

\* vtx_offline_dependency: after an instance went offline, bring down each
\* marked instance among its dependencies that can now go down.
OfflineDependency(u, r, path) ==
    IF u \in path THEN Overflow
    ELSE IF Store.type[u] = "inst" THEN OfflineIfPossible(u, r)
         ELSE WalkFrom("offdep", Dependencies(u), 1, r, path \cup {u})

Walk(kind, u, r, path) ==
    CASE kind = "start"  -> NotifyStart(u, path)
      [] kind = "stop"   -> NotifyStop(u, r, path)
      [] kind = "misc"   -> NotifyMisc(u, path)
      [] kind = "admin"  -> AdminDisableMarks(u, path)
      [] kind = "offdep" -> OfflineDependency(u, r, path)

\* The A_DISABLE scan of the whole `graph` list from index i on:
\* vtx_offline_if_possible on every vertex in list order; only marked
\* instances act.
RECURSIVE OfflineScan(_)
OfflineScan(i) ==
    IF i > Len(InstOrder) THEN <<>>
    ELSE OfflineIfPossible(InstOrder[i], RestartOnRestart) \o OfflineScan(i + 1)

-----------------------------------------------------------------------------
TypeOK ==
    /\ st \in [Vtx -> VtxState]
    /\ is_setup \in [Vtx -> BOOLEAN]
    /\ is_enabled \in [Vtx -> BOOLEAN]
    /\ to_offline \in [Vtx -> BOOLEAN]
    /\ to_disable \in [Vtx -> BOOLEAN]
    /\ notes \in Seq([type : NoteType, v : Vtx, r : Reason])
    /\ cont \in Seq([c : {"start", "offline", "misc", "scan"}, v : Vtx,
                     r : Reason, prior : BOOLEAN])
    /\ Len(cont) <= 1
    /\ crashed \in BOOLEAN
    /\ requests \in 0..MaxRequests

Idle == cont = <<>>
Quiescent == Idle /\ notes = <<>>

\* A handler's second half, run next.
Then(c, v, r, prior) == cont' = <<[c |-> c, v |-> v, r |-> r, prior |-> prior]>>

\* graph_setup_all: every vertex set up (vtx_setup sets is_setup and
\* is_enabled; the rest of the vertex is calloc'd), then SC_OFFLINE with
\* reason 0 queued, in `graph` order, for every instance that can come up.
Init ==
    /\ st = [v \in Vtx |-> "Uninitialised"]
    /\ is_setup = [v \in Vtx |-> TRUE]
    /\ is_enabled = [v \in Vtx |-> TRUE]
    /\ to_offline = [v \in Vtx |-> FALSE]
    /\ to_disable = [v \in Vtx |-> FALSE]
    /\ notes = LET up == SelectSeq(InstOrder, LAMBDA v : CanComeUp(v))
               IN  [i \in DOMAIN up |-> Note("SC_OFFLINE", up[i], 0)]
    /\ cont = <<>>
    /\ crashed = FALSE
    /\ requests = 0

-----------------------------------------------------------------------------
(***************************************************************************)
(* graph_process_note: pop the head note and run its handler.              *)
(***************************************************************************)
Popped(t) == ~crashed /\ Idle /\ notes # <<>> /\ Head(notes).type = t

\* vtx_process_admin_req, A_DISABLE: flag the vertex, mark its dependents
\* to_offline, then (second half) scan the graph for what can go down.
ProcessDisable ==
    /\ Popped("A_DISABLE")
    /\ LET v == Head(notes).v
           res == WalkFrom("admin", Dependents(v), 1, 0, {})
       IN  IF Overflow[1] \in Range(res)
           THEN /\ crashed' = TRUE
                /\ notes' = Tail(notes)
                /\ UNCHANGED <<st, is_enabled, to_offline, to_disable, cont>>
           ELSE /\ to_disable' = [to_disable EXCEPT ![v] = TRUE]
                /\ to_offline' = [w \in Vtx |-> to_offline[w]
                                     \/ w = v \/ Mark(w)[1] \in Range(res)]
                /\ is_enabled' = [is_enabled EXCEPT ![v] = FALSE]
                /\ notes' = Tail(notes)
                /\ Then("scan", v, RestartOnRestart, FALSE)
                /\ UNCHANGED <<st, crashed>>
    /\ UNCHANGED <<is_setup, requests>>

\* vtx_process_admin_req, A_ENABLE: clear the flags; vtx_enable queues
\* SC_OFFLINE with reason RestartOnRestart.
ProcessEnable ==
    /\ Popped("A_ENABLE")
    /\ LET v == Head(notes).v IN
       /\ to_disable' = [to_disable EXCEPT ![v] = FALSE]
       /\ to_offline' = [to_offline EXCEPT ![v] = FALSE]
       /\ is_enabled' = [is_enabled EXCEPT ![v] = TRUE]
       /\ notes' = Tail(notes) \o VtxEnable(v)
    /\ UNCHANGED <<st, is_setup, cont, crashed, requests>>

\* vtx_process_state_change, SC_ONLINE.
ProcessOnline ==
    /\ Popped("SC_ONLINE")
    /\ LET v == Head(notes).v IN
       /\ st' = [st EXCEPT ![v] = "Online"]
       /\ Then("start", v, 0, FALSE)
    /\ notes' = Tail(notes)
    /\ UNCHANGED <<is_setup, is_enabled, to_offline, to_disable, crashed,
                   requests>>

\* Mutant: SC_OFFLINE leaves the to_offline mark set.
ProcessOfflineKeepsMark ==
    /\ Popped("SC_OFFLINE")
    /\ LET n == Head(notes) IN
       /\ st' = [st EXCEPT ![n.v] = "Offline"]
       /\ Then("offline", n.v, n.r, to_offline[n.v])
    /\ notes' = Tail(notes)
    /\ UNCHANGED <<is_setup, is_enabled, to_offline, to_disable, crashed,
                   requests>>

\* vtx_process_state_change, SC_OFFLINE: remembers the old to_offline.
ProcessOffline ==
    /\ Popped("SC_OFFLINE")
    /\ LET n == Head(notes) IN
       /\ st' = [st EXCEPT ![n.v] = "Offline"]
       /\ to_offline' = [to_offline EXCEPT ![n.v] = FALSE]
       /\ Then("offline", n.v, n.r, to_offline[n.v])
    /\ notes' = Tail(notes)
    /\ UNCHANGED <<is_setup, is_enabled, to_disable, crashed, requests>>

\* vtx_process_state_change, SC_DISABLED.
ProcessDisabled ==
    /\ Popped("SC_DISABLED")
    /\ LET v == Head(notes).v IN
       /\ st' = [st EXCEPT ![v] = "Disabled"]
       /\ to_offline' = [to_offline EXCEPT ![v] = FALSE]
       /\ to_disable' = [to_disable EXCEPT ![v] = FALSE]
       /\ Then("misc", v, 0, FALSE)
    /\ notes' = Tail(notes)
    /\ UNCHANGED <<is_setup, is_enabled, crashed, requests>>

\* Mutants of the SC_OFFLINE second half: the else-branch vtx_online
\* dropped, and vtx_offline called in its place.
ContNotesNoOnline(k) ==
    LET v == k.v IN
    CASE k.c = "start" -> WalkFrom("start", Dependents(v), 1, 0, {})
      [] k.c = "misc"  -> WalkFrom("misc", Dependents(v), 1, 0, {})
      [] k.c = "scan"  -> OfflineScan(1)
      [] k.c = "offline" ->
           (IF k.prior
            THEN WalkFrom("offdep", Dependencies(v), 1, k.r, {})
                 \o (IF to_disable[v] THEN VtxDisable(v, k.r)
                                      ELSE <<>>)
            ELSE <<>>)
           \o WalkFrom("stop", Dependents(v), 1, k.r, {})

ContNotesOfflineAgain(k) ==
    LET v == k.v IN
    CASE k.c = "start" -> WalkFrom("start", Dependents(v), 1, 0, {})
      [] k.c = "misc"  -> WalkFrom("misc", Dependents(v), 1, 0, {})
      [] k.c = "scan"  -> OfflineScan(1)
      [] k.c = "offline" ->
           (IF k.prior
            THEN WalkFrom("offdep", Dependencies(v), 1, k.r, {})
                 \o (IF to_disable[v] THEN VtxDisable(v, k.r)
                                      ELSE <<>>)
            ELSE IF CanComeUp(v) THEN VtxOffline(v, k.r)
                                 ELSE <<>>)
           \o WalkFrom("stop", Dependents(v), 1, k.r, {})

\* The notes a handler's second half appends.
ContNotes(k) ==
    LET v == k.v IN
    CASE k.c = "start" -> WalkFrom("start", Dependents(v), 1, 0, {})
      [] k.c = "misc"  -> WalkFrom("misc", Dependents(v), 1, 0, {})
      [] k.c = "scan"  -> OfflineScan(1)
      [] k.c = "offline" ->
           (IF k.prior
            THEN WalkFrom("offdep", Dependencies(v), 1, k.r, {})
                 \o (IF to_disable[v] THEN VtxDisable(v, k.r)
                                      ELSE <<>>)
            ELSE IF CanComeUp(v) THEN VtxOnline(v, k.r)
                                 ELSE <<>>)
           \o WalkFrom("stop", Dependents(v), 1, k.r, {})

\* The walks of the handler popped last.
Continue ==
    /\ ~crashed /\ ~Idle
    /\ LET res == ContNotes(Head(cont)) IN
       /\ notes' = notes \o res
       /\ crashed' = (Overflow[1] \in Range(res))
    /\ cont' = <<>>
    /\ UNCHANGED <<st, is_setup, is_enabled, to_offline, to_disable, requests>>

-----------------------------------------------------------------------------
(***************************************************************************)
(* The requests of the driver.                                             *)
(***************************************************************************)
Request(n) ==
    /\ ~crashed /\ requests < MaxRequests
    /\ Quiescent
    /\ notes' = Append(notes, n)
    /\ requests' = requests + 1
    /\ UNCHANGED <<st, is_setup, is_enabled, to_offline, to_disable, cont,
                   crashed>>

AdminDisable(v) == Request(Note("A_DISABLE", v, RestartOnNone))
AdminEnable(v) == Request(Note("A_ENABLE", v, RestartOnNone))
\* The unit of a running instance reports it went offline.
UnitOffline(v, r) == Running(v) /\ Request(Note("SC_OFFLINE", v, r))

Process ==
    ProcessDisable \/ ProcessEnable \/ ProcessOnline \/ ProcessOffline
    \/ ProcessDisabled \/ Continue

Next ==
    \/ Process
    \/ \E v \in Targets : AdminDisable(v) \/ AdminEnable(v)
                          \/ \E r \in ExtReasons : UnitOffline(v, r)

\* The daemon's one thread keeps taking notes off the queue.
Spec == Init /\ [][Next]_vars /\ WF_vars(Process)

-----------------------------------------------------------------------------
\* The instances a group of v needs running: its targets, a service
\* target standing for the service's instances.
Needed(g) == UNION {TargetInsts(t) : t \in Kids(g)}

\* The groups of instance v of the given kind.
GroupsOf(v, kind) ==
    {g \in Kids(v) : Store.type[g] = "depgroup" /\ Store.dg_type[g] = kind}

\* No walk of a handler recurses without end, so the daemon never dies of
\* it (vtx_notify_misc and vtx_can_go_down have no visited set).
NoOverflow == ~crashed

\* Once the queue has drained, every disabled instance (A_DISABLE) has
\* been brought Disabled: vtx_can_go_down let it go down after its
\* dependents, and its SC_OFFLINE queued the SC_DISABLED.
DisabledGoesDown ==
    Quiescent => \A v \in Inst : ~is_enabled[v] => st[v] = "Disabled"

\* An instance never runs while something a RequireAll group of it needs,
\* and that restarts it on Restart or more, is Disabled: A_DISABLE marks
\* the dependents to_offline and vtx_can_go_down holds the disabled
\* instance up until they are down.
RequirementNotDisabled ==
    \A v \in Inst : Running(v) =>
        \A g \in GroupsOf(v, "RequireAll") :
            Store.restart_on[g] >= RestartOnRestart =>
                \A u \in Needed(g) : st[u] # "Disabled"

\* Once the queue has drained, no instance that could come up is left
\* down: every change that lets an instance come up (SC_ONLINE of a
\* dependency, SC_DISABLED of an exclusion, its own SC_OFFLINE) queued
\* its SC_ONLINE.
NoLostWakeup ==
    Quiescent => \A v \in Inst : CanComeUp(v) => Running(v)

\* Once the queue has drained, no enabled instance still carries an
\* admin intent: every to_offline mark vtx_notify_admin_disable left on a
\* dependent was drained by that instance's SC_OFFLINE.  A stale mark
\* would make the next SC_OFFLINE its unit reports take the to_offline
\* branch, which never brings it back up (spec 8, round trip 7).
NoStaleIntent ==
    Quiescent => \A v \in Inst : is_enabled[v] => ~to_offline[v] /\ ~to_disable[v]

\* The engine implements the instance lifecycle of InstanceLifecycle: an
\* instance's recorded state and is_enabled, seen alone, only ever take
\* the steps the admin requests and state changes allow.  Every handler
\* changes the state of one vertex at most (vtx_process_state_change) or
\* the enable flag of one (vtx_process_admin_req), and the walks queue
\* SC_ONLINE only for instances vtx_inst_can_come_up accepts.
Lifecycle == INSTANCE InstanceLifecycle
                 WITH Instances <- Inst,
                      state <- [v \in Inst |-> st[v]],
                      enabled <- [v \in Inst |-> is_enabled[v]]
LifecycleSpec == Lifecycle!Spec

\* Every cascade of notes ends: the queue drains again and again.
EventuallyQuiescent == []<>Quiescent

====
