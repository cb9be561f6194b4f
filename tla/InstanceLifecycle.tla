-------------------------- MODULE InstanceLifecycle --------------------------
(***************************************************************************)
(* What the graph engine promises about each instance, stated without the *)
(* graph: the administrator enables and disables instances, and an         *)
(* instance's state moves one instance at a time, as spec sections 4.4 and *)
(* 6 describe the admin requests and state changes.                        *)
(*                                                                         *)
(*   - an instance is brought up only while it is enabled;                 *)
(*   - it is brought to Disabled only from Offline, and only while it is   *)
(*     disabled (A_DISABLE drives it down first);                          *)
(*   - it leaves Disabled only by going down: SC_OFFLINE of an instance    *)
(*     marked to_offline always drains the intent (spec 4.7), so a repeated *)
(*     A_DISABLE passes through Offline, and only an enabled instance      *)
(*     comes up from there.                                                *)
(***************************************************************************)
CONSTANT Instances

VARIABLES
    state,      \* the instance's state as the graph records it
    enabled     \* the administrator's last word on the instance

vars == <<state, enabled>>

State == {"Uninitialised", "Offline", "Online", "Disabled"}

TypeOK ==
    /\ state \in [Instances -> State]
    /\ enabled \in [Instances -> BOOLEAN]

Init ==
    /\ state = [v \in Instances |-> "Uninitialised"]
    /\ enabled = [v \in Instances |-> TRUE]

\* The administrator's requests.
SetEnabled(v, b) ==
    /\ enabled' = [enabled EXCEPT ![v] = b]
    /\ UNCHANGED state

Move(v, s) ==
    /\ state' = [state EXCEPT ![v] = s]
    /\ UNCHANGED enabled

\* An enabled instance that is not disabled comes up.
BringUp(v) ==
    /\ enabled[v] /\ state[v] # "Disabled"
    /\ Move(v, "Online")

\* Any instance may go down, a Disabled one included.
TakeDown(v) == Move(v, "Offline")

\* A disabled instance that is down becomes Disabled.
Disable(v) ==
    /\ ~enabled[v] /\ state[v] = "Offline"
    /\ Move(v, "Disabled")

Next ==
    \E v \in Instances :
        \/ \E b \in BOOLEAN : SetEnabled(v, b)
        \/ BringUp(v)
        \/ TakeDown(v)
        \/ Disable(v)

Spec == Init /\ [][Next]_vars

=============================================================================
