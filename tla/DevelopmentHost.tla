-------------------------- MODULE DevelopmentHost --------------------------
(***************************************************************************)
(* A host without SQL Server: the feature gates choose the controllers at  *)
(* start-up, and these serve requests from the in-memory store.            *)
(***************************************************************************)
EXTENDS FakeStore, FeatureGates

hostVars == <<store, gates>>

(* The controllers are named as their use cases are. *)
Serves(op) == \E k \in 1..Len(controllers) : controllers[k] = op

HostInit == Init /\ GatesInit

StartUp == GatesNext /\ UNCHANGED store

Serve(r) ==
    /\ Started
    /\ Step(r) \/ \E input \in Inputs : Serves(input.op) /\ Ask(r, input)
    /\ UNCHANGED gates

HostNext == StartUp \/ \E r \in Requests : Serve(r)

HostSpec == HostInit /\ [][HostNext]_hostVars

-----------------------------------------------------------------------------
HostTypeOK == TypeOK /\ GatesTypeOK

(* No use case runs whose feature is off: no request, no entry and no      *)
(* close of it is ever found (FeatureGate, PopulateFeature).               *)
NothingIsDoneThatIsOff ==
    \A r \in Requests : run[r].at # "Idle" => \A k \in 1..Len(Gate[Op(r)]) : Gate[Op(r)][k] \in enabled
============================================================================
