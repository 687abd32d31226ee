---------------------------- MODULE FeatureGates ----------------------------
(***************************************************************************)
(* CustomControllerFeatureProvider.PopulateFeature: when the host starts,  *)
(* the controllers a FeatureGate of which names a disabled feature are     *)
(* taken out of the list of controllers, which the loop over that list     *)
(* shortens while it runs.                                                 *)
(***************************************************************************)
EXTENDS Integers, SequencesExt

CONSTANTS
    Features,       \* the members of CustomFeature
    Controllers,    \* the controllers that were discovered, in a sequence
    Gate,           \* the features that each controller's FeatureGate names
    Configurations  \* the sets of features that settings may turn on

ASSUME ControllersAssumption ==
    /\ Controllers \in Seq(DOMAIN Gate)
    /\ \A j, k \in 1..Len(Controllers) : Controllers[j] = Controllers[k] => j = k

ASSUME ConfigurationsAssumption == Configurations \subseteq SUBSET Features

(* Every FeatureGate of WebApi/UseCases names one feature. *)
ASSUME GateAssumption == \A c \in DOMAIN Gate : Gate[c] \in Seq(Features) /\ Len(Gate[c]) <= 1

VARIABLES
    enabled,        \* the features the configuration turns on
    controllers,    \* feature.Controllers
    i,              \* which of them is looked at, from the last to the first
    flags           \* the features of its gate that are still to be looked at

gates == <<enabled, controllers, i, flags>>

GatesTypeOK ==
    /\ enabled \subseteq Features
    /\ controllers \in Seq(DOMAIN Gate)
    /\ i \in 0..Len(Controllers)
    /\ flags \in Seq(Features) /\ Len(flags) <= 1

FlagsAt(list, index) == IF index = 0 THEN <<>> ELSE Gate[list[index]]

Starts(last) ==
    /\ enabled \in Configurations
    /\ controllers = Controllers
    /\ i = last
    /\ flags = FlagsAt(Controllers, last)

(* Mutant: the last controller is passed over. *)
GatesInitBeforeLast == Starts(Len(Controllers) - 1)

GatesInit == Starts(Len(Controllers))

(* Mutant: the list is counted from one. *)
TakeOutNext(index) == controllers' = RemoveAt(controllers, index + 1)

TakeOut(index) == controllers' = RemoveAt(controllers, index)

(* One turn of the loop over the features of a gate. *)
LookAtFlag ==
    /\ flags # <<>>
    /\ IF Head(flags) \in enabled THEN UNCHANGED controllers ELSE TakeOut(i)
    /\ flags' = Tail(flags)
    /\ UNCHANGED <<enabled, i>>

(* One turn of the loop over the controllers. *)
NextController ==
    /\ flags = <<>> /\ i > 0
    /\ i' = i - 1
    /\ flags' = FlagsAt(controllers, i - 1)
    /\ UNCHANGED <<enabled, controllers>>

GatesNext == LookAtFlag \/ NextController

GatesSpec == GatesInit /\ [][GatesNext]_gates

-----------------------------------------------------------------------------
Started == i = 0 /\ flags = <<>>

IsOn(c) == \A k \in 1..Len(Gate[c]) : Gate[c][k] \in enabled

ServedOnce == \A j, k \in 1..Len(controllers) : controllers[j] = controllers[k] => j = k

(* How many controllers at the front of the list are not through yet. *)
Left == IF flags # <<>> \/ i = 0 THEN i ELSE i - 1

(* The list is untouched as far as the loop has not come; behind that it   *)
(* holds what is on, and nothing else: what the loop takes out only moves  *)
(* controllers that it has looked at.                                      *)
FlagsInHand == flags # <<>> => i > 0 /\ flags = Gate[Controllers[i]]

FrontUntouched == Left <= Len(controllers) /\ \A k \in 1..Left : controllers[k] = Controllers[k]

BehindIsOn ==
    \A k \in (Left + 1)..Len(controllers) :
        \E m \in (Left + 1)..Len(Controllers) : controllers[k] = Controllers[m] /\ IsOn(Controllers[m])

OnIsBehind ==
    \A m \in (Left + 1)..Len(Controllers) :
        IsOn(Controllers[m]) => \E k \in (Left + 1)..Len(controllers) : controllers[k] = Controllers[m]

GatesInv == GatesTypeOK /\ ServedOnce /\ FlagsInHand /\ FrontUntouched /\ BehindIsOn /\ OnIsBehind

(* Exactly the controllers all of whose features are on are served, each   *)
(* once, although the list is shortened under the loop that goes through   *)
(* it (PopulateFeature).                                                   *)
ServedAreThoseThatAreOn ==
    Started =>
        /\ ServedOnce
        /\ {controllers[k] : k \in 1..Len(controllers)}
               = {c \in {Controllers[k] : k \in 1..Len(Controllers)} : IsOn(c)}
=============================================================================
