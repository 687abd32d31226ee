------------------------- MODULE MCDevelopmentHost -------------------------
(* Two accounts of one currency and three requests. *)
EXTENDS DevelopmentHost, FiniteSets, TLC

LOCAL INSTANCE Functions

CONSTANTS ann, bob, usd, a1, a2, r1, r2, r3

MCSeedAccounts == (a1 :> [owner |-> ann, currency |-> usd]) @@ (a2 :> [owner |-> bob, currency |-> usd])
MCSeedCredits  == {[id |-> a1, account |-> a1, value |-> 2]}

Request(op, user, account, dest, amount) ==
    [op |-> op, user |-> user, account |-> account, dest |-> dest, amount |-> amount, currency |-> usd]

MCInputs ==
    {Request("OpenAccount", ann, None, None, 1), Request("GetAccount", ann, a1, None, 0),
     Request("GetAccounts", bob, None, None, 0), Request("Deposit", bob, a2, None, 1),
     Request("Withdraw", ann, a1, None, 2), Request("Withdraw", bob, a1, None, 1),
     Request("Transfer", ann, a1, a2, 2), Request("CloseAccount", bob, a2, None, 0),
     Request("CloseAccount", ann, a1, None, 0)}

(* One feature a controller, as in WebApi/UseCases. *)
MCControllers ==
    <<"CloseAccount", "GetAccount", "GetAccounts", "OpenAccount", "Deposit", "Transfer", "Withdraw">>
MCFeatures == Range(MCControllers)
MCGate     == [op \in MCFeatures |-> <<op>>]

(* Everything on, or at most two of the features. *)
MCConfigurations == {on \in SUBSET MCFeatures : Cardinality(on) <= 2} \cup {MCFeatures}

Symmetry == Permutations(Requests)
============================================================================
