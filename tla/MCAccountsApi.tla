---------------------------- MODULE MCAccountsApi ----------------------------
(***************************************************************************)
(* Small instances of the accounts API for TLC.                            *)
(***************************************************************************)
EXTENDS LedgerRefinement, TLC

CONSTANTS ann, bob, usd, sek, a1, a2

MCUsers == {ann, bob}
MCCurrencies == {usd, sek}

(* One account of ann's with 2 cents, or two empty-handed ones. *)
OneAccount  == (a1 :> [owner |-> ann, currency |-> usd])
OneCredit   == {[id |-> a1, account |-> a1, value |-> 2]}
TwoAccounts == OneAccount @@ (a2 :> [owner |-> bob, currency |-> sek])
TwoDollars  == OneAccount @@ (a2 :> [owner |-> bob, currency |-> usd])

(* The migration's seed: credits and debits of the same total. *)
EvenDebit   == {[id |-> a1, account |-> a1, value |-> 2]}
NoEntry     == {}

(* The fake exchange has one table of rates, the service one for each day. *)
FixedRates   == {usd :> 1 @@ sek :> 2}
ChangingRates == FixedRates \cup {usd :> 2 @@ sek :> 1}

Request(op, user, account, dest, amount, currency) ==
    [op |-> op, user |-> user, account |-> account, dest |-> dest,
     amount |-> amount, currency |-> currency]

Asks(ops, accs, amounts, currencies) ==
    {Request(o, ann, a, None, m, c) : o \in ops, a \in accs, m \in amounts, c \in currencies}

Reads(ops) == {Request(o, ann, a1, None, 0, None) : o \in ops}

(* Everything that can race on one account; bob is refused. *)
RaceInputs == Asks({"Withdraw"}, {a1}, {1, 2}, {usd}) \cup Asks({"Deposit"}, {a1}, {1}, {usd})
    \cup Reads({"CloseAccount", "GetAccount"})
    \cup {Request("Withdraw", bob, a1, None, 1, usd)}

(* Transfers in both directions and onto themselves, with a close. *)
TransferInputs ==
    {Request("Transfer", ann, a1, a2, 1, usd), Request("Transfer", ann, a1, a2, 2, sek),
     Request("Transfer", bob, a2, a1, 2, usd), Request("Transfer", ann, a1, a1, 1, usd),
          Request("CloseAccount", bob, a2, None, 0, None),
          Request("CloseAccount", ann, a1, None, 0, None),
          Request("Deposit", bob, a2, None, 1, sek)}

(* Accounts are opened, used before and after they exist, listed, closed;  *)
(* and every refusal of the validators.                                    *)
OpenInputs ==
    {Request("OpenAccount", ann, None, None, 1, usd), Request("GetAccounts", ann, None, None, 0, None)}
    \cup {Request(o, ann, r, None, 1, usd) : o \in {"Withdraw", "Deposit", "CloseAccount"}, r \in Requests}
    \cup {Request("Transfer", ann, a1, r, 1, usd) : r \in Requests}
    \cup {Request("Deposit", ann, None, None, 1, usd), Request("Withdraw", ann, a1, None, 0, usd),
          Request("OpenAccount", ann, None, None, -1, usd),
          Request("OpenAccount", ann, None, None, 1, None), Request("Transfer", ann, a1, None, 1, usd)}

(* One of each use case. *)
EachInput ==
    {Request("Withdraw", ann, a1, None, 2, usd), Request("Transfer", ann, a1, a2, 1, usd),
     Request("Deposit", ann, a1, None, 2, sek), Request("OpenAccount", ann, None, None, 1, usd)}
    \cup Reads({"CloseAccount", "GetAccount", "GetAccounts"})
    \cup {Request("CloseAccount", bob, a2, None, 0, None)}

EveryInput == OpenInputs \cup EachInput

(* A transfer and what can race with it. *)
OneTransfer == {Request("Transfer", ann, a1, a2, 1, usd), Request("Withdraw", ann, a1, None, 2, usd)}

Symmetry == Permutations(Requests)
=============================================================================
