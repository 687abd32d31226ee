---------------------------- MODULE MCWalletPages ----------------------------
(***************************************************************************)
(* Small instances of the web client over the accounts API.                *)
(***************************************************************************)
EXTENDS WalletPages, TLC

CONSTANTS ann, usd, a1, a2

MCUsers == {ann}
MCCurrencies == {usd}

(* Two accounts of ann's, one with 2 cents and an empty one. *)
MCAccounts == a1 :> [owner |-> ann, currency |-> usd] @@ a2 :> [owner |-> ann, currency |-> usd]
MCCredits  == {[id |-> a1, account |-> a1, value |-> 2]}
MCDebits   == {}
MCRates    == {usd :> 1}

Call(op, account, dest, amount, currency) ==
    [op |-> op, user |-> ann, account |-> account, dest |-> dest,
     amount |-> amount, currency |-> currency]

Fetches == {FetchCall("Dashboard", None)} \cup {FetchCall("Account", a) : a \in Ids}

Closes == {Call("CloseAccount", a, None, 0, None) : a \in {a1, a2}}

(* Every form that posts, over the same accounts. *)
PostingInputs == Fetches \cup Closes \cup
    {Call("Deposit", a1, None, 1, usd), Call("Transfer", a1, a2, 2, usd),
     Call("OpenAccount", None, None, 1, usd)}
PostingLinks ==
    {<<"Deposit", a1>>, <<"Transfer", a1>>, <<"OpenAccount", None>>, <<"CloseAccount", a2>>}

(* One of each use case. *)
EachInput == PostingInputs \cup {Call("Withdraw", a1, None, 2, usd)}
EachLink  == {<<"Withdraw", a1>>, <<"Deposit", a1>>, <<"Home", None>>}

CloseLinks == {<<"CloseAccount", a2>>}

Nobody == {}

CloseInputs == Fetches \cup Closes

Symmetry == Permutations(Requests)
=============================================================================
