-------------------------- MODULE LedgerRefinement --------------------------
(***************************************************************************)
(* The accounts API over SQL implements the ledger: the phase of a request *)
(* is read off the point its code has reached.                             *)
(***************************************************************************)
EXTENDS AccountsApiProperties

PhaseAt(r) ==
    CASE run[r].at = "Idle" -> "new"
      [] run[r].at = "Committed" -> "done"
      [] run[r].at \in {"DeleteCredits", "DeleteAccount"} -> "closing"
      [] run[r].at = "ConvertCredit" -> "debited"
      [] run[r].at = "SaveCredit" -> IF Op(r) = "Transfer" THEN "debited" ELSE "asked"
      [] OTHER -> "asked"

Asked  == [r \in Requests |-> run[r].input]
Phase  == [r \in Requests |-> PhaseAt(r)]
Answered == [r \in Requests |-> run[r].answer]

L == INSTANCE Ledger WITH asked <- Asked, phase <- Phase, answer <- Answered

(* However the commands of concurrent requests interleave, clients see the *)
(* ledger: each entry is posted whole, by a request not yet answered, at   *)
(* most once, for the amount it asked converted at a rate of the exchange; *)
(* a credit of a transfer only after its debit, a refusal only before any  *)
(* posting, an Ok only after the last; withdrawals and closes by owners.   *)
ImplementsLedger == L!Spec

(* What the refinement needs besides IInv: rows keep the currency they     *)
(* were opened with, the money about to become an entry was converted to   *)
(* it, and only an account that was asked for can be missing.              *)
Priced ==
    /\ \A a \in Ids : accounts[a] # None => accounts[a].currency = CurrencyOf(a)
    /\ \A r \in Requests :
          /\ run[r].at = "SaveDebit" => run[r].money \in Conversions(r, In(r).account)
          /\ run[r].at = "SaveCredit" => run[r].money \in Conversions(r, Payee(In(r)))
          /\ run[r].missing \/ run[r].next # None => run[r].at # "Idle" /\ Op(r) \in OnAccount
=============================================================================
