------------------------ MODULE AccountsApiProperties ------------------------
(***************************************************************************)
(* What the accounts API promises whatever the order in which requests     *)
(* run, and what it does not promise although its texts say so.            *)
(***************************************************************************)
EXTENDS AccountsApi

(* The tables hold rows and each scope what its code may put there.        *)
TypeOK ==
    /\ accounts \in [Ids -> AccountRow \cup {None}]
    /\ credits \subseteq EntryRow
    /\ debits \subseteq EntryRow
    /\ run \in [Requests -> Scope]
    /\ faults \in 0 .. MaxFaults

HasCredit(r, a) == \E c \in credits : c.id = r /\ c.account = a
HasDebit(r, a)  == \E d \in debits : d.id = r /\ d.account = a

(* A close of account a has begun to delete: none of its commands can be   *)
(* taken back, and it may end after any of them.                           *)
Erasing(a) ==
    \E c \in Requests : /\ run[c].at \in {"DeleteCredits", "DeleteAccount", "Committed"}
                        /\ Op(c) = "CloseAccount" /\ In(c).account = a

-----------------------------------------------------------------------------
(* Every credit and every debit belongs to an account that exists, however *)
(* deposits, transfers and withdrawals race with the three commands of a   *)
(* close (AccountRepository.Delete).                                       *)
NoOrphanEntry == \A e \in credits \cup debits : accounts[e.account] # None

(* A request that was refused left nothing behind: no validation, no       *)
(* missing account, no funds check comes after a Save.                     *)
RefusedLeavesNothing ==
    \A r \in Requests :
       run[r].answer \in Refusals =>
          /\ \A e \in credits \cup debits : e.id # r
          /\ accounts[r] = None

(* An answer Ok is a receipt: what it reports is in the tables for as long *)
(* as nobody closes the account it is about.                               *)
OkIsAReceipt ==
    \A r \in Requests : run[r].answer = "Ok" =>
       /\ Op(r) \in {"Deposit", "Transfer"} =>
             HasCredit(r, Payee(In(r))) \/ Erasing(Payee(In(r)))
       /\ Op(r) \in {"Withdraw", "Transfer"} =>
             HasDebit(r, In(r).account) \/ Erasing(In(r).account)
       /\ Op(r) = "OpenAccount" => (accounts[r] # None /\ HasCredit(r, r)) \/ Erasing(r)
       /\ Op(r) = "CloseAccount" => accounts[In(r).account] = None

(* A transfer never makes money: its credit is there only if its debit is, *)
(* or was until the origin was closed, and between accounts of the         *)
(* currency the client named both have the amount the client named.        *)
TransferMakesNoMoney ==
    \A c \in credits : \A r \in Requests :
       (c.id = r /\ Op(r) = "Transfer") =>
          \/ Erasing(In(r).account)
          \/ \E d \in debits :
                /\ d.id = r /\ d.account = In(r).account
                /\ (CurrencyOf(c.account) = In(r).currency /\ CurrencyOf(d.account) = In(r).currency)
                      => c.value = d.value

TableBalance(a) == GetCurrentBalance(credits, debits, a)

(* Nobody overdraws alone: a balance below zero takes two debits of the    *)
(* account whose requests loaded it before either was saved, or a close    *)
(* that deleted some of its credits.                                       *)
OverdraftTakesARace ==
    \A a \in Ids : TableBalance(a) < 0 =>
       \/ Erasing(a)
       \/ \E d, e \in EntriesOf(debits, a) :
             /\ d.id # e.id /\ {d.id, e.id} \subseteq Requests
             /\ d \notin run[e.id].debits /\ e \notin run[d.id].debits

(* Money a close is about to delete came in after the close had loaded the *)
(* account (or is on an account another close has begun to delete).        *)
DeletedFundsWereUnseen ==
    \A c \in Requests :
       (At(c, "DeleteDebits") /\ TableBalance(In(c).account) # 0) =>
          \/ Erasing(In(c).account)
          \/ ~(EntriesOf(credits, In(c).account) \subseteq run[c].credits)
          \/ ~(EntriesOf(debits, In(c).account) \subseteq run[c].debits)

(* A withdrawal or a close touches an account of its own user only.        *)
OwnersActOnTheirOwn ==
    \A r \in Requests :
       (/\ run[r].at \in {"SaveDebit", "DeleteDebits", "DeleteCredits", "DeleteAccount", "Committed"}
        /\ Op(r) \in OwnerOnly)
          => accounts[In(r).account] \in {None} \cup [owner : {In(r).user}, currency : Currencies]

-----------------------------------------------------------------------------
(* The inductive invariant behind TypeOK, NoOrphanEntry, OwnersActOnTheir- *)
(* Own, RefusedLeavesNothing and OkIsAReceipt.                             *)

(* The points the code of a use case passes. *)
Route(op) ==
    CASE op = "OpenAccount"  -> {"SaveAccount", "Committed"}
      [] op = "GetAccounts"  -> {"List", "Resume", "LoadCredits", "LoadDebits"}
      [] op = "GetAccount"   -> {"Resume", "LoadCredits", "LoadDebits"}
      [] op = "CloseAccount" -> {"Resume", "LoadCredits", "LoadDebits",
                                 "DeleteDebits", "DeleteCredits", "DeleteAccount", "Committed"}
      [] op = "Deposit"      -> {"Resume", "LoadCredits", "LoadDebits", "SaveCredit", "Committed"}
      [] op = "Withdraw"     -> {"Resume", "LoadCredits", "LoadDebits", "SaveDebit", "Committed"}
      [] op = "Transfer"     -> {"Resume", "LoadCredits", "LoadDebits", "SaveDebit",
                                 "ConvertCredit", "SaveCredit", "Committed"}

Early == {"Resume", "LoadCredits", "LoadDebits"}

OnRoute(r) ==
    IF run[r].at = "Idle"
    THEN run[r].answer \in {None, "Invalid"}
    ELSE /\ In(r) \in Input /\ Valid(In(r)) /\ run[r].at \in Route(Op(r))
         /\ run[r].answer \in Refusals => run[r].at = "Resume"
         /\ run[r].answer = "Ok" => run[r].at = "Committed" \/ Op(r) \in {"GetAccount", "GetAccounts"}
         /\ run[r].at \in {"LoadCredits", "LoadDebits"} => run[r].loading \in Ids

(* An id that was given to an account, whether it still has a row or not.  *)
Opened(a) == a \in Seeds \/ (a \in Requests /\ run[a].at = "Committed" /\ Op(a) = "OpenAccount")

OwnedOrGone(r) ==
    accounts[In(r).account] \in {None} \cup [owner : {In(r).user}, currency : Currencies]

(* What a request knows of the accounts it has looked up. *)
LookedUp(r) ==
    run[r].at # "Idle" /\ Op(r) \in OnAccount =>
       /\ run[r].next = "dest" => Op(r) = "Transfer"
       /\ run[r].at \notin Early => ~run[r].missing /\ run[r].next = None
       /\ ~run[r].missing /\ run[r].next # "account" =>
             /\ Opened(In(r).account)
             /\ Op(r) \in OwnerOnly => OwnedOrGone(r)
       /\ ~run[r].missing /\ run[r].next = None /\ Op(r) = "Transfer" => Opened(In(r).dest)

RowsAreAccountedFor ==
    /\ \A a \in Ids : accounts[a] # None => Opened(a)
    /\ \A e \in credits \cup debits : accounts[e.account] # None
    /\ \A c \in credits : c.id \in Requests => run[c.id].at = "Committed"
    /\ \A d \in debits : d.id \in Requests => run[d.id].at \in {"ConvertCredit", "SaveCredit", "Committed"}

DebitSaved(r) ==
    \/ run[r].at = "ConvertCredit"
    \/ run[r].at = "SaveCredit" /\ Op(r) = "Transfer"
    \/ run[r].at = "Committed" /\ Op(r) \in {"Withdraw", "Transfer"}

CreditSaved(r) == run[r].at = "Committed" /\ Op(r) \in {"Deposit", "Transfer"}

(* OkIsAReceipt, from the Save on. *)
SavedOrErased(r) ==
    /\ DebitSaved(r) => HasDebit(r, In(r).account) \/ Erasing(In(r).account)
    /\ CreditSaved(r) => HasCredit(r, Payee(In(r))) \/ Erasing(Payee(In(r)))
    /\ run[r].at = "Committed" =>
          /\ Op(r) = "OpenAccount" => (accounts[r] # None /\ HasCredit(r, r)) \/ Erasing(r)
          /\ Op(r) = "CloseAccount" => accounts[In(r).account] = None

(* What TransferMakesNoMoney needs besides: an entry, or the money about   *)
(* to become one, has the amount the client named if the client named the  *)
(* currency of its account.                                                *)
AmountAsNamed(r, a, value) == CurrencyOf(a) = In(r).currency => value = In(r).amount

EntriesAsNamed ==
    /\ \A d \in debits : d.id \in Requests =>
          d.account = In(d.id).account /\ AmountAsNamed(d.id, d.account, d.value)
    /\ \A c \in credits : (c.id \in Requests /\ Op(c.id) = "Transfer") =>
          c.account = Payee(In(c.id)) /\ AmountAsNamed(c.id, c.account, c.value)
    /\ \A r \in Requests :
          /\ run[r].at = "SaveDebit" => AmountAsNamed(r, In(r).account, run[r].money)
          /\ run[r].at = "SaveCredit" => AmountAsNamed(r, Payee(In(r)), run[r].money)

(* What DeletedFundsWereUnseen and OverdraftTakesARace need besides.       *)

(* What a request has loaded or saved is still in the tables, unless a     *)
(* close of its account has begun; and a debit was saved before anybody    *)
(* loaded it.                                                              *)
LoadedWasThere(r) ==
    /\ \A c \in run[r].credits : c \in credits \/ Erasing(c.account)
    /\ \A d \in run[r].debits :
          /\ d \in debits \/ Erasing(d.account)
          /\ d.id \in Requests => run[d.id].at \in {"ConvertCredit", "SaveCredit", "Committed"}

(* A request that is about to write is where the check of what it has      *)
(* loaded let it go.                                                       *)
Checked(r) ==
    /\ run[r].at = "DeleteDebits" => IsClosingAllowed(run[r].credits, run[r].debits, In(r).account)
    /\ run[r].at = "SaveDebit" => Covers(r, run[r].money)

(* The debits of the account a payer has loaded; those of no request were  *)
(* there before it came.                                                   *)
SeedDebitsSeen(r) ==
    (/\ run[r].at # "Idle" /\ Op(r) \in {"Withdraw", "Transfer"}
     /\ ~run[r].missing /\ run[r].next # "account")
       => \/ run[r].at \in {"LoadCredits", "LoadDebits"} /\ run[r].loading = In(r).account
          \/ \A d \in EntriesOf(debits, In(r).account) : d.id \in Seeds => d \in run[r].debits

BalanceInv ==
    /\ Collection(credits) /\ Collection(debits)
    /\ \A r \in Requests : /\ Collection(run[r].credits) /\ Collection(run[r].debits)
                           /\ LoadedWasThere(r) /\ Checked(r) /\ SeedDebitsSeen(r)
    /\ OverdraftTakesARace

IInv ==
    /\ TypeOK
    /\ RowsAreAccountedFor
    /\ \A r \in Requests : OnRoute(r) /\ LookedUp(r) /\ SavedOrErased(r)

-----------------------------------------------------------------------------
(* Loading the credits before the debits errs on the safe side: the        *)
(* balance a request has loaded is at most the balance the tables hold at  *)
(* that moment, unless the account is being closed.                        *)
LoadedBalanceIsCovered ==
    [][\A r \in Requests :
         (LoadDebits(r) /\ ~Erasing(run[r].loading))
            => Balance(r, run[r].loading)' <= TableBalance(run[r].loading)]_vars

(* No entry is written for a request that was answered, not even after an  *)
(* error, and none disappears but by a close of its account.               *)
EntriesComeAndGoInTime ==
    [][/\ \A e \in (credits' \ credits) \cup (debits' \ debits) : run[e.id].answer = None
       /\ \A e \in (credits \ credits') \cup (debits \ debits') : Erasing(e.account)']_vars

(* Every request that arrives is answered. *)
EveryRequestIsAnswered ==
    \A r \in Requests : run[r].at # "Idle" ~> run[r].answer # None

(* With the exchange's fixed rates a transfer that has debited its origin  *)
(* goes on to credit its destination, unless a fault cuts it off or one of *)
(* the two accounts is closed under it.                                    *)
DebitIsCredited ==
    \A r \in Requests :
       (run[r].at = "ConvertCredit" /\ run[r].answer = None)
          ~> \/ faults > 0
             \/ /\ run[r].at # "Idle"
                /\ \/ HasCredit(r, Payee(In(r)))
                   \/ Erasing(Payee(In(r))) \/ Erasing(In(r).account)

-----------------------------------------------------------------------------
(* What the texts say and the code does not do.                            *)

(* "Informs it is out of balance" (Withdraw/IOutputPort.cs): a debit the   *)
(* balance does not cover is refused, so no balance is ever below zero.    *)
NoOverdraft == \A a \in Ids : TableBalance(a) >= 0

(* "Account can't be closed because it has funds" (Messages.Designer.cs).  *)
NoFundsAreDeleted ==
    \A c \in Requests : At(c, "DeleteDebits") =>
        (TableBalance(In(c).account) = 0 \/ Erasing(In(c).account))

(* "The updated balance" (Transfer/TransactionsController.cs): without a   *)
(* fault a transfer ends in one of the answers its output port has.        *)
TransferHasAnAnswer ==
    \A r \in Requests : (run[r].answer = "Error" /\ Op(r) = "Transfer") => faults > 0
=============================================================================
