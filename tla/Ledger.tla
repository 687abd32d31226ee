------------------------------- MODULE Ledger -------------------------------
(***************************************************************************)
(* What the accounts API promises to its clients, told without scopes,     *)
(* queries or a saved context: a request is asked, posts what its use case *)
(* posts, and is answered by one call of its output port (Application/     *)
(* UseCases, IOutputPort.cs; Domain/IAccountRepository.cs).  Each posting *)
(* is atomic; a transfer is two of them and a close is several.            *)
(***************************************************************************)
EXTENDS AccountDomain

CONSTANTS
    Seeds, SeedAccounts, SeedCredits, SeedDebits,   \* the books at the start
    Requests, Inputs, Rates, None

VARIABLES
    accounts, credits, debits,  \* the books
    asked,      \* what each request asked for, or None
    phase,      \* how far its postings have come
    answer      \* what it was answered, or None

books == <<accounts, credits, debits>>
vars == <<accounts, credits, debits, asked, phase, answer>>

Init ==
    /\ accounts = [i \in Seeds \cup Requests |-> IF i \in Seeds THEN SeedAccounts[i] ELSE None]
    /\ credits = SeedCredits /\ debits = SeedDebits
    /\ asked = [r \in Requests |-> None]
    /\ phase = [r \in Requests |-> "new"]
    /\ answer = [r \in Requests |-> None]

In(r) == asked[r]
Pending(r, op, ph) == answer[r] = None /\ asked[r] # None /\ In(r).op = op /\ phase[r] = ph

Moves(r, ph) == phase' = [phase EXCEPT ![r] = ph] /\ UNCHANGED <<asked, answer>>
Answers(r, a) == answer' = [answer EXCEPT ![r] = a] /\ UNCHANGED <<books, asked, phase>>

Owned(r) == accounts[In(r).account] # None => accounts[In(r).account].owner = In(r).user

(* Input is refused at once or not at all; only a listing has no input. *)
Ask(r) ==
    /\ phase[r] = "new" /\ answer[r] = None
    /\ \E i \in Inputs :
          /\ asked' = [asked EXCEPT ![r] = i]
          /\ \/ phase' = [phase EXCEPT ![r] = "asked"] /\ UNCHANGED answer
             \/ /\ answer' = [answer EXCEPT ![r] = "Invalid"] /\ UNCHANGED phase
                /\ i.op # "GetAccounts"
    /\ UNCHANGED books

(* The refusals each output port has. *)
MayRefuse(op) ==
    IF op = "CloseAccount" THEN {"NotFound", "HasFunds"}
    ELSE IF op \in {"Withdraw", "Transfer"} THEN {"NotFound", "OutOfFunds"}
    ELSE IF op \in {"GetAccount", "Deposit"} THEN {"NotFound"} ELSE {}

(* A refusal comes before any posting. *)
Refuse(r) ==
    /\ phase[r] = "asked" /\ answer[r] = None
    /\ \E a \in MayRefuse(In(r).op) : Answers(r, a)

Show(r) ==
    /\ \E op \in {"GetAccount", "GetAccounts"} : Pending(r, op, "asked")
    /\ Answers(r, "Ok")

(* An exception, at any time: the postings made so far stay. *)
Fail(r) == phase[r] # "new" /\ answer[r] = None /\ Answers(r, "Error")

Report(r) == phase[r] = "done" /\ answer[r] = None /\ Answers(r, "Ok")

(* IAccountRepository.Add: an account with its first credit. *)
Open(r) ==
    /\ Pending(r, "OpenAccount", "asked")
    /\ accounts' = [accounts EXCEPT ![r] = [owner |-> In(r).user, currency |-> In(r).currency]]
    /\ credits' = credits \cup {[id |-> r, account |-> r, value |-> In(r).amount]}
    /\ UNCHANGED debits
    /\ Moves(r, "done")

(* An entry of r on account a: the amount asked for, in a's currency, at   *)
(* one of the exchange's rates.                                            *)
Postings(r, a) ==
    {[id |-> r, account |-> a,
      value |-> Converted(In(r).amount, rate, In(r).currency, accounts[a].currency)] : rate \in Rates}

(* IAccountRepository.Update with a debit: only the owner withdraws. *)
PostDebit(r) ==
    /\ accounts[In(r).account] # None
    /\ \E d \in Postings(r, In(r).account) : debits' = debits \cup {d}
    /\ UNCHANGED <<accounts, credits>>

Withdraw(r) == Pending(r, "Withdraw", "asked") /\ Owned(r) /\ PostDebit(r) /\ Moves(r, "done")
PayOut(r) == Pending(r, "Transfer", "asked") /\ PostDebit(r) /\ Moves(r, "debited")

(* IAccountRepository.Update with a credit. *)
PostCredit(r, a) ==
    /\ accounts[a] # None
    /\ \E c \in Postings(r, a) : credits' = credits \cup {c}
    /\ UNCHANGED <<accounts, debits>>

Deposit(r) == Pending(r, "Deposit", "asked") /\ PostCredit(r, In(r).account) /\ Moves(r, "done")

(* The second half of a transfer, only ever after the first. *)
PayIn(r) == Pending(r, "Transfer", "debited") /\ PostCredit(r, In(r).dest) /\ Moves(r, "done")

(* IAccountRepository.Delete: an account goes after its entries, in steps  *)
(* of which the last alone makes the close a success.                      *)
Closing(r) == \E ph \in {"asked", "closing"} : Pending(r, "CloseAccount", ph)

Erase(r) ==
    /\ Closing(r) /\ Owned(r)
    /\ \/ debits' = debits \ EntriesOf(debits, In(r).account) /\ UNCHANGED credits
       \/ credits' = credits \ EntriesOf(credits, In(r).account) /\ UNCHANGED debits
    /\ UNCHANGED accounts
    /\ Moves(r, "closing")

Close(r) ==
    /\ Pending(r, "CloseAccount", "closing") /\ Owned(r)
    /\ accounts' = [accounts EXCEPT ![In(r).account] = None]
    /\ credits' = credits \ EntriesOf(credits, In(r).account)
    /\ debits' = debits \ EntriesOf(debits, In(r).account)
    /\ Moves(r, "done")

Posts(r) == Open(r) \/ Withdraw(r) \/ PayOut(r) \/ Deposit(r) \/ PayIn(r) \/ Erase(r) \/ Close(r)

Next == \E r \in Requests : Ask(r) \/ Refuse(r) \/ Show(r) \/ Fail(r) \/ Report(r) \/ Posts(r)

Spec == Init /\ [][Next]_vars
=============================================================================
