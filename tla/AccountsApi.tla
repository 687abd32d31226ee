----------------------------- MODULE AccountsApi -----------------------------
(***************************************************************************)
(* The accounts API over its SQL database: any number of HTTP requests run *)
(* the use cases of Application/UseCases concurrently, each in a scope of  *)
(* its own (DbContext, repository, unit of work, currency exchange), and   *)
(* meet only in the tables Account, Credit and Debit.                      *)
(*                                                                         *)
(* A step of a request runs from one await that leaves the process (a SQL  *)
(* command, a call of the exchange) to the next; one SQL command is one    *)
(* step, because the repositories open no transaction around several.      *)
(***************************************************************************)
EXTENDS AccountDomain

CONSTANTS
    Users,          \* the external user ids
    Currencies,     \* the codes the validators accept
    Seeds,          \* the accounts that exist at the start
    SeedAccounts,   \* their rows, as a function on Seeds
    SeedCredits,    \* the credit rows that exist at the start
    SeedDebits,     \* the debit rows that exist at the start
    Requests,       \* the requests that arrive
    Inputs,         \* what a request may ask for
    Rates,          \* the tables of rates the exchange may answer with
    RealExchange,   \* the feature flag CurrencyExchange
    MaxFaults,      \* how many requests may be cut off by a fault
    None            \* an empty Guid, an unknown currency, a row not there

(* A new account, credit or debit gets a fresh Guid.  A request makes at   *)
(* most one of each, so its own name serves as the Guid of what it makes.  *)
Ids == Seeds \cup Requests

AccountRow == [owner : Users, currency : Currencies]
EntryRow   == [id : Ids, account : Ids, value : Nat]

OnAccount == {"GetAccount", "CloseAccount", "Deposit", "Withdraw", "Transfer"}
UseCases  == OnAccount \cup {"OpenAccount", "GetAccounts"}
OwnerOnly == {"CloseAccount", "Withdraw"}
Converting == {"Deposit", "Withdraw", "Transfer"}

Input == [op : UseCases, user : Users, account : Ids \cup {None}, dest : Ids \cup {None},
          amount : Int, currency : Currencies \cup {None}]

Refusals == {"Invalid", "NotFound", "HasFunds", "OutOfFunds"}
Answers  == Refusals \cup {"Ok", "Error"}

ASSUME IdsAreDistinct == Seeds \cap Requests = {}
ASSUME NoneIsNothing ==
    None \notin Ids /\ None \notin Currencies /\ None \notin Answers
    /\ None \notin AccountRow /\ None \notin Input /\ None \notin {"account", "dest"}
ASSUME SeedsAreRows ==
    /\ SeedAccounts \in [Seeds -> AccountRow]
    /\ SeedCredits \subseteq [id : Seeds, account : Seeds, value : Nat]
    /\ SeedDebits \subseteq [id : Seeds, account : Seeds, value : Nat]
    /\ Collection(SeedCredits) /\ Collection(SeedDebits)
(* Each seeded account has a credit above its debit (SeedData: 400 and 50; *)
(* MangaContextFake: 800 and 300).                                         *)
ASSUME SeedsAreCovered == \A a \in Seeds : GetCurrentBalance(SeedCredits, SeedDebits, a) >= 0
ASSUME InputsAreTyped == Inputs \subseteq Input
ASSUME RatesArePositive == Rates \subseteq [Currencies -> Nat \ {0}] /\ Rates # {}
ASSUME FlagsAndBounds == RealExchange \in BOOLEAN /\ MaxFaults \in Nat

VARIABLES
    accounts,   \* table Account: the row of each id, or None
    credits,    \* table Credit
    debits,     \* table Debit
    run,        \* the scope of each request
    faults      \* how many requests were cut off so far

vars == <<accounts, credits, debits, run, faults>>
tables == <<accounts, credits, debits>>

Points == {"Idle", "Resume", "List", "LoadCredits", "LoadDebits", "SaveAccount",
           "SaveDebit", "ConvertCredit", "SaveCredit",
           "DeleteDebits", "DeleteCredits", "DeleteAccount", "Committed"}

(* What a request's scope holds: the point its code has reached; what was  *)
(* asked; the lookup to do next; the accounts listed but not yet loaded    *)
(* and the one whose entries are being loaded; whether a lookup found      *)
(* nothing; the entries its DbContext has loaded; the money last           *)
(* converted; whether the exchange's dictionary of rates is filled; and    *)
(* the answer.  A request that was answered stays at the point it reached. *)
Scope == [at : Points, input : Input \cup {None}, next : {"account", "dest", None},
          listed : SUBSET Ids, loading : Ids \cup {None}, missing : BOOLEAN,
          credits : SUBSET EntryRow, debits : SUBSET EntryRow,
          money : Nat, filled : BOOLEAN, answer : Answers \cup {None}]

NewScope == [at |-> "Idle", input |-> None, next |-> None, listed |-> {},
             loading |-> None, missing |-> FALSE, credits |-> {}, debits |-> {},
             money |-> 0, filled |-> FALSE, answer |-> None]

Init ==
    /\ accounts = [i \in Ids |-> IF i \in Seeds THEN SeedAccounts[i] ELSE None]
    /\ credits = SeedCredits
    /\ debits = SeedDebits
    /\ run = [r \in Requests |-> NewScope]
    /\ faults = 0

-----------------------------------------------------------------------------
In(r) == run[r].input
Op(r) == In(r).op

(* Mutant: code that goes on after its request was answered. *)
AtAnswered(r, point) == run[r].at = point

At(r, point) == run[r].at = point /\ run[r].answer = None
Answer(r, a) == run' = [run EXCEPT ![r].answer = a]

(* The validation decorators: what lets the use case itself run. *)
ValidGetAccount(i)   == i.account # None
ValidCloseAccount(i) == i.account # None
ValidDeposit(i)      == i.account # None /\ i.currency # None /\ i.amount > 0
ValidWithdraw(i)     == i.account # None /\ i.currency # None /\ i.amount > 0
ValidTransfer(i)     == /\ i.account # None /\ i.dest # None
                        /\ i.currency # None /\ i.amount > 0

(* Mutant: the amount is not validated. *)
ValidOpenAnyAmount(i) == i.currency # None

ValidOpenAccount(i)  == i.currency # None /\ i.amount > 0

Valid(i) ==
    \/ i.op = "GetAccounts"
    \/ i.op = "GetAccount"   /\ ValidGetAccount(i)
    \/ i.op = "CloseAccount" /\ ValidCloseAccount(i)
    \/ i.op = "OpenAccount"  /\ ValidOpenAccount(i)
    \/ i.op = "Deposit"      /\ ValidDeposit(i)
    \/ i.op = "Withdraw"     /\ ValidWithdraw(i)
    \/ i.op = "Transfer"     /\ ValidTransfer(i)

(* A transfer looks up its origin, then its destination. *)
FirstLookup(i) == IF i.op \in OnAccount THEN "account" ELSE None

(* Mutant: the destination is not looked up. *)
NoSecondLookup(r) == None

NextLookup(r) == IF Op(r) = "Transfer" /\ run[r].next = "account" THEN "dest" ELSE None

FirstPoint(i) ==
    IF i.op = "OpenAccount" THEN "SaveAccount"
    ELSE IF i.op = "GetAccounts" THEN "List" ELSE "Resume"

Receive(r) ==
    /\ At(r, "Idle")
    /\ \E i \in Inputs :
         IF Valid(i)
         THEN run' = [run EXCEPT ![r].input = i, ![r].at = FirstPoint(i), ![r].next = FirstLookup(i)]
         ELSE run' = [run EXCEPT ![r].input = i, ![r].answer = "Invalid"]
    /\ UNCHANGED <<tables, faults>>

-----------------------------------------------------------------------------
(* AccountRepository: every command of a lookup is a query of its own, and *)
(* the context keeps each row it has loaded.                               *)

(* Mutant: Find does not look at the owner. *)
VisibleToAll(a, i) == accounts[a] # None

Visible(a, i) == accounts[a] # None /\ (i.op \in OwnerOnly => accounts[a].owner = i.user)

(* GetAccount and Find: the query on table Account. *)
LookUp(r) ==
    /\ At(r, "Resume") /\ run[r].next # None
    /\ LET a == IF run[r].next = "dest" THEN In(r).dest ELSE In(r).account
       IN  IF Visible(a, In(r))
           THEN run' = [run EXCEPT ![r].next = NextLookup(r), ![r].loading = a, ![r].at = "LoadCredits"]
           ELSE run' = [run EXCEPT ![r].next = NextLookup(r), ![r].missing = TRUE]
    /\ UNCHANGED <<tables, faults>>

(* GetAccounts: the query on table Account; SQL promises no order. *)
ListAccounts(r) ==
    /\ At(r, "List")
    /\ LET mine == {a \in Ids : accounts[a] # None /\ accounts[a].owner = In(r).user}
       IN  run' = [run EXCEPT ![r].listed = mine, ![r].at = "Resume"]
    /\ UNCHANGED <<tables, faults>>

(* GetAccounts: the foreach moves to its next account. *)
NextAccount(r) ==
    /\ At(r, "Resume")
    /\ \E a \in run[r].listed :
         run' = [run EXCEPT ![r].loading = a, ![r].listed = @ \ {a}, ![r].at = "LoadCredits"]
    /\ UNCHANGED <<tables, faults>>

(* LoadTransactions: the credits first, *)
LoadCredits(r) ==
    /\ At(r, "LoadCredits")
    /\ run' = [run EXCEPT ![r].credits = @ \cup EntriesOf(credits, run[r].loading),
                          ![r].at = "LoadDebits"]
    /\ UNCHANGED <<tables, faults>>

(* Mutant: the debits are taken from what the context holds already. *)
LoadNoDebits(r) ==
    /\ At(r, "LoadDebits")
    /\ run' = [run EXCEPT ![r].at = "Resume"]
    /\ UNCHANGED <<tables, faults>>

(* then the debits. *)
LoadDebits(r) ==
    /\ At(r, "LoadDebits")
    /\ run' = [run EXCEPT ![r].debits = @ \cup EntriesOf(debits, run[r].loading),
                          ![r].at = "Resume"]
    /\ UNCHANGED <<tables, faults>>

-----------------------------------------------------------------------------
(* The use cases, once their lookups are done. *)

Loaded(r) == At(r, "Resume") /\ run[r].next = None /\ run[r].listed = {}
Found(r)  == Loaded(r) /\ ~run[r].missing

Balance(r, a) == GetCurrentBalance(run[r].credits, run[r].debits, a)

AnswerNotFound(r) ==
    /\ Loaded(r) /\ run[r].missing
    /\ Answer(r, "NotFound")
    /\ UNCHANGED <<tables, faults>>

(* The answer shows what was loaded. *)
GetAccount(r) ==
    /\ Found(r) /\ Op(r) = "GetAccount"
    /\ Answer(r, "Ok")
    /\ UNCHANGED <<tables, faults>>

GetAccounts(r) ==
    /\ Loaded(r) /\ Op(r) = "GetAccounts"
    /\ Answer(r, "Ok")
    /\ UNCHANGED <<tables, faults>>

CloseAccount(r) ==
    /\ Found(r) /\ Op(r) = "CloseAccount"
    /\ IF IsClosingAllowed(run[r].credits, run[r].debits, In(r).account)
       THEN run' = [run EXCEPT ![r].at = "DeleteDebits"]
       ELSE Answer(r, "HasFunds")
    /\ UNCHANGED <<tables, faults>>

(* The currency of an account somebody opened; nothing changes it. *)
CurrencyOf(a) == IF a \in Seeds THEN SeedAccounts[a].currency ELSE In(a).currency

(* Mutant: the money keeps its amount and changes its currency. *)
Unconverted(r, a) == {In(r).amount}

(* ICurrencyExchange.Convert of the request's money to the currency of a.  *)
Conversions(r, a) ==
    {Converted(In(r).amount, rate, In(r).currency, CurrencyOf(a)) : rate \in Rates}

(* Mutant: a call of the exchange that throws is made again. *)
ConvertRetries(r) ==
    /\ \/ Found(r) /\ Op(r) \in Converting
       \/ At(r, "ConvertCredit")
    /\ run[r].filled
    /\ UNCHANGED vars

(* CurrencyExchangeService.ParseCurrencies adds the rates to a dictionary  *)
(* of the scope, and Add throws on a key that is there.                    *)
ConvertThrows(r) ==
    /\ \/ Found(r) /\ Op(r) \in Converting
       \/ At(r, "ConvertCredit")
    /\ run[r].filled
    /\ Answer(r, "Error")
    /\ UNCHANGED <<tables, faults>>

(* Mutant: every exchange keeps a dictionary. *)
AlwaysKeepsRates == TRUE

KeepsRates == RealExchange

(* Mutant: the check is off by a cent. *)
CoversAlmost(r, m) == Balance(r, In(r).account) - m >= -1

(* The check of Withdraw and Transfer, against the balance loaded. *)
Covers(r, m) == Balance(r, In(r).account) - m >= 0

(* Convert the money to the payer's currency, then check. *)
ConvertDebit(r) ==
    /\ ~run[r].filled
    /\ \E m \in Conversions(r, In(r).account) :
         LET converted == [run EXCEPT ![r].money = m, ![r].filled = KeepsRates]
         IN  IF Covers(r, m)
             THEN run' = [converted EXCEPT ![r].at = "SaveDebit"]
             ELSE run' = [converted EXCEPT ![r].answer = "OutOfFunds"]
    /\ UNCHANGED <<tables, faults>>

Withdraw(r) == Found(r) /\ Op(r) = "Withdraw" /\ ConvertDebit(r)
Transfer(r) == Found(r) /\ Op(r) = "Transfer" /\ ConvertDebit(r)

Payee(i) == IF i.op = "Transfer" THEN i.dest ELSE i.account

(* Convert the money to the payee's currency. *)
ConvertCredit(r) ==
    /\ ~run[r].filled
    /\ \E m \in Conversions(r, Payee(In(r))) :
         run' = [run EXCEPT ![r].money = m, ![r].filled = KeepsRates, ![r].at = "SaveCredit"]
    /\ UNCHANGED <<tables, faults>>

Deposit(r) == Found(r) /\ Op(r) = "Deposit" /\ ConvertCredit(r)
CreditTransfer(r) == At(r, "ConvertCredit") /\ ConvertCredit(r)

-----------------------------------------------------------------------------
(* UnitOfWork.Save: one INSERT per new entity, in one transaction.  The    *)
(* foreign key of an entry refuses it when its account is gone.            *)

(* Mutant: the new credit names the paying account. *)
EntryOfPayer(r, a) == [id |-> r, account |-> In(r).account, value |-> run[r].money]

Entry(r, a) == [id |-> r, account |-> a, value |-> run[r].money]

(* Mutant: the context is handed the account without its first credit. *)
SaveAccountOnly(r) ==
    /\ At(r, "SaveAccount")
    /\ accounts' = [accounts EXCEPT ![r] = [owner |-> In(r).user, currency |-> In(r).currency]]
    /\ run' = [run EXCEPT ![r].at = "Committed"]
    /\ UNCHANGED <<credits, debits, faults>>

SaveAccount(r) ==
    /\ At(r, "SaveAccount")
    /\ accounts' = [accounts EXCEPT ![r] = [owner |-> In(r).user, currency |-> In(r).currency]]
    /\ LET credit == [id |-> r, account |-> r, value |-> In(r).amount]
       IN  /\ credits' = credits \cup {credit}
           /\ run' = [run EXCEPT ![r].credits = @ \cup {credit}, ![r].at = "Committed"]
    /\ UNCHANGED <<debits, faults>>

(* Mutant: a transfer ends with its debit. *)
DebitOnly(i) == "Committed"

AfterDebit(i) == IF i.op = "Transfer" THEN "ConvertCredit" ELSE "Committed"

(* Mutant: the debit is handed to the account but not to the context. *)
SaveNoDebit(r) ==
    /\ At(r, "SaveDebit")
    /\ run' = [run EXCEPT ![r].at = AfterDebit(In(r))]
    /\ UNCHANGED <<tables, faults>>

SaveDebit(r) ==
    /\ At(r, "SaveDebit") /\ accounts[In(r).account] # None
    /\ LET debit == Entry(r, In(r).account)
       IN  /\ debits' = debits \cup {debit}
           /\ run' = [run EXCEPT ![r].debits = @ \cup {debit},
                                 ![r].at = AfterDebit(In(r))]
    /\ UNCHANGED <<accounts, credits, faults>>

SaveCredit(r) ==
    /\ At(r, "SaveCredit") /\ accounts[Payee(In(r))] # None
    /\ LET credit == Entry(r, Payee(In(r)))
       IN  /\ credits' = credits \cup {credit}
           /\ run' = [run EXCEPT ![r].credits = @ \cup {credit}, ![r].at = "Committed"]
    /\ UNCHANGED <<accounts, debits, faults>>

ForeignKeyFails(r) ==
    \/ At(r, "SaveDebit") /\ accounts[In(r).account] = None
    \/ At(r, "SaveCredit") /\ accounts[Payee(In(r))] = None

(* Mutant: a refused INSERT is reported as an account not found. *)
SaveReportsNotFound(r) ==
    ForeignKeyFails(r) /\ Answer(r, "NotFound") /\ UNCHANGED <<tables, faults>>

(* Mutant: a refused INSERT is tried again and again. *)
SaveRetries(r) == ForeignKeyFails(r) /\ UNCHANGED vars

SaveThrows(r) ==
    ForeignKeyFails(r) /\ Answer(r, "Error") /\ UNCHANGED <<tables, faults>>

-----------------------------------------------------------------------------
(* AccountRepository.Delete: three commands, each committed on its own.    *)

DeleteDebits(r) ==
    /\ At(r, "DeleteDebits")
    /\ debits' = debits \ EntriesOf(debits, In(r).account)
    /\ run' = [run EXCEPT ![r].at = "DeleteCredits"]
    /\ UNCHANGED <<accounts, credits, faults>>

DeleteCredits(r) ==
    /\ At(r, "DeleteCredits")
    /\ credits' = credits \ EntriesOf(credits, In(r).account)
    /\ run' = [run EXCEPT ![r].at = "DeleteAccount"]
    /\ UNCHANGED <<accounts, debits, faults>>

(* Mutant: the foreign keys cascade to nothing. *)
NoCascade(entries, a) == entries

(* The foreign keys are ON DELETE CASCADE. *)
Cascade(entries, a) == entries \ EntriesOf(entries, a)

DeleteAccount(r) ==
    /\ At(r, "DeleteAccount")
    /\ accounts' = [accounts EXCEPT ![In(r).account] = None]
    /\ credits' = Cascade(credits, In(r).account)
    /\ debits' = Cascade(debits, In(r).account)
    /\ run' = [run EXCEPT ![r].at = "Committed"]
    /\ UNCHANGED faults

(* The last command has returned; after a close, Save finds no change.     *)
AnswerOk(r) ==
    /\ At(r, "Committed")
    /\ Answer(r, "Ok")
    /\ UNCHANGED <<tables, faults>>

(* A command or a call of the exchange throws, or the process stops: what  *)
(* was committed stays, and the request ends where it is.                  *)
Fault(r) ==
    /\ run[r].at # "Idle" /\ run[r].answer = None
    /\ faults < MaxFaults
    /\ faults' = faults + 1
    /\ Answer(r, "Error")
    /\ UNCHANGED tables

-----------------------------------------------------------------------------
Repository(r) ==
    \/ LookUp(r) \/ ListAccounts(r) \/ NextAccount(r) \/ LoadCredits(r) \/ LoadDebits(r)
    \/ SaveAccount(r) \/ SaveDebit(r) \/ SaveCredit(r) \/ SaveThrows(r)
    \/ DeleteDebits(r) \/ DeleteCredits(r) \/ DeleteAccount(r)

UseCase(r) ==
    \/ AnswerNotFound(r) \/ GetAccount(r) \/ GetAccounts(r) \/ CloseAccount(r)
    \/ ConvertThrows(r) \/ Withdraw(r) \/ Transfer(r) \/ Deposit(r) \/ CreditTransfer(r)
    \/ AnswerOk(r)

Step(r) == Repository(r) \/ UseCase(r)

AllAnswered == (\A r \in Requests : run[r].answer # None) /\ UNCHANGED vars

Next ==
    \/ \E r \in Requests : Receive(r) \/ Step(r) \/ Fault(r)
    \/ AllAnswered

Spec == Init /\ [][Next]_vars

(* The runtime resumes every continuation whose await has completed, and   *)
(* every command and call completes or throws: no request is left halfway. *)
FairSpec == Spec /\ \A r \in Requests : WF_vars(Step(r))
=============================================================================
