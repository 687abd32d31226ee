------------------------------ MODULE FakeStore ------------------------------
(***************************************************************************)
(* The use cases over the in-memory store, which a host without SQL Server *)
(* and the component tests run on: AccountRepositoryFake over the          *)
(* collections of MangaContextFake, one singleton for all requests.        *)
(* Nothing awaits, so a request runs on its thread without a pause; the    *)
(* threads share the list of accounts, and the accounts, without a lock.   *)
(***************************************************************************)
EXTENDS AccountDomain

CONSTANTS
    Seeds, SeedAccounts, SeedCredits, SeedDebits,   \* what MangaContextFake starts with
    Requests,
    Inputs,         \* what a request may ask for
    None

VARIABLES
    listed,     \* how often MangaContextFake.Accounts lists each account
    credits,    \* the credits in the accounts' own collections
    debits,     \* the debits in them
    run,        \* the request on each thread
    met,        \* history: which requests each was under way together with
    torn        \* two threads were in one collection at once, and one changed it

store == <<listed, credits, debits, run, met, torn>>
books == <<listed, credits, debits>>

Ids == Seeds \cup Requests

OnAccount == {"GetAccount", "CloseAccount", "Deposit", "Withdraw", "Transfer"}
UseCases  == OnAccount \cup {"OpenAccount", "GetAccounts"}

Listing  == {"Lookup", "Update", "Delete", "Remove", "Add"}  \* calls on the list
Entering == {"Check", "Post", "Return"}                      \* calls on an account's entries
Changing == {"Remove", "Add", "Post"}
Answers  == {"NotFound", "OutOfFunds", "HasFunds", "Ok", "Error"}

(* What the controllers, validators and decorators let through. *)
ASSUME IdsAreDistinct == Seeds \cap Requests = {} /\ None \notin Ids \cup Answers
ASSUME InputsAreTyped ==
    \A input \in Inputs :
        /\ input # None /\ input.op \in UseCases /\ input.amount \in Nat
        /\ input.op \in OnAccount => input.account \in Ids
        /\ input.op = "GetAccounts" => input.account = None
        /\ IF input.op = "Transfer" THEN input.dest \in Ids ELSE input.dest = None

ASSUME NoneIsNoRow ==
    /\ \A a \in Seeds : SeedAccounts[a] # None
    /\ \A input \in Inputs : [owner |-> input.user, currency |-> input.currency] # None

(* The two accounts of MangaContextFake cover what they have paid. *)
ASSUME SeedsAreCovered ==
    /\ SeedCredits \cup SeedDebits \subseteq [id : Seeds, account : Seeds, value : Nat]
    /\ Collection(SeedCredits) /\ Collection(SeedDebits)
    /\ \A a \in Seeds : GetCurrentBalance(SeedCredits, SeedDebits, a) >= 0

(* Where a thread is; at which of its transfer's two accounts, and whether *)
(* the first is missing; the accounts of its user that it has listed.      *)
Thread == [at : {"Idle"} \cup Listing \cup Entering, leg : {1, 2}, missing : BOOLEAN,
           mine : SUBSET Ids, input : Inputs \cup {None}, answer : Answers \cup {None}]

TypeOK ==
    /\ listed \in [Ids -> Nat]
    /\ credits \cup debits \subseteq [id : Ids, account : Ids, value : Nat]
    /\ run \in [Requests -> Thread]
    /\ met \in [Requests -> SUBSET Requests]
    /\ torn \in BOOLEAN

Init ==
    /\ listed = [a \in Ids |-> IF a \in Seeds THEN 1 ELSE 0]
    /\ credits = SeedCredits /\ debits = SeedDebits
    /\ run = [r \in Requests |-> [at |-> "Idle", leg |-> 1, missing |-> FALSE, mine |-> {},
                               input |-> None, answer |-> None]]
    /\ met = [r \in Requests |-> {}]
    /\ torn = FALSE

-----------------------------------------------------------------------------
In(r) == run[r].input
Op(r) == In(r).op
UnderWay(r) == run[r].at # "Idle" /\ run[r].answer = None
At(r, point) == run[r].at = point /\ run[r].answer = None

(* The account a request is about: a new one has the request's name. *)
Target(r) ==
    IF Op(r) = "OpenAccount" THEN r ELSE IF run[r].leg = 2 THEN In(r).dest ELSE In(r).account

Owner(a) == IF a \in Seeds THEN SeedAccounts[a].owner ELSE In(a).user

Balance(a) == GetCurrentBalance(credits, debits, a)

Goes(r, point, leg) == run' = [run EXCEPT ![r].at = point, ![r].leg = leg]
Moves(r, point) == Goes(r, point, run[r].leg)
Answer(r, a) == run' = [run EXCEPT ![r].answer = a]

(* The rest of a transfer, or the end of the use case. *)
AfterEntry(r) ==
    IF Op(r) = "Transfer" /\ run[r].leg = 1 THEN Goes(r, "Post", 2) ELSE Moves(r, "Return")

-----------------------------------------------------------------------------
(* The controller and the decorators let the use case run, on a thread. *)
Receive(r, input) ==
    /\ At(r, "Idle")
    /\ LET others == {q \in Requests : UnderWay(q)}
       IN  met' = [q \in Requests |-> IF q = r THEN others
                                      ELSE IF q \in others THEN met[q] \cup {r} ELSE met[q]]
    /\ run' = [run EXCEPT ![r].input = input,
                          ![r].at = IF input.op = "OpenAccount" THEN "Post" ELSE "Lookup"]
    /\ UNCHANGED books

(* What SingleOrDefault finds; Find looks among the user's own accounts.   *)
Foreign(r) ==
    /\ run[r].at = "Lookup" /\ Op(r) \in {"Withdraw", "CloseAccount"}
    /\ Owner(Target(r)) # In(r).user

Matches(r) == IF listed[Target(r)] > 0 /\ Foreign(r) THEN 0 ELSE listed[Target(r)]

(* Mutant: an account is found whoever asks for it, closed or not. *)
FoundAnyway(r) == TRUE

Found(r) == Matches(r) = 1

(* SingleOrDefault, when the list has the account twice. *)
SingleThrows(r) ==
    /\ run[r].at \in {"Lookup", "Update", "Delete"} /\ UnderWay(r)
    /\ Op(r) # "GetAccounts" /\ Matches(r) > 1
    /\ Answer(r, "Error")
    /\ UNCHANGED <<books, met>>

Finds(r) == Found(r) /\ ~run[r].missing

(* GetAccounts of the repository. *)
Mine(user) == {a \in Ids : listed[a] > 0 /\ Owner(a) = user}

(* GetAccounts; GetAccount, for a transfer twice, whatever the first finds. *)
LookUp(r) ==
    /\ At(r, "Lookup")
    /\ Op(r) # "GetAccounts" => Matches(r) <= 1
    /\ IF Op(r) = "GetAccounts"
       THEN run' = [run EXCEPT ![r].at = "Return", ![r].mine = Mine(In(r).user)]
       ELSE IF Op(r) = "Transfer" /\ run[r].leg = 1
       THEN run' = [run EXCEPT ![r].leg = 2, ![r].missing = ~Found(r)]
       ELSE IF ~Finds(r) THEN Answer(r, "NotFound")
       ELSE CASE Op(r) = "GetAccount" -> Moves(r, "Return")
              [] Op(r) = "Deposit"    -> Moves(r, "Post")
              [] OTHER                -> Goes(r, "Check", 1)
    /\ UNCHANGED <<books, met>>

(* Mutant: an account pays whatever it has. *)
CoversAnything(r) == TRUE

Covers(r) == Balance(Target(r)) >= In(r).amount

Check(r) ==
    /\ At(r, "Check")
    /\ IF Op(r) = "CloseAccount"
       THEN IF Balance(Target(r)) = 0 THEN Moves(r, "Delete") ELSE Answer(r, "HasFunds")
       ELSE IF Covers(r) THEN Moves(r, "Post") ELSE Answer(r, "OutOfFunds")
    /\ UNCHANGED <<books, met>>

Pays(r) == Op(r) \in {"Withdraw", "Transfer"} /\ run[r].leg = 1

(* Account.Deposit and Account.Withdraw: from now on everyone who holds    *)
(* the account sees the entry.                                             *)
Post(r) ==
    /\ At(r, "Post")
    /\ LET entry == {[id |-> r, account |-> Target(r), value |-> In(r).amount]}
       IN  IF Pays(r) THEN debits' = debits \cup entry /\ UNCHANGED credits
                      ELSE credits' = credits \cup entry /\ UNCHANGED debits
    /\ Moves(r, IF Op(r) = "OpenAccount" THEN "Add" ELSE "Update")
    /\ UNCHANGED <<listed, met>>

(* Mutant: an update adds the account and leaves the old one. *)
UpdateAdds(r) ==
    /\ At(r, "Update") /\ listed[Target(r)] <= 1
    /\ Moves(r, "Add")
    /\ UNCHANGED <<books, met>>

(* Update: the account is taken out, if it is there, to be added again; a  *)
(* credit adds it even if it is not.                                       *)
Update(r) ==
    /\ At(r, "Update") /\ listed[Target(r)] <= 1
    /\ IF Found(r) THEN Moves(r, "Remove") ELSE IF Pays(r) THEN AfterEntry(r) ELSE Moves(r, "Add")
    /\ UNCHANGED <<books, met>>

Delete(r) ==
    /\ At(r, "Delete") /\ listed[Target(r)] <= 1
    /\ Moves(r, IF Found(r) THEN "Remove" ELSE "Return")
    /\ UNCHANGED <<books, met>>

(* Mutant: an account that is gone is removed again. *)
RemoveAgain(r) ==
    /\ At(r, "Remove")
    /\ listed' = [listed EXCEPT ![Target(r)] = @ - 1]
    /\ Moves(r, IF Op(r) = "CloseAccount" THEN "Return" ELSE "Add")
    /\ UNCHANGED <<credits, debits, met>>

(* Accounts.Remove, which passes over an account that is gone by now. *)
RemoveOld(r) ==
    /\ At(r, "Remove")
    /\ listed' = [listed EXCEPT ![Target(r)] = IF @ = 0 THEN 0 ELSE @ - 1]
    /\ Moves(r, IF Op(r) = "CloseAccount" THEN "Return" ELSE "Add")
    /\ UNCHANGED <<credits, debits, met>>

(* Accounts.Add. *)
Add(r) ==
    /\ At(r, "Add")
    /\ listed' = [listed EXCEPT ![Target(r)] = @ + 1]
    /\ AfterEntry(r)
    /\ UNCHANGED <<credits, debits, met>>

(* UnitOfWorkFake.Save does nothing; the output port's Ok. *)
Return(r) ==
    /\ At(r, "Return")
    /\ Answer(r, "Ok")
    /\ UNCHANGED <<books, met>>

(* The collections a thread is in: the list; the entries of an account; to *)
(* answer, those of the accounts that it shows with their balances.        *)
Uses(r) ==
    IF run[r].at \in Listing THEN {"the list"}
    ELSE IF run[r].at # "Return" THEN {Target(r)}
    ELSE CASE Op(r) = "GetAccounts" -> run[r].mine
           [] Op(r) \in {"GetAccount", "OpenAccount"} -> {Target(r)}
           [] OTHER -> {}

(* Two threads in one collection at once, of which one changes it: List<T> *)
(* promises nothing about what it holds, or throws, from then on.          *)
Tear(r) ==
    /\ UnderWay(r) /\ run[r].at \in Changing
    /\ \E q \in Requests \ {r} : UnderWay(q) /\ Uses(q) \cap Uses(r) # {}
    /\ torn' = TRUE
    /\ UNCHANGED <<books, run, met>>

Call(r) ==
    \/ SingleThrows(r) \/ LookUp(r) \/ Check(r) \/ Post(r)
    \/ Update(r) \/ Delete(r) \/ RemoveOld(r) \/ Add(r) \/ Return(r)

Step(r) ==
    /\ ~torn
    /\ \/ Call(r) /\ UNCHANGED torn
       \/ Tear(r)

Ask(r, input) == ~torn /\ Receive(r, input) /\ UNCHANGED torn

Next == \E r \in Requests : Step(r) \/ \E input \in Inputs : Ask(r, input)

Spec == Init /\ [][Next]_store

-----------------------------------------------------------------------------
(* What was answered of an account; the requests that are about it. *)
Did(r, op, a) == run[r].answer = "Ok" /\ Op(r) = op /\ Target(r) = a
IsOpen(a) == /\ a \in Seeds \/ Did(a, "OpenAccount", a)
             /\ \A r \in Requests : ~Did(r, "CloseAccount", a)

AccountsOf(r) == IF run[r].at = "Idle" THEN {}
                 ELSE IF Op(r) = "OpenAccount" THEN {r} ELSE {In(r).account, In(r).dest} \ {None}
About(a) == {r \in Requests : a \in AccountsOf(r)}

(* Two that take the account out and add it again; a close and one of them. *)
Updates == {"Deposit", "Withdraw", "Transfer"}
UpdatersMet(a) == \E r, q \in About(a) : q \in met[r] /\ {Op(r), Op(q)} \subseteq Updates
CloseMet(a) == \E r, q \in About(a) : q \in met[r] /\ Op(r) = "CloseAccount" /\ Op(q) \in Updates

(* Whatever meets in the in-memory store, an open account is never lost    *)
(* from the list; only two updates that meet list it twice, only then does *)
(* a request throw, and only an update that meets the close leaves a       *)
(* closed account listed (AccountRepositoryFake takes the account out and  *)
(* adds it, without a lock).                                               *)
OnlyMeetingsDoubleOrRevive ==
    ~torn =>
        /\ \A a \in Ids : (\A r \in About(a) : ~UnderWay(r)) =>
               /\ IsOpen(a) => listed[a] > 0
               /\ listed[a] > 1 => UpdatersMet(a)
               /\ listed[a] > 0 => IsOpen(a) \/ CloseMet(a)
        /\ \A r \in Requests : run[r].answer = "Error" => \E a \in AccountsOf(r) : UpdatersMet(a)

PayersMet(a) ==
    \E d, e \in EntriesOf(debits, a) : d.id \in Requests /\ e.id \in met[d.id]

(* A balance below zero takes two payments out of the account, of requests *)
(* that were under way together: only then is a check older than another's *)
(* entry.                                                                  *)
OverdraftTakesAMeeting == ~torn => \A a \in Ids : Balance(a) < 0 => PayersMet(a)

-----------------------------------------------------------------------------
(* Why that is so.  A thread keeps to the course of its use case; requests *)
(* that are under way together have met.                                   *)
Course(op) ==
    CASE op = "OpenAccount" -> {"Post", "Add", "Return"}
      [] op \in {"GetAccount", "GetAccounts"} -> {"Lookup", "Return"}
      [] op = "CloseAccount" -> {"Lookup", "Check", "Delete", "Remove", "Return"}
      [] op = "Deposit" -> {"Lookup", "Post", "Update", "Remove", "Add", "Return"}
      [] OTHER -> {"Lookup", "Check", "Post", "Update", "Remove", "Add", "Return"}

OnCourse(r) ==
    IF run[r].at = "Idle"
    THEN run[r] = [at |-> "Idle", leg |-> 1, missing |-> FALSE, mine |-> {},
                   input |-> None, answer |-> None]
    ELSE /\ In(r) \in Inputs /\ run[r].at \in Course(Op(r))
         /\ run[r].leg = 2 => Op(r) = "Transfer" /\ run[r].at # "Check"
         /\ run[r].answer \in IF run[r].at = "Return" THEN {None, "Ok"} ELSE (Answers \ {"Ok"}) \cup {None}

TogetherMet ==
    \A r \in Requests :
        /\ run[r].at = "Idle" => met[r] = {}
        /\ \A q \in Requests : r # q /\ UnderWay(r) /\ UnderWay(q) => q \in met[r]

(* The balance that a payer has checked is there until it is taken, unless *)
(* another that was under way with it has taken it.                        *)
CheckStands(r) ==
    At(r, "Post") /\ Pays(r) =>
        \/ Balance(Target(r)) >= In(r).amount
        \/ \E e \in EntriesOf(debits, Target(r)) : e.id \in met[r]

PaymentsInv ==
    /\ TypeOK /\ Collection(credits) /\ Collection(debits)
    /\ \A r \in Requests : OnCourse(r) /\ CheckStands(r)
    /\ TogetherMet
    /\ \A a \in Ids : Balance(a) >= 0 \/ PayersMet(a)

(* An account is opened when its request has listed it; a request holds    *)
(* those that it has looked up and found.                                  *)
Opened(a) == a \in Seeds \/ (run[a].at = "Return" /\ Op(a) = "OpenAccount")

Holds(r, a) ==
    /\ a \in AccountsOf(r) /\ Op(r) \in Updates \cup {"CloseAccount"}
    /\ run[r].at = "Lookup" => run[r].leg = 2 /\ ~run[r].missing /\ In(r).account = a

Adding(r, a) == At(r, "Add") /\ Target(r) = a
Deletes(r, a, point) == run[r].at = point /\ Op(r) = "CloseAccount" /\ Target(r) = a

(* What is listed or held has been opened, before the request came or      *)
(* while it was under way.                                                 *)
OnlyOpened(a) ==
    /\ listed[a] > 0 => Opened(a)
    /\ \A r \in Requests : Holds(r, a) =>
           Opened(a) /\ (a \in Seeds \/ run[a].answer = "Ok" \/ r \in met[a])

(* An account that has been opened is listed, in hand to be added, or      *)
(* deleted.                                                                *)
NotLost(a) == Opened(a) => listed[a] > 0 \/ \E r \in Requests : Adding(r, a) \/ Deletes(r, a, "Return")

NotDoubled(a) ==
    listed[a] > 1 \/ (listed[a] > 0 /\ \E r \in Requests : Adding(r, a)) => UpdatersMet(a)

NotRevived(a) ==
    \A r \in Requests :
        /\ UnderWay(r) /\ Deletes(r, a, "Remove") /\ listed[a] > 1 => CloseMet(a)
        /\ Deletes(r, a, "Return") /\ listed[a] > 0 => CloseMet(a)
        /\ Deletes(r, a, "Return") => \A q \in Requests \ {r} :
               UnderWay(q) /\ Holds(q, a) => q \in met[r] \/ CloseMet(a)

ErrorTakesUpdaters(r) == run[r].answer = "Error" => \E a \in AccountsOf(r) : UpdatersMet(a)

ListedInv ==
    /\ \A a \in Ids : OnlyOpened(a) /\ NotLost(a) /\ NotDoubled(a) /\ NotRevived(a)
    /\ \A r \in Requests : ErrorTakesUpdaters(r)

StoreInv == PaymentsInv /\ ListedInv

-----------------------------------------------------------------------------
(* The store read as a ledger: an account that its own update has taken    *)
(* out is still there, and the debits of one being deleted are not.        *)
There(a) == listed[a] > 0 \/ \E r \in About(a) : At(r, "Add") /\ Op(r) # "OpenAccount" /\ Target(r) = a
Deleting(a) == \E r \in About(a) : Op(r) = "CloseAccount" /\ At(r, "Remove")

Rows == [a \in Ids |->
            IF ~There(a) THEN None
            ELSE IF a \in Seeds THEN SeedAccounts[a]
            ELSE [owner |-> In(a).user, currency |-> In(a).currency]]

Entered(r) == run[r].at \in {"Update", "Remove", "Add"}

HalfDone(r) == (run[r].at = "Post" \/ Entered(r)) /\ (run[r].at = "Post") = (run[r].leg = 2)

Phase(r) ==
    IF run[r].at = "Idle" THEN "new"
    ELSE IF Op(r) \in {"GetAccount", "GetAccounts"} THEN "asked"
    ELSE IF run[r].at = "Return" THEN "done"
    ELSE IF Op(r) = "CloseAccount" /\ Entered(r) THEN "closing"
    ELSE IF Op(r) = "Transfer" /\ HalfDone(r) THEN "debited"
    ELSE IF Op(r) # "OpenAccount" /\ Entered(r) THEN "done" ELSE "asked"

SeenCredits == {c \in credits : There(c.account)}
SeenDebits  == {d \in debits : There(d.account) /\ ~Deleting(d.account)}

Asked    == [r \in Requests |-> run[r].input]
Phases   == [r \in Requests |-> Phase(r)]
Answered == [r \in Requests |-> run[r].answer]

OneToOne ==
    [c \in {input.currency : input \in Inputs} \cup {SeedAccounts[a].currency : a \in Seeds} |-> 1]

L == INSTANCE Ledger WITH accounts <- Rows, credits <- SeenCredits, debits <- SeenDebits,
        asked <- Asked, phase <- Phases, answer <- Answered, Rates <- {OneToOne}

Alone == \A r \in Requests : met[r] = {}

(* One request after the other, the in-memory store keeps the promises of  *)
(* the ledger, which the SQL store keeps for requests that run together:   *)
(* what the component tests see is what clients may rely on.               *)
AloneItIsALedger == [][Alone' => L!Next \/ UNCHANGED L!vars]_store

(* What that needs besides StoreInv: only owners come to pay or close, and *)
(* an account has no entry before it is made.                              *)
Owned(r) ==
    UnderWay(r) /\ run[r].at # "Lookup" /\ Op(r) \in {"Withdraw", "CloseAccount"}
        => Owner(In(r).account) = In(r).user

NotYetUsed(a) ==
    (run[a].at = "Return" => Op(a) # "OpenAccount") =>
        /\ EntriesOf(debits, a) = {}
        /\ EntriesOf(credits, a) = IF run[a].at = "Add" /\ Op(a) = "OpenAccount"
                                   THEN {[id |-> a, account |-> a, value |-> In(a).amount]} ELSE {}

AloneInv == Alone => \A r \in Requests : Owned(r) /\ NotYetUsed(r)
=============================================================================
