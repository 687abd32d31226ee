----------------------------- MODULE WalletPages -----------------------------
(***************************************************************************)
(* The wallet's web client against the accounts API: one browser tab of    *)
(* one user, the HTTP calls its pages make, and the requests of everybody  *)
(* else.  A page keeps no more than its form; it learns of a posting only  *)
(* from the status and the body of the answer, and an answer may be late,  *)
(* lost, or meant for a page the user has left.                            *)
(***************************************************************************)
EXTENDS AccountsApiProperties

CONSTANTS
    Visitor,        \* the user in front of the tab
    Links,          \* the pages the user opens, each with its account
    Others,         \* what everybody else may ask for
    ErrorFilter     \* the feature flag ErrorFilter

Forms    == {"OpenAccount", "CloseAccount", "Deposit", "Withdraw", "Transfer"}
Fetching == {"Dashboard", "Account"}
Pages    == Forms \cup Fetching \cup {"Home"}

(* Pages whose route has an account id. *)
OfAccount == (Forms \ {"OpenAccount"}) \cup {"Account"}

(* The call a fetching page makes when it is mounted. *)
FetchCall(page, account) ==
    [op |-> IF page = "Account" THEN "GetAccount" ELSE "GetAccounts", user |-> Visitor,
     account |-> account, dest |-> None, amount |-> 0, currency |-> None]

ASSUME VisitorAndLinks ==
    /\ Visitor \in Users /\ Others \subseteq Inputs /\ ErrorFilter \in BOOLEAN
    /\ Links \subseteq (OfAccount \X Ids) \cup ((Pages \ OfAccount) \X {None})
ASSUME FetchesAreInputs ==
    FetchCall("Dashboard", None) \in Inputs /\ \A a \in Ids : FetchCall("Account", a) \in Inputs

VARIABLES
    tab,    \* the page the tab shows
    wire    \* the calls that are on their way to the API

client == <<tab, wire>>

(* A page: its account; the call whose answer led to it; the calls whose   *)
(* answers it awaits; the answer it shows.                                 *)
Page == [page : Pages, account : Ids \cup {None}, from : Requests \cup {None},
         waiting : SUBSET Requests, showing : Requests \cup {None}]

(* Mutant: the next page hears the answers meant for the one before. *)
NewPageHearsAll(page, account, from, calls) ==
    [page |-> page, account |-> account, from |-> from,
     waiting |-> calls \cup tab.waiting, showing |-> None]

NewPage(page, account, from, calls) ==
    [page |-> page, account |-> account, from |-> from, waiting |-> calls, showing |-> None]

PagesInit ==
    /\ Init
    /\ tab = [page |-> "Home", account |-> None, from |-> None, waiting |-> {}, showing |-> None]
    /\ wire = [r \in Requests |-> None]

(* Requests serve as the names of calls too; a name is free again when the *)
(* call was lost before it reached the API.                                *)
Fresh == {r \in Requests : At(r, "Idle") /\ wire[r] = None}

-----------------------------------------------------------------------------
(* A page replaces the one before it, whose awaited answers nobody hears   *)
(* any more.  The instance ends with its names: a page makes no call when  *)
(* there is none left.                                                     *)
Mount(page, account, from) ==
    \/ /\ page \in Fetching
       /\ \E r \in Fresh : /\ tab' = NewPage(page, account, from, {r})
                           /\ wire' = [wire EXCEPT ![r] = FetchCall(page, account)]
    \/ /\ page \notin Fetching \/ Fresh = {}
       /\ tab' = NewPage(page, account, from, {})
       /\ UNCHANGED wire

(* The user follows a link, cancels, or types an address. *)
Visit ==
    /\ \E link \in Links : Mount(link[1], link[2], None)
    /\ UNCHANGED vars

(* A click on Save.  Nothing disables the button while a call is awaited.  *)
Submit(page, r) ==
    /\ tab.page = page
    /\ r \in Fresh
    /\ \E i \in Inputs :
         /\ i.op = page /\ i.user = Visitor /\ i.account = tab.account
         /\ wire' = [wire EXCEPT ![r] = i]
    /\ tab' = [tab EXCEPT !.waiting = @ \cup {r}]
    /\ UNCHANGED vars

SaveOpenAccount(r)  == Submit("OpenAccount", r)
SaveCloseAccount(r) == Submit("CloseAccount", r)
SaveDeposit(r)      == Submit("Deposit", r)
SaveWithdraw(r)     == Submit("Withdraw", r)
SaveTransfer(r)     == Submit("Transfer", r)

-----------------------------------------------------------------------------
(* The wire. *)

Arrive(r) ==
    /\ wire[r] # None
    /\ Receive(r) /\ run'[r].input = wire[r]
    /\ wire' = [wire EXCEPT ![r] = None]
    /\ UNCHANGED tab

(* A call fails without an answer, before or after it reached the API. *)
Lose(r) ==
    /\ r \in tab.waiting
    /\ tab' = [tab EXCEPT !.waiting = @ \ {r}]
    /\ \/ wire' = [wire EXCEPT ![r] = None]
       \/ wire[r] # None /\ UNCHANGED wire
    /\ UNCHANGED vars

(* A request of anybody else, or of another tab. *)
Elsewhere(r) == r \in Fresh /\ Receive(r) /\ run'[r].input \in Others /\ UNCHANGED client

-----------------------------------------------------------------------------
(* The status of an answer.  The ExceptionFilter turns an exception into a *)
(* JsonResult of its own, and a JsonResult goes out with status 200.       *)
Status(answer) ==
    CASE answer = "Ok"       -> 200
      [] answer = "NotFound" -> 404
      [] answer = "Error"    -> IF ErrorFilter THEN 200 ELSE 500
      [] OTHER               -> 400

(* Only an Ok has the body a page looks into: response.data.transaction or *)
(* response.data.account.                                                  *)
HasBody(answer) == answer = "Ok"

(* Mutant: a page is content with the status. *)
StatusConfirms(page, answer) == Status(answer) = 200

(* The then of a form: reading a member of what is not there throws, and   *)
(* the catch leaves the form as it is.  Closing reads data.accountId only, *)
(* which may be undefined.                                                 *)
Confirms(page, answer) ==
    Status(answer) = 200 /\ (page = "CloseAccount" \/ HasBody(answer))

Answered(r) == r \in tab.waiting /\ run[r].answer # None

(* A submitted form redirects: to the dashboard, or to its account.        *)
Redirect(r) ==
    /\ Answered(r) /\ tab.page \in Forms /\ Confirms(tab.page, run[r].answer)
    /\ IF tab.page \in {"OpenAccount", "CloseAccount"}
       THEN Mount("Dashboard", None, r)
       ELSE Mount("Account", tab.account, r)
    /\ UNCHANGED vars

(* A fetching page shows what it was answered. *)
Show(r) ==
    /\ Answered(r) /\ tab.page \in Fetching /\ HasBody(run[r].answer)
    /\ tab' = [tab EXCEPT !.waiting = @ \ {r}, !.showing = r]
    /\ UNCHANGED <<vars, wire>>

(* Whatever else a page is answered changes nothing it shows. *)
Catch(r) ==
    /\ Answered(r)
    /\ tab.page \in Forms => ~Confirms(tab.page, run[r].answer)
    /\ tab.page \in Fetching => ~HasBody(run[r].answer)
    /\ tab' = [tab EXCEPT !.waiting = @ \ {r}]
    /\ UNCHANGED <<vars, wire>>

-----------------------------------------------------------------------------
Save(r) ==
    \/ SaveOpenAccount(r) \/ SaveCloseAccount(r)
    \/ SaveDeposit(r) \/ SaveWithdraw(r) \/ SaveTransfer(r)

(* Mutant: a page forgets to listen to refusals. *)
DeliverUnlessRefused(r) == Redirect(r) \/ Show(r)

Deliver(r) == Redirect(r) \/ Show(r) \/ Catch(r)

Serve(r) == Step(r) /\ UNCHANGED client
Break(r) == Fault(r) /\ UNCHANGED client

PagesNext ==
    \/ Visit
    \/ \E r \in Requests : Save(r) \/ Deliver(r)
    \/ \E r \in Requests : Arrive(r) \/ Lose(r) \/ Elsewhere(r)
    \/ \E r \in Requests : Serve(r) \/ Break(r)

PagesSpec == PagesInit /\ [][PagesNext]_<<vars, client>>

(* A call reaches the API unless its connection fails (Lose), the API goes *)
(* on with every request, and an answer reaches the page that awaits it.   *)
PagesFairSpec ==
    /\ PagesSpec
    /\ \A r \in Requests : /\ WF_<<vars, client>>(Arrive(r))
                           /\ WF_<<vars, client>>(Serve(r))
                           /\ WF_<<vars, client>>(Deliver(r))

-----------------------------------------------------------------------------
(* The tab and the wire hold what the pages put there. *)
PagesTypeOK ==
    /\ tab \in Page
    /\ tab.page \in OfAccount <=> tab.account # None
    /\ wire \in [Requests -> Inputs \cup {None}]

(* What was asked with a call, whether it has arrived or not. *)
Asked(r) == IF wire[r] # None THEN wire[r] ELSE In(r)

Posting == {"OpenAccount", "Deposit", "Withdraw", "Transfer"}

(* A page awaits the answers to its own calls only, each of them made with *)
(* its account, and follows a page whose own call was answered as it says. *)
PagesInv ==
    /\ PagesTypeOK
    /\ \A r \in Requests : wire[r] # None => At(r, "Idle")
    /\ \A r \in tab.waiting :
          /\ r \notin Fresh
          /\ tab.page \in Forms => Asked(r).op = tab.page /\ Asked(r).account = tab.account
    /\ tab.from # None =>
          /\ run[tab.from].answer # None
          /\ Op(tab.from) \in Posting => run[tab.from].answer = "Ok"
          /\ Op(tab.from) \in {"Deposit", "Withdraw", "Transfer"} => tab.account = In(tab.from).account

(* A form that posts leaves its place to the next page only once the       *)
(* posting is in the tables, on the account the next page is about: no     *)
(* error, no refusal, no answer to another page's call looks like success. *)
MovedOnMeansPosted ==
    LET r == tab.from
    IN  (r # None /\ Op(r) \in Posting) =>
          /\ Op(r) = "Deposit" => HasCredit(r, tab.account) \/ Erasing(tab.account)
          /\ Op(r) \in {"Withdraw", "Transfer"} => HasDebit(r, tab.account) \/ Erasing(tab.account)
          /\ Op(r) = "OpenAccount" => HasCredit(r, r) \/ Erasing(r)

(* What the next page shows was read after the posting: the user finds in  *)
(* it what was just posted, and no trace of the account just closed.       *)
PageShowsThePosting ==
    LET r == tab.from
        seen(entries) == \E e \in entries : e.id = r
    IN  (r # None /\ tab.showing # None /\ run[r].answer = "Ok") =>
          LET shown == run[tab.showing]
          IN  /\ Op(r) = "Deposit" => seen(shown.credits) \/ Erasing(tab.account)
              /\ Op(r) \in {"Withdraw", "Transfer"} => seen(shown.debits) \/ Erasing(tab.account)
              /\ Op(r) = "OpenAccount" => seen(shown.credits) \/ Erasing(r)
              /\ Op(r) = "CloseAccount" =>
                    EntriesOf(shown.credits \cup shown.debits, In(r).account) = {}

(* What that needs: a page's call asks for what the page shows, and has    *)
(* read what was posted before the page was there, or has yet to read it.  *)
ToRead(q, a) ==
    \/ run[q].at \in {"Idle", "List"} \/ run[q].next # None \/ run[q].missing
    \/ a \in run[q].listed
    \/ run[q].at = "LoadCredits" /\ run[q].loading = a

DebitsToRead(q, a) == ToRead(q, a) \/ (run[q].at = "LoadDebits" /\ run[q].loading = a)

ReadsAfter(q, r) ==
    LET a == tab.account
        seen(entries) == \E e \in entries : e.id = r
    IN  /\ Op(r) = "Deposit" => ToRead(q, a) \/ seen(run[q].credits) \/ Erasing(a)
        /\ Op(r) \in {"Withdraw", "Transfer"} => DebitsToRead(q, a) \/ seen(run[q].debits) \/ Erasing(a)
        /\ Op(r) = "OpenAccount" => ToRead(q, r) \/ seen(run[q].credits) \/ Erasing(r)
        /\ Op(r) = "CloseAccount" /\ run[r].answer = "Ok" =>
              EntriesOf(run[q].credits \cup run[q].debits, In(r).account) = {}

FollowUp(r) ==
    /\ tab.page = IF Op(r) \in {"OpenAccount", "CloseAccount"} THEN "Dashboard" ELSE "Account"
    /\ Op(r) = "OpenAccount" => In(r).user = Visitor
    /\ \A q \in tab.waiting \cup ({tab.showing} \ {None}) :
          Asked(q) = FetchCall(tab.page, tab.account) /\ ReadsAfter(q, r)

(* A request has read nothing before it came, and all when it shows it.    *)
ReadsInTime(q) ==
    /\ run[q].at = "Idle" \/ Op(q) = "GetAccounts" => run[q].next = None /\ ~run[q].missing
    /\ run[q].at = "Idle" => run[q].listed = {} /\ run[q].credits = {} /\ run[q].debits = {}
    /\ run[q].answer = "Ok" /\ Op(q) \in {"GetAccount", "GetAccounts"} =>
          run[q].at = "Resume" /\ run[q].next = None /\ run[q].listed = {} /\ ~run[q].missing

ReadingInv ==
    /\ \A q \in Requests : ReadsInTime(q) /\ (accounts[q] # None => accounts[q].owner = In(q).user)
    /\ \A r \in tab.waiting : tab.page \in Forms => Asked(r).user = Visitor
    /\ tab.showing # None => run[tab.showing].answer = "Ok"
    /\ tab.from # None => FollowUp(tab.from)

(* Every call a page awaits comes to an end for the page: it is answered,  *)
(* it fails, or the user leaves.                                           *)
CallsSettle == \A r \in Requests : r \in tab.waiting ~> r \notin tab.waiting

(* "The closed account id" is what status 200 brings (CloseAccount/        *)
(* AccountsController.cs): the page that goes on has closed the account.   *)
ClosedIdIsReturned ==
    (tab.from # None /\ Op(tab.from) = "CloseAccount") => run[tab.from].answer = "Ok"
=============================================================================
