-------------------------- MODULE WalletPagesProofs --------------------------
(***************************************************************************)
(* Proofs about the web client: composed with the pages the API keeps what *)
(* it promises, and no form that posts moves on before its posting.        *)
(***************************************************************************)
EXTENDS WalletPages, AccountsApiProofs

(* A step of the pages (Visit, Save, Deliver, ...) is one of the API       *)
(* beneath them, or leaves it alone.                                       *)
LEMMA PagesUseTheApi ==
    ASSUME [PagesNext]_<<vars, client>>
    PROVE  [Next]_vars
  BY DEF PagesNext, Next, vars, client, tables, Visit, Save, SaveOpenAccount, SaveCloseAccount, SaveDeposit,
         SaveWithdraw, SaveTransfer, Submit, Deliver, Redirect, Show, Catch, Arrive, Lose, Elsewhere, Serve, Break

(* The pages use the API as anybody else does: every behaviour of the      *)
(* composed system is one of the API, so what is proved of the API holds.  *)
THEOREM PagesRunTheApi == PagesSpec => Spec
  <1>1. PagesInit => Init
    BY DEF PagesInit
  <1>2. [PagesNext]_<<vars, client>> => [Next]_vars
    BY PagesUseTheApi
  <1> QED
    BY <1>1, <1>2, PTL DEF PagesSpec, Spec

-----------------------------------------------------------------------------
(* A request that has not arrived makes no step. *)
LEMMA StepsAreUnderWay ==
    ASSUME NEW r \in Requests, Step(r) \/ Fault(r)
    PROVE  run[r].at # "Idle"
  BY DEF Step, Repository, UseCase, Fault, At, LookUp, ListAccounts, NextAccount, LoadCredits, LoadDebits,
         SaveAccount, SaveDebit, SaveCredit, SaveThrows, ForeignKeyFails, DeleteDebits, DeleteCredits,
         DeleteAccount, Found, Loaded, AnswerNotFound, GetAccount, GetAccounts, CloseAccount, ConvertThrows,
         Withdraw, Transfer, Deposit, CreditTransfer, AnswerOk

LEMMA Received ==
    ASSUME TypeOK, NEW r \in Requests, Receive(r)
    PROVE  ~At(r, "Idle")'
  <1>1. PICK i \in Inputs :
           run' = IF Valid(i)
                  THEN [run EXCEPT ![r].input = i, ![r].at = FirstPoint(i), ![r].next = FirstLookup(i)]
                  ELSE [run EXCEPT ![r].input = i, ![r].answer = "Invalid"]
    BY DEF Receive
  <1> QED
    BY <1>1, NoneIsNothing DEF TypeOK, Scope, At, FirstPoint, Answers, Refusals

(* Steps of the API leave the pages as they should be. *)
LEMMA ApiStepsKeepPages ==
    ASSUME IInv, PagesInv, NEW r \in Requests, Receive(r) \/ Step(r) \/ Fault(r), UNCHANGED tab,
           \/ wire[r] = None /\ r \notin tab.waiting /\ UNCHANGED wire
           \/ ~Receive(r) /\ UNCHANGED wire
           \/ /\ wire[r] # None /\ Receive(r) /\ run'[r].input = wire[r]
              /\ wire' = [wire EXCEPT ![r] = None]
    PROVE  PagesInv'
  <1> USE DEF PagesInv
  <1>1. TypeOK /\ Moves(r)
    BY RequestsMoveAlone DEF IInv
  <1>2. PagesTypeOK'
    BY DEF PagesTypeOK
  <1>3. ~At(r, "Idle")'
    BY <1>1, Received, StepsAreUnderWay DEF Moves, At
  <1>4. \A q \in Requests \ {r} : run'[q] = run[q] /\ wire'[q] = wire[q]
    BY <1>1 DEF Moves, PagesTypeOK
  <1>5. wire'[r] = None
    BY StepsAreUnderWay DEF PagesTypeOK, At
  <1>6. \A q \in Requests : wire'[q] # None => At(q, "Idle")'
    BY <1>4, <1>5 DEF At
  <1>7. ASSUME NEW q \in tab'.waiting
        PROVE  q \notin Fresh' /\ (tab'.page \in Forms => Asked(q)'.op = tab'.page /\ Asked(q)'.account = tab'.account)
    <2>1. q \in Requests /\ q \in tab.waiting
      BY <1>7 DEF PagesTypeOK, Page
    <2>2. CASE q # r
      BY <2>1, <2>2, <1>4 DEF Fresh, Asked, In, At
    <2>3. CASE q = r
      <3>1. Asked(r)' = Asked(r)
        BY <2>1, <2>3, <1>1, <1>5, StepsAreUnderWay DEF Moves, Asked, In, At
      <3> QED
        BY <2>1, <2>3, <3>1, <1>3 DEF Fresh
    <2> QED
      BY <2>2, <2>3
  <1>8. tab.from # None => tab.from # r /\ tab.from \in Requests
    BY <1>1 DEF Moves, PagesTypeOK, Page
  <1> QED
    BY <1>2, <1>4, <1>6, <1>7, <1>8 DEF Op, In

(* A new page awaits at most the call it has just made. *)
LEMMA MountedPage ==
    ASSUME PagesInv, UNCHANGED vars, NEW page \in Pages, NEW account, NEW from \in Requests \cup {None},
           Mount(page, account, from),
           IF page \in OfAccount THEN account \in Ids ELSE account = None,
           from # None =>
              /\ run[from].answer # None
              /\ Op(from) \in Posting => run[from].answer = "Ok"
              /\ Op(from) \in {"Deposit", "Withdraw", "Transfer"} => account = In(from).account
    PROVE  PagesInv'
  <1> USE DEF PagesInv
  <1>1. run' = run
    BY DEF vars
  <1>2. None \notin Ids /\ None \notin Inputs
    BY NoneIsNothing, InputsAreTyped
  <1>3. CASE page \in Fetching /\ \E r \in Fresh : /\ tab' = NewPage(page, account, from, {r})
                                                  /\ wire' = [wire EXCEPT ![r] = FetchCall(page, account)]
    <2>1. PICK r \in Fresh : /\ tab' = NewPage(page, account, from, {r})
                             /\ wire' = [wire EXCEPT ![r] = FetchCall(page, account)]
      BY <1>3
    <2>2. FetchCall(page, account) \in Inputs
      BY <1>3, FetchesAreInputs DEF Fetching, OfAccount, Forms
    <2>3. r \in Requests /\ At(r, "Idle")
      BY DEF Fresh
    <2>4. PagesTypeOK'
      BY <2>1, <2>2, <2>3, <1>2 DEF PagesTypeOK, Page, NewPage
    <2>5. \A q \in Requests : wire'[q] # None => At(q, "Idle")'
      BY <2>1, <2>3, <1>1 DEF PagesTypeOK, At
    <2>6. tab'.waiting = {r} /\ wire'[r] # None
      BY <2>1, <2>2, <2>3, <1>2 DEF NewPage, PagesTypeOK
    <2>7. tab'.page \notin Forms /\ tab'.from = from /\ tab'.account = account
      BY <2>1, <1>3 DEF NewPage, Fetching, Forms
    <2> QED
      BY <2>4, <2>5, <2>6, <2>7, <1>1 DEF Fresh, Op, In
  <1>4. CASE tab' = NewPage(page, account, from, {}) /\ UNCHANGED wire
    <2>1. PagesTypeOK'
      BY <1>4, <1>2 DEF PagesTypeOK, Page, NewPage
    <2> QED
      BY <1>4, <2>1, <1>1 DEF NewPage, At, Op, In
  <1> QED
    BY <1>3, <1>4 DEF Mount

(* Each step of the tab or the wire leaves the pages as they should be. *)
LEMMA ClientStepsKeepPages ==
    ASSUME PagesInv, UNCHANGED vars,
           Visit \/ \E r \in Requests : Save(r) \/ Deliver(r) \/ Lose(r)
    PROVE  PagesInv'
  <1> USE DEF PagesInv
  <1>0. run' = run /\ None \notin Ids /\ None \notin Inputs /\ None \notin Answers
    BY NoneIsNothing, InputsAreTyped DEF vars
  <1>1. CASE Visit
    <2>1. PICK link \in Links : Mount(link[1], link[2], None)
      BY <1>1 DEF Visit
    <2>2. link \in (OfAccount \X Ids) \cup ((Pages \ OfAccount) \X {None})
      BY VisitorAndLinks
    <2>3. link[1] \in Pages /\ (IF link[1] \in OfAccount THEN link[2] \in Ids ELSE link[2] = None)
      BY <2>2 DEF OfAccount, Pages, Fetching
    <2> QED
      BY <2>1, <2>3, MountedPage
  <1>2. ASSUME NEW r \in Requests, NEW page \in Forms, Submit(page, r) PROVE PagesInv'
    <2>1. PICK i \in Inputs : i.op = page /\ i.account = tab.account /\ wire' = [wire EXCEPT ![r] = i]
      BY <1>2 DEF Submit
    <2>2. /\ tab.page = page /\ r \in Fresh
          /\ tab' = [tab EXCEPT !.waiting = @ \cup {r}]
      BY <1>2 DEF Submit
    <2>3. wire'[r] = i /\ i # None /\ \A q \in Requests \ {r} : wire'[q] = wire[q]
      BY <2>1, <1>0 DEF PagesTypeOK
    <2>4. PagesTypeOK'
      BY <2>1, <2>2 DEF PagesTypeOK, Page
    <2>5. tab'.page = tab.page /\ tab'.from = tab.from /\ tab'.account = tab.account /\ tab'.waiting = tab.waiting \cup {r}
      BY <2>2 DEF PagesTypeOK, Page
    <2>6. \A q \in tab.waiting : q \in Requests /\ q # r
      BY <2>2 DEF PagesTypeOK, Page
    <2>7. \A q \in tab'.waiting : q \notin Fresh' /\ Asked(q)'.op = page /\ Asked(q)'.account = tab.account
      BY <2>1, <2>2, <2>3, <2>5, <2>6, <1>0 DEF Fresh, Asked, In, At
    <2>8. \A q \in Requests : wire'[q] # None => At(q, "Idle")'
      BY <2>2, <2>3, <1>0 DEF Fresh, At
    <2> QED
      BY <2>2, <2>4, <2>5, <2>7, <2>8, <1>0 DEF Op, In
  <1>3. ASSUME NEW r \in Requests, Save(r) PROVE PagesInv'
    BY <1>2, <1>3 DEF Save, SaveOpenAccount, SaveCloseAccount, SaveDeposit, SaveWithdraw, SaveTransfer, Forms
  <1>4. ASSUME NEW r \in Requests, Redirect(r) PROVE PagesInv'
    <2>1. r \in tab.waiting /\ run[r].answer # None /\ tab.page \in Forms /\ Confirms(tab.page, run[r].answer)
      BY <1>4 DEF Redirect, Answered
    <2>2. wire[r] = None
      BY <2>1 DEF At
    <2>3. Op(r) = tab.page /\ In(r).account = tab.account
      BY <2>1, <2>2 DEF Asked, Op
    <2>4. Op(r) \in Posting => run[r].answer = "Ok"
      BY <2>1, <2>3 DEF Confirms, HasBody, Posting
    <2>5. CASE tab.page \in {"OpenAccount", "CloseAccount"}
      <3>1. Mount("Dashboard", None, r)
        BY <1>4, <2>5 DEF Redirect
      <3> QED
        BY <3>1, <2>1, <2>3, <2>4, <2>5, MountedPage DEF Pages, Fetching, OfAccount, Forms
    <2>6. CASE tab.page \notin {"OpenAccount", "CloseAccount"}
      <3>1. Mount("Account", tab.account, r)
        BY <1>4, <2>6 DEF Redirect
      <3>2. tab.account \in Ids
        BY <2>1, <2>6 DEF PagesTypeOK, Page, OfAccount, Forms
      <3> QED
        BY <3>1, <3>2, <2>1, <2>3, <2>4, MountedPage DEF Pages, Fetching, OfAccount
    <2> QED
      BY <2>5, <2>6
  <1>5. ASSUME NEW r \in Requests, Show(r) \/ Catch(r) \/ Lose(r) PROVE PagesInv'
    <2>1. /\ tab'.page = tab.page /\ tab'.account = tab.account /\ tab'.from = tab.from
          /\ tab'.waiting = tab.waiting \ {r} /\ tab' \in Page
      BY <1>5 DEF Show, Catch, Lose, PagesTypeOK, Page
    <2>2. \A q \in Requests : q # r => wire'[q] = wire[q]
      BY <1>5 DEF Show, Catch, Lose, PagesTypeOK
    <2>3. wire' = wire \/ wire' = [wire EXCEPT ![r] = None]
      BY <1>5 DEF Show, Catch, Lose
    <2>4. PagesTypeOK'
      BY <2>1, <2>3 DEF PagesTypeOK
    <2>5. \A q \in Requests : wire'[q] # None => At(q, "Idle")'
      BY <2>3, <1>0 DEF PagesTypeOK, At
    <2>6. \A q \in tab'.waiting : q \in tab.waiting /\ q \in Requests /\ q # r
      BY <2>1 DEF PagesTypeOK, Page
    <2>7. \A q \in tab'.waiting :
             q \notin Fresh' /\ (tab'.page \in Forms => Asked(q)'.op = tab'.page /\ Asked(q)'.account = tab'.account)
      BY <2>1, <2>2, <2>6, <1>0 DEF Fresh, Asked, In, At
    <2> QED
      BY <2>1, <2>4, <2>5, <2>7, <1>0 DEF Op, In
  <1> QED
    BY <1>1, <1>3, <1>4, <1>5 DEF Deliver

(* The pages hear the answers to their own calls only. *)
THEOREM PagesInvariance == PagesSpec => []PagesInv
  <1>1. PagesInit => PagesInv
    BY NoneIsNothing DEF PagesInit, PagesInv, PagesTypeOK, Page, Pages, OfAccount, Fetching, Forms
  <1>2. IInv /\ PagesInv /\ [PagesNext]_<<vars, client>> => PagesInv'
    <2> SUFFICES ASSUME IInv, PagesInv, [PagesNext]_<<vars, client>> PROVE PagesInv'
      OBVIOUS
    <2>1. ASSUME NEW r \in Requests, Arrive(r) PROVE PagesInv'
      BY <2>1, ApiStepsKeepPages DEF Arrive
    <2>2. ASSUME NEW r \in Requests, Elsewhere(r) PROVE PagesInv'
      <3>1. r \notin tab.waiting /\ wire[r] = None
        BY <2>2 DEF Elsewhere, PagesInv, Fresh
      <3> QED
        BY <2>2, <3>1, ApiStepsKeepPages DEF Elsewhere, client
    <2>3. ASSUME NEW r \in Requests, Serve(r) \/ Break(r) PROVE PagesInv'
      <3>1. ~Receive(r)
        BY <2>3, StepsAreUnderWay DEF Serve, Break, Receive, At
      <3> QED
        BY <2>3, <3>1, ApiStepsKeepPages DEF Serve, Break, client
    <2>4. CASE Visit \/ \E r \in Requests : Save(r) \/ Deliver(r) \/ Lose(r)
      <3>1. UNCHANGED vars
        BY <2>4 DEF Visit, Save, SaveOpenAccount, SaveCloseAccount, SaveDeposit, SaveWithdraw, SaveTransfer,
                    Submit, Deliver, Redirect, Show, Catch, Lose, vars
      <3> QED
        BY <2>4, <3>1, ClientStepsKeepPages
    <2>5. CASE UNCHANGED <<vars, client>>
      BY <2>5 DEF vars, client, PagesInv, PagesTypeOK, Fresh, Asked, At, Op, In
    <2> QED
      BY <2>1, <2>2, <2>3, <2>4, <2>5 DEF PagesNext
  <1> QED
    BY <1>1, <1>2, PagesRunTheApi, Invariance, PTL DEF PagesSpec

(* OpenAccount, Deposit, Withdraw and Transfer redirect only after their   *)
(* posting was saved, whatever is lost, late or answered with an error.    *)
THEOREM MovingOnMeansPosting == PagesSpec => []MovedOnMeansPosted
  <1>1. OkIsAReceipt /\ PagesInv => MovedOnMeansPosted
    <2>1. ASSUME OkIsAReceipt, PagesInv, tab.from # None, Op(tab.from) \in Posting
          PROVE  /\ tab.from \in Requests /\ run[tab.from].answer = "Ok"
                 /\ Op(tab.from) \in {"Deposit", "Withdraw", "Transfer"} => tab.account = In(tab.from).account
      BY <2>1 DEF PagesInv, PagesTypeOK, Page
    <2> QED
      BY <2>1 DEF OkIsAReceipt, MovedOnMeansPosted, Payee, Op
  <1> QED
    BY <1>1, PagesRunTheApi, ReceiptsAreHonoured, PagesInvariance, PTL

-----------------------------------------------------------------------------
(* What a page shows was read after the posting that led to it.            *)

LEMMA ReadsStayInTime ==
    ASSUME IInv, NEW r \in Requests, ReadsInTime(r), Receive(r) \/ Step(r) \/ Fault(r)
    PROVE  ReadsInTime(r)'
  <1>0. TypeOK /\ Moves(r) /\ OnRoute(r) /\ OnRoute(r)' /\ run[r].answer = None
    BY RequestsMoveAlone, RouteIsKept DEF IInv, Moves
  <1>1. CASE Receive(r)
    <2>1. PICK i \in Inputs :
             run' = IF Valid(i)
                    THEN [run EXCEPT ![r].input = i, ![r].at = FirstPoint(i), ![r].next = FirstLookup(i)]
                    ELSE [run EXCEPT ![r].input = i, ![r].answer = "Invalid"]
      BY <1>1 DEF Receive
    <2>2. run[r].at = "Idle"
      BY <1>1 DEF Receive, At
    <2>3. CASE Valid(i)
      <3>1. /\ run'[r].input = i /\ run'[r].at = FirstPoint(i) /\ run'[r].next = FirstLookup(i)
            /\ run'[r].missing = run[r].missing /\ run'[r].answer = None
        BY <1>0, <2>1, <2>3 DEF TypeOK, Scope
      <3>2. FirstPoint(i) # "Idle" /\ (i.op = "GetAccounts" => FirstLookup(i) = None)
        BY DEF FirstPoint, FirstLookup, OnAccount
      <3> QED
        BY <2>2, <3>1, <3>2, NoneIsNothing DEF ReadsInTime, Op, In, Answers
    <2>4. CASE ~Valid(i)
      <3>1. /\ run'[r].next = run[r].next /\ run'[r].missing = run[r].missing /\ run'[r].at = "Idle"
            /\ run'[r].listed = run[r].listed /\ run'[r].credits = run[r].credits
            /\ run'[r].debits = run[r].debits /\ run'[r].answer = "Invalid"
        BY <1>0, <2>1, <2>2, <2>4 DEF TypeOK, Scope
      <3> QED
        BY <2>2, <3>1 DEF ReadsInTime
    <2> QED
      BY <2>3, <2>4
  <1>2. CASE ~Receive(r)
    <2>1. run[r].at # "Idle" /\ run'[r].at # "Idle" /\ run'[r].input = run[r].input
      BY <1>0, <1>2 DEF Moves
    <2>2. Op(r) = "GetAccounts" => run'[r].next = None /\ ~run'[r].missing
      BY <1>0, <1>2 DEF Moves, ReadsInTime, LookUp
    <2>3. ASSUME run'[r].answer = "Ok", Op(r) \in {"GetAccount", "GetAccounts"}
          PROVE  run'[r].at = "Resume" /\ run'[r].next = None /\ run'[r].listed = {} /\ ~run'[r].missing
      <3>1. GetAccount(r) \/ GetAccounts(r)
        <4>1. run[r].at \notin {"SaveAccount", "SaveDebit", "ConvertCredit", "SaveCredit", "DeleteDebits",
                                "DeleteCredits", "DeleteAccount", "Committed"}
          BY <1>0, <2>1, <2>3 DEF OnRoute, Route
        <4>2. \A x : Answer(r, x) => x = "Ok"
          BY <1>0, <2>3 DEF Answer, TypeOK, Scope
        <4>3. "Ok" # None
          BY NoneIsNothing DEF Answers
        <4>4. ~LookUp(r) /\ ~ListAccounts(r)
          BY <1>0, <2>3, <4>3 DEF LookUp, ListAccounts, TypeOK, Scope
        <4>5. ~NextAccount(r) /\ ~LoadCredits(r) /\ ~LoadDebits(r)
          BY <1>0, <2>3, <4>3 DEF NextAccount, LoadCredits, LoadDebits, TypeOK, Scope
        <4>6. \/ AnswerNotFound(r) \/ GetAccount(r) \/ GetAccounts(r) \/ Fault(r)
              \/ ConvertThrows(r) /\ Answer(r, "Error")
          BY <1>2, <2>3, <4>1, <4>4, <4>5
             DEF Step, Repository, UseCase, At, SaveAccount, SaveDebit, SaveCredit, SaveThrows, ForeignKeyFails,
                 DeleteDebits, DeleteCredits, DeleteAccount, CloseAccount, ConvertThrows, Withdraw, Transfer,
                 Deposit, CreditTransfer, AnswerOk
        <4> QED
          BY <4>2, <4>6 DEF AnswerNotFound, Fault
      <3>2. run[r].at = "Resume" /\ run[r].next = None /\ run[r].listed = {} /\ ~run[r].missing
        BY <2>1, <3>1 DEF GetAccount, GetAccounts, Found, Loaded, At, ReadsInTime
      <3>3. run' = [run EXCEPT ![r].answer = "Ok"]
        BY <3>1 DEF GetAccount, GetAccounts, Answer
      <3> QED
        BY <1>0, <3>2, <3>3 DEF TypeOK, Scope
    <2> QED
      BY <2>1, <2>2, <2>3 DEF ReadsInTime, Op, In
  <1> QED
    BY <1>1, <1>2

(* A request that only reads: what it has read, and what it has yet to.    *)
LEMMA FetchesRead ==
    ASSUME IInv, NEW q \in Requests, ReadsInTime(q), Receive(q) \/ Step(q) \/ Fault(q),
           Op(q)' \in {"GetAccount", "GetAccounts"}, NEW a
    PROVE  /\ run[q].credits \subseteq run'[q].credits /\ run[q].debits \subseteq run'[q].debits
           /\ run'[q].credits \cup run'[q].debits
                 \subseteq run[q].credits \cup run[q].debits \cup credits \cup debits
           /\ ToRead(q, a) => \/ ToRead(q, a)' \/ EntriesOf(credits, a) \subseteq run'[q].credits
                              \/ ListAccounts(q)
           /\ DebitsToRead(q, a) => \/ DebitsToRead(q, a)' \/ EntriesOf(debits, a) \subseteq run'[q].debits
                                    \/ ListAccounts(q)
  <1>0. TypeOK /\ Moves(q) /\ OnRoute(q) /\ run[q] \in Scope
    BY RequestsMoveAlone DEF IInv, TypeOK
  <1> DEFINE Reads ==
         /\ run[q].credits \subseteq run'[q].credits /\ run[q].debits \subseteq run'[q].debits
         /\ run'[q].credits \cup run'[q].debits
               \subseteq run[q].credits \cup run[q].debits \cup credits \cup debits
         /\ ToRead(q, a) => \/ ToRead(q, a)' \/ EntriesOf(credits, a) \subseteq run'[q].credits
                            \/ ListAccounts(q)
         /\ DebitsToRead(q, a) => \/ DebitsToRead(q, a)' \/ EntriesOf(debits, a) \subseteq run'[q].debits
                                  \/ ListAccounts(q)
  <1>1. CASE Receive(q)
    <2>1. PICK i \in Inputs :
             run' = IF Valid(i)
                    THEN [run EXCEPT ![q].input = i, ![q].at = FirstPoint(i), ![q].next = FirstLookup(i)]
                    ELSE [run EXCEPT ![q].input = i, ![q].answer = "Invalid"]
      BY <1>1 DEF Receive
    <2>2. run'[q].credits = run[q].credits /\ run'[q].debits = run[q].debits
      BY <1>0, <2>1 DEF TypeOK, Scope
    <2>3. run[q].at = "Idle" /\ run'[q].input = i
      BY <1>0, <1>1, <2>1 DEF Receive, At, TypeOK, Scope
    <2>4. i.op = "GetAccount" => FirstLookup(i) # None
      BY NoneIsNothing DEF FirstLookup, OnAccount
    <2>5. i.op = "GetAccounts" => FirstPoint(i) = "List"
      BY DEF FirstPoint
    <2>6. i.op \in {"GetAccount", "GetAccounts"}
      BY <2>3 DEF Op, In
    <2>7. run'[q].at \in {"Idle", "List"} \/ run'[q].next # None
      <3>1. CASE Valid(i)
        <4>1. run'[q].at = FirstPoint(i) /\ run'[q].next = FirstLookup(i)
          BY <1>0, <2>1, <3>1 DEF TypeOK, Scope
        <4> QED
          BY <2>4, <2>5, <2>6, <4>1
      <3>2. CASE ~Valid(i)
        BY <1>0, <2>1, <2>3, <3>2 DEF TypeOK, Scope
      <3> QED
        BY <3>1, <3>2
    <2> QED
      BY <2>2, <2>7 DEF ToRead, DebitsToRead
  <1>2. CASE LookUp(q)
    <2>1. run[q].at = "Resume" /\ run[q].next # None
      BY <1>2 DEF LookUp, At
    <2>2. Op(q) \in {"GetAccount", "GetAccounts"}
      BY <1>0, <2>1 DEF Moves, Op, In
    <2>3. Op(q) = "GetAccount"
      BY <2>1, <2>2 DEF ReadsInTime
    <2>4. PICK b : \/ run' = [run EXCEPT ![q].next = None, ![q].loading = b, ![q].at = "LoadCredits"]
                   \/ run' = [run EXCEPT ![q].next = None, ![q].missing = TRUE]
      BY <1>2, <2>3 DEF LookUp, NextLookup
    <2> QED
      BY <1>0, <2>1, <2>4 DEF ToRead, DebitsToRead, TypeOK, Scope
  <1>3. CASE ListAccounts(q)
    <2>1. run'[q].credits = run[q].credits /\ run'[q].debits = run[q].debits
      BY <1>0, <1>3 DEF ListAccounts, TypeOK, Scope
    <2> QED
      BY <1>3, <2>1
  <1>4. CASE NextAccount(q)
    <2>1. PICK b \in run[q].listed :
             run' = [run EXCEPT ![q].loading = b, ![q].listed = @ \ {b}, ![q].at = "LoadCredits"]
      BY <1>4 DEF NextAccount
    <2>2. /\ run[q].at = "Resume" /\ run'[q].at = "LoadCredits" /\ run'[q].loading = b
          /\ run'[q].listed = run[q].listed \ {b} /\ run'[q].next = run[q].next
          /\ run'[q].missing = run[q].missing
          /\ run'[q].credits = run[q].credits /\ run'[q].debits = run[q].debits
      BY <1>0, <1>4, <2>1 DEF NextAccount, At, TypeOK, Scope
    <2> QED
      BY <2>2 DEF ToRead, DebitsToRead
  <1>5. CASE LoadCredits(q)
    <2>1. run' = [run EXCEPT ![q].credits = @ \cup EntriesOf(credits, run[q].loading), ![q].at = "LoadDebits"]
      BY <1>5 DEF LoadCredits
    <2>2. /\ run[q].at = "LoadCredits" /\ run'[q].at = "LoadDebits" /\ run'[q].loading = run[q].loading
          /\ run'[q].listed = run[q].listed /\ run'[q].next = run[q].next
          /\ run'[q].missing = run[q].missing /\ run'[q].debits = run[q].debits
          /\ run'[q].credits = run[q].credits \cup EntriesOf(credits, run[q].loading)
      BY <1>0, <1>5, <2>1 DEF LoadCredits, At, TypeOK, Scope
    <2>3. EntriesOf(credits, run[q].loading) \subseteq credits
      BY DEF EntriesOf
    <2> QED
      BY <2>2, <2>3 DEF ToRead, DebitsToRead
  <1>6. CASE LoadDebits(q)
    <2>1. run' = [run EXCEPT ![q].debits = @ \cup EntriesOf(debits, run[q].loading), ![q].at = "Resume"]
      BY <1>6 DEF LoadDebits
    <2>2. /\ run[q].at = "LoadDebits" /\ run'[q].at = "Resume" /\ run'[q].loading = run[q].loading
          /\ run'[q].listed = run[q].listed /\ run'[q].next = run[q].next
          /\ run'[q].missing = run[q].missing /\ run'[q].credits = run[q].credits
          /\ run'[q].debits = run[q].debits \cup EntriesOf(debits, run[q].loading)
      BY <1>0, <1>6, <2>1 DEF LoadDebits, At, TypeOK, Scope
    <2>3. EntriesOf(debits, run[q].loading) \subseteq debits
      BY DEF EntriesOf
    <2> QED
      BY <2>2, <2>3 DEF ToRead, DebitsToRead
  <1>7. ASSUME NEW x, Answer(q, x)
        PROVE  Reads
    <2>1. /\ run'[q].at = run[q].at /\ run'[q].loading = run[q].loading /\ run'[q].listed = run[q].listed
          /\ run'[q].next = run[q].next /\ run'[q].missing = run[q].missing
          /\ run'[q].credits = run[q].credits /\ run'[q].debits = run[q].debits
      BY <1>0, <1>7 DEF Answer, TypeOK, Scope
    <2> QED
      BY <2>1 DEF ToRead, DebitsToRead
  <1>8. ASSUME ~Receive(q), ~LookUp(q), ~ListAccounts(q), ~NextAccount(q), ~LoadCredits(q), ~LoadDebits(q)
        PROVE  \E x : Answer(q, x)
    <2>1. run[q].at # "Idle" /\ Op(q) \in {"GetAccount", "GetAccounts"}
      BY <1>0, <1>8 DEF Moves, Op, In
    <2>2. run[q].at \in {"List", "Resume", "LoadCredits", "LoadDebits"}
      BY <1>0, <2>1 DEF OnRoute, Route
    <2> QED
      BY <1>8, <2>1, <2>2
         DEF Step, Repository, UseCase, Fault, At, SaveAccount, SaveDebit, SaveCredit, SaveThrows, ForeignKeyFails,
             DeleteDebits, DeleteCredits, DeleteAccount, AnswerNotFound, GetAccount, GetAccounts, CloseAccount,
             ConvertThrows, Withdraw, Transfer, Deposit, CreditTransfer, AnswerOk
  <1> QED
    BY <1>1, <1>2, <1>3, <1>4, <1>5, <1>6, <1>7, <1>8

(* An account belongs to whom opened it. *)
LEMMA OpenersStayOwners ==
    ASSUME IInv, ReadingInv, NEW r \in Requests, Receive(r) \/ Step(r) \/ Fault(r),
           NEW q \in Requests, accounts'[q] # None
    PROVE  accounts'[q].owner = In(q)'.user
  <1>0. TypeOK /\ Moves(r) /\ TablesMove(r) /\ q \in Ids /\ q \notin Seeds
    BY RequestsMoveAlone, TablesMoveAsTheyShould, IdsAreDistinct DEF IInv, Ids
  <1>1. CASE accounts'[q] = accounts[q]
    <2>1. Opened(q)
      BY <1>0, <1>1 DEF IInv, RowsAreAccountedFor
    <2>2. run'[q].input = run[q].input
      BY <1>0, <2>1 DEF Opened, Moves
    <2> QED
      BY <1>1, <2>2 DEF ReadingInv, In
  <1>2. CASE accounts'[q] # accounts[q]
    <2>1. q = r /\ run[r].at = "SaveAccount" /\ run'[r].at = "Committed"
      BY <1>0, <1>2 DEF TablesMove
    <2>2. SaveAccount(r)
      BY <1>0, <2>1 DEF Moves, Commits, SaveDebit, SaveCredit, DeleteAccount, At
    <2>3. accounts'[r] = [owner |-> In(r).user, currency |-> In(r).currency] /\ run'[r].input = run[r].input
      BY <1>0, <2>2 DEF SaveAccount, At, TypeOK, Ids, Scope
    <2> QED
      BY <2>1, <2>3 DEF In
  <1> QED
    BY <1>1, <1>2

(* Steps of the API: those that read for the page that is shown, and all   *)
(* the others.                                                             *)
LEMMA ReadingGoesOn ==
    ASSUME IInv, OkIsAReceipt, MovedOnMeansPosted, PagesInv, ReadingInv, UNCHANGED tab,
           NEW p \in Requests, Receive(p) \/ Step(p) \/ Fault(p),
           NEW r \in Requests, r = tab.from, tab.from # None,
           NEW q \in Requests, ReadsAfter(q, r), q = p => Asked(q)' = FetchCall(tab.page, tab.account) /\ wire'[q] = None
    PROVE  ReadsAfter(q, r)'
  <1>0. TypeOK /\ Moves(p) /\ (\A a : Erasing(a) => Erasing(a)')
    BY RequestsMoveAlone, ErasingIsForGood DEF IInv
  <1>1. run[r].answer # None /\ p # r /\ run'[r] = run[r] /\ Op(r)' = Op(r) /\ In(r)' = In(r)
    BY <1>0 DEF PagesInv, Moves, Op, In
  <1> DEFINE a == tab.account
  <1>2. a' = a
    OBVIOUS
  <1> HIDE DEF a
  <1>3. FollowUp(r)
    BY DEF ReadingInv
  <1>4. CASE q # p
    <2>1. run'[q] = run[q]
      BY <1>0, <1>4 DEF Moves
    <2>2. \A x : ToRead(q, x)' = ToRead(q, x) /\ DebitsToRead(q, x)' = DebitsToRead(q, x)
      BY <2>1 DEF ToRead, DebitsToRead
    <2>3. Erasing(a) => Erasing(a)'
      BY <1>0, <1>2
    <2> QED
      BY <1>0, <1>1, <1>2, <2>1, <2>2, <2>3 DEF ReadsAfter, a
  <1>5. CASE q = p
    <2>1. In(q)' = FetchCall(tab.page, tab.account)
      BY <1>5 DEF Asked
    <2>2. Op(q)' = IF tab.page = "Account" THEN "GetAccount" ELSE "GetAccounts"
      BY <2>1 DEF Op, FetchCall
    <2>3. ASSUME NEW x
          PROVE  /\ run[q].credits \subseteq run'[q].credits /\ run[q].debits \subseteq run'[q].debits
                 /\ run'[q].credits \cup run'[q].debits
                       \subseteq run[q].credits \cup run[q].debits \cup credits \cup debits
                 /\ ToRead(q, x) => \/ ToRead(q, x)' \/ EntriesOf(credits, x) \subseteq run'[q].credits
                                    \/ ListAccounts(q)
                 /\ DebitsToRead(q, x) => \/ DebitsToRead(q, x)' \/ EntriesOf(debits, x) \subseteq run'[q].debits
                                          \/ ListAccounts(q)
      BY <1>5, <2>2, FetchesRead DEF ReadingInv
    <2>4. ListAccounts(q) => tab.page = "Dashboard"
      <3>1. ListAccounts(q) => run[q].at = "List" /\ run'[q].input = run[q].input
        BY <1>0, <1>5 DEF ListAccounts, At, Moves
      <3> QED
        BY <1>3, <2>2, <3>1 DEF FollowUp, IInv, OnRoute, Route, Op, In
    <2>5. CASE Op(r) = "Deposit"
      <3>1. HasCredit(r, a) \/ Erasing(a)
        BY <2>5 DEF MovedOnMeansPosted, Posting, a
      <3>2. ~ListAccounts(q)
        BY <1>3, <2>4, <2>5 DEF FollowUp
      <3>3. ToRead(q, a) \/ (\E e \in run[q].credits : e.id = r) \/ Erasing(a)
        BY <2>5 DEF ReadsAfter, a
      <3>4. ToRead(q, a)' \/ (\E e \in run'[q].credits : e.id = r) \/ Erasing(a)'
        BY <1>0, <1>2, <2>3, <3>1, <3>2, <3>3 DEF HasCredit, EntriesOf
      <3> QED
        BY <1>1, <2>5, <3>4 DEF ReadsAfter, a
    <2>6. CASE Op(r) \in {"Withdraw", "Transfer"}
      <3>1. HasDebit(r, a) \/ Erasing(a)
        BY <2>6 DEF MovedOnMeansPosted, Posting, a
      <3>2. ~ListAccounts(q)
        BY <1>3, <2>4, <2>6 DEF FollowUp
      <3>3. DebitsToRead(q, a) \/ (\E e \in run[q].debits : e.id = r) \/ Erasing(a)
        BY <2>6 DEF ReadsAfter, a
      <3>4. DebitsToRead(q, a)' \/ (\E e \in run'[q].debits : e.id = r) \/ Erasing(a)'
        BY <1>0, <1>2, <2>3, <3>1, <3>2, <3>3 DEF HasDebit, EntriesOf
      <3> QED
        BY <1>1, <2>6, <3>4 DEF ReadsAfter, a
    <2>7. CASE Op(r) = "OpenAccount"
      <3>1. HasCredit(r, r) \/ Erasing(r)
        BY <2>7 DEF MovedOnMeansPosted, Posting
      <3>2. ToRead(q, r) \/ (\E e \in run[q].credits : e.id = r) \/ Erasing(r)
        BY <2>7 DEF ReadsAfter
      <3>3. ASSUME ListAccounts(q), HasCredit(r, r) PROVE ToRead(q, r)'
        <4>1. accounts[r] # None /\ r \in Ids
          BY <3>3 DEF HasCredit, IInv, RowsAreAccountedFor, Ids
        <4>2. accounts[r].owner = Visitor
          BY <1>3, <2>7, <4>1 DEF ReadingInv, FollowUp
        <4>3. In(q).user = Visitor
          <5>1. run'[q].input = run[q].input
            BY <1>0, <1>5, <3>3 DEF ListAccounts, At, Moves
          <5> QED
            BY <2>1, <5>1 DEF In, FetchCall
        <4>4. run'[q].listed = {x \in Ids : accounts[x] # None /\ accounts[x].owner = In(q).user}
          BY <1>0, <3>3 DEF ListAccounts, TypeOK, Scope
        <4> QED
          BY <4>1, <4>2, <4>3, <4>4 DEF ToRead
      <3>4. ToRead(q, r)' \/ (\E e \in run'[q].credits : e.id = r) \/ Erasing(r)'
        BY <1>0, <2>3, <3>1, <3>2, <3>3 DEF HasCredit, EntriesOf
      <3> QED
        BY <1>1, <2>7, <3>4 DEF ReadsAfter
    <2>8. CASE Op(r) = "CloseAccount"
      <3>1. SUFFICES ASSUME run[r].answer = "Ok"
                     PROVE  EntriesOf(run'[q].credits \cup run'[q].debits, In(r).account) = {}
        BY <1>1, <2>8 DEF ReadsAfter
      <3>2. accounts[In(r).account] = None
        BY <2>8, <3>1 DEF OkIsAReceipt
      <3>3. \A e \in credits \cup debits : e.account # In(r).account
        BY <3>2 DEF IInv, RowsAreAccountedFor
      <3>4. \A e \in run[q].credits \cup run[q].debits : e.account # In(r).account
        BY <2>8, <3>1 DEF ReadsAfter, EntriesOf
      <3> QED
        BY <2>3, <3>3, <3>4 DEF EntriesOf
    <2>9. CASE Op(r) \notin {"Deposit", "Withdraw", "Transfer", "OpenAccount", "CloseAccount"}
      BY <1>1, <2>9 DEF ReadsAfter
    <2> QED
      BY <2>5, <2>6, <2>7, <2>8, <2>9
  <1> QED
    BY <1>4, <1>5

LEMMA ApiStepsKeepReading ==
    ASSUME IInv, OkIsAReceipt, MovedOnMeansPosted, PagesInv, ReadingInv, UNCHANGED tab,
           NEW p \in Requests, Receive(p) \/ Step(p) \/ Fault(p),
           \/ wire[p] = None /\ p \notin tab.waiting /\ UNCHANGED wire
           \/ ~Receive(p) /\ UNCHANGED wire
           \/ /\ wire[p] # None /\ Receive(p) /\ run'[p].input = wire[p]
              /\ wire' = [wire EXCEPT ![p] = None]
    PROVE  ReadingInv'
  <1>1. TypeOK /\ Moves(p) /\ PagesTypeOK
    BY RequestsMoveAlone DEF IInv, PagesInv
  <1>2. \A q \in Requests \ {p} : run'[q] = run[q] /\ wire'[q] = wire[q]
    BY <1>1 DEF Moves, PagesTypeOK
  <1>3. wire'[p] = None
    BY StepsAreUnderWay DEF PagesInv, PagesTypeOK, At
  <1>4. p \in tab.waiting => Asked(p)' = Asked(p)
    BY <1>1, <1>3, StepsAreUnderWay DEF PagesInv, Moves, Asked, In, At
  <1>5. \A q \in Requests \ {p} : Asked(q)' = Asked(q)
    BY <1>2 DEF Asked, In
  <1>6. tab.waiting \subseteq Requests /\ (tab.showing # None => tab.showing \in Requests)
        /\ (tab.from # None => tab.from \in Requests)
    BY <1>1 DEF PagesTypeOK, Page
  <1>7. "Ok" # None
    BY NoneIsNothing DEF Answers
  <1>8. \A q \in Requests : ReadsInTime(q)' /\ (accounts'[q] # None => accounts'[q].owner = In(q)'.user)
    <2>1. ReadsInTime(p)'
      BY ReadsStayInTime DEF ReadingInv
    <2>2. \A q \in Requests \ {p} : ReadsInTime(q)'
      BY <1>2 DEF ReadingInv, ReadsInTime, Op, In
    <2> QED
      BY <2>1, <2>2, OpenersStayOwners
  <1>9. \A q \in tab'.waiting : tab'.page \in Forms => Asked(q)'.user = Visitor
    BY <1>4, <1>5, <1>6 DEF ReadingInv
  <1>10. tab.showing # None => tab.showing # p /\ run'[tab.showing].answer = "Ok"
    BY <1>1, <1>2, <1>6, <1>7 DEF ReadingInv, Moves
  <1>11. ASSUME tab.from # None PROVE FollowUp(tab.from)'
    <2>1. PICK r \in Requests : r = tab.from
      BY <1>6, <1>11
    <2>2. FollowUp(r)
      BY <1>11, <2>1 DEF ReadingInv
    <2>3. r # p /\ run'[r] = run[r] /\ Op(r)' = Op(r) /\ In(r)' = In(r)
      BY <1>1, <1>11, <2>1 DEF PagesInv, Moves, Op, In
    <2>4. ASSUME NEW q \in tab.waiting \cup ({tab.showing} \ {None})
          PROVE  Asked(q)' = FetchCall(tab.page, tab.account) /\ ReadsAfter(q, r)'
      <3>1. q \in Requests /\ (q = p => q \in tab.waiting)
        BY <1>6, <1>10
      <3>2. Asked(q)' = Asked(q)
        BY <1>4, <1>5, <3>1
      <3>3. Asked(q) = FetchCall(tab.page, tab.account) /\ ReadsAfter(q, r)
        BY <2>2 DEF FollowUp
      <3> QED
        BY <1>3, <1>11, <2>1, <3>1, <3>2, <3>3, ReadingGoesOn
    <2>5. FollowUp(r)'
      BY <2>2, <2>3, <2>4 DEF FollowUp, FetchCall
    <2> QED
      BY <2>1, <2>5
  <1> QED
    BY <1>8, <1>9, <1>10, <1>11 DEF ReadingInv

(* A page that is mounted has yet to read what it shows. *)
LEMMA MountedReads ==
    ASSUME PagesInv, ReadingInv, UNCHANGED vars, NEW page \in Pages, NEW account,
           NEW from \in Requests \cup {None}, Mount(page, account, from),
           page \in OfAccount => account \in Ids, page \notin OfAccount => account = None,
           from # None =>
              /\ page = IF Op(from) \in {"OpenAccount", "CloseAccount"} THEN "Dashboard" ELSE "Account"
              /\ Op(from) = "OpenAccount" => In(from).user = Visitor
    PROVE  ReadingInv'
  <1>1. run' = run /\ accounts' = accounts
    BY DEF vars
  <1>2. tab'.page = page /\ tab'.account = account /\ tab'.from = from /\ tab'.showing = None
        /\ (page \in Forms => tab'.waiting = {})
    BY DEF Mount, NewPage, Fetching, Forms
  <1>3. \A q \in tab'.waiting : /\ q \in Requests /\ run[q].at = "Idle"
                                /\ Asked(q)' = FetchCall(page, account)
    <2>1. CASE tab'.waiting # {}
      <3>1. PICK q \in Fresh : /\ tab' = NewPage(page, account, from, {q}) /\ page \in Fetching
                               /\ wire' = [wire EXCEPT ![q] = FetchCall(page, account)]
        BY <2>1 DEF Mount, NewPage
      <3>2. FetchCall(page, account) \in Inputs
        BY <3>1, FetchesAreInputs DEF Fetching, OfAccount, Forms
      <3>3. wire'[q] # None /\ wire'[q] = FetchCall(page, account)
        BY <3>1, <3>2, NoneIsNothing, InputsAreTyped DEF Fresh, PagesInv, PagesTypeOK
      <3> QED
        BY <3>1, <3>3 DEF NewPage, Asked, Fresh, At
    <2> QED
      BY <2>1
  <1>4. \A q \in Requests : ReadsInTime(q)' /\ (accounts'[q] # None => accounts'[q].owner = In(q)'.user)
    BY <1>1 DEF ReadingInv, ReadsInTime, Op, In
  <1>5. ASSUME from # None PROVE FollowUp(from)'
    <2>1. Op(from)' = Op(from) /\ In(from)' = In(from)
      BY <1>1 DEF Op, In
    <2>2. ASSUME NEW q \in tab'.waiting PROVE ReadsAfter(q, from)'
      <3>1. \A x : ToRead(q, x)' /\ DebitsToRead(q, x)'
        BY <1>1, <1>3 DEF ToRead, DebitsToRead
      <3>2. run'[q].credits = {} /\ run'[q].debits = {}
        BY <1>1, <1>3 DEF ReadingInv, ReadsInTime
      <3>3. EntriesOf(run'[q].credits \cup run'[q].debits, In(from)'.account) = {}
        BY <3>2 DEF EntriesOf
      <3> QED
        BY <3>1, <3>3 DEF ReadsAfter
    <2> QED
      BY <1>2, <1>3, <1>5, <2>1, <2>2 DEF FollowUp, FetchCall
  <1> QED
    BY <1>2, <1>4, <1>5 DEF ReadingInv

LEMMA ClientStepsKeepReading ==
    ASSUME IInv, PagesInv, ReadingInv, UNCHANGED vars,
           Visit \/ \E r \in Requests : Save(r) \/ Deliver(r) \/ Lose(r)
    PROVE  ReadingInv'
  <1>0. /\ run' = run /\ accounts' = accounts /\ PagesTypeOK /\ tab.waiting \subseteq Requests
        /\ (tab.showing # None => tab.showing \in Requests)
    BY DEF vars, PagesInv, PagesTypeOK, Page
  <1>1. \A q \in Requests : ReadsInTime(q)' /\ (accounts'[q] # None => accounts'[q].owner = In(q)'.user)
    BY <1>0 DEF ReadingInv, ReadsInTime, Op, In
  <1>2. CASE Visit
    <2>1. PICK link \in Links : Mount(link[1], link[2], None)
      BY <1>2 DEF Visit
    <2>2. link \in (OfAccount \X Ids) \cup ((Pages \ OfAccount) \X {None})
      BY VisitorAndLinks
    <2>3. link[1] \in Pages /\ (link[1] \in OfAccount => link[2] \in Ids) /\ (link[1] \notin OfAccount => link[2] = None)
      BY <2>2 DEF OfAccount, Pages, Fetching
    <2> QED
      BY <2>1, <2>3, MountedReads
  <1>3. ASSUME NEW r \in Requests, Save(r) PROVE ReadingInv'
    <2>1. PICK i \in Inputs : i.user = Visitor /\ wire' = [wire EXCEPT ![r] = i]
      BY <1>3 DEF Save, SaveOpenAccount, SaveCloseAccount, SaveDeposit, SaveWithdraw, SaveTransfer, Submit
    <2>2. tab.page \in Forms /\ r \in Fresh /\ tab' = [tab EXCEPT !.waiting = @ \cup {r}]
      BY <1>3 DEF Save, SaveOpenAccount, SaveCloseAccount, SaveDeposit, SaveWithdraw, SaveTransfer, Submit, Forms
    <2>3. /\ tab'.page = tab.page /\ tab'.from = tab.from /\ tab'.showing = tab.showing
          /\ tab'.waiting = tab.waiting \cup {r}
      BY <1>0, <2>2 DEF PagesTypeOK, Page
    <2>4. tab.from = None
      <3>1. tab.page \notin Fetching
        BY <2>2 DEF Forms, Fetching
      <3> QED
        BY <3>1 DEF ReadingInv, FollowUp, Fetching
    <2>5. i # None
      BY NoneIsNothing, InputsAreTyped
    <2>6. \A q \in tab'.waiting : Asked(q)'.user = Visitor
      BY <1>0, <2>1, <2>2, <2>3, <2>5 DEF ReadingInv, Asked, In, PagesTypeOK
    <2> QED
      BY <1>0, <1>1, <2>3, <2>4, <2>6 DEF ReadingInv
  <1>4. ASSUME NEW r \in Requests, Redirect(r) PROVE ReadingInv'
    <2>1. r \in tab.waiting /\ run[r].answer # None /\ tab.page \in Forms
      BY <1>4 DEF Redirect, Answered
    <2>2. wire[r] = None
      BY <2>1 DEF PagesInv, At
    <2>3. Op(r) = tab.page /\ In(r).user = Visitor
      BY <2>1, <2>2 DEF PagesInv, ReadingInv, Asked, Op
    <2>4. CASE tab.page \in {"OpenAccount", "CloseAccount"}
      <3>1. Mount("Dashboard", None, r)
        BY <1>4, <2>4 DEF Redirect
      <3> QED
        BY <3>1, <2>3, <2>4, MountedReads DEF Pages, Fetching, OfAccount, Forms
    <2>5. CASE tab.page \notin {"OpenAccount", "CloseAccount"}
      <3>1. Mount("Account", tab.account, r)
        BY <1>4, <2>5 DEF Redirect
      <3>2. tab.account \in Ids
        BY <1>0, <2>1, <2>5 DEF PagesTypeOK, Page, OfAccount, Forms
      <3> QED
        BY <3>1, <3>2, <2>3, <2>5, MountedReads DEF Pages, Fetching, OfAccount
    <2> QED
      BY <2>4, <2>5
  <1>5. ASSUME NEW r \in Requests, Show(r) \/ Catch(r) \/ Lose(r) PROVE ReadingInv'
    <2>1. /\ tab'.page = tab.page /\ tab'.account = tab.account /\ tab'.from = tab.from
          /\ tab'.waiting = tab.waiting \ {r} /\ r \in tab.waiting
          /\ tab'.showing = tab.showing \/ (tab'.showing = r /\ run[r].answer = "Ok")
      BY <1>0, <1>5 DEF Show, Catch, Lose, PagesTypeOK, Page, Answered, HasBody
    <2>2. \A q \in Requests : q # r => wire'[q] = wire[q]
      BY <1>0, <1>5 DEF Show, Catch, Lose, PagesTypeOK
    <2>3. wire'[r] = wire[r] \/ wire'[r] = None
      BY <1>0, <1>5 DEF Show, Catch, Lose, PagesTypeOK
    <2>4. "Ok" # None
      BY NoneIsNothing DEF Answers
    <2>5. tab'.showing # None => run[tab'.showing].answer = "Ok" /\ tab'.showing \in Requests
      BY <1>0, <2>1 DEF ReadingInv
    <2>6. \A q \in Requests : run[q].answer = "Ok" => wire[q] = None
      BY <2>4 DEF PagesInv, At
    <2>7. \A q \in tab'.waiting \cup ({tab'.showing} \ {None}) :
             /\ q \in tab.waiting \cup ({tab.showing} \ {None}) /\ q \in Requests
             /\ Asked(q)' = Asked(q)
      BY <1>0, <2>1, <2>2, <2>3, <2>5, <2>6 DEF Asked, In
    <2>8. ASSUME tab.from # None PROVE FollowUp(tab.from)'
      <3>1. FollowUp(tab.from) /\ Op(tab.from)' = Op(tab.from) /\ In(tab.from)' = In(tab.from)
        BY <1>0, <2>1, <2>8 DEF ReadingInv, Op, In
      <3>2. ASSUME NEW q, ReadsAfter(q, tab.from) PROVE ReadsAfter(q, tab.from)'
        <4>1. \A x : ToRead(q, x)' = ToRead(q, x) /\ DebitsToRead(q, x)' = DebitsToRead(q, x)
                     /\ Erasing(x)' = Erasing(x)
          BY <1>0 DEF ToRead, DebitsToRead, Erasing, Op, In
        <4> QED
          BY <1>0, <2>1, <3>1, <3>2, <4>1 DEF ReadsAfter
      <3> QED
        BY <2>1, <2>7, <3>1, <3>2 DEF FollowUp, FetchCall
    <2>9. \A q \in tab'.waiting : tab'.page \in Forms => Asked(q)'.user = Visitor
      BY <2>1, <2>7 DEF ReadingInv
    <2> QED
      BY <1>0, <1>1, <2>1, <2>5, <2>8, <2>9 DEF ReadingInv
  <1> QED
    BY <1>2, <1>3, <1>4, <1>5 DEF Deliver

(* Whatever other requests do in between, a page has its reading after the *)
(* posting it follows.                                                     *)
THEOREM ReadingInvariance == PagesSpec => []ReadingInv
  <1>1. PagesInit => ReadingInv
    <2> SUFFICES ASSUME PagesInit PROVE ReadingInv
      OBVIOUS
    <2>1. \A q \in Requests : run[q] = NewScope /\ accounts[q] = None
      BY IdsAreDistinct DEF PagesInit, Init, Ids
    <2>2. tab.waiting = {} /\ tab.showing = None /\ tab.from = None
      BY DEF PagesInit
    <2>3. "Ok" # None
      BY NoneIsNothing DEF Answers
    <2> QED
      BY <2>1, <2>2, <2>3 DEF ReadingInv, ReadsInTime, NewScope
  <1>2. /\ IInv /\ OkIsAReceipt /\ MovedOnMeansPosted /\ PagesInv /\ ReadingInv
        /\ [PagesNext]_<<vars, client>>
        => ReadingInv'
    <2> SUFFICES ASSUME IInv, OkIsAReceipt, MovedOnMeansPosted, PagesInv, ReadingInv,
                        [PagesNext]_<<vars, client>>
                 PROVE  ReadingInv'
      OBVIOUS
    <2>1. ASSUME NEW r \in Requests, Arrive(r) PROVE ReadingInv'
      BY <2>1, ApiStepsKeepReading DEF Arrive
    <2>2. ASSUME NEW r \in Requests, Elsewhere(r) PROVE ReadingInv'
      <3>1. r \notin tab.waiting /\ wire[r] = None
        BY <2>2 DEF Elsewhere, PagesInv, Fresh
      <3> QED
        BY <2>2, <3>1, ApiStepsKeepReading DEF Elsewhere, client
    <2>3. ASSUME NEW r \in Requests, Serve(r) \/ Break(r) PROVE ReadingInv'
      <3>1. ~Receive(r)
        BY <2>3, StepsAreUnderWay DEF Serve, Break, Receive, At
      <3> QED
        BY <2>3, <3>1, ApiStepsKeepReading DEF Serve, Break, client
    <2>4. CASE Visit \/ \E r \in Requests : Save(r) \/ Deliver(r) \/ Lose(r)
      <3>1. UNCHANGED vars
        BY <2>4 DEF Visit, Save, SaveOpenAccount, SaveCloseAccount, SaveDeposit, SaveWithdraw, SaveTransfer,
                    Submit, Deliver, Redirect, Show, Catch, Lose, vars
      <3> QED
        BY <2>4, <3>1, ClientStepsKeepReading
    <2>5. CASE UNCHANGED <<vars, client>>
      BY <2>5 DEF vars, client, ReadingInv, ReadsInTime, FollowUp, FetchCall, ReadsAfter, ToRead, DebitsToRead,
                  Erasing, Asked, Op, In
    <2> QED
      BY <2>1, <2>2, <2>3, <2>4, <2>5 DEF PagesNext
  <1> QED
    BY <1>1, <1>2, PagesRunTheApi, Invariance, ReceiptsAreHonoured, PagesInvariance, MovingOnMeansPosting, PTL
       DEF PagesSpec

(* The page a form leads to shows what was just posted, and nothing of the *)
(* account just closed, however its queries fall between other requests.   *)
THEOREM PagesShowThePosting == PagesSpec => []PageShowsThePosting
  <1>1. PagesInv /\ ReadingInv => PageShowsThePosting
    <2> SUFFICES ASSUME PagesInv, ReadingInv, NEW r, r = tab.from, r # None, tab.showing # None,
                        run[r].answer = "Ok", NEW q, q = tab.showing
                 PROVE  /\ Op(r) = "Deposit" =>
                              (\E e \in run[q].credits : e.id = r) \/ Erasing(tab.account)
                        /\ Op(r) \in {"Withdraw", "Transfer"} =>
                              (\E e \in run[q].debits : e.id = r) \/ Erasing(tab.account)
                        /\ Op(r) = "OpenAccount" => (\E e \in run[q].credits : e.id = r) \/ Erasing(r)
                        /\ Op(r) = "CloseAccount" =>
                              EntriesOf(run[q].credits \cup run[q].debits, In(r).account) = {}
      BY DEF PageShowsThePosting
    <2>1. q \in Requests /\ run[q].answer = "Ok"
      BY DEF PagesInv, PagesTypeOK, Page, ReadingInv
    <2>2. wire[q] = None
      BY <2>1, NoneIsNothing DEF PagesInv, At, Answers
    <2>3. Asked(q) = FetchCall(tab.page, tab.account) /\ ReadsAfter(q, r)
      BY DEF ReadingInv, FollowUp
    <2>4. Op(q) \in {"GetAccount", "GetAccounts"}
      BY <2>2, <2>3 DEF Asked, Op, FetchCall
    <2>5. \A x : ~ToRead(q, x) /\ ~DebitsToRead(q, x)
      BY <2>1, <2>4 DEF ReadingInv, ReadsInTime, ToRead, DebitsToRead
    <2> QED
      BY <2>3, <2>5 DEF ReadsAfter
  <1> QED
    BY <1>1, PagesInvariance, ReadingInvariance, PTL

=============================================================================
