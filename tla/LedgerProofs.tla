----------------------------- MODULE LedgerProofs -----------------------------
(***************************************************************************)
(* The accounts API over SQL implements the ledger, for any number of      *)
(* requests, accounts, users and currencies and any table of rates.        *)
(***************************************************************************)
EXTENDS LedgerRefinement, BalanceProofs

-----------------------------------------------------------------------------
(* Priced is inductive relative to IInv. *)

LEMMA CurrencyIsForGood ==
    ASSUME IInv, NEW r \in Requests, Receive(r) \/ Step(r) \/ Fault(r), NEW a, Opened(a)
    PROVE  CurrencyOf(a)' = CurrencyOf(a)
  BY RequestsMoveAlone, IdsAreDistinct DEF IInv, Moves, Opened, CurrencyOf, In

LEMMA RowsKeepTheirCurrency ==
    ASSUME IInv, Priced, NEW r \in Requests, Receive(r) \/ Step(r) \/ Fault(r),
           NEW a \in Ids, accounts'[a] # None
    PROVE  accounts'[a].currency = CurrencyOf(a)'
  <1>0. TypeOK /\ OnRoute(r)
    BY DEF IInv
  <1>1. CASE accounts'[a] = accounts[a]
    <2>1. Opened(a)
      BY <1>1 DEF IInv, RowsAreAccountedFor
    <2> QED
      BY <1>1, <2>1, CurrencyIsForGood DEF Priced
  <1>2. CASE accounts'[a] # accounts[a]
    <2>1. a = r /\ run[r].at = "SaveAccount" /\ run'[r].at = "Committed"
      BY <1>2, TablesMoveAsTheyShould DEF TablesMove
    <2>2. SaveAccount(r)
      BY <2>1, RequestsMoveAlone DEF IInv, Moves, Commits, SaveDebit, SaveCredit, DeleteAccount, At
    <2>3. accounts'[r] = [owner |-> In(r).user, currency |-> In(r).currency] /\ run'[r].input = run[r].input
      BY <1>0, <2>2 DEF SaveAccount, At, TypeOK, Ids, Scope
    <2> QED
      BY <2>1, <2>3, IdsAreDistinct DEF CurrencyOf, In
  <1> QED
    BY <1>1, <1>2

LEMMA MoneyStaysPriced ==
    ASSUME IInv, Priced, NEW r \in Requests, Receive(r) \/ Step(r) \/ Fault(r)
    PROVE  /\ run'[r].at = "SaveDebit" => run'[r].money \in Conversions(r, In(r).account)'
           /\ run'[r].at = "SaveCredit" => run'[r].money \in Conversions(r, Payee(In(r)))'
  <1>0. TypeOK /\ OnRoute(r) /\ Moves(r)
    BY RequestsMoveAlone DEF IInv
  <1>1. ASSUME run[r].at # "Idle", Opened(In(r).account), run'[r].money \in Conversions(r, In(r).account)
        PROVE  run'[r].money \in Conversions(r, In(r).account)'
    <2>1. run'[r].input = run[r].input
      BY <1>0, <1>1 DEF Moves
    <2>2. CurrencyOf(In(r).account)' = CurrencyOf(In(r).account)
      BY <1>0, <1>1, <2>1, IdsAreDistinct DEF Moves, Opened, CurrencyOf, In
    <2> QED
      BY <1>1, <2>1, <2>2 DEF Conversions, In
  <1>2. ASSUME run[r].at # "Idle", Opened(Payee(In(r))), run'[r].money \in Conversions(r, Payee(In(r)))
        PROVE  run'[r].money \in Conversions(r, Payee(In(r)))'
    <2>1. run'[r].input = run[r].input
      BY <1>0, <1>2 DEF Moves
    <2>2. CurrencyOf(Payee(In(r)))' = CurrencyOf(Payee(In(r)))
      BY <1>0, <1>2, <2>1, IdsAreDistinct DEF Moves, Opened, CurrencyOf, In, Payee
    <2> QED
      BY <1>2, <2>1, <2>2 DEF Conversions, In
  <1>3. /\ run'[r].at = "SaveDebit" => run[r].at # "Idle" /\ Opened(In(r).account)
                                       /\ run'[r].money \in Conversions(r, In(r).account)
        /\ run'[r].at = "SaveCredit" => run[r].at # "Idle" /\ Opened(Payee(In(r)))
                                        /\ run'[r].money \in Conversions(r, Payee(In(r)))
    <2>1. CASE ~Converts(r)
      BY <1>0, <2>1, OthersConvertNothing, SavesGoToOpenedAccounts DEF Priced
    <2>2. CASE Withdraw(r) \/ Transfer(r)
      <3>1. Opened(In(r).account) /\ run[r].at = "Resume"
        BY <2>2, FoundAccountsAreOpened DEF Withdraw, Transfer, Found, Loaded, At, Converting
      <3>2. PICK m \in Conversions(r, In(r).account) :
               \/ run' = [run EXCEPT ![r].money = m, ![r].filled = KeepsRates, ![r].at = "SaveDebit"]
               \/ run' = [run EXCEPT ![r].money = m, ![r].filled = KeepsRates, ![r].answer = "OutOfFunds"]
        BY <2>2 DEF Withdraw, Transfer, ConvertDebit
      <3>3. run'[r].money = m /\ run'[r].at \in {"SaveDebit", "Resume"}
        BY <1>0, <3>1, <3>2 DEF TypeOK, Scope
      <3> QED
        BY <3>1, <3>3
    <2>3. CASE Deposit(r) \/ CreditTransfer(r)
      <3>1. run[r].at # "Idle" /\ Op(r) \in {"Deposit", "Transfer"} /\ (Found(r) \/ At(r, "ConvertCredit"))
        BY <1>0, <2>3 DEF Deposit, CreditTransfer, Found, Loaded, At, OnRoute, Route, Input, UseCases, OnAccount, Op
      <3>2. Opened(Payee(In(r)))
        BY <3>1, FoundAccountsAreOpened DEF Payee, Converting, Op
      <3>3. PICK m \in Conversions(r, Payee(In(r))) : run'[r].money = m /\ run'[r].at = "SaveCredit"
        BY <1>0, <2>3 DEF Deposit, CreditTransfer, ConvertCredit, TypeOK, Scope
      <3> QED
        BY <3>1, <3>2, <3>3
    <2> QED
      BY <2>1, <2>2, <2>3 DEF Converts
  <1> QED
    BY <1>1, <1>2, <1>3

LEMMA OnlyNamedAccountsAreMissing ==
    ASSUME IInv, Priced, NEW r \in Requests, Receive(r) \/ Step(r) \/ Fault(r)
    PROVE  run'[r].missing \/ run'[r].next # None => run'[r].at # "Idle" /\ Op(r)' \in OnAccount
  <1>0. TypeOK /\ Moves(r)
    BY RequestsMoveAlone DEF IInv
  <1>1. CASE Receive(r)
    <2>1. PICK i \in Inputs :
             run' = IF Valid(i)
                    THEN [run EXCEPT ![r].input = i, ![r].at = FirstPoint(i), ![r].next = FirstLookup(i)]
                    ELSE [run EXCEPT ![r].input = i, ![r].answer = "Invalid"]
      BY <1>1 DEF Receive
    <2>2. run[r].at = "Idle" /\ ~run[r].missing /\ run[r].next = None
      BY <1>1 DEF Receive, At, Priced
    <2>3. FirstPoint(i) # "Idle"
      BY DEF FirstPoint
    <2>4. CASE Valid(i)
      <3>1. /\ run'[r].input = i /\ run'[r].at = FirstPoint(i) /\ run'[r].next = FirstLookup(i)
            /\ run'[r].missing = run[r].missing
        BY <1>0, <2>1, <2>4 DEF TypeOK, Scope
      <3> QED
        BY <2>2, <2>3, <3>1 DEF FirstLookup, Op, In
    <2>5. CASE ~Valid(i)
      <3>1. run'[r].next = run[r].next /\ run'[r].missing = run[r].missing
        BY <1>0, <2>1, <2>5 DEF TypeOK, Scope
      <3> QED
        BY <2>2, <3>1
    <2> QED
      BY <2>4, <2>5
  <1>2. CASE LookUp(r)
    <2>1. run[r].next # None /\ run[r].at = "Resume"
      BY <1>2 DEF LookUp, At
    <2> QED
      BY <1>0, <2>1 DEF Priced, Moves, Op, In
  <1>3. CASE ~Receive(r) /\ ~LookUp(r)
    BY <1>0, <1>3 DEF Priced, Moves, Op, In
  <1> QED
    BY <1>1, <1>2, <1>3

LEMMA PricedIsKept ==
    ASSUME IInv, Priced, NEW r \in Requests, Receive(r) \/ Step(r) \/ Fault(r)
    PROVE  Priced'
  <1>1. \A a \in Ids : accounts'[a] # None => accounts'[a].currency = CurrencyOf(a)'
    BY RowsKeepTheirCurrency
  <1>2. ASSUME NEW q \in Requests
        PROVE  /\ run'[q].at = "SaveDebit" => run'[q].money \in Conversions(q, In(q).account)'
               /\ run'[q].at = "SaveCredit" => run'[q].money \in Conversions(q, Payee(In(q)))'
               /\ run'[q].missing \/ run'[q].next # None => run'[q].at # "Idle" /\ Op(q)' \in OnAccount
    <2>1. CASE q = r
      BY <2>1, MoneyStaysPriced, OnlyNamedAccountsAreMissing
    <2>2. CASE q # r
      <3>1. run'[q] = run[q]
        BY <2>2, RequestsMoveAlone DEF IInv, Moves
      <3>2. run[q].at = "SaveDebit" => Conversions(q, In(q).account)' = Conversions(q, In(q).account)
        BY <3>1, SavesGoToOpenedAccounts, CurrencyIsForGood, IdsAreDistinct DEF Conversions, In, Opened, CurrencyOf
      <3>3. run[q].at = "SaveCredit" => Conversions(q, Payee(In(q)))' = Conversions(q, Payee(In(q)))
        BY <3>1, SavesGoToOpenedAccounts, CurrencyIsForGood, IdsAreDistinct DEF Conversions, In, Opened, CurrencyOf, Payee
      <3> QED
        BY <3>1, <3>2, <3>3 DEF Priced, Op, In
    <2> QED
      BY <2>1, <2>2
  <1> QED
    BY <1>1, <1>2 DEF Priced

-----------------------------------------------------------------------------
(* Steps of the API as steps of the ledger. *)

(* A step of one request moves that request only in the ledger, too. *)
LEMMA OneRequestIsSeenToMove ==
    ASSUME IInv, NEW r \in Requests, Receive(r) \/ Step(r) \/ Fault(r)
    PROVE  /\ Asked' = [Asked EXCEPT ![r] = run'[r].input]
           /\ Phase' = [Phase EXCEPT ![r] = PhaseAt(r)']
           /\ Answered' = [Answered EXCEPT ![r] = run'[r].answer]
  <1>1. \A q \in Requests \ {r} : run'[q] = run[q]
    BY RequestsMoveAlone DEF IInv, Moves
  <1>2. \A q \in Requests \ {r} : PhaseAt(q)' = PhaseAt(q)
    BY <1>1 DEF PhaseAt, Op, In
  <1> QED
    BY <1>1, <1>2 DEF Asked, Phase, Answered

(* A step that is only internal. *)
LEMMA QuietStep ==
    ASSUME IInv, NEW r \in Requests, Receive(r) \/ Step(r) \/ Fault(r), UNCHANGED tables,
           run'[r].input = run[r].input, run'[r].answer = run[r].answer, PhaseAt(r)' = PhaseAt(r)
    PROVE  UNCHANGED L!vars
  BY OneRequestIsSeenToMove DEF L!vars, tables, Asked, Phase, Answered

(* A step that only answers. *)
LEMMA AnsweringStep ==
    ASSUME IInv, NEW r \in Requests, Receive(r) \/ Step(r) \/ Fault(r), UNCHANGED tables,
           NEW a, Answer(r, a)
    PROVE  L!Answers(r, a)
  <1>1. /\ run'[r].input = run[r].input /\ run'[r].at = run[r].at /\ run'[r].answer = a
    BY DEF Answer, IInv, TypeOK, Scope
  <1>2. PhaseAt(r)' = PhaseAt(r)
    BY <1>1 DEF PhaseAt, Op, In
  <1>3. Asked' = Asked /\ Phase' = Phase /\ Answered' = [Answered EXCEPT ![r] = a]
    BY <1>1, <1>2, OneRequestIsSeenToMove DEF Asked, Phase
  <1> QED
    BY <1>3 DEF L!Answers, L!books, tables

(* A step that posts: the request is asked nothing new and not answered.   *)
LEMMA PostingStep ==
    ASSUME IInv, NEW r \in Requests, Receive(r) \/ Step(r) \/ Fault(r),
           run'[r].input = run[r].input, run'[r].answer = run[r].answer, NEW ph, PhaseAt(r)' = ph
    PROVE  L!Moves(r, ph)
  <1>1. Asked' = Asked /\ Answered' = Answered /\ Phase' = [Phase EXCEPT ![r] = ph]
    BY OneRequestIsSeenToMove DEF Asked, Answered
  <1> QED
    BY <1>1 DEF L!Moves

LEMMA SeenPending ==
    ASSUME IInv, NEW r \in Requests, run[r].answer = None, run[r].at # "Idle"
    PROVE  /\ Answered[r] = None /\ Phase[r] = PhaseAt(r) /\ Phase[r] # "new"
           /\ L!In(r) = In(r) /\ In(r) # None
           /\ L!Pending(r, Op(r), PhaseAt(r))
  <1>1. In(r) # None
    BY NoneIsNothing DEF IInv, OnRoute
  <1>2. PhaseAt(r) # "new"
    BY DEF PhaseAt
  <1> QED
    BY <1>1, <1>2 DEF Answered, Phase, Asked, L!In, L!Pending, In, Op

LEMMA ReceiveAsks ==
    ASSUME IInv, NEW r \in Requests, Receive(r)
    PROVE  L!Ask(r)
  <1>0. TypeOK /\ run[r].at = "Idle" /\ run[r].answer = None /\ UNCHANGED tables
    BY DEF IInv, Receive, At
  <1>1. PICK i \in Inputs :
           run' = IF Valid(i)
                  THEN [run EXCEPT ![r].input = i, ![r].at = FirstPoint(i), ![r].next = FirstLookup(i)]
                  ELSE [run EXCEPT ![r].input = i, ![r].answer = "Invalid"]
    BY DEF Receive
  <1>2. Phase[r] = "new" /\ Answered[r] = None
    BY <1>0 DEF Phase, Answered, PhaseAt
  <1>3. Asked' = [Asked EXCEPT ![r] = i]
    BY <1>0, <1>1, OneRequestIsSeenToMove DEF TypeOK, Scope
  <1>4. CASE Valid(i)
    <2>1. run'[r].at = FirstPoint(i) /\ run'[r].answer = None
      BY <1>0, <1>1, <1>4 DEF TypeOK, Scope
    <2>2. PhaseAt(r)' = "asked"
      BY <2>1 DEF PhaseAt, FirstPoint
    <2>3. Phase' = [Phase EXCEPT ![r] = "asked"] /\ Answered' = Answered
      BY <1>2, <2>1, <2>2, OneRequestIsSeenToMove DEF Answered
    <2> QED
      BY <1>0, <1>2, <1>3, <2>3 DEF L!Ask, L!books, tables
  <1>5. CASE ~Valid(i)
    <2>1. run'[r].at = "Idle" /\ run'[r].answer = "Invalid" /\ i.op # "GetAccounts"
      BY <1>0, <1>1, <1>5 DEF TypeOK, Scope, Valid
    <2>2. PhaseAt(r)' = "new"
      BY <2>1 DEF PhaseAt
    <2>3. Phase' = Phase /\ Answered' = [Answered EXCEPT ![r] = "Invalid"]
      BY <1>2, <2>1, <2>2, OneRequestIsSeenToMove DEF Phase
    <2> QED
      BY <1>0, <1>2, <1>3, <2>1, <2>3 DEF L!Ask, L!books, tables
  <1> QED
    BY <1>4, <1>5

(* Queries are not seen, nor is a check that is passed. *)
Queries(r) == LookUp(r) \/ ListAccounts(r) \/ NextAccount(r) \/ LoadCredits(r) \/ LoadDebits(r)

LEMMA QueriesAreQuiet ==
    ASSUME IInv, NEW r \in Requests, Queries(r)
    PROVE  UNCHANGED L!vars
  <1>0. TypeOK /\ Step(r) /\ UNCHANGED tables
    BY DEF IInv, Step, Repository, Queries, LookUp, ListAccounts, NextAccount, LoadCredits, LoadDebits
  <1>1. /\ run[r].at \in {"Resume", "List", "LoadCredits", "LoadDebits"}
        /\ run'[r].at \in {"Resume", "List", "LoadCredits", "LoadDebits"}
        /\ run'[r].input = run[r].input /\ run'[r].answer = run[r].answer
    <2>1. CASE LookUp(r)
      BY <1>0, <2>1 DEF LookUp, At, TypeOK, Scope
    <2>2. CASE ListAccounts(r)
      BY <1>0, <2>2 DEF ListAccounts, At, TypeOK, Scope
    <2>3. CASE NextAccount(r)
      BY <1>0, <2>3 DEF NextAccount, At, TypeOK, Scope
    <2>4. CASE LoadCredits(r)
      BY <1>0, <2>4 DEF LoadCredits, At, TypeOK, Scope
    <2>5. CASE LoadDebits(r)
      BY <1>0, <2>5 DEF LoadDebits, At, TypeOK, Scope
    <2> QED
      BY <2>1, <2>2, <2>3, <2>4, <2>5 DEF Queries
  <1>2. PhaseAt(r)' = PhaseAt(r)
    BY <1>1 DEF PhaseAt
  <1> QED
    BY <1>0, <1>1, <1>2, QuietStep

(* A use case refuses before it posts anything. *)
LEMMA RefusingStep ==
    ASSUME IInv, NEW r \in Requests, Loaded(r),
           NEW a \in L!MayRefuse(Op(r)), L!Answers(r, a)
    PROVE  L!Refuse(r)
  <1>1. Phase[r] = "asked" /\ Answered[r] = None /\ L!In(r).op = Op(r)
    BY DEF Loaded, At, Phase, Answered, PhaseAt, L!In, Asked, Op, In
  <1> QED
    BY <1>1 DEF L!Refuse

LEMMA NotFoundRefuses ==
    ASSUME IInv, Priced, NEW r \in Requests, AnswerNotFound(r)
    PROVE  L!Refuse(r)
  <1>1. Op(r) \in OnAccount /\ Loaded(r) /\ Step(r) /\ UNCHANGED tables /\ Answer(r, "NotFound")
    BY DEF Priced, AnswerNotFound, Step, UseCase
  <1>2. "NotFound" \in L!MayRefuse(Op(r))
    BY <1>1 DEF L!MayRefuse, OnAccount
  <1> QED
    BY <1>1, <1>2, AnsweringStep, RefusingStep

LEMMA ReadsShow ==
    ASSUME IInv, NEW r \in Requests, GetAccount(r) \/ GetAccounts(r)
    PROVE  L!Show(r)
  <1>1. /\ Op(r) \in {"GetAccount", "GetAccounts"} /\ Step(r) /\ UNCHANGED tables
        /\ Answer(r, "Ok") /\ run[r].at = "Resume" /\ run[r].answer = None
    BY DEF GetAccount, GetAccounts, Found, Loaded, At, Step, UseCase
  <1>2. L!Pending(r, Op(r), "asked")
    BY <1>1, SeenPending DEF PhaseAt
  <1> QED
    BY <1>1, <1>2, AnsweringStep DEF L!Show

LEMMA CloseChecks ==
    ASSUME IInv, NEW r \in Requests, CloseAccount(r)
    PROVE  L!Refuse(r) \/ UNCHANGED L!vars
  <1>0. TypeOK /\ Op(r) = "CloseAccount" /\ Loaded(r) /\ Step(r) /\ UNCHANGED tables
    BY DEF IInv, CloseAccount, Found, Step, UseCase
  <1>1. CASE Answer(r, "HasFunds")
    <2>1. "HasFunds" \in L!MayRefuse(Op(r))
      BY <1>0 DEF L!MayRefuse
    <2> QED
      BY <1>0, <1>1, <2>1, AnsweringStep, RefusingStep
  <1>2. CASE run' = [run EXCEPT ![r].at = "DeleteDebits"]
    <2>1. run[r].at = "Resume" /\ run'[r].at = "DeleteDebits"
          /\ run'[r].input = run[r].input /\ run'[r].answer = run[r].answer
      BY <1>0, <1>2 DEF Loaded, At, TypeOK, Scope
    <2> QED
      BY <1>0, <2>1, QuietStep DEF PhaseAt
  <1> QED
    BY <1>1, <1>2 DEF CloseAccount

LEMMA DebitChecks ==
    ASSUME IInv, NEW r \in Requests, Withdraw(r) \/ Transfer(r)
    PROVE  L!Refuse(r) \/ UNCHANGED L!vars
  <1>0. TypeOK /\ Op(r) \in {"Withdraw", "Transfer"} /\ Loaded(r) /\ Step(r) /\ UNCHANGED tables
    BY DEF IInv, Withdraw, Transfer, ConvertDebit, Found, Step, UseCase
  <1>1. PICK m \in Conversions(r, In(r).account) :
           \/ run' = [run EXCEPT ![r].money = m, ![r].filled = KeepsRates, ![r].at = "SaveDebit"]
           \/ run' = [run EXCEPT ![r].money = m, ![r].filled = KeepsRates, ![r].answer = "OutOfFunds"]
    BY DEF Withdraw, Transfer, ConvertDebit
  <1>2. run[r].at = "Resume" /\ run'[r].input = run[r].input
    BY <1>0, <1>1 DEF Loaded, At, TypeOK, Scope
  <1>3. CASE run'[r].at = "SaveDebit" /\ run'[r].answer = run[r].answer
    BY <1>0, <1>2, <1>3, QuietStep DEF PhaseAt
  <1>4. CASE run'[r].at = "Resume" /\ run'[r].answer = "OutOfFunds"
    <2>1. PhaseAt(r)' = PhaseAt(r)
      BY <1>2, <1>4 DEF PhaseAt
    <2>2. Asked' = Asked /\ Phase' = Phase /\ Answered' = [Answered EXCEPT ![r] = "OutOfFunds"]
      BY <1>0, <1>2, <1>4, <2>1, OneRequestIsSeenToMove DEF Asked, Phase
    <2>3. L!Answers(r, "OutOfFunds")
      BY <1>0, <2>2 DEF L!Answers, L!books, tables
    <2>4. "OutOfFunds" \in L!MayRefuse(Op(r))
      BY <1>0 DEF L!MayRefuse
    <2> QED
      BY <1>0, <2>3, <2>4, RefusingStep
  <1>5. \/ run'[r].at = "SaveDebit" /\ run'[r].answer = run[r].answer
        \/ run'[r].at = "Resume" /\ run'[r].answer = "OutOfFunds"
    BY <1>0, <1>1, <1>2 DEF TypeOK, Scope
  <1> QED
    BY <1>3, <1>4, <1>5

LEMMA CreditConversionIsQuiet ==
    ASSUME IInv, NEW r \in Requests, Deposit(r) \/ CreditTransfer(r)
    PROVE  UNCHANGED L!vars
  <1>0. TypeOK /\ OnRoute(r) /\ Step(r) /\ UNCHANGED tables
    BY DEF IInv, Deposit, CreditTransfer, ConvertCredit, Step, UseCase
  <1>1. run'[r].at = "SaveCredit" /\ run'[r].input = run[r].input /\ run'[r].answer = run[r].answer
    <2>1. PICK m \in Conversions(r, Payee(In(r))) :
             run' = [run EXCEPT ![r].money = m, ![r].filled = KeepsRates, ![r].at = "SaveCredit"]
      BY DEF Deposit, CreditTransfer, ConvertCredit
    <2> QED
      BY <1>0, <2>1 DEF TypeOK, Scope
  <1>2. \/ Op(r) = "Deposit" /\ run[r].at = "Resume"
        \/ Op(r) = "Transfer" /\ run[r].at = "ConvertCredit"
    BY <1>0 DEF Deposit, CreditTransfer, Found, Loaded, At, OnRoute, Route, Input, UseCases, OnAccount, Op
  <1>3. PhaseAt(r)' = PhaseAt(r)
    BY <1>1, <1>2 DEF PhaseAt, Op, In
  <1> QED
    BY <1>0, <1>1, <1>3, QuietStep

LEMMA ExceptionsFail ==
    ASSUME IInv, NEW r \in Requests, SaveThrows(r) \/ ConvertThrows(r) \/ Fault(r)
    PROVE  L!Fail(r)
  <1>1. /\ Step(r) \/ Fault(r)
        /\ UNCHANGED tables /\ Answer(r, "Error") /\ run[r].at # "Idle" /\ run[r].answer = None
    BY DEF SaveThrows, ForeignKeyFails, ConvertThrows, Fault, Found, Loaded, At, Step, Repository, UseCase
  <1> QED
    BY <1>1, SeenPending, AnsweringStep DEF L!Fail

LEMMA OkReports ==
    ASSUME IInv, NEW r \in Requests, AnswerOk(r)
    PROVE  L!Report(r)
  <1>1. Step(r) /\ UNCHANGED tables /\ Answer(r, "Ok") /\ run[r].at = "Committed" /\ run[r].answer = None
    BY DEF AnswerOk, At, Step, UseCase
  <1>2. PhaseAt(r) = "done"
    BY <1>1 DEF PhaseAt
  <1> QED
    BY <1>1, <1>2, SeenPending, AnsweringStep DEF L!Report

-----------------------------------------------------------------------------
(* Commands as postings. *)

LEMMA SaveOpens ==
    ASSUME IInv, NEW r \in Requests, SaveAccount(r)
    PROVE  L!Open(r)
  <1>0. TypeOK /\ OnRoute(r) /\ Step(r) /\ run[r].at = "SaveAccount" /\ run[r].answer = None
    BY DEF IInv, SaveAccount, At, Step, Repository
  <1>1. /\ accounts' = [accounts EXCEPT ![r] = [owner |-> In(r).user, currency |-> In(r).currency]]
        /\ credits' = credits \cup {[id |-> r, account |-> r, value |-> In(r).amount]}
        /\ debits' = debits
    BY DEF SaveAccount
  <1>2. run'[r].at = "Committed" /\ run'[r].input = run[r].input /\ run'[r].answer = run[r].answer
    BY <1>0 DEF SaveAccount, TypeOK, Scope
  <1>3. Op(r) = "OpenAccount" /\ PhaseAt(r) = "asked" /\ PhaseAt(r)' = "done"
    BY <1>0, <1>2 DEF OnRoute, Route, Input, UseCases, OnAccount, Op, PhaseAt
  <1>4. L!Pending(r, "OpenAccount", "asked") /\ L!In(r) = In(r)
    BY <1>0, <1>3, SeenPending
  <1>5. L!Moves(r, "done")
    BY <1>0, <1>2, <1>3, PostingStep
  <1> QED
    BY <1>1, <1>4, <1>5 DEF L!Open

(* Money that was priced makes an entry the ledger may post. *)
LEMMA EntryIsAPosting ==
    ASSUME Priced, NEW r \in Requests, NEW a \in Ids, accounts[a] # None, L!In(r) = In(r),
           run[r].money \in Conversions(r, a)
    PROVE  Entry(r, a) \in L!Postings(r, a)
  <1>1. accounts[a].currency = CurrencyOf(a)
    BY DEF Priced
  <1>2. PICK rate \in Rates : run[r].money = Converted(In(r).amount, rate, In(r).currency, CurrencyOf(a))
    BY DEF Conversions
  <1> QED
    BY <1>1, <1>2 DEF Entry, L!Postings, L!Converted, Converted, L!RoundedQuotient, RoundedQuotient

LEMMA SavePostsTheDebit ==
    ASSUME IInv, Priced, NEW r \in Requests, SaveDebit(r)
    PROVE  L!Withdraw(r) \/ L!PayOut(r)
  <1> DEFINE a == In(r).account
  <1>0. /\ TypeOK /\ OnRoute(r) /\ LookedUp(r) /\ Step(r)
        /\ run[r].at = "SaveDebit" /\ run[r].answer = None /\ accounts[a] # None
    BY DEF IInv, SaveDebit, At, Step, Repository
  <1>1. accounts' = accounts /\ credits' = credits /\ debits' = debits \cup {Entry(r, a)}
    BY DEF SaveDebit
  <1>2. run'[r].at = AfterDebit(In(r)) /\ run'[r].input = run[r].input /\ run'[r].answer = run[r].answer
    BY <1>0 DEF SaveDebit, TypeOK, Scope
  <1>3. Op(r) \in {"Withdraw", "Transfer"} /\ PhaseAt(r) = "asked"
    BY <1>0 DEF OnRoute, Route, Input, UseCases, OnAccount, Op, PhaseAt
  <1>4. L!Pending(r, Op(r), "asked") /\ L!In(r) = In(r)
    BY <1>0, <1>3, SeenPending
  <1>5. a \in Ids
    BY <1>0, SavesGoToOpenedAccounts, IdsAreDistinct DEF Opened, Ids
  <1>6. L!PostDebit(r)
    <2>1. run[r].money \in Conversions(r, a)
      BY <1>0 DEF Priced
    <2>2. Entry(r, a) \in L!Postings(r, a)
      BY <1>0, <1>4, <1>5, <2>1, EntryIsAPosting
    <2> QED
      BY <1>0, <1>1, <1>4, <2>2 DEF L!PostDebit
  <1>7. CASE Op(r) = "Withdraw"
    <2>1. PhaseAt(r)' = "done"
      BY <1>2, <1>7 DEF PhaseAt, AfterDebit, Op, In
    <2>2. L!Moves(r, "done")
      BY <1>0, <1>2, <2>1, PostingStep
    <2>3. OwnedOrGone(r)
      BY <1>0, <1>7, NoneIsNothing DEF LookedUp, OnAccount, OwnerOnly, Early, Op
    <2>4. L!Owned(r)
      BY <1>4, <2>3 DEF OwnedOrGone, L!Owned
    <2> QED
      BY <1>4, <1>6, <1>7, <2>2, <2>4 DEF L!Withdraw
  <1>8. CASE Op(r) = "Transfer"
    <2>1. PhaseAt(r)' = "debited"
      BY <1>2, <1>8 DEF PhaseAt, AfterDebit, Op, In
    <2>2. L!Moves(r, "debited")
      BY <1>0, <1>2, <2>1, PostingStep
    <2> QED
      BY <1>4, <1>6, <1>8, <2>2 DEF L!PayOut
  <1> QED
    BY <1>3, <1>7, <1>8

LEMMA SavePostsTheCredit ==
    ASSUME IInv, Priced, NEW r \in Requests, SaveCredit(r)
    PROVE  L!Deposit(r) \/ L!PayIn(r)
  <1> DEFINE a == Payee(In(r))
  <1>0. /\ TypeOK /\ OnRoute(r) /\ Step(r)
        /\ run[r].at = "SaveCredit" /\ run[r].answer = None /\ accounts[a] # None
    BY DEF IInv, SaveCredit, At, Step, Repository
  <1>1. accounts' = accounts /\ debits' = debits /\ credits' = credits \cup {Entry(r, a)}
    BY DEF SaveCredit
  <1>2. run'[r].at = "Committed" /\ run'[r].input = run[r].input /\ run'[r].answer = run[r].answer
    BY <1>0 DEF SaveCredit, TypeOK, Scope
  <1>3. Op(r) \in {"Deposit", "Transfer"}
    BY <1>0 DEF OnRoute, Route, Input, UseCases, OnAccount, Op
  <1>4. L!Pending(r, Op(r), PhaseAt(r)) /\ L!In(r) = In(r)
    BY <1>0, SeenPending
  <1>5. a \in Ids
    BY <1>0, SavesGoToOpenedAccounts, IdsAreDistinct DEF Opened, Ids
  <1>6. L!PostCredit(r, a)
    <2>1. run[r].money \in Conversions(r, a)
      BY <1>0 DEF Priced
    <2>2. Entry(r, a) \in L!Postings(r, a)
      BY <1>0, <1>4, <1>5, <2>1, EntryIsAPosting
    <2> QED
      BY <1>0, <1>1, <2>2 DEF L!PostCredit
  <1>7. L!Moves(r, "done")
    <2>1. PhaseAt(r)' = "done"
      BY <1>2 DEF PhaseAt
    <2> QED
      BY <1>0, <1>2, <2>1, PostingStep
  <1>8. CASE Op(r) = "Deposit"
    <2>1. PhaseAt(r) = "asked" /\ a = In(r).account
      BY <1>0, <1>8 DEF PhaseAt, Payee, Op
    <2> QED
      BY <1>4, <1>6, <1>7, <1>8, <2>1 DEF L!Deposit
  <1>9. CASE Op(r) = "Transfer"
    <2>1. PhaseAt(r) = "debited" /\ a = In(r).dest
      BY <1>0, <1>9 DEF PhaseAt, Payee, Op
    <2> QED
      BY <1>4, <1>6, <1>7, <1>9, <2>1 DEF L!PayIn
  <1> QED
    BY <1>3, <1>8, <1>9

(* The three commands of a close. *)
LEMMA DeletesErase ==
    ASSUME IInv, NEW r \in Requests, DeleteDebits(r) \/ DeleteCredits(r)
    PROVE  L!Erase(r)
  <1>0. /\ TypeOK /\ OnRoute(r) /\ LookedUp(r) /\ Step(r)
        /\ run[r].at \in {"DeleteDebits", "DeleteCredits"} /\ run[r].answer = None
    BY DEF IInv, DeleteDebits, DeleteCredits, At, Step, Repository
  <1>1. /\ accounts' = accounts
        /\ \/ debits' = debits \ EntriesOf(debits, In(r).account) /\ credits' = credits
           \/ credits' = credits \ EntriesOf(credits, In(r).account) /\ debits' = debits
    BY DEF DeleteDebits, DeleteCredits
  <1>2. /\ run'[r].at \in {"DeleteCredits", "DeleteAccount"}
        /\ run'[r].input = run[r].input /\ run'[r].answer = run[r].answer
    BY <1>0 DEF DeleteDebits, DeleteCredits, TypeOK, Scope
  <1>3. Op(r) = "CloseAccount" /\ PhaseAt(r) \in {"asked", "closing"} /\ PhaseAt(r)' = "closing"
    BY <1>0, <1>2 DEF OnRoute, Route, Input, UseCases, OnAccount, Op, PhaseAt
  <1>4. L!Pending(r, "CloseAccount", PhaseAt(r)) /\ L!In(r) = In(r)
    BY <1>0, <1>3, SeenPending
  <1>5. L!Owned(r)
    BY <1>0, <1>3, <1>4, NoneIsNothing DEF LookedUp, OnAccount, OwnerOnly, Early, OwnedOrGone, L!Owned
  <1>6. L!Moves(r, "closing")
    BY <1>0, <1>2, <1>3, PostingStep
  <1> QED
    BY <1>1, <1>3, <1>4, <1>5, <1>6 DEF L!Erase, L!Closing, L!EntriesOf, EntriesOf

LEMMA DeleteCloses ==
    ASSUME IInv, NEW r \in Requests, DeleteAccount(r)
    PROVE  L!Close(r)
  <1>0. /\ TypeOK /\ OnRoute(r) /\ LookedUp(r) /\ Step(r)
        /\ run[r].at = "DeleteAccount" /\ run[r].answer = None
    BY DEF IInv, DeleteAccount, At, Step, Repository
  <1>1. /\ accounts' = [accounts EXCEPT ![In(r).account] = None]
        /\ credits' = credits \ EntriesOf(credits, In(r).account)
        /\ debits' = debits \ EntriesOf(debits, In(r).account)
    BY DEF DeleteAccount, Cascade
  <1>2. run'[r].at = "Committed" /\ run'[r].input = run[r].input /\ run'[r].answer = run[r].answer
    BY <1>0 DEF DeleteAccount, TypeOK, Scope
  <1>3. Op(r) = "CloseAccount" /\ PhaseAt(r) = "closing" /\ PhaseAt(r)' = "done"
    BY <1>0, <1>2 DEF OnRoute, Route, Input, UseCases, OnAccount, Op, PhaseAt
  <1>4. L!Pending(r, "CloseAccount", "closing") /\ L!In(r) = In(r)
    BY <1>0, <1>3, SeenPending
  <1>5. L!Owned(r)
    BY <1>0, <1>3, <1>4, NoneIsNothing DEF LookedUp, OnAccount, OwnerOnly, Early, OwnedOrGone, L!Owned
  <1>6. L!Moves(r, "done")
    BY <1>0, <1>2, <1>3, PostingStep
  <1> QED
    BY <1>1, <1>4, <1>5, <1>6 DEF L!Close, L!EntriesOf, EntriesOf

-----------------------------------------------------------------------------
LEMMA StepsAreLedgerSteps ==
    ASSUME IInv, Priced, NEW r \in Requests, Receive(r) \/ Step(r) \/ Fault(r)
    PROVE  L!Next \/ UNCHANGED L!vars
  <1>1. CASE Receive(r)
    BY <1>1, ReceiveAsks DEF L!Next
  <1>2. CASE Queries(r)
    BY <1>2, QueriesAreQuiet
  <1>3. CASE AnswerNotFound(r)
    BY <1>3, NotFoundRefuses DEF L!Next
  <1>4. CASE GetAccount(r) \/ GetAccounts(r)
    BY <1>4, ReadsShow DEF L!Next
  <1>5. CASE CloseAccount(r)
    BY <1>5, CloseChecks DEF L!Next
  <1>6. CASE Withdraw(r) \/ Transfer(r)
    BY <1>6, DebitChecks DEF L!Next
  <1>7. CASE Deposit(r) \/ CreditTransfer(r)
    BY <1>7, CreditConversionIsQuiet
  <1>8. CASE SaveThrows(r) \/ ConvertThrows(r) \/ Fault(r)
    BY <1>8, ExceptionsFail DEF L!Next
  <1>9. CASE AnswerOk(r)
    BY <1>9, OkReports DEF L!Next
  <1>10. CASE SaveAccount(r)
    BY <1>10, SaveOpens DEF L!Next, L!Posts
  <1>11. CASE SaveDebit(r)
    BY <1>11, SavePostsTheDebit DEF L!Next, L!Posts
  <1>12. CASE SaveCredit(r)
    BY <1>12, SavePostsTheCredit DEF L!Next, L!Posts
  <1>13. CASE DeleteDebits(r) \/ DeleteCredits(r)
    BY <1>13, DeletesErase DEF L!Next, L!Posts
  <1>14. CASE DeleteAccount(r)
    BY <1>14, DeleteCloses DEF L!Next, L!Posts
  <1> QED
    BY <1>1, <1>2, <1>3, <1>4, <1>5, <1>6, <1>7, <1>8, <1>9, <1>10, <1>11, <1>12, <1>13, <1>14
       DEF Step, Repository, UseCase, Queries

(* Rows keep their currency, and money is saved as it was converted. *)
THEOREM MoneyIsPriced == Spec => []Priced
  <1>1. Init => Priced
    <2> SUFFICES ASSUME Init PROVE Priced
      OBVIOUS
    <2>1. \A a \in Ids : accounts[a] # None => a \in Seeds /\ accounts[a] = SeedAccounts[a]
      BY DEF Init
    <2>2. \A r \in Requests : run[r] = NewScope
      BY DEF Init
    <2> QED
      BY <2>1, <2>2 DEF Priced, CurrencyOf, NewScope
  <1>2. IInv /\ Priced /\ [Next]_vars => Priced'
    <2>1. ASSUME IInv, Priced, UNCHANGED vars PROVE Priced'
      BY <2>1 DEF vars, Priced, Conversions, CurrencyOf, Payee, Op, In
    <2> QED
      BY <2>1, PricedIsKept DEF Next, AllAnswered
  <1> QED
    BY <1>1, <1>2, Invariance, PTL DEF Spec

(* The use cases over AccountRepository and UnitOfWork implement the       *)
(* ledger: every await that changes the tables is one posting of it, and   *)
(* every other one an answer or nothing.                                   *)
THEOREM LedgerIsImplemented == Spec => ImplementsLedger
  <1>1. Init => L!Init
    <2> SUFFICES ASSUME Init PROVE L!Init
      OBVIOUS
    <2>1. \A r \in Requests : run[r].input = None /\ PhaseAt(r) = "new" /\ run[r].answer = None
      BY DEF Init, NewScope, PhaseAt
    <2> QED
      BY <2>1 DEF Init, Ids, L!Init, Asked, Phase, Answered
  <1>2. IInv /\ Priced /\ [Next]_vars => [L!Next]_L!vars
    <2>1. ASSUME UNCHANGED vars PROVE UNCHANGED L!vars
      BY <2>1 DEF vars, L!vars, Asked, Phase, Answered, PhaseAt, Op, In
    <2> QED
      BY <2>1, StepsAreLedgerSteps DEF Next, AllAnswered
  <1> QED
    BY <1>1, <1>2, Invariance, MoneyIsPriced, PTL DEF Spec, ImplementsLedger, L!Spec

=============================================================================
