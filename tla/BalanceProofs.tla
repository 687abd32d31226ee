---------------------------- MODULE BalanceProofs ----------------------------
(***************************************************************************)
(* What the entries in the tables are worth, for any number of requests,   *)
(* accounts, users and currencies and any table of rates: a transfer makes *)
(* no money, and a balance below zero or money deleted by a close takes    *)
(* requests that had loaded the account before the other one saved.        *)
(***************************************************************************)
EXTENDS AccountsApiProofs, AccountDomainProofs

LEMMA ConversionKeepsTheAmount ==
    ASSUME IInv, NEW r \in Requests, NEW a, Opened(a), run[r].at # "Idle",
           Op(r) \in Converting, NEW m \in Conversions(r, a)
    PROVE  AmountAsNamed(r, a, m)
  <1>1. In(r).amount \in Nat /\ In(r).currency \in Currencies
    BY NoneIsNothing DEF IInv, OnRoute, Input, Valid, ValidDeposit, ValidWithdraw, ValidTransfer, Op, Converting
  <1>2. PICK rate \in Rates : m = Converted(In(r).amount, rate, In(r).currency, CurrencyOf(a))
    BY DEF Conversions
  <1>3. rate[In(r).currency] \in Nat \ {0}
    BY <1>1, RatesArePositive
  <1>4. ASSUME CurrencyOf(a) = In(r).currency PROVE m = In(r).amount
    <2>1. m = RoundedQuotient(In(r).amount * rate[In(r).currency], rate[In(r).currency])
      BY <1>2, <1>4 DEF Converted
    <2> QED
      BY <1>1, <1>3, <2>1, QuotientOfAMultiple
  <1> QED
    BY <1>4 DEF AmountAsNamed

(* The entries a step may add. *)
LEMMA EntriesWritten ==
    ASSUME NEW r \in Requests, Receive(r) \/ Step(r) \/ Fault(r)
    PROVE  /\ \A d \in debits' : d \in debits \/ (SaveDebit(r) /\ d = Entry(r, In(r).account))
           /\ \A c \in credits' :
                 c \in credits \/ (SaveCredit(r) /\ c = Entry(r, Payee(In(r)))) \/ (SaveAccount(r) /\ c.id = r)
  <1>1. CASE ~Writes(r)
    BY <1>1, OthersOnlyRead DEF tables
  <1>2. CASE SaveAccount(r)
    <2>1. debits' = debits
      BY <1>2 DEF SaveAccount
    <2>2. credits' = credits \cup {[id |-> r, account |-> r, value |-> In(r).amount]}
      BY <1>2 DEF SaveAccount
    <2> QED
      BY <1>2, <2>1, <2>2
  <1>3. CASE SaveDebit(r)
    <2>1. credits' = credits /\ debits' = debits \cup {Entry(r, In(r).account)}
      BY <1>3 DEF SaveDebit
    <2> QED
      BY <1>3, <2>1
  <1>4. CASE SaveCredit(r)
    <2>1. debits' = debits /\ credits' = credits \cup {Entry(r, Payee(In(r)))}
      BY <1>4 DEF SaveCredit
    <2> QED
      BY <1>4, <2>1
  <1>5. CASE DeleteDebits(r) \/ DeleteCredits(r) \/ DeleteAccount(r)
    <2>1. debits' \subseteq debits /\ credits' \subseteq credits
      BY <1>5 DEF DeleteDebits, DeleteCredits, DeleteAccount, Cascade
    <2> QED
      BY <2>1
  <1> QED
    BY <1>1, <1>2, <1>3, <1>4, <1>5 DEF Writes

(* Money is converted by the four actions that call the exchange, and only *)
(* they lead to the point where an entry of it is saved.                   *)
Converts(r) == Withdraw(r) \/ Transfer(r) \/ Deposit(r) \/ CreditTransfer(r)

LEMMA OthersConvertNothing ==
    ASSUME TypeOK, NEW r \in Requests, Receive(r) \/ Step(r) \/ Fault(r), ~Converts(r),
           run'[r].at \in {"SaveDebit", "SaveCredit"}
    PROVE  run'[r].at = run[r].at /\ run'[r].money = run[r].money
  <1> USE DEF TypeOK, Scope, At, Answer
  <1>1. CASE Receive(r)
    <2>1. PICK i \in Inputs :
             run' = IF Valid(i)
                    THEN [run EXCEPT ![r].input = i, ![r].at = FirstPoint(i), ![r].next = FirstLookup(i)]
                    ELSE [run EXCEPT ![r].input = i, ![r].answer = "Invalid"]
      BY <1>1 DEF Receive
    <2>2. run[r].at = "Idle"
      BY <1>1 DEF Receive
    <2>3. run'[r].at \in {"Idle", "SaveAccount", "List", "Resume"}
      BY <2>1, <2>2 DEF FirstPoint
    <2> QED
      BY <2>3
  <1>2. CASE LookUp(r)
    BY <1>2 DEF LookUp
  <1>8. CASE NextAccount(r)
    BY <1>8 DEF NextAccount
  <1>9. CASE LoadCredits(r) \/ LoadDebits(r)
    BY <1>9 DEF LoadCredits, LoadDebits
  <1>3. CASE ListAccounts(r)
    BY <1>3 DEF ListAccounts
  <1>4. CASE SaveAccount(r) \/ SaveDebit(r) \/ SaveCredit(r) \/ SaveThrows(r)
    BY <1>4 DEF SaveAccount, SaveDebit, SaveCredit, SaveThrows, AfterDebit
  <1>5. CASE DeleteDebits(r) \/ DeleteCredits(r) \/ DeleteAccount(r)
    BY <1>5 DEF DeleteDebits, DeleteCredits, DeleteAccount
  <1>6. CASE AnswerNotFound(r) \/ GetAccount(r) \/ GetAccounts(r) \/ CloseAccount(r) \/ ConvertThrows(r)
    BY <1>6 DEF AnswerNotFound, GetAccount, GetAccounts, CloseAccount, ConvertThrows
  <1>7. CASE AnswerOk(r) \/ Fault(r)
    BY <1>7 DEF AnswerOk, Fault
  <1> QED
    BY <1>1, <1>2, <1>3, <1>4, <1>5, <1>6, <1>7, <1>8, <1>9 DEF Step, Repository, UseCase, Converts

(* An account about to get an entry was opened by somebody. *)
LEMMA SavesGoToOpenedAccounts ==
    ASSUME IInv, NEW q \in Requests
    PROVE  /\ run[q].at = "SaveDebit" => Opened(In(q).account)
           /\ run[q].at = "SaveCredit" => Opened(Payee(In(q)))
  <1>1. LookedUp(q) /\ OnRoute(q)
    BY DEF IInv
  <1>2. ASSUME run[q].at \in {"SaveDebit", "SaveCredit"}
        PROVE  Op(q) \in {"Deposit", "Withdraw", "Transfer"}
    BY <1>1, <1>2 DEF OnRoute, Route, Input, UseCases, OnAccount, Op
  <1> QED
    BY <1>1, <1>2, NoneIsNothing DEF LookedUp, Early, OnAccount, Payee, Op

LEMMA MoneyStaysAsNamed ==
    ASSUME IInv, EntriesAsNamed, NEW r \in Requests, Receive(r) \/ Step(r) \/ Fault(r)
    PROVE  /\ run'[r].at = "SaveDebit" =>
                 /\ run[r].at # "Idle" /\ Opened(In(r).account)
                 /\ AmountAsNamed(r, In(r).account, run'[r].money)
           /\ run'[r].at = "SaveCredit" =>
                 /\ run[r].at # "Idle" /\ Opened(Payee(In(r)))
                 /\ AmountAsNamed(r, Payee(In(r)), run'[r].money)
  <1>0. TypeOK /\ OnRoute(r)
    BY DEF IInv
  <1>1. CASE ~Converts(r)
    BY <1>0, <1>1, OthersConvertNothing, SavesGoToOpenedAccounts DEF EntriesAsNamed
  <1>2. CASE Withdraw(r) \/ Transfer(r)
    <2>1. Opened(In(r).account) /\ Op(r) \in Converting /\ run[r].at = "Resume"
      BY <1>2, FoundAccountsAreOpened DEF Withdraw, Transfer, Found, Loaded, At, Converting
    <2>2. PICK m \in Conversions(r, In(r).account) :
             \/ run' = [run EXCEPT ![r].money = m, ![r].filled = KeepsRates, ![r].at = "SaveDebit"]
             \/ run' = [run EXCEPT ![r].money = m, ![r].filled = KeepsRates, ![r].answer = "OutOfFunds"]
      BY <1>2 DEF Withdraw, Transfer, ConvertDebit
    <2>3. run'[r].money = m /\ run'[r].at \in {"SaveDebit", "Resume"}
      BY <1>0, <2>1, <2>2 DEF TypeOK, Scope
    <2> QED
      BY <2>1, <2>3, ConversionKeepsTheAmount
  <1>3. CASE Deposit(r) \/ CreditTransfer(r)
    <2>1. run[r].at # "Idle" /\ Op(r) \in {"Deposit", "Transfer"} /\ (Found(r) \/ At(r, "ConvertCredit"))
      BY <1>0, <1>3 DEF Deposit, CreditTransfer, Found, Loaded, At, OnRoute, Route, Input, UseCases, OnAccount, Op
    <2>2. Opened(Payee(In(r))) /\ Op(r) \in Converting
      BY <2>1, FoundAccountsAreOpened DEF Payee, Converting, Op
    <2>3. PICK m \in Conversions(r, Payee(In(r))) : run'[r].money = m /\ run'[r].at = "SaveCredit"
      BY <1>0, <1>3 DEF Deposit, CreditTransfer, ConvertCredit, TypeOK, Scope
    <2> QED
      BY <2>1, <2>2, <2>3, ConversionKeepsTheAmount
  <1> QED
    BY <1>1, <1>2, <1>3 DEF Converts

(* The currency of an account does not change once it is opened. *)
LEMMA NamedForGood ==
    ASSUME IInv, NEW r \in Requests, Receive(r) \/ Step(r) \/ Fault(r), NEW q \in Requests, NEW a, NEW v,
           Opened(a), run'[q].input = run[q].input, AmountAsNamed(q, a, v)
    PROVE  AmountAsNamed(q, a, v)'
  <1>1. Moves(r)
    BY RequestsMoveAlone DEF IInv
  <1>2. CurrencyOf(a)' = CurrencyOf(a)
    BY <1>1, IdsAreDistinct DEF Moves, Opened, CurrencyOf, In
  <1> QED
    BY <1>2 DEF AmountAsNamed, In

LEMMA EntriesStayAsNamed ==
    ASSUME IInv, EntriesAsNamed, NEW r \in Requests, Receive(r) \/ Step(r) \/ Fault(r)
    PROVE  EntriesAsNamed'
  <1>0. TypeOK /\ Moves(r)
    BY RequestsMoveAlone DEF IInv
  <1>1. ASSUME NEW q \in Requests, run[q].at # "Idle" PROVE run'[q].input = run[q].input
    BY <1>0, <1>1 DEF Moves
  <1>2. ASSUME NEW e \in credits \cup debits PROVE Opened(e.account)
    BY <1>0 DEF IInv, RowsAreAccountedFor, TypeOK, EntryRow
  <1>3. ASSUME NEW d \in debits', d.id \in Requests
        PROVE  d.account = In(d.id)'.account /\ AmountAsNamed(d.id, d.account, d.value)'
    <2>1. CASE d \in debits
      <3>1. run'[d.id].input = run[d.id].input
        BY <1>1, <1>3, <2>1 DEF IInv, RowsAreAccountedFor
      <3> QED
        BY <1>2, <1>3, <2>1, <3>1, NamedForGood DEF EntriesAsNamed, In
    <2>2. CASE SaveDebit(r) /\ d = Entry(r, In(r).account)
      <3>1. d.id = r /\ d.account = In(r).account /\ d.value = run[r].money /\ run[r].at = "SaveDebit"
        BY <2>2 DEF Entry, SaveDebit, At
      <3>2. AmountAsNamed(r, d.account, d.value) /\ Opened(d.account) /\ run'[r].input = run[r].input
        BY <1>1, <3>1, SavesGoToOpenedAccounts DEF EntriesAsNamed
      <3> QED
        BY <3>1, <3>2, NamedForGood DEF In
    <2> QED
      BY <2>1, <2>2, EntriesWritten
  <1>4. ASSUME NEW c \in credits', c.id \in Requests, Op(c.id)' = "Transfer"
        PROVE  c.account = Payee(In(c.id))' /\ AmountAsNamed(c.id, c.account, c.value)'
    <2>1. CASE c \in credits
      <3>1. run'[c.id].input = run[c.id].input
        BY <1>1, <1>4, <2>1 DEF IInv, RowsAreAccountedFor
      <3>2. Op(c.id) = "Transfer"
        BY <1>4, <3>1 DEF Op, In
      <3>3. c.account = Payee(In(c.id)) /\ AmountAsNamed(c.id, c.account, c.value)
        BY <1>4, <2>1, <3>2 DEF EntriesAsNamed
      <3>4. c.account = Payee(In(c.id))'
        BY <3>1, <3>3 DEF Payee, In
      <3> QED
        BY <1>2, <1>4, <2>1, <3>1, <3>3, <3>4, NamedForGood
    <2>2. CASE SaveCredit(r) /\ c = Entry(r, Payee(In(r)))
      <3>1. c.id = r /\ c.account = Payee(In(r)) /\ c.value = run[r].money /\ run[r].at = "SaveCredit"
        BY <2>2 DEF Entry, SaveCredit, At
      <3>2. AmountAsNamed(r, c.account, c.value) /\ Opened(c.account) /\ run'[r].input = run[r].input
        BY <1>1, <3>1, SavesGoToOpenedAccounts DEF EntriesAsNamed
      <3> QED
        BY <3>1, <3>2, NamedForGood DEF In, Payee
    <2>3. CASE SaveAccount(r) /\ c.id = r
      <3>1. Op(r) = "OpenAccount" /\ run'[r].input = run[r].input
        BY <1>1, <2>3 DEF SaveAccount, At, IInv, OnRoute, Route, Input, UseCases, OnAccount, Op
      <3> QED
        BY <1>4, <2>3, <3>1 DEF Op, In
    <2> QED
      BY <2>1, <2>2, <2>3, EntriesWritten
  <1>5. ASSUME NEW q \in Requests
        PROVE  /\ run'[q].at = "SaveDebit" => AmountAsNamed(q, In(q).account, run[q].money)'
               /\ run'[q].at = "SaveCredit" => AmountAsNamed(q, Payee(In(q)), run[q].money)'
    <2>1. CASE q = r
      <3>1. ASSUME run'[r].at = "SaveDebit" PROVE AmountAsNamed(r, In(r).account, run[r].money)'
        <4>1. /\ Opened(In(r).account) /\ run'[r].input = run[r].input
              /\ AmountAsNamed(r, In(r).account, run'[r].money)
          BY <1>1, <3>1, MoneyStaysAsNamed
        <4>2. CurrencyOf(In(r).account)' = CurrencyOf(In(r).account)
          BY <1>0, <4>1, IdsAreDistinct DEF Moves, Opened, CurrencyOf, In
        <4> QED
          BY <4>1, <4>2 DEF AmountAsNamed, In
      <3>2. ASSUME run'[r].at = "SaveCredit" PROVE AmountAsNamed(r, Payee(In(r)), run[r].money)'
        <4>1. /\ Opened(Payee(In(r))) /\ run'[r].input = run[r].input
              /\ AmountAsNamed(r, Payee(In(r)), run'[r].money)
          BY <1>1, <3>2, MoneyStaysAsNamed
        <4>2. CurrencyOf(Payee(In(r)))' = CurrencyOf(Payee(In(r)))
          BY <1>0, <4>1, IdsAreDistinct DEF Moves, Opened, CurrencyOf, In, Payee
        <4> QED
          BY <4>1, <4>2 DEF AmountAsNamed, In, Payee
      <3> QED
        BY <2>1, <3>1, <3>2
    <2>2. CASE q # r
      <3>1. run'[q] = run[q]
        BY <1>0, <2>2 DEF Moves
      <3>2. run[q].at = "SaveDebit" => AmountAsNamed(q, In(q).account, run[q].money)'
        <4>1. ASSUME run[q].at = "SaveDebit" PROVE CurrencyOf(In(q).account)' = CurrencyOf(In(q).account)
          <5>1. Opened(In(q).account)
            BY <4>1, SavesGoToOpenedAccounts
          <5> QED
            BY <1>0, <3>1, <5>1, IdsAreDistinct DEF Moves, Opened, CurrencyOf, In
        <4> QED
          BY <3>1, <4>1 DEF EntriesAsNamed, AmountAsNamed, In
      <3>3. run[q].at = "SaveCredit" => AmountAsNamed(q, Payee(In(q)), run[q].money)'
        <4>1. ASSUME run[q].at = "SaveCredit" PROVE CurrencyOf(Payee(In(q)))' = CurrencyOf(Payee(In(q)))
          <5>1. Opened(Payee(In(q)))
            BY <4>1, SavesGoToOpenedAccounts
          <5> QED
            BY <1>0, <3>1, <5>1, IdsAreDistinct DEF Moves, Opened, CurrencyOf, In, Payee
        <4> QED
          BY <3>1, <4>1 DEF EntriesAsNamed, AmountAsNamed, In, Payee
      <3> QED
        BY <3>1, <3>2, <3>3
    <2> QED
      BY <2>1, <2>2
  <1> QED
    BY <1>3, <1>4, <1>5 DEF EntriesAsNamed

(* Entries have the amounts the client named. *)
THEOREM AmountsAreNamed == Spec => []EntriesAsNamed
  <1>1. Init => EntriesAsNamed
    BY SeedsAreRows, IdsAreDistinct DEF Init, EntriesAsNamed, NewScope
  <1>2. IInv /\ EntriesAsNamed /\ [Next]_vars => EntriesAsNamed'
    <2>1. ASSUME IInv, EntriesAsNamed, UNCHANGED vars PROVE EntriesAsNamed'
      BY <2>1 DEF vars, EntriesAsNamed, AmountAsNamed, CurrencyOf, Payee, Op, In
    <2> QED
      BY <2>1, EntriesStayAsNamed DEF Next, AllAnswered
  <1> QED
    BY <1>1, <1>2, Invariance, PTL DEF Spec

(* The credit of a transfer is in the tables only if its debit is, or was  *)
(* until a close of the origin, and both have the amount the client named  *)
(* if both accounts have the currency the client named.                    *)
THEOREM TransfersMakeNoMoney == Spec => []TransferMakesNoMoney
  <1>1. IInv /\ EntriesAsNamed => TransferMakesNoMoney
    <2> SUFFICES ASSUME IInv, EntriesAsNamed, NEW c \in credits, NEW r \in Requests,
                        c.id = r, Op(r) = "Transfer", ~Erasing(In(r).account)
                 PROVE  \E d \in debits :
                           /\ d.id = r /\ d.account = In(r).account
                           /\ (CurrencyOf(c.account) = In(r).currency /\ CurrencyOf(d.account) = In(r).currency)
                                 => c.value = d.value
      BY DEF TransferMakesNoMoney
    <2>1. run[r].at = "Committed"
      BY DEF IInv, RowsAreAccountedFor
    <2>2. HasDebit(r, In(r).account)
      BY <2>1 DEF IInv, SavedOrErased, DebitSaved
    <2>3. PICK d \in debits : d.id = r /\ d.account = In(r).account
      BY <2>2 DEF HasDebit
    <2>4. AmountAsNamed(r, d.account, d.value) /\ AmountAsNamed(r, c.account, c.value)
      BY <2>3 DEF EntriesAsNamed
    <2> QED
      BY <2>3, <2>4 DEF AmountAsNamed
  <1> QED
    BY <1>1, AmountsAreNamed, Invariance, PTL

-----------------------------------------------------------------------------
(* What a step of request r does to the entries its context holds, and     *)
(* what it knows when it is about to write.                                *)
Loading == {"LoadCredits", "LoadDebits"}

ContextMoves(r) ==
    /\ run'[r].credits = run[r].credits
          \/ run'[r].credits = run[r].credits \cup EntriesOf(credits, run[r].loading)
          \/ \E c \in credits' : run'[r].credits = run[r].credits \cup {c}
    /\ run'[r].debits = run[r].debits
          \/ run'[r].debits = run[r].debits \cup EntriesOf(debits, run[r].loading)
          \/ \E d \in debits' : run'[r].debits = run[r].debits \cup {d}
    /\ run[r].at \notin {"LoadDebits", "SaveDebit"} => run'[r].debits = run[r].debits
    /\ run'[r].at = "DeleteDebits" =>
          /\ run'[r].credits = run[r].credits /\ run'[r].debits = run[r].debits
          /\ run'[r].input = run[r].input
          /\ run[r].at = "DeleteDebits"
                \/ IsClosingAllowed(run[r].credits, run[r].debits, In(r).account)
    /\ run'[r].at = "SaveDebit" =>
          /\ run'[r].credits = run[r].credits /\ run'[r].debits = run[r].debits
          /\ run'[r].input = run[r].input
          /\ (run[r].at = "SaveDebit" /\ run'[r].money = run[r].money)
                \/ Covers(r, run'[r].money)
    /\ run[r].at \in Loading =>
          \/ run'[r].at \in Loading /\ run'[r].loading = run[r].loading
          \/ EntriesOf(debits, run[r].loading) \subseteq run'[r].debits

LEMMA ContextMovesAsItShould ==
    ASSUME TypeOK, NEW r \in Requests, Receive(r) \/ Step(r) \/ Fault(r)
    PROVE  ContextMoves(r)
  <1> USE DEF TypeOK, Scope, At, Answer, ContextMoves, Loading
  <1>1. CASE Receive(r)
    <2>1. PICK i \in Inputs :
             run' = IF Valid(i)
                    THEN [run EXCEPT ![r].input = i, ![r].at = FirstPoint(i), ![r].next = FirstLookup(i)]
                    ELSE [run EXCEPT ![r].input = i, ![r].answer = "Invalid"]
      BY <1>1 DEF Receive
    <2>2. run[r].at = "Idle" /\ run[r].answer = None
      BY <1>1 DEF Receive
    <2>3. run'[r].at \in {"Idle", "SaveAccount", "List", "Resume"}
      BY <2>1, <2>2 DEF FirstPoint
    <2>4. run'[r].credits = run[r].credits /\ run'[r].debits = run[r].debits
      BY <2>1
    <2> QED
      BY <2>2, <2>3, <2>4
  <1>2. CASE LookUp(r)
    BY <1>2 DEF LookUp
  <1>3. CASE ListAccounts(r)
    BY <1>3 DEF ListAccounts
  <1>4. CASE NextAccount(r)
    BY <1>4 DEF NextAccount
  <1>5. CASE LoadCredits(r)
    BY <1>5 DEF LoadCredits
  <1>6. CASE LoadDebits(r)
    BY <1>6 DEF LoadDebits
  <1>7. CASE SaveAccount(r)
    BY <1>7 DEF SaveAccount
  <1>8. CASE SaveDebit(r)
    BY <1>8 DEF SaveDebit, AfterDebit
  <1>9. CASE SaveCredit(r)
    BY <1>9 DEF SaveCredit
  <1>10. CASE SaveThrows(r)
    BY <1>10 DEF SaveThrows, ForeignKeyFails
  <1>11. CASE DeleteDebits(r)
    BY <1>11 DEF DeleteDebits
  <1>12. CASE DeleteCredits(r)
    BY <1>12 DEF DeleteCredits
  <1>13. CASE DeleteAccount(r)
    BY <1>13 DEF DeleteAccount
  <1>14. CASE AnswerNotFound(r)
    BY <1>14 DEF AnswerNotFound, Loaded
  <1>15. CASE GetAccount(r)
    BY <1>15 DEF GetAccount, Found, Loaded
  <1>16. CASE GetAccounts(r)
    BY <1>16 DEF GetAccounts, Loaded
  <1>17. CASE CloseAccount(r)
    BY <1>17 DEF CloseAccount, Found, Loaded
  <1>18. CASE ConvertThrows(r)
    BY <1>18 DEF ConvertThrows, Found, Loaded
  <1>19. CASE Withdraw(r)
    BY <1>19 DEF Withdraw, ConvertDebit, Found, Loaded
  <1>20. CASE Transfer(r)
    BY <1>20 DEF Transfer, ConvertDebit, Found, Loaded
  <1>21. CASE Deposit(r)
    BY <1>21 DEF Deposit, ConvertCredit, Found, Loaded
  <1>22. CASE CreditTransfer(r)
    BY <1>22 DEF CreditTransfer, ConvertCredit
  <1>23. CASE AnswerOk(r)
    BY <1>23 DEF AnswerOk
  <1>24. CASE Fault(r)
    BY <1>24 DEF Fault
  <1> QED
    BY <1>1, <1>2, <1>3, <1>4, <1>5, <1>6, <1>7, <1>8, <1>9, <1>10, <1>11, <1>12, <1>13, <1>14, <1>15, <1>16, <1>17, <1>18, <1>19, <1>20, <1>21, <1>22, <1>23, <1>24 DEF Step, Repository, UseCase

-----------------------------------------------------------------------------
(* Each part of BalanceInv, step by step.                                  *)

Saved == {"ConvertCredit", "SaveCredit", "Committed"}

LEMMA TablesStayCollections ==
    ASSUME IInv, BalanceInv, NEW r \in Requests, Receive(r) \/ Step(r) \/ Fault(r)
    PROVE  Collection(credits') /\ Collection(debits')
  <1>1. credits' \subseteq EntryRow /\ debits' \subseteq EntryRow
    BY TypePreserved DEF TypeOK
  <1>2. \A e \in credits' \cup debits' : e.value \in Nat
    BY <1>1 DEF EntryRow
  <1>3. Collection(credits) /\ Collection(debits)
    BY DEF BalanceInv
  <1>4. \E c : credits' \in SUBSET (credits \cup {c})
    <2>1. CASE SaveAccount(r)
      BY <2>1 DEF SaveAccount
    <2>2. CASE SaveCredit(r)
      BY <2>2 DEF SaveCredit
    <2>3. CASE ~SaveAccount(r) /\ ~SaveCredit(r)
      BY <2>3, EntriesWritten
    <2> QED
      BY <2>1, <2>2, <2>3
  <1>5. debits' \in SUBSET (debits \cup {Entry(r, In(r).account)})
    BY EntriesWritten
  <1> QED
    BY <1>2, <1>3, <1>4, <1>5, CollectionGrows

LEMMA ContextStaysACollection ==
    ASSUME IInv, BalanceInv, NEW r \in Requests, Receive(r) \/ Step(r) \/ Fault(r), NEW q \in Requests
    PROVE  Collection(run'[q].credits) /\ Collection(run'[q].debits)
  <1>1. /\ Collection(credits) /\ Collection(debits)
        /\ Collection(run[q].credits) /\ Collection(run[q].debits)
    BY DEF BalanceInv
  <1>2. ContextMoves(r) /\ Moves(r)
    BY ContextMovesAsItShould, RequestsMoveAlone DEF IInv
  <1>3. \A e \in credits' \cup debits' : e.value \in Nat
    BY TypePreserved DEF TypeOK, EntryRow
  <1>4. CASE q # r
    BY <1>1, <1>2, <1>4 DEF Moves
  <1>5. ASSUME NEW S, Collection(S), NEW T, Collection(T), NEW new, \A e \in new : e.value \in Nat,
               NEW SS, NEW a,
               SS = S \/ SS = S \cup EntriesOf(T, a) \/ \E e \in new : SS = S \cup {e}
        PROVE  Collection(SS)
    <2>1. CASE SS = S \cup EntriesOf(T, a)
      BY <1>5, <2>1, EntriesOfCollection, CollectionUnion
    <2>2. ASSUME NEW e \in new, SS = S \cup {e} PROVE Collection(SS)
      <3>1. \A x \in SS : x.value \in Nat
        BY <1>5, <2>2 DEF Collection
      <3> QED
        BY <1>5, <2>2, <3>1, CollectionGrows
    <2> QED
      BY <1>5, <2>1, <2>2
  <1>6. CASE q = r
    <2>1. Collection(run'[r].credits)
      BY <1>1, <1>2, <1>3, <1>5, <1>6 DEF ContextMoves
    <2>2. Collection(run'[r].debits)
      BY <1>1, <1>2, <1>3, <1>5, <1>6 DEF ContextMoves
    <2> QED
      BY <1>6, <2>1, <2>2
  <1> QED
    BY <1>4, <1>6

LEMMA LoadedStaysThere ==
    ASSUME IInv, BalanceInv, NEW r \in Requests, Receive(r) \/ Step(r) \/ Fault(r), NEW q \in Requests
    PROVE  LoadedWasThere(q)'
  <1>1. ContextMoves(r) /\ Moves(r) /\ TablesMove(r)
    BY ContextMovesAsItShould, RequestsMoveAlone, TablesMoveAsTheyShould DEF IInv
  <1>2. LoadedWasThere(q) /\ LoadedWasThere(r)
    BY DEF BalanceInv
  <1>3. /\ \A c \in run'[q].credits : c \in run[q].credits \/ c \in credits \/ c \in credits'
        /\ \A d \in run'[q].debits : d \in run[q].debits \/ d \in debits \/ d \in debits'
    <2>1. CASE q = r
      BY <1>1, <2>1 DEF ContextMoves, EntriesOf
    <2>2. CASE q # r
      BY <1>1, <2>2 DEF Moves
    <2> QED
      BY <2>1, <2>2
  <1>4. \A a : Erasing(a) => Erasing(a)'
    BY ErasingIsForGood
  <1>5. /\ \A c \in credits : c \in credits' \/ Erasing(c.account)'
        /\ \A d \in debits : d \in debits' \/ Erasing(d.account)'
    BY <1>1 DEF TablesMove
  <1>6. ASSUME NEW c \in run'[q].credits PROVE c \in credits' \/ Erasing(c.account)'
    BY <1>2, <1>3, <1>4, <1>5 DEF LoadedWasThere
  <1>7. ASSUME NEW d \in run'[q].debits PROVE d \in debits' \/ Erasing(d.account)'
    BY <1>2, <1>3, <1>4, <1>5 DEF LoadedWasThere
  <1>8. ASSUME NEW d \in run'[q].debits, d.id \in Requests PROVE run'[d.id].at \in Saved
    <2>1. run[d.id].at \in Saved => run'[d.id].at \in Saved
      BY <1>1, <1>8 DEF Moves, Saved
    <2>2. d \in debits => run[d.id].at \in Saved
      BY <1>8 DEF IInv, RowsAreAccountedFor, Saved
    <2>3. d \in debits' => run'[d.id].at \in Saved
      BY <1>8, RowsStayAccountedFor DEF RowsAreAccountedFor, Saved
    <2>4. d \in run[q].debits => run[d.id].at \in Saved
      BY <1>2, <1>8 DEF LoadedWasThere, Saved
    <2> QED
      BY <1>3, <2>1, <2>2, <2>3, <2>4
  <1> QED
    BY <1>6, <1>7, <1>8 DEF LoadedWasThere, Saved

LEMMA CheckedStays ==
    ASSUME IInv, BalanceInv, NEW r \in Requests, Receive(r) \/ Step(r) \/ Fault(r), NEW q \in Requests
    PROVE  Checked(q)'
  <1>1. ContextMoves(r) /\ Moves(r)
    BY ContextMovesAsItShould, RequestsMoveAlone DEF IInv
  <1>2. Checked(q)
    BY DEF BalanceInv
  <1>3. CASE q # r
    <2>1. run'[q] = run[q]
      BY <1>1, <1>3 DEF Moves
    <2> QED
      BY <1>2, <2>1 DEF Checked, Covers, Balance, In
  <1>4. CASE q = r
    BY <1>1, <1>2, <1>4 DEF Checked, ContextMoves, Covers, Balance, In
  <1> QED
    BY <1>3, <1>4

LEMMA SeedDebitsStaySeen ==
    ASSUME IInv, BalanceInv, NEW r \in Requests, Receive(r) \/ Step(r) \/ Fault(r), NEW q \in Requests
    PROVE  SeedDebitsSeen(q)'
  <1>1. TypeOK /\ ContextMoves(r) /\ Moves(r)
    BY ContextMovesAsItShould, RequestsMoveAlone DEF IInv
  <1>2. SeedDebitsSeen(q)
    BY DEF BalanceInv
  <1>3. \A d \in debits' : d.id \in Seeds => d \in debits
    BY EntriesWritten, IdsAreDistinct DEF Entry
  <1>4. CASE q # r
    <2>1. run'[q] = run[q]
      BY <1>1, <1>4 DEF Moves
    <2> QED
      BY <1>2, <1>3, <2>1 DEF SeedDebitsSeen, EntriesOf, Op, In
  <1>5. CASE q = r /\ Receive(r)
    <2>1. PICK i \in Inputs :
             run' = IF Valid(i)
                    THEN [run EXCEPT ![r].input = i, ![r].at = FirstPoint(i), ![r].next = FirstLookup(i)]
                    ELSE [run EXCEPT ![r].input = i, ![r].answer = "Invalid"]
      BY <1>5 DEF Receive
    <2>2. run[r].at = "Idle"
      BY <1>5 DEF Receive, At
    <2>3. CASE Valid(i)
      <3>1. run'[r].next = FirstLookup(i) /\ run'[r].input = i
        BY <1>1, <2>1, <2>3 DEF TypeOK, Scope
      <3> QED
        BY <1>5, <3>1 DEF SeedDebitsSeen, FirstLookup, OnAccount, Op, In
    <2>4. CASE ~Valid(i)
      <3>1. run'[r].at = "Idle"
        BY <1>1, <2>1, <2>2, <2>4 DEF TypeOK, Scope
      <3> QED
        BY <1>5, <3>1 DEF SeedDebitsSeen
    <2> QED
      BY <2>3, <2>4
  <1>6. CASE q = r /\ ~Receive(r)
    <2>1. run'[r].input = run[r].input /\ run[r].at # "Idle"
      BY <1>1, <1>6 DEF Moves
    <2>2. run[r].debits \subseteq run'[r].debits
      BY <1>1 DEF ContextMoves
    <2>3. CASE LookUp(r)
      <3>1. run[r].at = "Resume" /\ run'[r].missing = FALSE
              => run'[r].at \in Loading /\ run'[r].loading =
                    IF run[r].next = "dest" THEN In(r).dest ELSE In(r).account
        BY <1>1, <2>3 DEF LookUp, TypeOK, Scope, Loading
      <3>2. run[r].at = "Resume" /\ run[r].next # None /\ (run'[r].missing = FALSE => ~run[r].missing)
        BY <1>1, <2>3 DEF LookUp, At, TypeOK, Scope
      <3>3. run[r].next \in {"account", "dest"} /\ run'[r].missing \in BOOLEAN
        BY <1>1, <3>2, TypePreserved DEF TypeOK, Scope
      <3>4. CASE run[r].next = "account"
        BY <1>6, <2>1, <3>1, <3>2, <3>3, <3>4 DEF SeedDebitsSeen, Loading, Op, In
      <3>5. CASE run[r].next = "dest"
        BY <1>2, <1>3, <1>6, <2>1, <2>2, <3>2, <3>3, <3>5 DEF SeedDebitsSeen, EntriesOf, Op, In
      <3> QED
        BY <3>3, <3>4, <3>5
    <2>4. CASE ~LookUp(r)
      <3>1. run'[r].next = run[r].next /\ run'[r].missing = run[r].missing
        BY <1>1, <1>6, <2>4 DEF Moves
      <3> QED
        BY <1>1, <1>2, <1>3, <1>6, <2>1, <2>2, <3>1
           DEF SeedDebitsSeen, ContextMoves, Loading, EntriesOf, Op, In
    <2> QED
      BY <2>3, <2>4
  <1> QED
    BY <1>4, <1>5, <1>6

-----------------------------------------------------------------------------
(* Overdrafts.                                                             *)

(* Two requests that debited account a, neither of which had loaded the    *)
(* debit of the other.                                                     *)
Raced(a) ==
    \E d, e \in EntriesOf(debits, a) :
       /\ d.id # e.id /\ {d.id, e.id} \subseteq Requests
       /\ d \notin run[e.id].debits /\ e \notin run[d.id].debits

(* A race that was lost stays lost: nobody loads debits after a Save. *)
LEMMA RacesAreForGood ==
    ASSUME IInv, NEW r \in Requests, Receive(r) \/ Step(r) \/ Fault(r), NEW a, Raced(a)
    PROVE  Raced(a)' \/ Erasing(a)'
  <1>1. ContextMoves(r) /\ Moves(r) /\ TablesMove(r)
    BY ContextMovesAsItShould, RequestsMoveAlone, TablesMoveAsTheyShould DEF IInv
  <1>2. PICK d, e \in EntriesOf(debits, a) :
           /\ d.id # e.id /\ {d.id, e.id} \subseteq Requests
           /\ d \notin run[e.id].debits /\ e \notin run[d.id].debits
    BY DEF Raced
  <1>3. ASSUME NEW x \in EntriesOf(debits, a), x.id \in Requests
        PROVE  run'[x.id].debits = run[x.id].debits
    <2>1. run[x.id].at \in Saved
      BY <1>3 DEF IInv, RowsAreAccountedFor, EntriesOf, Saved
    <2> QED
      BY <1>1, <1>3, <2>1 DEF ContextMoves, Moves, Saved
  <1>4. ASSUME NEW x \in EntriesOf(debits, a), ~Erasing(a)' PROVE x \in EntriesOf(debits', a)
    <2>1. x \in debits' \/ Erasing(x.account)'
      BY <1>1 DEF TablesMove, EntriesOf
    <2>2. x.account = a
      BY DEF EntriesOf
    <2>3. ASSUME NEW b, b = a, Erasing(b)' PROVE FALSE
      BY <1>4, <2>3
    <2> QED
      BY <2>1, <2>2, <2>3 DEF EntriesOf
  <1>5. ASSUME ~Erasing(a)' PROVE Raced(a)'
    BY <1>2, <1>3, <1>4, <1>5 DEF Raced
  <1> QED
    BY <1>5

(* The debit of a request is covered by the balance of the table, unless   *)
(* the request has not loaded some debit of the account.                   *)
LEMMA DebitIsCoveredOrRaced ==
    ASSUME IInv, BalanceInv, NEW r \in Requests, SaveDebit(r), NEW a, a = In(r).account,
           ~Erasing(a)
    PROVE  TableBalance(a)' >= 0 \/ Raced(a)'
  <1> DEFINE debit == Entry(r, a)
             mine  == run[r].debits
  <1>1. /\ TypeOK /\ run[r].at = "SaveDebit" /\ run[r].money \in Nat
        /\ debits' = debits \cup {debit} /\ credits' = credits
        /\ run' = [run EXCEPT ![r].debits = @ \cup {debit}, ![r].at = AfterDebit(In(r))]
    BY DEF SaveDebit, At, IInv, TypeOK, Scope
  <1>2. debit.id = r /\ debit.account = a /\ debit.value = run[r].money
    BY DEF Entry
  <1>3. /\ debit \notin debits
        /\ \A q \in Requests : debit \notin run[q].debits
        /\ \A d \in debits : d.id # r
    BY <1>1, <1>2 DEF IInv, RowsAreAccountedFor, BalanceInv, LoadedWasThere
  <1>4. /\ Collection(credits) /\ Collection(debits)
        /\ Collection(run[r].credits) /\ Collection(mine)
    BY DEF BalanceInv
  <1>5. CASE EntriesOf(debits, a) \subseteq mine
    <2>1. EntriesOf(run[r].credits, a) \subseteq credits
      <3>1. \A c \in run[r].credits : c \in credits \/ Erasing(c.account)
        BY DEF BalanceInv, LoadedWasThere
      <3>2. ASSUME NEW b, b = a, Erasing(b) PROVE FALSE
        BY <3>2
      <3> QED
        BY <3>1, <3>2 DEF EntriesOf
    <2>2. GetCurrentBalance(run[r].credits, mine, a) <= GetCurrentBalance(credits, debits, a)
      BY <1>4, <1>5, <2>1, BalanceMonotone
    <2>3. GetCurrentBalance(run[r].credits, mine, a) - run[r].money >= 0
      BY <1>1 DEF BalanceInv, Checked, Covers, Balance
    <2>4. GetCurrentBalance(credits, debits \cup {debit}, a)
             = GetCurrentBalance(credits, debits, a) - run[r].money
      <3>1. debit \notin debits /\ debit.account = a /\ debit.value \in Nat
        BY <1>1, <1>2, <1>3
      <3> HIDE DEF debit
      <3> QED
        BY <1>2, <1>4, <3>1, BalanceAfterDebit
    <2>5. /\ GetCurrentBalance(credits, debits, a) \in Int
          /\ GetCurrentBalance(run[r].credits, mine, a) \in Int
      BY <1>4, BalanceType
    <2>6. GetCurrentBalance(credits', debits', a) >= 0
      BY <1>1, <2>2, <2>3, <2>4, <2>5
    <2> QED
      BY <2>6 DEF TableBalance
  <1>6. ASSUME NEW e \in EntriesOf(debits, a), e \notin mine PROVE Raced(a)'
    <2>1. e \in debits /\ e.account = a /\ e.id # r
      BY <1>3 DEF EntriesOf
    <2>2. e.id \in Requests
      <3>1. e.id \in Ids
        BY <1>1, <2>1 DEF TypeOK, EntryRow
      <3>2. LookedUp(r) /\ Op(r) \in {"Withdraw", "Transfer"}
        BY <1>1 DEF IInv, OnRoute, Route, Input, UseCases, OnAccount, Op
      <3>3. ~run[r].missing /\ run[r].next = None
        BY <1>1, <3>2 DEF LookedUp, Early, OnAccount
      <3>4. e.id \in Seeds => e \in mine
        BY <1>1, <1>6, <3>2, <3>3, NoneIsNothing DEF BalanceInv, SeedDebitsSeen
      <3> QED
        BY <1>6, <3>1, <3>4 DEF Ids
    <2>3. e \in EntriesOf(debits', a) /\ debit \in EntriesOf(debits', a)
      BY <1>1, <1>2, <2>1 DEF EntriesOf
    <2>4. run'[e.id].debits = run[e.id].debits /\ run'[r].debits = mine \cup {debit}
      BY <1>1, <2>1, <2>2 DEF TypeOK, Scope
    <2>5. debit \notin run'[e.id].debits /\ e \notin run'[r].debits
      BY <1>2, <1>3, <1>6, <2>1, <2>2, <2>4
    <2> HIDE DEF debit
    <2> QED
      BY <1>2, <2>1, <2>2, <2>3, <2>5 DEF Raced
  <1> QED
    BY <1>5, <1>6

LEMMA OverdraftsStayRaced ==
    ASSUME IInv, BalanceInv, NEW r \in Requests, Receive(r) \/ Step(r) \/ Fault(r)
    PROVE  OverdraftTakesARace'
  <1>1. TablesMove(r)
    BY TablesMoveAsTheyShould
  <1>2. Collection(credits) /\ Collection(debits) /\ Collection(credits') /\ Collection(debits')
    BY TablesStayCollections DEF BalanceInv
  <1>3. ASSUME NEW a \in Ids, TableBalance(a)' < 0, ~Erasing(a)' PROVE Raced(a)'
    <2>1. ~Erasing(a)
      BY <1>3, ErasingIsForGood
    <2>2. CASE TableBalance(a) < 0
      <3>1. Raced(a)
        BY <2>1, <2>2 DEF BalanceInv, OverdraftTakesARace, Raced
      <3> QED
        BY <1>3, <3>1, RacesAreForGood
    <2>3. CASE ~(TableBalance(a) < 0)
      <3>1. EntriesOf(credits, a) \subseteq credits'
        <4>1. ASSUME NEW b, b = a, Erasing(b)' PROVE FALSE
          BY <1>3, <4>1
        <4> QED
          BY <1>1, <4>1 DEF TablesMove, EntriesOf
      <3>2. SaveDebit(r) /\ a = In(r).account
        <4>1. ASSUME ~(SaveDebit(r) /\ a = In(r).account)
              PROVE  EntriesOf(debits', a) \subseteq debits
          BY <4>1, EntriesWritten DEF EntriesOf, Entry
        <4>2. ASSUME EntriesOf(debits', a) \subseteq debits PROVE FALSE
          <5>1. GetCurrentBalance(credits, debits, a) <= GetCurrentBalance(credits', debits', a)
            BY <1>2, <3>1, <4>2, BalanceMonotone
          <5>2. /\ GetCurrentBalance(credits, debits, a) \in Int
                /\ GetCurrentBalance(credits', debits', a) \in Int
            BY <1>2, BalanceType
          <5>3. GetCurrentBalance(credits', debits', a) < 0
            BY <1>3 DEF TableBalance
          <5>4. ~(GetCurrentBalance(credits, debits, a) < 0)
            BY <2>3 DEF TableBalance
          <5> QED
            BY <5>1, <5>2, <5>3, <5>4
        <4> QED
          BY <4>1, <4>2
      <3>3. TableBalance(a)' >= 0 \/ Raced(a)'
        BY <2>1, <3>2, DebitIsCoveredOrRaced
      <3>4. ~(TableBalance(a)' >= 0)
        <4>1. GetCurrentBalance(credits', debits', a) \in Int
          BY <1>2, BalanceType
        <4>2. GetCurrentBalance(credits', debits', a) < 0
          BY <1>3 DEF TableBalance
        <4>3. ~(GetCurrentBalance(credits', debits', a) >= 0)
          BY <4>1, <4>2
        <4> QED
          BY <4>3 DEF TableBalance
      <3> QED
        BY <3>3, <3>4
    <2> QED
      BY <2>2, <2>3
  <1> QED
    BY <1>3 DEF OverdraftTakesARace, Raced

-----------------------------------------------------------------------------
(* The induction. *)

LEMMA InitImpliesBalanceInv ==
    ASSUME Init
    PROVE  BalanceInv
  <1>1. Collection(credits) /\ Collection(debits)
    BY SeedsAreRows DEF Init
  <1>2. Collection({})
    BY NothingIsACollection
  <1>3. ASSUME NEW r \in Requests
        PROVE  /\ Collection(run[r].credits) /\ Collection(run[r].debits)
               /\ LoadedWasThere(r) /\ Checked(r) /\ SeedDebitsSeen(r)
    BY <1>2 DEF Init, NewScope, LoadedWasThere, Checked, SeedDebitsSeen
  <1>4. OverdraftTakesARace
    <2>1. ASSUME NEW a \in Ids PROVE GetCurrentBalance(credits, debits, a) >= 0
      <3>1. CASE a \in Seeds
        BY <3>1, SeedsAreCovered DEF Init
      <3>2. CASE a \notin Seeds
        <4>1. EntriesOf(credits, a) = {} /\ EntriesOf(debits, a) = {}
          BY <3>2, SeedsAreRows DEF Init, EntriesOf
        <4> QED
          BY <4>1, TotalNone DEF GetCurrentBalance
      <3> QED
        BY <3>1, <3>2
    <2>2. ASSUME NEW a \in Ids PROVE ~(GetCurrentBalance(credits, debits, a) < 0)
      <3>1. GetCurrentBalance(credits, debits, a) \in Int
        BY <1>1, BalanceType
      <3> QED
        BY <2>1, <3>1
    <2> QED
      BY <2>2 DEF OverdraftTakesARace, TableBalance
  <1> QED
    BY <1>1, <1>3, <1>4 DEF BalanceInv

LEMMA BalanceInvIsInductive ==
    ASSUME IInv, BalanceInv, [Next]_vars
    PROVE  BalanceInv'
  <1>1. ASSUME NEW r \in Requests, Receive(r) \/ Step(r) \/ Fault(r) PROVE BalanceInv'
    BY <1>1, TablesStayCollections, ContextStaysACollection, LoadedStaysThere, CheckedStays,
       SeedDebitsStaySeen, OverdraftsStayRaced DEF BalanceInv
  <1>2. CASE UNCHANGED vars
    <2>1. ASSUME NEW r \in Requests PROVE (LoadedWasThere(r) /\ Checked(r) /\ SeedDebitsSeen(r))'
      BY <1>2 DEF vars, BalanceInv, LoadedWasThere, Checked, SeedDebitsSeen, Erasing, Covers, Balance, Op, In
    <2>2. OverdraftTakesARace'
      BY <1>2 DEF vars, BalanceInv, OverdraftTakesARace, TableBalance, Erasing, Op, In
    <2> QED
      BY <1>2, <2>1, <2>2 DEF vars, BalanceInv
  <1> QED
    BY <1>1, <1>2 DEF Next, AllAnswered

(* What every request knows of the tables, whatever requests race.         *)
THEOREM BalanceInvariance == Spec => []BalanceInv
  <1>1. Init => BalanceInv
    BY InitImpliesBalanceInv
  <1>2. IInv /\ BalanceInv /\ [Next]_vars => BalanceInv'
    BY BalanceInvIsInductive
  <1> QED
    BY <1>1, <1>2, Invariance, PTL DEF Spec

(* A balance below zero takes two debits whose requests had loaded the     *)
(* account before either was saved, or a close that has deleted credits:   *)
(* the check of Withdraw and Transfer holds for a request that runs alone, *)
(* among any number of requests, accounts, amounts and rates.              *)
THEOREM OverdraftsAreRaces == Spec => []OverdraftTakesARace
  <1>1. BalanceInv => OverdraftTakesARace
    BY DEF BalanceInv
  <1> QED
    BY <1>1, BalanceInvariance, PTL

(* Where a close (CloseAccountUseCase) is about to delete money, some of   *)
(* the account's entries came after it had loaded the account.             *)
THEOREM DeletedFundsCameLate == Spec => []DeletedFundsWereUnseen
  <1>1. BalanceInv => DeletedFundsWereUnseen
    <2> SUFFICES ASSUME BalanceInv, NEW c \in Requests, NEW a, a = In(c).account,
                        At(c, "DeleteDebits"), ~Erasing(a),
                        EntriesOf(credits, a) \subseteq run[c].credits,
                        EntriesOf(debits, a) \subseteq run[c].debits
                 PROVE  TableBalance(a) = 0
      BY DEF DeletedFundsWereUnseen
    <2>1. LoadedWasThere(c) /\ Checked(c)
      BY DEF BalanceInv
    <2>2. ASSUME NEW b, b = a, Erasing(b) PROVE FALSE
      BY <2>2
    <2>3. /\ EntriesOf(credits, a) = EntriesOf(run[c].credits, a)
          /\ EntriesOf(debits, a) = EntriesOf(run[c].debits, a)
      BY <2>1, <2>2 DEF LoadedWasThere, EntriesOf
    <2>4. GetCurrentBalance(run[c].credits, run[c].debits, a) = 0
      BY <2>1 DEF Checked, At, IsClosingAllowed
    <2> QED
      BY <2>3, <2>4, BalanceOfOwnEntries DEF TableBalance
  <1> QED
    BY <1>1, BalanceInvariance, PTL

(* The balance a request has when it has loaded an account is at most the  *)
(* balance of the tables at that moment, unless the account is being       *)
(* closed: LoadTransactions reads the credits before the debits.           *)
THEOREM LoadedBalancesAreCovered == Spec => LoadedBalanceIsCovered
  <1> DEFINE Covered ==
        \A r \in Requests :
           (LoadDebits(r) /\ ~Erasing(run[r].loading))
              => Balance(r, run[r].loading)' <= TableBalance(run[r].loading)
  <1>1. IInv /\ BalanceInv /\ BalanceInv' /\ [Next]_vars => [Covered]_vars
    <2> SUFFICES ASSUME IInv, BalanceInv, BalanceInv', NEW r \in Requests,
                        LoadDebits(r), ~Erasing(run[r].loading)
                 PROVE  Balance(r, run[r].loading)' <= TableBalance(run[r].loading)
      OBVIOUS
    <2> DEFINE a == run[r].loading
    <2>1. /\ run'[r].loading = a /\ run'[r].credits = run[r].credits
          /\ run'[r].debits = run[r].debits \cup EntriesOf(debits, a)
      BY DEF LoadDebits, IInv, TypeOK, Scope
    <2>2. /\ Collection(credits) /\ Collection(debits)
          /\ Collection(run[r].credits) /\ Collection(run'[r].debits)
      BY DEF BalanceInv
    <2>3. EntriesOf(run[r].credits, a) \subseteq credits
      <3>1. \A c \in run[r].credits : c \in credits \/ Erasing(c.account)
        BY DEF BalanceInv, LoadedWasThere
      <3>2. ASSUME NEW b, b = a, Erasing(b) PROVE FALSE
        BY <3>2
      <3> QED
        BY <3>1, <3>2 DEF EntriesOf
    <2>4. EntriesOf(debits, a) \subseteq run'[r].debits
      BY <2>1
    <2>5. GetCurrentBalance(run[r].credits, run'[r].debits, a) <= GetCurrentBalance(credits, debits, a)
      <3> HIDE DEF a
      <3> QED
        BY <2>2, <2>3, <2>4, BalanceMonotone
    <2> QED
      BY <2>1, <2>5 DEF Balance, TableBalance
  <1> QED
    BY <1>1, Invariance, BalanceInvariance, PTL DEF Spec, LoadedBalanceIsCovered
=============================================================================
