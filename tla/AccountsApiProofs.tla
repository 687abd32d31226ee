-------------------------- MODULE AccountsApiProofs --------------------------
(***************************************************************************)
(* Proofs about the accounts API, for any number of requests, accounts,    *)
(* users and currencies.                                                   *)
(***************************************************************************)
EXTENDS AccountsApiProperties, TLAPS

(* A conversion under positive rates yields an amount. *)
LEMMA RoundedQuotientIsNat ==
    ASSUME NEW x \in Nat, NEW y \in Nat \ {0}
    PROVE  RoundedQuotient(x, y) \in Nat
  BY DEF RoundedQuotient

LEMMA ConvertedIsNat ==
    ASSUME NEW amount \in Nat, NEW rate \in [Currencies -> Nat \ {0}],
           NEW from \in Currencies, NEW to \in Currencies
    PROVE  Converted(amount, rate, from, to) \in Nat
  <1>1. amount * rate[to] \in Nat /\ rate[from] \in Nat \ {0}
    OBVIOUS
  <1> QED
    BY <1>1, RoundedQuotientIsNat DEF Converted

(* What an action of request r leaves alone in the scopes, and how the     *)
(* point of its own moves once rows are saved or deleted.                  *)
Commits(r) == SaveAccount(r) \/ SaveDebit(r) \/ SaveCredit(r) \/ DeleteAccount(r)

Moves(r) ==
    /\ run[r].answer = None
    /\ \A q \in Requests \ {r} : run'[q] = run[q]
    /\ run[r].at # "Idle" => run'[r].input = run[r].input /\ run'[r].at # "Idle"
    /\ run[r].at = "Committed" => run'[r].at = "Committed"
    /\ run[r].at \in {"DeleteCredits", "DeleteAccount"}
         => run'[r].at \in {"DeleteCredits", "DeleteAccount", "Committed"}
    /\ run[r].at \in {"ConvertCredit", "SaveCredit"}
         => run'[r].at \in {"ConvertCredit", "SaveCredit", "Committed"}
    /\ Receive(r) \/ run[r].at # "Idle"
    /\ \/ Receive(r) \/ LookUp(r)
       \/ run'[r].next = run[r].next /\ run'[r].missing = run[r].missing
    /\ run'[r].at \in {"ConvertCredit", "Committed"} => run'[r].at = run[r].at \/ Commits(r)
    /\ run'[r].at = "SaveCredit" => run[r].at \in {"ConvertCredit", "SaveCredit"} \/ Deposit(r)
    /\ run'[r].at \in Early \/ run[r].at \notin Early \/ Found(r)

LEMMA RequestsMoveAlone ==
    ASSUME TypeOK, NEW r \in Requests, Receive(r) \/ Step(r) \/ Fault(r)
    PROVE  Moves(r)
  <1> USE DEF TypeOK, Scope, At, Answer, Moves, Commits, Early
  <1>1. CASE Receive(r)
    <2>1. PICK i \in Inputs :
             run' = IF Valid(i)
                    THEN [run EXCEPT ![r].input = i, ![r].at = FirstPoint(i), ![r].next = FirstLookup(i)]
                    ELSE [run EXCEPT ![r].input = i, ![r].answer = "Invalid"]
      BY <1>1 DEF Receive
    <2>2. run[r].at = "Idle" /\ run[r].answer = None
      BY <1>1 DEF Receive
    <2>3. run'[r].at \in {"Idle", "SaveAccount", "List", "Resume"}
      BY <2>1, <2>2 DEF FirstPoint
    <2>4. \A q \in Requests \ {r} : run'[q] = run[q]
      BY <2>1
    <2> QED
      BY <1>1, <2>2, <2>3, <2>4
  <1>2. CASE LookUp(r)
    BY <1>2 DEF LookUp
  <1>3. CASE ListAccounts(r)
    BY <1>3 DEF ListAccounts
  <1>4. CASE NextAccount(r)
    BY <1>4 DEF NextAccount
  <1>5. CASE LoadCredits(r)
    BY <1>5 DEF LoadCredits
  <1>6. CASE LoadDebits(r)
    BY <1>6 DEF LoadDebits
  <1>7. CASE SaveAccount(r)
    BY <1>7 DEF SaveAccount
  <1>8. CASE SaveDebit(r)
    BY <1>8 DEF SaveDebit, AfterDebit
  <1>9. CASE SaveCredit(r)
    BY <1>9 DEF SaveCredit
  <1>10. CASE SaveThrows(r)
    BY <1>10 DEF SaveThrows, ForeignKeyFails
  <1>11. CASE DeleteDebits(r)
    BY <1>11 DEF DeleteDebits
  <1>12. CASE DeleteCredits(r)
    BY <1>12 DEF DeleteCredits
  <1>13. CASE DeleteAccount(r)
    BY <1>13 DEF DeleteAccount
  <1>14. CASE AnswerNotFound(r)
    BY <1>14 DEF AnswerNotFound, Loaded
  <1>15. CASE GetAccount(r)
    BY <1>15 DEF GetAccount, Found, Loaded
  <1>16. CASE GetAccounts(r)
    BY <1>16 DEF GetAccounts, Loaded
  <1>17. CASE CloseAccount(r)
    BY <1>17 DEF CloseAccount, Found, Loaded
  <1>18. CASE ConvertThrows(r)
    BY <1>18 DEF ConvertThrows, Found, Loaded
  <1>19. CASE Withdraw(r)
    BY <1>19 DEF Withdraw, ConvertDebit, Found, Loaded
  <1>20. CASE Transfer(r)
    BY <1>20 DEF Transfer, ConvertDebit, Found, Loaded
  <1>21. CASE Deposit(r)
    <2>1. Found(r) /\ run[r].at = "Resume" /\ run[r].answer = None
      BY <1>21 DEF Deposit, Found, Loaded
    <2>2. PICK m : run' = [run EXCEPT ![r].money = m, ![r].filled = KeepsRates, ![r].at = "SaveCredit"]
      BY <1>21 DEF Deposit, ConvertCredit
    <2> QED
      BY <1>21, <2>1, <2>2
  <1>22. CASE CreditTransfer(r)
    BY <1>22 DEF CreditTransfer, ConvertCredit
  <1>23. CASE AnswerOk(r)
    BY <1>23 DEF AnswerOk
  <1>24. CASE Fault(r)
    BY <1>24 DEF Fault
  <1> QED
    BY <1>1, <1>2, <1>3, <1>4, <1>5, <1>6, <1>7, <1>8, <1>9, <1>10, <1>11, <1>12, <1>13, <1>14, <1>15, <1>16, <1>17, <1>18, <1>19, <1>20, <1>21, <1>22, <1>23, <1>24 DEF Step, Repository, UseCase

-----------------------------------------------------------------------------
(* The type invariant. *)

(* What LookedUp says of the currencies a conversion needs. *)
LEMMA CurrencyIsKnown ==
    ASSUME IInv, NEW a, Opened(a)
    PROVE  CurrencyOf(a) \in Currencies
  BY SeedsAreRows, NoneIsNothing, IdsAreDistinct
     DEF IInv, OnRoute, Opened, CurrencyOf, Input, AccountRow, Valid, ValidOpenAccount, In, Op

(* Every conversion a request makes is of positive money between known     *)
(* currencies, hence an amount.                                            *)
LEMMA ConversionsAreAmounts ==
    ASSUME IInv, NEW r \in Requests, NEW a, Opened(a), run[r].at # "Idle",
           Op(r) \in Converting
    PROVE  Conversions(r, a) \subseteq Nat
  <1>1. In(r).amount \in Nat /\ In(r).currency \in Currencies
    BY NoneIsNothing DEF IInv, OnRoute, Input, Valid, ValidDeposit, ValidWithdraw, ValidTransfer, Op, Converting
  <1>2. CurrencyOf(a) \in Currencies
    BY CurrencyIsKnown
  <1> QED
    BY <1>1, <1>2, ConvertedIsNat, RatesArePositive DEF Conversions

(* Where money is converted, its accounts are known. *)
LEMMA FoundAccountsAreOpened ==
    ASSUME IInv, NEW r \in Requests, run[r].at # "Idle", Op(r) \in Converting,
           Found(r) \/ At(r, "ConvertCredit")
    PROVE  /\ Opened(In(r).account)
           /\ Op(r) = "Transfer" => Opened(In(r).dest)
  <1>1. LookedUp(r)
    BY DEF IInv
  <1>2. ~run[r].missing /\ run[r].next = None
    BY <1>1 DEF LookedUp, Found, Loaded, At, Early, OnAccount, Converting
  <1>3. None # "account"
    BY NoneIsNothing
  <1> QED
    BY <1>1, <1>2, <1>3 DEF LookedUp, OnAccount, Converting

LEMMA TypePreserved ==
    ASSUME IInv, NEW r \in Requests, Receive(r) \/ Step(r) \/ Fault(r)
    PROVE  TypeOK'
  <1>0. TypeOK /\ run[r] \in Scope
    BY DEF IInv, TypeOK
  <1> USE <1>0 DEF TypeOK, At, Answer, tables, Points, Answers, Refusals, Scope
  <1>1. CASE Receive(r)
    <2>1. PICK i \in Input :
             run' = IF Valid(i)
                    THEN [run EXCEPT ![r].input = i, ![r].at = FirstPoint(i), ![r].next = FirstLookup(i)]
                    ELSE [run EXCEPT ![r].input = i, ![r].answer = "Invalid"]
      BY <1>1, InputsAreTyped DEF Receive
    <2>2. FirstPoint(i) \in Points /\ FirstLookup(i) \in {"account", "dest", None}
      BY DEF FirstPoint, FirstLookup
    <2> DEFINE next == IF Valid(i)
                       THEN [run[r] EXCEPT !.input = i, !.at = FirstPoint(i), !.next = FirstLookup(i)]
                       ELSE [run[r] EXCEPT !.input = i, !.answer = "Invalid"]
    <2>3. next \in Scope
      BY <2>2
    <2>4. run' = [run EXCEPT ![r] = next]
      BY <2>1
    <2> HIDE DEF next
    <2>5. run' \in [Requests -> Scope]
      BY <2>3, <2>4
    <2> QED
      BY <1>1, <2>5 DEF Receive
  <1>2. CASE LookUp(r)
    BY <1>2 DEF LookUp, NextLookup, Visible
  <1>3. CASE ListAccounts(r)
    <2>1. PICK mine \in SUBSET Ids : run' = [run EXCEPT ![r].listed = mine, ![r].at = "Resume"]
      BY <1>3 DEF ListAccounts
    <2> DEFINE next == [run[r] EXCEPT !.listed = mine, !.at = "Resume"]
    <2>2. next \in Scope
      OBVIOUS
    <2>3. run' = [run EXCEPT ![r] = next]
      BY <2>1
    <2> HIDE DEF next
    <2>4. run' \in [Requests -> Scope]
      BY <2>2, <2>3
    <2> QED
      BY <1>3, <2>4 DEF ListAccounts
  <1>4. CASE NextAccount(r)
    BY <1>4 DEF NextAccount
  <1>5. CASE LoadCredits(r)
    <2>1. run[r].credits \cup EntriesOf(credits, run[r].loading) \in SUBSET EntryRow
      BY DEF EntriesOf
    <2> QED
      BY <1>5, <2>1 DEF LoadCredits
  <1>6. CASE LoadDebits(r)
    <2>1. run[r].debits \cup EntriesOf(debits, run[r].loading) \in SUBSET EntryRow
      BY DEF EntriesOf
    <2> QED
      BY <1>6, <2>1 DEF LoadDebits
  <1>7. CASE SaveAccount(r)
    BY <1>7 DEF SaveAccount, ValidOpenAccount, Valid
  <1>8. CASE SaveDebit(r)
    BY <1>8 DEF SaveDebit, Entry, AfterDebit
  <1>9. CASE SaveCredit(r)
    BY <1>9 DEF SaveCredit, Entry, Payee
  <1>10. CASE SaveThrows(r)
    BY <1>10 DEF SaveThrows, ForeignKeyFails
  <1>11. CASE DeleteDebits(r)
    BY <1>11 DEF DeleteDebits, EntriesOf
  <1>12. CASE DeleteCredits(r)
    BY <1>12 DEF DeleteCredits, EntriesOf
  <1>13. CASE DeleteAccount(r)
    <2>1. accounts' \in [Ids -> AccountRow \cup {None}]
      BY <1>13 DEF DeleteAccount
    <2>2. credits' \subseteq EntryRow /\ debits' \subseteq EntryRow
      BY <1>13 DEF DeleteAccount, Cascade
    <2>3. run' \in [Requests -> Scope] /\ faults' = faults
      <3>1. run' = [run EXCEPT ![r].at = "Committed"] /\ faults' = faults
        BY <1>13 DEF DeleteAccount
      <3> QED
        BY <3>1
    <2> QED
      BY <2>1, <2>2, <2>3
  <1>14. CASE AnswerNotFound(r)
    BY <1>14 DEF AnswerNotFound, Loaded
  <1>15. CASE GetAccount(r)
    BY <1>15 DEF GetAccount, Found, Loaded
  <1>16. CASE GetAccounts(r)
    BY <1>16 DEF GetAccounts, Loaded
  <1>17. CASE CloseAccount(r)
    BY <1>17 DEF CloseAccount, Found, Loaded
  <1>18. CASE ConvertThrows(r)
    BY <1>18 DEF ConvertThrows, Found, Loaded
  <1>19. CASE Withdraw(r)
    <2>1. Opened(In(r).account)
      BY <1>19, FoundAccountsAreOpened DEF Withdraw, Found, Loaded, Converting
    <2>2. Conversions(r, In(r).account) \subseteq Nat
      BY <1>19, <2>1, ConversionsAreAmounts DEF Withdraw, Found, Loaded, Converting
    <2> QED
      BY <1>19, <2>2, FlagsAndBounds DEF Withdraw, ConvertDebit, KeepsRates
  <1>20. CASE Transfer(r)
    <2>1. Opened(In(r).account)
      BY <1>20, FoundAccountsAreOpened DEF Transfer, Found, Loaded, Converting
    <2>2. Conversions(r, In(r).account) \subseteq Nat
      BY <1>20, <2>1, ConversionsAreAmounts DEF Transfer, Found, Loaded, Converting
    <2> QED
      BY <1>20, <2>2, FlagsAndBounds DEF Transfer, ConvertDebit, KeepsRates
  <1>21. CASE Deposit(r)
    <2>1. Opened(Payee(In(r))) /\ Op(r) \in Converting
      BY <1>21, FoundAccountsAreOpened DEF Deposit, Found, Loaded, Payee, Converting, Op
    <2>2. Conversions(r, Payee(In(r))) \subseteq Nat
      BY <1>21, <2>1, ConversionsAreAmounts DEF Deposit, Found, Loaded
    <2>3. PICK m \in Nat : run' = [run EXCEPT ![r].money = m, ![r].filled = RealExchange,
                                              ![r].at = "SaveCredit"]
      BY <1>21, <2>2 DEF Deposit, ConvertCredit, KeepsRates
    <2> DEFINE next == [run[r] EXCEPT !.money = m, !.filled = RealExchange, !.at = "SaveCredit"]
    <2>4. next \in Scope
      BY FlagsAndBounds
    <2>5. run' = [run EXCEPT ![r] = next]
      BY <2>3
    <2> HIDE DEF next
    <2>6. run' \in [Requests -> Scope]
      BY <2>4, <2>5
    <2> QED
      BY <1>21, <2>6 DEF Deposit, ConvertCredit
  <1>22. CASE CreditTransfer(r)
    <2>1. Opened(Payee(In(r))) /\ Op(r) \in Converting
      <3>1. Op(r) = "Transfer"
        BY <1>22 DEF CreditTransfer, IInv, OnRoute, Route, Input, UseCases, OnAccount, Op
      <3> QED
        BY <1>22, <3>1, FoundAccountsAreOpened DEF CreditTransfer, Payee, Converting, Op
    <2>2. Conversions(r, Payee(In(r))) \subseteq Nat
      BY <1>22, <2>1, ConversionsAreAmounts DEF CreditTransfer
    <2> QED
      BY <1>22, <2>2, FlagsAndBounds DEF CreditTransfer, ConvertCredit, KeepsRates
  <1>23. CASE AnswerOk(r)
    BY <1>23 DEF AnswerOk
  <1>24. CASE Fault(r)
    <2>1. faults' \in 0 .. MaxFaults
      BY <1>24, FlagsAndBounds DEF Fault
    <2>2. run' \in [Requests -> Scope]
      BY <1>24 DEF Fault
    <2> QED
      BY <1>24, <2>1, <2>2 DEF Fault
  <1> QED
    BY <1>1, <1>2, <1>3, <1>4, <1>5, <1>6, <1>7, <1>8, <1>9, <1>10, <1>11, <1>12, <1>13, <1>14, <1>15, <1>16, <1>17, <1>18, <1>19, <1>20, <1>21, <1>22, <1>23, <1>24 DEF Step, Repository, UseCase

-----------------------------------------------------------------------------
(* What stays true of an account. *)

(* A close that has begun to delete is never undone. *)
LEMMA ErasingIsForGood ==
    ASSUME IInv, NEW r \in Requests, Receive(r) \/ Step(r) \/ Fault(r), NEW a, Erasing(a)
    PROVE  Erasing(a)'
  <1>1. Moves(r)
    BY RequestsMoveAlone DEF IInv
  <1>2. PICK c \in Requests : /\ run[c].at \in {"DeleteCredits", "DeleteAccount", "Committed"}
                              /\ Op(c) = "CloseAccount" /\ In(c).account = a
    BY DEF Erasing
  <1>3. run'[c].at \in {"DeleteCredits", "DeleteAccount", "Committed"} /\ run'[c].input = run[c].input
    BY <1>1, <1>2 DEF Moves
  <1> QED
    BY <1>2, <1>3 DEF Erasing, Op, In

(* An id given to an account is never given again. *)
LEMMA OpenedIsForGood ==
    ASSUME IInv, NEW r \in Requests, Receive(r) \/ Step(r) \/ Fault(r), NEW a, Opened(a)
    PROVE  Opened(a)'
  <1>1. Moves(r)
    BY RequestsMoveAlone DEF IInv
  <1> QED
    BY <1>1 DEF Moves, Opened, Op, In

(* Each request keeps to the route of its use case. *)
LEMMA RouteIsKept ==
    ASSUME IInv, NEW r \in Requests, Receive(r) \/ Step(r) \/ Fault(r)
    PROVE  OnRoute(r)'
  <1>0. TypeOK /\ run[r] \in Scope /\ OnRoute(r)
    BY DEF IInv, TypeOK
  <1> USE <1>0 DEF TypeOK, Scope, OnRoute, At, Answer, Refusals, In, Op, Route, Input, UseCases, OnAccount
  <1>1. CASE Receive(r)
    <2>1. PICK i \in Input :
             run' = IF Valid(i)
                    THEN [run EXCEPT ![r].input = i, ![r].at = FirstPoint(i), ![r].next = FirstLookup(i)]
                    ELSE [run EXCEPT ![r].input = i, ![r].answer = "Invalid"]
      BY <1>1, InputsAreTyped DEF Receive
    <2>2. FirstPoint(i) \in Route(i.op) /\ FirstPoint(i) \notin {"Idle", "LoadCredits", "LoadDebits"}
      BY DEF FirstPoint
    <2>3. run[r].at = "Idle" /\ run[r].answer = None
      BY <1>1 DEF Receive
    <2>4. CASE Valid(i)
      <3>1. run'[r].input = i /\ run'[r].at = FirstPoint(i) /\ run'[r].answer = None
        BY <2>1, <2>3, <2>4
      <3> QED
        BY <3>1, <2>2, <2>4, NoneIsNothing DEF Answers
    <2>5. CASE ~Valid(i)
      <3>1. run'[r].at = "Idle" /\ run'[r].answer = "Invalid"
        BY <2>1, <2>3, <2>5
      <3> QED
        BY <3>1
    <2> QED
      BY <2>4, <2>5
  <1>2. CASE LookUp(r)
    BY <1>2, NoneIsNothing DEF LookUp, NextLookup, Visible
  <1>3. CASE ListAccounts(r)
    <2>1. PICK mine \in SUBSET Ids : run' = [run EXCEPT ![r].listed = mine, ![r].at = "Resume"]
      BY <1>3 DEF ListAccounts
    <2>2. /\ run'[r].at = "Resume" /\ run'[r].input = run[r].input /\ run'[r].answer = run[r].answer
          /\ run[r].answer = None /\ run[r].at = "List"
      BY <1>3, <2>1 DEF ListAccounts
    <2> QED
      BY <2>2, NoneIsNothing
  <1>4. CASE NextAccount(r)
    BY <1>4, NoneIsNothing DEF NextAccount
  <1>5. CASE LoadCredits(r)
    BY <1>5, NoneIsNothing DEF LoadCredits
  <1>6. CASE LoadDebits(r)
    BY <1>6, NoneIsNothing DEF LoadDebits
  <1>7. CASE SaveAccount(r)
    BY <1>7, NoneIsNothing DEF SaveAccount
  <1>8. CASE SaveDebit(r)
    BY <1>8, NoneIsNothing DEF SaveDebit, AfterDebit
  <1>9. CASE SaveCredit(r)
    BY <1>9, NoneIsNothing DEF SaveCredit
  <1>10. CASE SaveThrows(r)
    BY <1>10, NoneIsNothing DEF SaveThrows, ForeignKeyFails
  <1>11. CASE DeleteDebits(r)
    BY <1>11, NoneIsNothing DEF DeleteDebits
  <1>12. CASE DeleteCredits(r)
    BY <1>12, NoneIsNothing DEF DeleteCredits
  <1>13. CASE DeleteAccount(r)
    BY <1>13, NoneIsNothing DEF DeleteAccount
  <1>14. CASE AnswerNotFound(r)
    BY <1>14, NoneIsNothing DEF AnswerNotFound, Loaded
  <1>15. CASE GetAccount(r)
    BY <1>15, NoneIsNothing DEF GetAccount, Found, Loaded
  <1>16. CASE GetAccounts(r)
    BY <1>16, NoneIsNothing DEF GetAccounts, Loaded
  <1>17. CASE CloseAccount(r)
    <2>1. run[r].at = "Resume" /\ run[r].answer = None /\ Op(r) = "CloseAccount"
      BY <1>17 DEF CloseAccount, Found, Loaded
    <2>2. \/ run' = [run EXCEPT ![r].at = "DeleteDebits"]
          \/ run' = [run EXCEPT ![r].answer = "HasFunds"]
      BY <1>17 DEF CloseAccount
    <2>3. /\ run'[r].input = run[r].input
          /\ \/ run'[r].at = "DeleteDebits" /\ run'[r].answer = None
             \/ run'[r].at = "Resume" /\ run'[r].answer = "HasFunds"
      BY <2>1, <2>2
    <2>4. In(r) \in Input /\ Valid(In(r))
      BY <2>1
    <2> QED
      BY <2>1, <2>3, <2>4, NoneIsNothing DEF Answers
  <1>18. CASE ConvertThrows(r)
    BY <1>18, NoneIsNothing DEF ConvertThrows, Found, Loaded
  <1>19. CASE Withdraw(r)
    BY <1>19, NoneIsNothing DEF Withdraw, ConvertDebit, Found, Loaded
  <1>20. CASE Transfer(r)
    BY <1>20, NoneIsNothing DEF Transfer, ConvertDebit, Found, Loaded
  <1>21. CASE Deposit(r)
    BY <1>21, NoneIsNothing DEF Deposit, ConvertCredit, Found, Loaded
  <1>22. CASE CreditTransfer(r)
    BY <1>22, NoneIsNothing DEF CreditTransfer, ConvertCredit
  <1>23. CASE AnswerOk(r)
    BY <1>23, NoneIsNothing DEF AnswerOk
  <1>24. CASE Fault(r)
    BY <1>24, NoneIsNothing DEF Fault
  <1> QED
    BY <1>1, <1>2, <1>3, <1>4, <1>5, <1>6, <1>7, <1>8, <1>9, <1>10, <1>11, <1>12, <1>13, <1>14, <1>15, <1>16, <1>17, <1>18, <1>19, <1>20, <1>21, <1>22, <1>23, <1>24 DEF Step, Repository, UseCase

(* How an action of request r may change the tables. *)
TablesMove(r) ==
    /\ \A a \in Ids :
          \/ accounts'[a] = accounts[a]
          \/ accounts'[a] = None /\ \A e \in credits' \cup debits' : e.account # a
          \/ a = r /\ run[r].at = "SaveAccount" /\ run'[r].at = "Committed"
    /\ \A e \in credits : e \in credits' \/ Erasing(e.account)'
    /\ \A e \in debits : e \in debits' \/ Erasing(e.account)'
    /\ \A e \in credits' \ credits :
          e.id = r /\ run'[r].at = "Committed" /\ accounts'[e.account] # None
    /\ \A e \in debits' \ debits :
          e.id = r /\ run'[r].at \in {"ConvertCredit", "Committed"} /\ accounts'[e.account] # None

Writes(r) ==
    \/ SaveAccount(r) \/ SaveDebit(r) \/ SaveCredit(r)
    \/ DeleteDebits(r) \/ DeleteCredits(r) \/ DeleteAccount(r)

(* Only the six actions that send a command change the tables. *)
LEMMA OthersOnlyRead ==
    ASSUME NEW r \in Requests, Receive(r) \/ Step(r) \/ Fault(r), ~Writes(r)
    PROVE  UNCHANGED tables
  BY DEF Receive, Step, Fault, Repository, UseCase, Writes, LookUp, ListAccounts, NextAccount, LoadCredits,
         LoadDebits, SaveThrows, AnswerNotFound, GetAccount, GetAccounts, CloseAccount, ConvertThrows,
         Withdraw, Transfer, Deposit, CreditTransfer, ConvertDebit, ConvertCredit, AnswerOk

LEMMA TablesMoveAsTheyShould ==
    ASSUME IInv, NEW r \in Requests, Receive(r) \/ Step(r) \/ Fault(r)
    PROVE  TablesMove(r)
  <1>0. TypeOK /\ OnRoute(r) /\ run[r] \in Scope
    BY DEF IInv, TypeOK
  <1>1. CASE ~Writes(r)
    BY <1>1, OthersOnlyRead DEF TablesMove, tables
  <1>2. CASE SaveAccount(r)
    <2>1. \A a \in Ids : accounts'[a] = accounts[a] \/ a = r
      BY <1>0, <1>2 DEF SaveAccount, TypeOK
    <2>2. accounts'[r] # None
      <3>1. accounts'[r] = [owner |-> In(r).user, currency |-> In(r).currency]
        BY <1>0, <1>2 DEF SaveAccount, TypeOK, Ids
      <3>2. In(r).user \in Users /\ In(r).currency \in Currencies
        BY <1>0, <1>2, NoneIsNothing DEF SaveAccount, At, OnRoute, Route, Input, Valid, ValidOpenAccount,
                                         UseCases, OnAccount, Op
      <3> QED
        BY <3>1, <3>2, NoneIsNothing DEF AccountRow
    <2>3. run'[r].at = "Committed"
      BY <1>0, <1>2 DEF SaveAccount, TypeOK, Scope
    <2>4. debits' = debits /\ \A e \in credits' \ credits : e.id = r /\ e.account = r
      BY <1>2 DEF SaveAccount
    <2>5. credits \subseteq credits' /\ run[r].at = "SaveAccount"
      BY <1>2 DEF SaveAccount, At
    <2> QED
      BY <2>1, <2>2, <2>3, <2>4, <2>5 DEF TablesMove
  <1>3. CASE SaveDebit(r)
    <2>1. run'[r].at \in {"ConvertCredit", "Committed"}
      BY <1>0, <1>3 DEF SaveDebit, AfterDebit, TypeOK, Scope
    <2>2. debits' = debits \cup {Entry(r, In(r).account)} /\ UNCHANGED <<accounts, credits>>
      BY <1>3 DEF SaveDebit
    <2>3. \A e \in debits' \ debits : e.id = r /\ e.account = In(r).account
      BY <2>2 DEF Entry
    <2>4. accounts[In(r).account] # None
      BY <1>3 DEF SaveDebit
    <2> QED
      BY <2>1, <2>2, <2>3, <2>4 DEF TablesMove
  <1>4. CASE SaveCredit(r)
    <2>1. run'[r].at = "Committed"
      BY <1>0, <1>4 DEF SaveCredit, TypeOK, Scope
    <2>2. credits' = credits \cup {Entry(r, Payee(In(r)))} /\ UNCHANGED <<accounts, debits>>
      BY <1>4 DEF SaveCredit
    <2>3. \A e \in credits' \ credits : e.id = r /\ e.account = Payee(In(r))
      BY <2>2 DEF Entry
    <2>4. accounts[Payee(In(r))] # None
      BY <1>4 DEF SaveCredit
    <2> QED
      BY <2>1, <2>2, <2>3, <2>4 DEF TablesMove
  <1>5. ASSUME DeleteDebits(r) \/ DeleteCredits(r) \/ DeleteAccount(r)
        PROVE  \A a : a = In(r).account => Erasing(a)'
    <2>1. Op(r) = "CloseAccount"
      BY <1>0, <1>5 DEF DeleteDebits, DeleteCredits, DeleteAccount, At, OnRoute, Route, Input, UseCases, OnAccount, Op
    <2>2. /\ run'[r].at \in {"DeleteCredits", "DeleteAccount", "Committed"}
          /\ run'[r].input = run[r].input
      BY <1>0, <1>5 DEF DeleteDebits, DeleteCredits, DeleteAccount, TypeOK, Scope
    <2> QED
      BY <2>1, <2>2 DEF Erasing, Op, In
  <1>6. CASE DeleteDebits(r)
    <2>1. \A e \in debits : e \in debits' \/ e.account = In(r).account
      BY <1>6 DEF DeleteDebits, EntriesOf
    <2>2. debits' \subseteq debits /\ UNCHANGED <<accounts, credits>>
      BY <1>6 DEF DeleteDebits
    <2> QED
      BY <1>5, <1>6, <2>1, <2>2 DEF TablesMove
  <1>7. CASE DeleteCredits(r)
    <2>1. \A e \in credits : e \in credits' \/ e.account = In(r).account
      BY <1>7 DEF DeleteCredits, EntriesOf
    <2>2. credits' \subseteq credits /\ UNCHANGED <<accounts, debits>>
      BY <1>7 DEF DeleteCredits
    <2> QED
      BY <1>5, <1>7, <2>1, <2>2 DEF TablesMove
  <1>8. CASE DeleteAccount(r)
    <2>1. /\ \A e \in credits : e \in credits' \/ e.account = In(r).account
          /\ \A e \in debits : e \in debits' \/ e.account = In(r).account
          /\ \A e \in credits' \cup debits' : e.account # In(r).account
          /\ credits' \subseteq credits /\ debits' \subseteq debits
      BY <1>8 DEF DeleteAccount, Cascade, EntriesOf
    <2>2. \A a \in Ids : accounts'[a] = accounts[a] \/ (accounts'[a] = None /\ a = In(r).account)
      BY <1>0, <1>8 DEF DeleteAccount, TypeOK
    <2> QED
      BY <1>5, <1>8, <2>1, <2>2 DEF TablesMove
  <1> QED
    BY <1>1, <1>2, <1>3, <1>4, <1>6, <1>7, <1>8 DEF Writes

(* Every row is accounted for, before and after. *)
LEMMA RowsStayAccountedFor ==
    ASSUME IInv, NEW r \in Requests, Receive(r) \/ Step(r) \/ Fault(r)
    PROVE  RowsAreAccountedFor'
  <1>1. Moves(r) /\ TablesMove(r) /\ TypeOK
    BY RequestsMoveAlone, TablesMoveAsTheyShould DEF IInv
  <1>2. \A a \in Ids : accounts'[a] # None => Opened(a)'
    <2>1. ASSUME run[r].at = "SaveAccount", run'[r].at = "Committed" PROVE Opened(r)'
      <3>1. Op(r) = "OpenAccount"
        BY <2>1 DEF IInv, OnRoute, Route, Input, UseCases, OnAccount, Op
      <3>2. run'[r].input = run[r].input
        BY <1>1, <2>1 DEF Moves
      <3> QED
        BY <2>1, <3>1, <3>2 DEF Opened, Op, In
    <2>2. ASSUME NEW a \in Ids, accounts'[a] # None, accounts'[a] # accounts[a] PROVE Opened(a)'
      BY <1>1, <2>1, <2>2 DEF TablesMove
    <2> QED
      BY <2>2, OpenedIsForGood DEF IInv, RowsAreAccountedFor
  <1>3. \A e \in credits' \cup debits' : accounts'[e.account] # None
    <2>1. ASSUME NEW e \in credits \cup debits, e \in credits' \cup debits' PROVE accounts'[e.account] # None
      <3>1. e.account \in Ids /\ accounts[e.account] # None
        BY <1>1 DEF IInv, RowsAreAccountedFor, TypeOK, EntryRow
      <3>2. accounts[r] = None \/ run[r].at # "SaveAccount"
        BY <1>1, IdsAreDistinct DEF IInv, RowsAreAccountedFor, Opened, Ids
      <3> QED
        BY <1>1, <2>1, <3>1, <3>2 DEF TablesMove
    <2> QED
      BY <1>1, <2>1 DEF TablesMove
  <1>4. \A c \in credits' : c.id \in Requests => run'[c.id].at = "Committed"
    BY <1>1 DEF TablesMove, Moves, IInv, RowsAreAccountedFor
  <1>5. \A d \in debits' : d.id \in Requests => run'[d.id].at \in {"ConvertCredit", "SaveCredit", "Committed"}
    BY <1>1 DEF TablesMove, Moves, IInv, RowsAreAccountedFor
  <1> QED
    BY <1>2, <1>3, <1>4, <1>5 DEF RowsAreAccountedFor

(* An account somebody opened keeps its row or loses it for good. *)
LEMMA OpenedKeepsItsRow ==
    ASSUME IInv, NEW r \in Requests, Receive(r) \/ Step(r) \/ Fault(r), NEW a, Opened(a)
    PROVE  a \in Ids /\ accounts'[a] \in {None, accounts[a]}
  <1>1. a \in Ids /\ ~(a = r /\ run[r].at = "SaveAccount")
    BY IdsAreDistinct DEF Opened, Ids
  <1> QED
    BY <1>1, TablesMoveAsTheyShould DEF TablesMove

(* What a request knows of the accounts it looked up stays true while the  *)
(* other requests go on.                                                   *)
LEMMA LookedUpStands ==
    ASSUME IInv, NEW r \in Requests, Receive(r) \/ Step(r) \/ Fault(r), NEW q \in Requests,
           run'[q].input = run[q].input, Opened(In(q).account), Op(q) \in OwnerOnly => OwnedOrGone(q)
    PROVE  Opened(In(q).account)' /\ (Op(q)' \in OwnerOnly => OwnedOrGone(q)')
  <1>1. \A a : Opened(a) => Opened(a)'
    BY OpenedIsForGood
  <1>2. accounts'[In(q).account] \in {None, accounts[In(q).account]}
    BY OpenedKeepsItsRow
  <1>3. In(q)' = In(q) /\ Op(q)' = Op(q)
    BY DEF In, Op
  <1> QED
    BY <1>1, <1>2, <1>3 DEF OwnedOrGone, Opened, In, Op

LEMMA LookedUpIsKept ==
    ASSUME IInv, NEW r \in Requests, Receive(r) \/ Step(r) \/ Fault(r), NEW q \in Requests
    PROVE  LookedUp(q)'
  <1>0. TypeOK /\ Moves(r) /\ LookedUp(q) /\ OnRoute(q) /\ run[q] \in Scope
    BY RequestsMoveAlone DEF IInv, TypeOK
  <1>1. \A a : Opened(a) => Opened(a)'
    BY OpenedIsForGood
  <1>2. ASSUME run'[q].input = run[q].input, run'[q].next = run[q].next, run'[q].missing = run[q].missing,
               run[q].at # "Idle", run'[q].at \in Early \/ run[q].at \notin Early \/ Found(q)
        PROVE  LookedUp(q)'
    <2>1. Opened(In(q).account) /\ (Op(q) \in OwnerOnly => OwnedOrGone(q))
             => Opened(In(q).account)' /\ (Op(q)' \in OwnerOnly => OwnedOrGone(q)')
      BY <1>2, LookedUpStands
    <2>2. In(q)' = In(q) /\ Op(q)' = Op(q)
      BY <1>2 DEF In, Op
    <2>3. Opened(In(q).dest) => Opened(In(q).dest)'
      BY <1>1, <2>2
    <2> QED
      BY <1>0, <1>2, <2>1, <2>2, <2>3 DEF LookedUp, Found, Loaded
  <1>3. CASE q # r
    <2>1. run'[q] = run[q]
      BY <1>0, <1>3 DEF Moves
    <2>2. CASE run[q].at = "Idle"
      BY <2>1, <2>2 DEF LookedUp
    <2>3. CASE run[q].at # "Idle"
      BY <1>2, <2>1, <2>3 DEF Found
    <2> QED
      BY <2>2, <2>3
  <1>4. CASE q = r /\ Receive(r)
    <2>1. PICK i \in Input :
             run' = IF Valid(i)
                    THEN [run EXCEPT ![r].input = i, ![r].at = FirstPoint(i), ![r].next = FirstLookup(i)]
                    ELSE [run EXCEPT ![r].input = i, ![r].answer = "Invalid"]
      BY <1>4, InputsAreTyped DEF Receive
    <2>2. run[r].at = "Idle"
      BY <1>4 DEF Receive, At
    <2>3. CASE Valid(i) /\ i.op \in OnAccount
      <3>1. run'[r].at = "Resume" /\ run'[r].next = "account" /\ run'[r].input = i
        BY <1>0, <2>1, <2>3 DEF TypeOK, Scope, FirstPoint, FirstLookup, OnAccount
      <3> QED
        BY <1>4, <2>3, <3>1, NoneIsNothing DEF LookedUp, Early
    <2>4. CASE Valid(i) /\ i.op \notin OnAccount
      <3>1. run'[r].input = i
        BY <1>0, <2>1, <2>4 DEF TypeOK, Scope
      <3> QED
        BY <1>4, <2>4, <3>1 DEF LookedUp, Op, In
    <2>5. CASE ~Valid(i)
      <3>1. run'[r].at = "Idle"
        BY <1>0, <2>1, <2>2, <2>5 DEF TypeOK, Scope
      <3> QED
        BY <1>4, <3>1 DEF LookedUp
    <2> QED
      BY <2>3, <2>4, <2>5
  <1>5. CASE q = r /\ LookUp(r)
    <2>0. /\ run[r].at = "Resume" /\ run[r].next \in {"account", "dest"}
          /\ In(r) \in Input /\ Valid(In(r)) /\ UNCHANGED accounts
          /\ \A a \in Ids : accounts[a] # None => Opened(a)
      BY <1>0, <1>5 DEF LookUp, At, OnRoute, Scope, tables, IInv, RowsAreAccountedFor
    <2>1. run'[r].input = In(r) /\ run'[r].next = NextLookup(r) /\ run'[r].at \in Early
      BY <1>0, <1>5 DEF LookUp, TypeOK, Scope, At, Early, In
    <2>2. CASE run'[r].missing
      BY <1>5, <2>1, <2>2, NoneIsNothing DEF LookedUp, NextLookup, Op, In
    <2>3. CASE ~run'[r].missing
      <3>1. Visible(IF run[r].next = "dest" THEN In(r).dest ELSE In(r).account, In(r)) /\ ~run[r].missing
        BY <1>0, <1>5, <2>3 DEF LookUp, TypeOK, Scope, At
      <3>2. CASE run[r].next = "account"
        <4>1. Visible(In(r).account, In(r))
          BY <3>1, <3>2
        <4>2. CASE Op(r) \in OnAccount
          <5>1. In(r).account \in Ids
            BY <2>0, <4>2 DEF Input, Valid, ValidGetAccount, ValidCloseAccount, ValidDeposit, ValidWithdraw,
                              ValidTransfer, OnAccount, Op
          <5>2. Opened(In(r).account) /\ (Op(r) \in OwnerOnly => OwnedOrGone(r))
            <6>1. accounts[In(r).account] \in AccountRow /\ accounts[In(r).account] # None
              BY <1>0, <4>1, <5>1 DEF TypeOK, Visible
            <6> QED
              BY <2>0, <4>1, <5>1, <6>1 DEF Visible, OwnedOrGone, AccountRow, Op
          <5>3. Opened(In(r).account)' /\ (Op(r)' \in OwnerOnly => OwnedOrGone(r)')
            BY <2>1, <5>2, LookedUpStands DEF In
          <5>4. Op(r)' = Op(r)
            BY <2>1 DEF Op, In
          <5>5. run'[r].next = IF Op(r) = "Transfer" THEN "dest" ELSE None
            BY <2>1, <3>2 DEF NextLookup
          <5> QED
            BY <1>5, <2>1, <5>3, <5>4, <5>5, NoneIsNothing DEF LookedUp
        <4>3. CASE Op(r) \notin OnAccount
          BY <1>5, <2>1, <4>3 DEF LookedUp, Op, In
        <4> QED
          BY <4>2, <4>3
      <3>3. CASE run[r].next = "dest"
        <4>1. Visible(In(r).dest, In(r))
          BY <3>1, <3>3
        <4>2. CASE Op(r) \in OnAccount
          <5>1. Op(r) = "Transfer" /\ Opened(In(r).account)
            BY <1>0, <1>5, <2>0, <3>1, <3>3, <4>2 DEF LookedUp
          <5>2. Opened(In(r).dest)
            BY <2>0, <4>1, <5>1 DEF Input, Valid, ValidTransfer, Visible, Op
          <5>3. run'[r].next = None /\ Op(r)' = "Transfer"
            BY <2>1, <3>3, <5>1 DEF NextLookup, Op, In
          <5>4. Opened(In(r).account)' /\ Opened(In(r).dest)'
            <6>1. In(r)' = In(r)
              BY <2>1 DEF In
            <6> QED
              BY <1>1, <5>1, <5>2, <6>1
          <5> QED
            BY <1>5, <2>1, <5>3, <5>4, NoneIsNothing DEF LookedUp, OwnerOnly
        <4>3. CASE Op(r) \notin OnAccount
          BY <1>5, <2>1, <4>3 DEF LookedUp, Op, In
        <4> QED
          BY <4>2, <4>3
      <3> QED
        BY <2>0, <3>2, <3>3
    <2> QED
      BY <2>2, <2>3
  <1>6. CASE q = r /\ ~Receive(r) /\ ~LookUp(r)
    BY <1>0, <1>2, <1>6 DEF Moves
  <1> QED
    BY <1>3, <1>4, <1>5, <1>6

(* An entry stays until a close of its account erases it. *)
LEMMA EntriesStayOrAreErased ==
    ASSUME IInv, NEW r \in Requests, Receive(r) \/ Step(r) \/ Fault(r), NEW q \in Requests, NEW a
    PROVE  /\ HasCredit(q, a) \/ Erasing(a) => HasCredit(q, a)' \/ Erasing(a)'
           /\ HasDebit(q, a) \/ Erasing(a) => HasDebit(q, a)' \/ Erasing(a)'
  <1>1. TablesMove(r) /\ (Erasing(a) => Erasing(a)')
    BY TablesMoveAsTheyShould, ErasingIsForGood
  <1>2. ASSUME NEW b, b = a, Erasing(b)' PROVE Erasing(a)'
    BY <1>2
  <1>3. ASSUME HasCredit(q, a) PROVE HasCredit(q, a)' \/ Erasing(a)'
    <2>1. PICK c \in credits : c.id = q /\ c.account = a
      BY <1>3 DEF HasCredit
    <2>2. c \in credits' \/ Erasing(c.account)'
      BY <1>1 DEF TablesMove
    <2> QED
      BY <1>2, <2>1, <2>2 DEF HasCredit
  <1>4. ASSUME HasDebit(q, a) PROVE HasDebit(q, a)' \/ Erasing(a)'
    <2>1. PICK d \in debits : d.id = q /\ d.account = a
      BY <1>4 DEF HasDebit
    <2>2. d \in debits' \/ Erasing(d.account)'
      BY <1>1 DEF TablesMove
    <2> QED
      BY <1>2, <2>1, <2>2 DEF HasDebit
  <1> QED
    BY <1>1, <1>3, <1>4

(* What was saved stays saved, while the request goes on. *)
LEMMA SavedStands ==
    ASSUME IInv, NEW r \in Requests, Receive(r) \/ Step(r) \/ Fault(r), NEW q \in Requests,
           run[q].at # "Idle", run'[q].input = run[q].input
    PROVE  /\ DebitSaved(q) => HasDebit(q, In(q).account)' \/ Erasing(In(q).account)'
           /\ CreditSaved(q) => HasCredit(q, Payee(In(q)))' \/ Erasing(Payee(In(q)))'
           /\ run[q].at = "Committed" =>
                 /\ Op(q) = "OpenAccount" => (accounts'[q] # None /\ HasCredit(q, q)') \/ Erasing(q)'
                 /\ Op(q) = "CloseAccount" => accounts'[In(q).account] = None
  <1>0. SavedOrErased(q) /\ LookedUp(q) /\ In(q)' = In(q)
    BY DEF IInv, In
  <1>1. DebitSaved(q) => HasDebit(q, In(q).account)' \/ Erasing(In(q).account)'
    <2> DEFINE a == In(q).account
    <2>1. HasDebit(q, a) \/ Erasing(a) => HasDebit(q, a)' \/ Erasing(a)'
      <3>1. \A b : HasDebit(q, b) \/ Erasing(b) => HasDebit(q, b)' \/ Erasing(b)'
        BY EntriesStayOrAreErased
      <3> QED
        BY <1>0, <3>1 DEF HasDebit, Erasing
    <2> QED
      BY <1>0, <2>1 DEF SavedOrErased
  <1>2. CreditSaved(q) => HasCredit(q, Payee(In(q)))' \/ Erasing(Payee(In(q)))'
    <2> DEFINE a == Payee(In(q))
    <2>1. HasCredit(q, a) \/ Erasing(a) => HasCredit(q, a)' \/ Erasing(a)'
      <3>1. \A b : HasCredit(q, b) \/ Erasing(b) => HasCredit(q, b)' \/ Erasing(b)'
        BY EntriesStayOrAreErased
      <3>2. a' = a
        BY <1>0 DEF Payee
      <3> QED
        BY <3>1, <3>2 DEF HasCredit, Erasing
    <2> QED
      BY <1>0, <2>1 DEF SavedOrErased
  <1>3. ASSUME run[q].at = "Committed", Op(q) = "OpenAccount"
        PROVE  (accounts'[q] # None /\ HasCredit(q, q)') \/ Erasing(q)'
    <2>1. HasCredit(q, q)' \/ Erasing(q)'
      BY <1>0, <1>3, EntriesStayOrAreErased DEF SavedOrErased
    <2>2. HasCredit(q, q)' => accounts'[q] # None
      BY RowsStayAccountedFor DEF RowsAreAccountedFor, HasCredit
    <2> QED
      BY <2>1, <2>2
  <1>4. ASSUME run[q].at = "Committed", Op(q) = "CloseAccount"
        PROVE  accounts'[In(q).account] = None
    <2>1. Opened(In(q).account) /\ accounts[In(q).account] = None
      BY <1>0, <1>4, NoneIsNothing DEF SavedOrErased, LookedUp, Early, OnAccount
    <2> QED
      BY <2>1, OpenedKeepsItsRow
  <1> QED
    BY <1>1, <1>2, <1>3, <1>4

LEMMA SavedIsKept ==
    ASSUME IInv, NEW r \in Requests, Receive(r) \/ Step(r) \/ Fault(r), NEW q \in Requests
    PROVE  SavedOrErased(q)'
  <1>0. TypeOK /\ Moves(r) /\ OnRoute(q) /\ run[q] \in Scope
    BY RequestsMoveAlone DEF IInv, TypeOK
  <1>1. ASSUME run[q].at # "Idle", run'[q].input = run[q].input,
               DebitSaved(q)' => DebitSaved(q), CreditSaved(q)' => CreditSaved(q),
               run'[q].at = "Committed" => run[q].at = "Committed"
        PROVE  SavedOrErased(q)'
    <2>1. In(q)' = In(q) /\ Op(q)' = Op(q)
      BY <1>1 DEF In, Op
    <2> QED
      BY <1>1, <2>1, SavedStands DEF SavedOrErased, Payee, HasCredit, HasDebit, Erasing
  <1>2. CASE q # r
    <2>1. run'[q] = run[q]
      BY <1>0, <1>2 DEF Moves
    <2>2. CASE run[q].at = "Idle"
      BY <2>1, <2>2 DEF SavedOrErased, DebitSaved, CreditSaved
    <2>3. CASE run[q].at # "Idle"
      BY <1>1, <2>1, <2>3 DEF DebitSaved, CreditSaved, Op, In
    <2> QED
      BY <2>2, <2>3
  <1>3. CASE q = r /\ ~Commits(r)
    <2>1. CASE run[r].at = "Idle"
      <3>1. run'[r].at \notin {"ConvertCredit", "SaveCredit", "Committed"}
        BY <1>0, <1>3, <2>1 DEF Moves, Deposit, Found, Loaded, At
      <3> QED
        BY <1>3, <3>1 DEF SavedOrErased, DebitSaved, CreditSaved
    <2>2. CASE run[r].at # "Idle"
      <3>1. run'[r].input = run[r].input /\ Op(r)' = Op(r)
        BY <1>0, <2>2 DEF Moves, Op, In
      <3>2. run'[r].at = "SaveCredit" => run[r].at \in {"ConvertCredit", "SaveCredit"} \/ Op(r) = "Deposit"
        BY <1>0 DEF Moves, Deposit
      <3>3. run'[r].at \in {"ConvertCredit", "Committed"} => run'[r].at = run[r].at
        BY <1>0, <1>3 DEF Moves
      <3>4. (DebitSaved(r)' => DebitSaved(r)) /\ (CreditSaved(r)' => CreditSaved(r))
        BY <3>1, <3>2, <3>3 DEF DebitSaved, CreditSaved
      <3> QED
        BY <1>1, <1>3, <2>2, <3>1, <3>3, <3>4
    <2> QED
      BY <2>1, <2>2
  <1>4. CASE q = r /\ SaveAccount(r)
    <2>1. Op(r) = "OpenAccount"
      BY <1>0, <1>4 DEF SaveAccount, At, OnRoute, Route, Input, UseCases, OnAccount, Op
    <2>2. Op(r)' = "OpenAccount" /\ run'[r].at = "Committed"
      BY <1>0, <1>4, <2>1 DEF SaveAccount, TypeOK, Scope, Op, In
    <2>3. HasCredit(r, r)'
      <3>1. [id |-> r, account |-> r, value |-> In(r).amount] \in credits'
        BY <1>4 DEF SaveAccount
      <3> QED
        BY <3>1 DEF HasCredit
    <2>4. accounts'[r] # None
      BY <2>3, RowsStayAccountedFor DEF RowsAreAccountedFor, HasCredit
    <2> QED
      BY <1>4, <2>2, <2>3, <2>4 DEF SavedOrErased, DebitSaved, CreditSaved
  <1>5. CASE q = r /\ SaveDebit(r)
    <2>1. Op(r) \in {"Withdraw", "Transfer"}
      BY <1>0, <1>5 DEF SaveDebit, At, OnRoute, Route, Input, UseCases, OnAccount, Op
    <2>2. In(r)' = In(r) /\ Op(r)' = Op(r) /\ run'[r].at = AfterDebit(In(r))
      BY <1>0, <1>5 DEF SaveDebit, TypeOK, Scope, Op, In
    <2>3. HasDebit(r, In(r).account)'
      <3>1. Entry(r, In(r).account) \in debits'
        BY <1>5 DEF SaveDebit
      <3> QED
        BY <2>2, <3>1 DEF HasDebit, Entry
    <2>4. ~CreditSaved(r)'
      BY <2>1, <2>2 DEF CreditSaved, AfterDebit, Op
    <2> QED
      BY <1>5, <2>1, <2>2, <2>3, <2>4 DEF SavedOrErased
  <1>6. CASE q = r /\ SaveCredit(r)
    <2>1. Op(r) \in {"Deposit", "Transfer"}
      BY <1>0, <1>6 DEF SaveCredit, At, OnRoute, Route, Input, UseCases, OnAccount, Op
    <2>2. In(r)' = In(r) /\ Op(r)' = Op(r) /\ run'[r].at = "Committed" /\ run[r].at = "SaveCredit"
      BY <1>0, <1>6 DEF SaveCredit, TypeOK, Scope, Op, In, At
    <2>3. HasCredit(r, Payee(In(r)))'
      <3>1. Entry(r, Payee(In(r))) \in credits'
        BY <1>6 DEF SaveCredit
      <3>2. Payee(In(r))' = Payee(In(r))
        BY <2>2 DEF Payee
      <3> QED
        BY <3>1, <3>2 DEF HasCredit, Entry
    <2>4. DebitSaved(r)' => DebitSaved(r)
      BY <2>1, <2>2 DEF DebitSaved
    <2>5. DebitSaved(r)' => HasDebit(r, In(r).account)' \/ Erasing(In(r).account)'
      BY <2>2, <2>4, SavedStands DEF In
    <2> QED
      BY <1>6, <2>1, <2>2, <2>3, <2>5 DEF SavedOrErased
  <1>7. CASE q = r /\ DeleteAccount(r)
    <2>1. Op(r) = "CloseAccount" /\ In(r).account \in Ids
      BY <1>0, <1>7 DEF DeleteAccount, At, OnRoute, Route, Input, UseCases, OnAccount, Op, Valid, ValidCloseAccount
    <2>2. In(r)' = In(r) /\ Op(r)' = Op(r) /\ run'[r].at = "Committed"
      BY <1>0, <1>7 DEF DeleteAccount, TypeOK, Scope, Op, In
    <2>3. accounts'[In(r).account] = None
      BY <1>0, <1>7, <2>1 DEF DeleteAccount, TypeOK
    <2> QED
      BY <1>7, <2>1, <2>2, <2>3 DEF SavedOrErased, DebitSaved, CreditSaved
  <1> QED
    BY <1>2, <1>3, <1>4, <1>5, <1>6, <1>7 DEF Commits

LEMMA RouteIsKeptByAll ==
    ASSUME IInv, NEW r \in Requests, Receive(r) \/ Step(r) \/ Fault(r), NEW q \in Requests
    PROVE  OnRoute(q)'
  <1>1. CASE q = r
    BY <1>1, RouteIsKept
  <1>2. CASE q # r
    <2>1. run'[q] = run[q]
      BY <1>2, RequestsMoveAlone DEF IInv, Moves
    <2> QED
      BY <2>1 DEF IInv, OnRoute, In, Op
  <1> QED
    BY <1>1, <1>2

-----------------------------------------------------------------------------
(* The induction. *)

LEMMA InitImpliesIInv ==
    ASSUME Init
    PROVE  IInv
  <1>1. TypeOK
    <2>1. NewScope \in Scope
      BY DEF NewScope, Scope, Points
    <2>2. accounts \in [Ids -> AccountRow \cup {None}]
      BY SeedsAreRows DEF Init
    <2>3. credits \subseteq EntryRow /\ debits \subseteq EntryRow
      BY SeedsAreRows DEF Init, EntryRow, Ids
    <2> QED
      BY <2>1, <2>2, <2>3, FlagsAndBounds DEF Init, TypeOK
  <1>2. RowsAreAccountedFor
    <2>1. \A a \in Ids : accounts[a] # None => a \in Seeds
      BY DEF Init
    <2>2. \A a \in Seeds : accounts[a] \in AccountRow
      BY SeedsAreRows DEF Init, Ids
    <2>3. \A e \in credits \cup debits : e.id \in Seeds /\ e.account \in Seeds
      BY SeedsAreRows DEF Init
    <2> QED
      BY <2>1, <2>2, <2>3, NoneIsNothing, IdsAreDistinct DEF RowsAreAccountedFor, Opened
  <1>3. ASSUME NEW r \in Requests PROVE OnRoute(r) /\ LookedUp(r) /\ SavedOrErased(r)
    BY DEF Init, NewScope, OnRoute, LookedUp, SavedOrErased, DebitSaved, CreditSaved
  <1> QED
    BY <1>1, <1>2, <1>3 DEF IInv

LEMMA IInvIsInductive ==
    ASSUME IInv, [Next]_vars
    PROVE  IInv'
  <1>1. ASSUME NEW r \in Requests, Receive(r) \/ Step(r) \/ Fault(r) PROVE IInv'
    BY <1>1, TypePreserved, RowsStayAccountedFor, RouteIsKeptByAll, LookedUpIsKept, SavedIsKept DEF IInv
  <1>2. CASE UNCHANGED vars
    <2>1. TypeOK'
      BY <1>2 DEF vars, IInv, TypeOK
    <2>2. RowsAreAccountedFor'
      BY <1>2 DEF vars, IInv, RowsAreAccountedFor, Opened, Op, In
    <2>3. ASSUME NEW r \in Requests PROVE OnRoute(r)' /\ LookedUp(r)' /\ SavedOrErased(r)'
      BY <1>2 DEF vars, IInv, OnRoute, LookedUp, SavedOrErased, Opened, OwnedOrGone, DebitSaved, CreditSaved,
                  HasCredit, HasDebit, Erasing, Payee, Op, In
    <2> QED
      BY <2>1, <2>2, <2>3 DEF IInv
  <1> QED
    BY <1>1, <1>2 DEF Next, AllAnswered

(* Every behaviour satisfies the inductive invariant. *)
THEOREM Invariance == Spec => []IInv
  <1>1. Init => IInv
    BY InitImpliesIInv
  <1>2. IInv /\ [Next]_vars => IInv'
    BY IInvIsInductive
  <1> QED
    BY <1>1, <1>2, PTL DEF Spec

(* The tables and the scopes hold what their types say, whatever requests  *)
(* race: in particular no conversion of the three use cases that move      *)
(* money (Deposit, Withdraw, Transfer) yields a negative entry.            *)
THEOREM TypeCorrectness == Spec => []TypeOK
  <1>1. IInv => TypeOK
    BY DEF IInv
  <1> QED
    BY <1>1, Invariance, PTL

(* No deposit, transfer or withdrawal leaves an entry of an account that a *)
(* close (AccountRepository.Delete) has removed, for any number of them.   *)
THEOREM EntriesHaveAccounts == Spec => []NoOrphanEntry
  <1>1. IInv => NoOrphanEntry
    BY DEF IInv, RowsAreAccountedFor, NoOrphanEntry
  <1> QED
    BY <1>1, Invariance, PTL

(* A refused request (validation, NotFound, HasFunds, OutOfFunds) has      *)
(* saved nothing, whatever point its use case was refused at.              *)
THEOREM RefusalsAreClean == Spec => []RefusedLeavesNothing
  <1>1. IInv => RefusedLeavesNothing
    <2>1. ASSUME IInv, NEW r \in Requests, run[r].answer \in Refusals
          PROVE  (\A e \in credits \cup debits : e.id # r) /\ accounts[r] = None
      <3>1. run[r].at \in {"Idle", "Resume"}
        BY <2>1 DEF IInv, OnRoute
      <3>2. \A e \in credits \cup debits : e.id # r
        BY <2>1, <3>1 DEF IInv, RowsAreAccountedFor
      <3>3. accounts[r] = None
        BY <2>1, <3>1, IdsAreDistinct DEF IInv, RowsAreAccountedFor, Opened, Ids
      <3> QED
        BY <3>2, <3>3
    <2> QED
      BY <2>1 DEF RefusedLeavesNothing
  <1> QED
    BY <1>1, Invariance, PTL

(* What an Ok of a deposit, a withdrawal, a transfer, an opening or a      *)
(* close reports is in the tables until a close erases it.                 *)
THEOREM ReceiptsAreHonoured == Spec => []OkIsAReceipt
  <1>1. IInv => OkIsAReceipt
    <2>1. ASSUME IInv, NEW r \in Requests, run[r].answer = "Ok"
          PROVE  Op(r) \in {"Deposit", "Withdraw", "Transfer", "OpenAccount", "CloseAccount"}
                    => run[r].at = "Committed"
      BY <2>1, NoneIsNothing DEF IInv, OnRoute, Answers, Refusals
    <2> QED
      BY <2>1 DEF IInv, SavedOrErased, DebitSaved, CreditSaved, OkIsAReceipt
  <1> QED
    BY <1>1, Invariance, PTL

(* Find filters by the owner: the account a withdrawal debits or a close   *)
(* deletes is the user's own, if it is still there.                        *)
THEOREM OwnershipIsRespected == Spec => []OwnersActOnTheirOwn
  <1>1. IInv => OwnersActOnTheirOwn
    BY NoneIsNothing DEF IInv, OwnersActOnTheirOwn, OwnerOnly, LookedUp, OwnedOrGone, Early, OnAccount
  <1> QED
    BY <1>1, Invariance, PTL

(* No step writes an entry for a request that was answered, and none takes *)
(* an entry away but a step of a close of its account.                     *)
THEOREM EntriesComeAndGo == Spec => EntriesComeAndGoInTime
  <1> DEFINE Timely ==
        /\ \A e \in (credits' \ credits) \cup (debits' \ debits) : run[e.id].answer = None
        /\ \A e \in (credits \ credits') \cup (debits \ debits') : Erasing(e.account)'
  <1>1. IInv /\ [Next]_vars => [Timely]_vars
    <2>1. ASSUME IInv, NEW r \in Requests, Receive(r) \/ Step(r) \/ Fault(r) PROVE Timely
      <3>1. Moves(r) /\ TablesMove(r)
        BY <2>1, RequestsMoveAlone, TablesMoveAsTheyShould DEF IInv
      <3> QED
        BY <3>1 DEF Moves, TablesMove
    <2> QED
      BY <2>1 DEF Next, AllAnswered
  <1> QED
    BY <1>1, Invariance, PTL DEF Spec, EntriesComeAndGoInTime
=============================================================================
