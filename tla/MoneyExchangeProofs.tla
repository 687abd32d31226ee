------------------------ MODULE MoneyExchangeProofs ------------------------
(***************************************************************************)
(* What the run of MoneyExchange checks for a dollar of ten cents, proved  *)
(* for decimals of any precision, any rates and any amounts.               *)
(***************************************************************************)
EXTENDS MoneyExchange, TLAPS

-----------------------------------------------------------------------------
(* Arithmetic the solver has to be told. *)

LEMMA ProductType ==
    ASSUME NEW m \in Int, NEW n \in Int
    PROVE  m * n \in Int
OBVIOUS

(* A positive factor can be cancelled. *)
LEMMA Cancel ==
    ASSUME NEW m \in Int, NEW n \in Int, NEW k \in Nat \ {0}, k * m < k * n
    PROVE  m < n
OBVIOUS

LEMMA DivisionWithRest ==
    ASSUME NEW x \in Int, NEW y \in Nat \ {0}
    PROVE  /\ x \div y \in Int /\ x % y \in Int
           /\ x = y * (x \div y) + (x % y) /\ 0 <= x % y /\ x % y < y
OBVIOUS

(* The quotient is the one whole number that is nearest, halves going up. *)
LEMMA Nearest ==
    ASSUME NEW x \in Nat, NEW y \in Nat \ {0}
    PROVE  /\ RoundedQuotient(x, y) \in Nat
           /\ 2 * (y * RoundedQuotient(x, y)) <= 2 * x + y
           /\ 2 * x + y < 2 * (y * RoundedQuotient(x, y)) + 2 * y
<1> DEFINE d == 2 * y
           n == 2 * x + y
           q == n \div d
<1>1. n \in Nat /\ d \in Nat \ {0}
  OBVIOUS
<1> HIDE DEF d, n
<1>2. q \in Int /\ d * q <= n /\ n < d * q + d
  BY <1>1, DivisionWithRest
<1>3. q \in Nat
  BY <1>1, <1>2
<1> USE DEF d, n
<1>4. d * q = 2 * (y * q)
  BY <1>2
<1> QED BY <1>2, <1>3, <1>4 DEF RoundedQuotient

LEMMA OnlyNearest ==
    ASSUME NEW x \in Nat, NEW y \in Nat \ {0}, NEW q \in Nat,
           2 * (y * q) <= 2 * x + y, 2 * x + y < 2 * (y * q) + 2 * y
    PROVE  RoundedQuotient(x, y) = q
<1> DEFINE r == RoundedQuotient(x, y)
<1>1. r \in Nat /\ 2 * (y * r) <= 2 * x + y /\ 2 * x + y < 2 * (y * r) + 2 * y
  BY Nearest
<1> HIDE DEF r
<1>2. y * r < y * (q + 1) /\ y * q < y * (r + 1)
  BY <1>1
<1>3. r < q + 1 /\ q < r + 1
  BY <1>1, <1>2, Cancel
<1> QED BY <1>1, <1>3 DEF r

(* Math.Round leaves a negative difference of at most half a unit at zero. *)
LEMMA RoundIsNotNegative ==
    ASSUME NEW x \in Int, NEW y \in Nat \ {0}
    PROVE  Round(x, y) \in Int /\ (Round(x, y) >= 0 <=> 0 <= 2 * x + y)
<1> DEFINE q == x \div y
           r == x % y
<1>1. q \in Int /\ r \in Int /\ x = y * q + r /\ 0 <= r /\ r < y
  BY DivisionWithRest
<1> HIDE DEF q, r
<1>2. CASE q >= 0
  <2>1. y * q >= 0
    BY <1>1, <1>2
  <2> QED BY <1>1, <1>2, <2>1 DEF Round, q, r
<1>3. CASE q = -1
  <2>1. x = r - y
    BY <1>1, <1>3
  <2>2. q % 2 = 1
    <3>1. /\ q \div 2 \in Int /\ q % 2 \in Int
          /\ q = 2 * (q \div 2) + (q % 2) /\ 0 <= q % 2 /\ q % 2 < 2
      BY <1>1, DivisionWithRest
    <3> QED BY <1>3, <3>1
  <2>3. Round(x, y) = IF 2 * r - y > 0 \/ 2 * r - y = 0 THEN 0 ELSE -1
    BY <1>3, <2>2 DEF Round, q, r
  <2> QED BY <1>1, <2>1, <2>3
<1>4. CASE q < -1
  <2>1. y * q <= y * (-2)
    BY <1>1, <1>4
  <2>2. 2 * x + y < 0
    BY <1>1, <2>1
  <2>3. Round(x, y) \in {q, q + 1}
    BY DEF Round, q, r
  <2> QED BY <1>1, <1>4, <2>2, <2>3
<1> QED BY <1>1, <1>2, <1>3, <1>4

(* A number divided by its rounded quotient by c is c again, unless c is   *)
(* too large to leave a quotient that can tell.                            *)
LEMMA RoundTrip ==
    ASSUME NEW n \in Nat, NEW c \in Nat \ {0}, c * c + c < n
    PROVE  /\ RoundedQuotient(n, c) \in Nat \ {0}
           /\ RoundedQuotient(n, RoundedQuotient(n, c)) = c
<1> DEFINE q == RoundedQuotient(n, c)
<1>1. q \in Nat /\ 2 * (c * q) <= 2 * n + c /\ 2 * n + c < 2 * (c * q) + 2 * c
  BY Nearest
<1> HIDE DEF q
<1>2. c * c + c \in Int /\ c * (c + 1) = c * c + c
  OBVIOUS
<1>3. c < q
  <2>1. c * q \in Int /\ c * c \in Int
    BY <1>1
  <2>2. 2 * (c * c) < 2 * (c * q)
    BY <1>1, <2>1
  <2>3. c * c < c * q
    BY <2>1, <2>2
  <2> QED BY <1>1, <2>3, Cancel
<1>4. q \in Nat \ {0} /\ c * q = q * c
  BY <1>1, <1>3
<1>5. 2 * (q * c) <= 2 * n + q /\ 2 * n + q < 2 * (q * c) + 2 * q
  BY <1>1, <1>3, <1>4
<1>6. RoundedQuotient(n, q) = c
  BY <1>4, <1>5, OnlyNearest
<1> QED BY <1>4, <1>6 DEF q

-----------------------------------------------------------------------------
(* The check and the column. *)

LEMMA StoredType ==
    ASSUME NEW value \in Nat
    PROVE  /\ Stored(value) \in Nat
           /\ 2 * (Cent * Stored(value)) <= 2 * value + Cent
           /\ 2 * value + Cent < 2 * (Cent * Stored(value)) + 2 * Cent
BY Nearest, ScaleAssumption DEF Stored

LEMMA ConvertType ==
    ASSUME NEW amount \in Nat \ {0}, NEW from \in Currencies, NEW to \in Currencies,
           ~Throws(amount, from)
    PROVE  Convert(amount, from, to) \in Nat
<1>1. UsdRates[from] * Scale \in Nat /\ UsdRates[to] * Scale \in Nat
  BY RatesAssumption, ScaleAssumption
<1>2. UsdAmount(amount, from) \in Nat \ {0}
  BY <1>1, Nearest DEF UsdAmount, Divide, Throws
<1> QED BY <1>1, <1>2, Nearest DEF Convert, Divide

(* The check accepts up to half a cent more than the balance. *)
LEMMA CoversToHalfACent ==
    ASSUME TypeOK, NEW a \in Accounts, NEW value \in Nat
    PROVE  /\ Balance(a) \in Int
           /\ Covers(a, value) <=> 2 * value <= 2 * (Cent * Balance(a)) + Cent
<1>1. Balance(a) \in Int /\ Cent \in Nat \ {0}
  BY ScaleAssumption DEF TypeOK, Balance
<1> DEFINE all == Cent * Balance(a)
<1>2. all \in Int
  BY <1>1
<1>3. Covers(a, value) <=> 0 <= 2 * (all - value) + Cent
  BY <1>1, <1>2, RoundIsNotNegative DEF Covers, Subtract
<1> HIDE DEF all
<1>4. Covers(a, value) <=> 2 * value <= 2 * all + Cent
  BY <1>1, <1>2, <1>3
<1> QED BY <1>1, <1>4 DEF all

(* So a debit that passed takes one cent too many at most, and takes       *)
(* nothing from an account that is below zero.                             *)
LEMMA AcceptedIsAlmostCovered ==
    ASSUME TypeOK, NEW a \in Accounts, NEW value \in Nat, Covers(a, value)
    PROVE  Balance(a) >= 0 /\ Stored(value) <= Balance(a) + 1
<1> DEFINE b == Balance(a)
           s == Stored(value)
<1>1. /\ b \in Int /\ 2 * value <= 2 * (Cent * b) + Cent
      /\ s \in Nat /\ 2 * (Cent * s) <= 2 * value + Cent /\ Cent \in Nat \ {0}
  BY CoversToHalfACent, StoredType, ScaleAssumption
<1> HIDE DEF b, s
<1>2. Cent * b \in Int /\ Cent * s \in Int /\ Cent * (-1) = -Cent /\ Cent * (b + 2) = Cent * b + 2 * Cent
  BY <1>1
<1>3. Cent * (-1) < Cent * b
  BY <1>1, <1>2
<1>4. Cent * s < Cent * (b + 2)
  BY <1>1, <1>2
<1>5. -1 < b /\ s < b + 2
  BY <1>1, <1>3, <1>4, Cancel
<1> QED BY <1>1, <1>5 DEF b, s

LEMMA CoveredPasses ==
    ASSUME TypeOK, NEW a \in Accounts, NEW value \in Nat, Stored(value) <= Balance(a)
    PROVE  Covers(a, value)
<1> DEFINE b == Balance(a)
           s == Stored(value)
<1>1. /\ b \in Int /\ s \in Nat /\ s <= b /\ Cent \in Nat \ {0}
      /\ 2 * value + Cent < 2 * (Cent * s) + 2 * Cent
  BY CoversToHalfACent, StoredType, ScaleAssumption
<1> HIDE DEF b, s
<1>2. Cent * s \in Int /\ Cent * b \in Int /\ Cent * s <= Cent * b
  BY <1>1
<1>3. 2 * value <= 2 * (Cent * b) + Cent
  BY <1>1, <1>2
<1> QED BY <1>3, CoversToHalfACent DEF b

-----------------------------------------------------------------------------
MoneyInv == TypeOK /\ ShortByACentAtMost

(* One debit of a value that passed the check keeps the invariant, with or *)
(* without a credit after it.                                              *)
LEMMA DebitIsSafe ==
    ASSUME MoneyInv, NEW a \in Accounts, NEW value \in Nat, Covers(a, value), Debit(a, value),
           \/ UNCHANGED credits
           \/ \E b \in Accounts, given \in Nat : Credit(b, given)
    PROVE  MoneyInv'
<1>1. /\ Stored(value) \in Nat /\ Balance(a) >= 0 /\ Stored(value) <= Balance(a) + 1
      /\ Balance(a) \in Int
  BY StoredType, AcceptedIsAlmostCovered, CoversToHalfACent DEF MoneyInv
<1>2. debits' \in [Accounts -> Nat] /\ debits'[a] = debits[a] + Stored(value)
  BY <1>1 DEF Debit, MoneyInv, TypeOK
<1>3. credits' \in [Accounts -> Nat] /\ \A x \in Accounts : credits'[x] >= credits[x]
  <2>1. CASE UNCHANGED credits
    BY <2>1 DEF MoneyInv, TypeOK
  <2>2. ASSUME NEW b \in Accounts, NEW given \in Nat, Credit(b, given)
        PROVE  credits' \in [Accounts -> Nat] /\ \A x \in Accounts : credits'[x] >= credits[x]
    BY <2>2, StoredType DEF Credit, MoneyInv, TypeOK
  <2> QED BY <2>1, <2>2
<1>4. ASSUME NEW x \in Accounts
      PROVE  credits'[x] - debits'[x] >= -1
  <2>1. credits[x] \in Nat /\ debits[x] \in Nat /\ credits'[x] \in Nat /\ debits'[x] \in Nat
    BY <1>2, <1>3 DEF MoneyInv, TypeOK
  <2>2. CASE x = a
    BY <1>1, <1>2, <1>3, <2>1, <2>2 DEF Balance
  <2>3. CASE x # a
    <3>1. debits'[x] = debits[x] /\ credits[x] - debits[x] >= -1
      BY <2>3 DEF Debit, MoneyInv, TypeOK, ShortByACentAtMost, Balance
    <3> QED BY <1>3, <2>1, <3>1
  <2> QED BY <2>2, <2>3
<1> QED BY <1>2, <1>3, <1>4 DEF MoneyInv, TypeOK, ShortByACentAtMost, Balance

LEMMA CreditIsSafe ==
    ASSUME MoneyInv, NEW a \in Accounts, NEW value \in Nat, Credit(a, value), UNCHANGED debits
    PROVE  MoneyInv'
<1>1. Stored(value) \in Nat
  BY StoredType
<1>2. credits' \in [Accounts -> Nat] /\ debits' = debits
  BY <1>1 DEF Credit, MoneyInv, TypeOK
<1>3. ASSUME NEW x \in Accounts
      PROVE  credits'[x] - debits'[x] >= -1
  <2>1. credits[x] \in Nat /\ debits[x] \in Nat /\ credits[x] - debits[x] >= -1
    BY DEF MoneyInv, TypeOK, ShortByACentAtMost, Balance
  <2>2. credits'[x] >= credits[x] /\ credits'[x] \in Nat
    BY <1>1, <1>2, <2>1 DEF Credit, MoneyInv, TypeOK
  <2> QED BY <1>2, <2>1, <2>2
<1> QED BY <1>2, <1>3 DEF MoneyInv, TypeOK, ShortByACentAtMost, Balance

LEMMA MoneyInvariance == Spec => []MoneyInv
<1>1. Init => MoneyInv
  BY DEF Init, MoneyInv, TypeOK, ShortByACentAtMost, Balance
<1>2. MoneyInv /\ [Next]_vars => MoneyInv'
  <2> SUFFICES ASSUME MoneyInv, [Next]_vars
               PROVE  MoneyInv'
    OBVIOUS
  <2>1. ASSUME NEW a \in Accounts, CloseAccount(a)
        PROVE  MoneyInv'
    BY <2>1 DEF CloseAccount, MoneyInv, TypeOK, ShortByACentAtMost, Balance
  <2>2. ASSUME NEW a \in Accounts, NEW amount \in Amounts, OpenAccount(a, amount)
        PROVE  MoneyInv'
    BY <2>2, CreditIsSafe, AmountsAssumption DEF OpenAccount
  <2>3. ASSUME NEW a \in Accounts, NEW amount \in Amounts, NEW from \in Currencies,
               Deposit(a, amount, from)
        PROVE  MoneyInv'
    <3>1. Convert(amount, from, Currency[a]) \in Nat
      BY <2>3, ConvertType, AmountsAssumption, CurrencyAssumption DEF Deposit
    <3> QED BY <2>3, <3>1, CreditIsSafe DEF Deposit
  <2>4. ASSUME NEW a \in Accounts, NEW amount \in Amounts, NEW from \in Currencies,
               Withdraw(a, amount, from)
        PROVE  MoneyInv'
    <3>1. Convert(amount, from, Currency[a]) \in Nat
      BY <2>4, ConvertType, AmountsAssumption, CurrencyAssumption DEF Withdraw
    <3> QED BY <2>4, <3>1, DebitIsSafe DEF Withdraw
  <2>5. ASSUME NEW a \in Accounts, NEW destination \in Accounts, NEW amount \in Amounts,
               NEW from \in Currencies, Transfer(a, destination, amount, from)
        PROVE  MoneyInv'
    <3>1. /\ Convert(amount, from, Currency[a]) \in Nat
          /\ Convert(amount, from, Currency[destination]) \in Nat
      BY <2>5, ConvertType, AmountsAssumption, CurrencyAssumption DEF Transfer
    <3> QED BY <2>5, <3>1, DebitIsSafe DEF Transfer
  <2>6. CASE UNCHANGED vars
    BY <2>6 DEF vars, MoneyInv, TypeOK, ShortByACentAtMost, Balance
  <2> QED BY <2>1, <2>2, <2>3, <2>4, <2>5, <2>6 DEF Next
<1> QED BY <1>1, <1>2, PTL DEF Spec

(* One request after the other, whatever the precision, the rates and the  *)
(* amounts: an account is never short by more than a cent                  *)
(* (Money.Subtract, the decimal(18,2) columns).                            *)
THEOREM AccountsAreShortByACentAtMost == Spec => []ShortByACentAtMost
BY MoneyInvariance, PTL DEF MoneyInv

(* The two ways of rounding never refuse a debit the balance covers        *)
(* (WithdrawUseCase, TransferUseCase).                                     *)
THEOREM WhatIsCoveredIsAccepted == Spec => []CoveredIsAccepted
<1>1. MoneyInv => CoveredIsAccepted
  <2> SUFFICES ASSUME MoneyInv, NEW a \in Accounts, NEW amount \in Amounts, NEW from \in Currencies,
                      ~Throws(amount, from), Stored(Convert(amount, from, Currency[a])) <= Balance(a)
               PROVE  Covers(a, Convert(amount, from, Currency[a]))
    BY DEF CoveredIsAccepted
  <2>1. Convert(amount, from, Currency[a]) \in Nat
    BY ConvertType, AmountsAssumption, CurrencyAssumption
  <2> QED BY <2>1, CoveredPasses DEF MoneyInv
<1> QED BY <1>1, MoneyInvariance, PTL

(* Within the precision of a decimal the balance an account shows can be   *)
(* withdrawn to the cent (CurrencyExchangeFake.Convert).                   *)
THEOREM WhatIsShownCanBeDrawn == Spec => []BalanceCanBeDrawn
<1>1. MoneyInv => BalanceCanBeDrawn
  <2> SUFFICES ASSUME MoneyInv, NEW a \in Accounts, Balance(a) > 0,
                      Precise(Cent * Balance(a), Currency[a])
               PROVE  LET all == Cent * Balance(a)
                          value == Convert(all, Currency[a], Currency[a])
                      IN  ~Throws(all, Currency[a]) /\ Covers(a, value) /\ Stored(value) = Balance(a)
    BY DEF BalanceCanBeDrawn
  <2> DEFINE all == Cent * Balance(a)
             n   == UsdRates[Currency[a]] * Scale
  <2>1. Balance(a) \in Nat \ {0} /\ Cent \in Nat \ {0}
    BY ScaleAssumption DEF MoneyInv, TypeOK, Balance
  <2>2. all \in Nat \ {0} /\ n \in Nat /\ all * all + all < n
    BY <2>1, RatesAssumption, ScaleAssumption, CurrencyAssumption DEF Precise
  <2>3. /\ RoundedQuotient(n, all) # 0
        /\ RoundedQuotient(n, RoundedQuotient(n, all)) = all
    BY <2>2, RoundTrip
  <2>4. ~Throws(all, Currency[a]) /\ Convert(all, Currency[a], Currency[a]) = all
    BY <2>3 DEF Throws, UsdAmount, Convert, Divide
  <2>5. Stored(all) = Balance(a)
    <3>1. /\ 2 * (Cent * Balance(a)) <= 2 * all + Cent
          /\ 2 * all + Cent < 2 * (Cent * Balance(a)) + 2 * Cent
      BY <2>1, <2>2
    <3> QED BY <2>1, <2>2, <3>1, OnlyNearest DEF Stored
  <2>6. Covers(a, all)
    BY <2>1, <2>2, <2>5, CoveredPasses DEF MoneyInv
  <2> QED BY <2>4, <2>5, <2>6
<1> QED BY <1>1, MoneyInvariance, PTL

(* The code divides twice where one exact quotient would do.  Within the   *)
(* precision of a decimal it comes close: with rates f and t and a scale s *)
(* the amount a becomes v, not the fraction a * t / f.                     *)
LEMMA TwoDivisionsComeClose ==
    ASSUME NEW f \in Nat \ {0}, NEW t \in Nat \ {0}, NEW s \in Nat \ {0}, NEW a \in Nat \ {0},
           a * a + a < f * s,
           NEW u, u = RoundedQuotient(f * s, a), NEW v, v = RoundedQuotient(t * s, u)
    PROVE  /\ u \in Nat \ {0} /\ v \in Nat
           /\ 2 * (f * v) - 2 * (a * t) < f + t
           /\ 2 * (a * t) - 2 * (f * v) < f + t
<1>1. f * s \in Nat /\ t * s \in Nat /\ a * t \in Nat
  OBVIOUS
<1>2. /\ u \in Nat
      /\ 2 * (a * u) <= 2 * (f * s) + a /\ 2 * (f * s) + a < 2 * (a * u) + 2 * a
  BY <1>1, Nearest
<1>3. a < u
  <2>1. a * u \in Int /\ a * a \in Int
    BY <1>2
  <2>2. a * a < a * u
    BY <1>2, <2>1
  <2> QED BY <1>2, <2>2, Cancel
<1>4. u \in Nat \ {0}
  BY <1>2, <1>3
<1>5. /\ v \in Nat
      /\ 2 * (u * v) <= 2 * (t * s) + u /\ 2 * (t * s) + u < 2 * (u * v) + 2 * u
  BY <1>1, <1>4, Nearest
<1>6. f * v \in Nat /\ u * (f * v) \in Nat /\ u * (a * t) \in Nat /\ t * (f * s) \in Nat
      /\ u * t \in Nat /\ u * f \in Nat
  BY <1>1, <1>4, <1>5
<1>7. a * t < u * t
  BY <1>3, <1>4
<1>8. 2 * (u * (f * v)) - u * f <= 2 * (t * (f * s)) /\ 2 * (t * (f * s)) < 2 * (u * (f * v)) + u * f
  <2>1. /\ f * (2 * (u * v)) <= f * (2 * (t * s) + u)
        /\ f * (2 * (t * s) + u) < f * (2 * (u * v) + 2 * u)
    <3>1. 2 * (u * v) \in Int /\ 2 * (t * s) + u \in Int /\ 2 * (u * v) + 2 * u \in Int
      BY <1>1, <1>4, <1>5
    <3>2. ASSUME NEW x \in Int, NEW y \in Int, NEW z \in Int, x <= y, y < z
          PROVE  f * x <= f * y /\ f * y < f * z
      BY <3>2
    <3> QED BY <1>5, <3>1, <3>2
  <2>2. /\ f * (2 * (u * v)) = 2 * (u * (f * v))
        /\ f * (2 * (t * s) + u) = 2 * (t * (f * s)) + u * f
        /\ f * (2 * (u * v) + 2 * u) = 2 * (u * (f * v)) + 2 * (u * f)
    BY <1>4, <1>5
  <2> QED BY <1>6, <2>1, <2>2
<1>9. 2 * (u * (a * t)) <= 2 * (t * (f * s)) + a * t /\ 2 * (t * (f * s)) < 2 * (u * (a * t)) + a * t
  <2>1. /\ t * (2 * (a * u)) <= t * (2 * (f * s) + a)
        /\ t * (2 * (f * s) + a) < t * (2 * (a * u) + 2 * a)
    <3>1. 2 * (a * u) \in Int /\ 2 * (f * s) + a \in Int /\ 2 * (a * u) + 2 * a \in Int
      BY <1>1, <1>4
    <3>2. ASSUME NEW x \in Int, NEW y \in Int, NEW z \in Int, x <= y, y < z
          PROVE  t * x <= t * y /\ t * y < t * z
      BY <3>2
    <3> QED BY <1>2, <3>1, <3>2
  <2>2. /\ t * (2 * (a * u)) = 2 * (u * (a * t))
        /\ t * (2 * (f * s) + a) = 2 * (t * (f * s)) + a * t
        /\ t * (2 * (a * u) + 2 * a) = 2 * (u * (a * t)) + 2 * (a * t)
    BY <1>4
  <2> QED BY <1>1, <1>6, <2>1, <2>2
<1>10. /\ u * (2 * (f * v) - f - 2 * (a * t)) = 2 * (u * (f * v)) - u * f - 2 * (u * (a * t))
       /\ u * (2 * (a * t) - f - 2 * (f * v)) = 2 * (u * (a * t)) - u * f - 2 * (u * (f * v))
  BY <1>1, <1>4, <1>5, <1>6
<1>11. /\ u * (2 * (f * v) - f - 2 * (a * t)) < u * t
       /\ u * (2 * (a * t) - f - 2 * (f * v)) < u * t
  BY <1>1, <1>6, <1>7, <1>8, <1>9, <1>10
<1>12. 2 * (f * v) - f - 2 * (a * t) < t /\ 2 * (a * t) - f - 2 * (f * v) < t
  <2>1. 2 * (f * v) - f - 2 * (a * t) \in Int /\ 2 * (a * t) - f - 2 * (f * v) \in Int
    BY <1>1, <1>6
  <2> QED BY <1>4, <1>11, <2>1, Cancel
<1> QED BY <1>1, <1>4, <1>5, <1>6, <1>12

(* Both amounts in cents: c is the exact quotient, w the one the column    *)
(* gets.                                                                   *)
LEMMA CentsComeClose ==
    ASSUME NEW f \in Nat \ {0}, NEW t \in Nat \ {0}, NEW k \in Nat \ {0}, t <= k * f,
           NEW b \in Nat \ {0}, NEW v \in Nat,
           2 * (f * v) - 2 * ((k * b) * t) < f + t,
           2 * ((k * b) * t) - 2 * (f * v) < f + t,
           NEW c, c = RoundedQuotient(b * t, f), NEW w, w = RoundedQuotient(v, k)
    PROVE  c - w \in -1 .. 1
<1>1. /\ c \in Nat /\ w \in Nat /\ b * t \in Nat
      /\ 2 * (f * c) <= 2 * (b * t) + f /\ 2 * (b * t) + f < 2 * (f * c) + 2 * f
      /\ 2 * (k * w) <= 2 * v + k /\ 2 * v + k < 2 * (k * w) + 2 * k
  BY Nearest
<1> DEFINE kf == k * f
           bt == b * t
<1>2. kf \in Nat \ {0} /\ kf * c \in Nat /\ kf * w \in Nat /\ f * v \in Nat /\ k * bt \in Nat /\ f <= kf
  BY <1>1
<1>3. /\ 2 * (kf * c) <= 2 * (k * bt) + kf /\ 2 * (k * bt) < 2 * (kf * c) + kf
  <2>1. ASSUME NEW x \in Int, NEW y \in Int, NEW z \in Int, x <= y, y < z
        PROVE  k * x <= k * y /\ k * y < k * z
    BY <2>1
  <2>2. 2 * (f * c) \in Int /\ 2 * (b * t) + f \in Int /\ 2 * (f * c) + 2 * f \in Int
    BY <1>1
  <2>3. /\ k * (2 * (f * c)) <= k * (2 * (b * t) + f)
        /\ k * (2 * (b * t) + f) < k * (2 * (f * c) + 2 * f)
    BY <1>1, <2>1, <2>2
  <2>4. /\ k * (2 * (f * c)) = 2 * (kf * c)
        /\ k * (2 * (b * t) + f) = 2 * (k * bt) + kf
        /\ k * (2 * (f * c) + 2 * f) = 2 * (kf * c) + 2 * kf
    BY <1>1
  <2> QED BY <1>2, <2>3, <2>4
<1>4. /\ 2 * (kf * w) <= 2 * (f * v) + kf /\ 2 * (f * v) < 2 * (kf * w) + kf
  <2>1. ASSUME NEW x \in Int, NEW y \in Int, NEW z \in Int, x <= y, y < z
        PROVE  f * x <= f * y /\ f * y < f * z
    BY <2>1
  <2>2. 2 * (k * w) \in Int /\ 2 * v + k \in Int /\ 2 * (k * w) + 2 * k \in Int
    BY <1>1
  <2>3. /\ f * (2 * (k * w)) <= f * (2 * v + k)
        /\ f * (2 * v + k) < f * (2 * (k * w) + 2 * k)
    BY <1>1, <2>1, <2>2
  <2>4. /\ f * (2 * (k * w)) = 2 * (kf * w)
        /\ f * (2 * v + k) = 2 * (f * v) + kf
        /\ f * (2 * (k * w) + 2 * k) = 2 * (kf * w) + 2 * kf
    BY <1>1
  <2> QED BY <1>2, <2>3, <2>4
<1>5. (k * b) * t = k * bt
  OBVIOUS
<1>6. kf * w < kf * (c + 2) /\ kf * c < kf * (w + 2)
  <2>1. kf * (c + 2) = kf * c + 2 * kf /\ kf * (w + 2) = kf * w + 2 * kf
    BY <1>1, <1>2
  <2> HIDE DEF kf, bt
  <2>2. t <= kf
    BY DEF kf
  <2> QED BY <1>2, <1>3, <1>4, <1>5, <2>1, <2>2
<1>7. w < c + 2 /\ c < w + 2
  BY <1>1, <1>2, <1>6, Cancel
<1> QED BY <1>1, <1>7

(* The cents AccountsApi counts differ from those the code stores by one   *)
(* at most, for the balances within the precision of a decimal             *)
(* (CurrencyExchangeFake.Convert).                                         *)
THEOREM CentsAreEnoughForAccountsApi == Spec => []CentsAreEnough
<1>1. MoneyInv => CentsAreEnough
  <2> SUFFICES ASSUME MoneyInv, NEW a \in Accounts, NEW to \in Currencies, Balance(a) > 0,
                      Precise(Cent * Balance(a), Currency[a])
               PROVE  Converted(Balance(a), UsdRates, Currency[a], to)
                         - Stored(Convert(Cent * Balance(a), Currency[a], to)) \in -1..1
    BY DEF CentsAreEnough
  <2> DEFINE all == Cent * Balance(a)
             f   == UsdRates[Currency[a]]
             t   == UsdRates[to]
             v   == Convert(all, Currency[a], to)
  <2>1. Balance(a) \in Nat \ {0} /\ Cent \in Nat \ {0} /\ Scale \in Nat \ {0}
    BY ScaleAssumption DEF MoneyInv, TypeOK, Balance
  <2>2. f \in Nat \ {0} /\ t \in Nat \ {0} /\ t <= Cent * f
    BY RatesAssumption, RatesAreNear, CurrencyAssumption
  <2>3. all \in Nat \ {0} /\ all * all + all < f * Scale
    BY <2>1 DEF Precise
  <2>4. v = RoundedQuotient(t * Scale, RoundedQuotient(f * Scale, all))
    BY DEF Convert, UsdAmount, Divide
  <2> HIDE DEF f, t, v
  <2>5. /\ v \in Nat
        /\ 2 * (f * v) - 2 * (all * t) < f + t
        /\ 2 * (all * t) - 2 * (f * v) < f + t
    <3> HIDE DEF all
    <3> QED BY <2>1, <2>2, <2>3, <2>4, TwoDivisionsComeClose
  <2>6. RoundedQuotient(Balance(a) * t, f) - RoundedQuotient(v, Cent) \in -1..1
    BY <2>1, <2>2, <2>5, CentsComeClose
  <2> QED BY <2>6 DEF Converted, Stored, f, t, v
<1> QED BY <1>1, MoneyInvariance, PTL

(* The totals of an account's credits and debits stay natural numbers: a   *)
(* conversion yields no negative amount (WithdrawUseCase, DepositUseCase,  *)
(* TransferUseCase).                                                       *)
THEOREM AmountsStayNatural == Spec => []TypeOK
BY MoneyInvariance, PTL DEF MoneyInv
=============================================================================
