---------------------------- MODULE MoneyExchange ----------------------------
(***************************************************************************)
(* The decimals of the wallet: what becomes of an amount that is converted *)
(* by CurrencyExchangeFake, checked by Money.Subtract and stored in a      *)
(* decimal(18,2) column.  AccountsApi counts cents; here a decimal is a    *)
(* fixed-point number of Scale units, Cent of which make a cent, and the   *)
(* requests come one after the other.                                      *)
(***************************************************************************)
EXTENDS AccountDomain

CONSTANTS
    Accounts,       \* the accounts, opened and closed and opened again
    Currencies,
    Currency,       \* the currency of each account
    UsdRates,       \* CurrencyExchangeFake._usdRates, in units
    Amounts,        \* the amounts requests may name, in units
    Scale,          \* the units of the number one: how far a decimal reaches
    Cent,           \* the units of a cent
    MaxStored,      \* the largest value of a column, in cents
    MaxTotal        \* bound: no account's credits or debits go beyond it

ASSUME CurrencyAssumption == Currency \in [Accounts -> Currencies]
ASSUME RatesAssumption    == UsdRates \in [Currencies -> Nat \ {0}]
ASSUME AmountsAssumption  == Amounts \subseteq Nat \ {0}
ASSUME ScaleAssumption    == Scale \in Nat \ {0} /\ Cent \in Nat \ {0}
(* The rates lie between 0.80668 and 9.31944: no amount grows by more than *)
(* the digits a decimal has beyond a cent.                                 *)
ASSUME RatesAreNear == \A from, to \in Currencies : UsdRates[to] <= Cent * UsdRates[from]

VARIABLES
    credits,        \* the total of each account's credits, in cents
    debits          \* the total of its debits

vars == <<credits, debits>>

TypeOK ==
    /\ credits \in [Accounts -> Nat]
    /\ debits  \in [Accounts -> Nat]

Init ==
    /\ credits = [a \in Accounts |-> 0]
    /\ debits  = [a \in Accounts |-> 0]

-----------------------------------------------------------------------------
(* Math.Round: to the nearest whole, a half to the even one. *)
Round(x, y) ==
    LET half == 2 * (x % y) - y
    IN  IF half > 0 \/ (half = 0 /\ (x \div y) % 2 = 1) THEN (x \div y) + 1 ELSE x \div y

(* Money.Subtract, of units into cents. *)
Subtract(left, right) == Round(left - right, Cent)

(* The value a decimal(18,2) column holds: a half goes up. *)
Stored(value) == RoundedQuotient(value, Cent)

Fits(value) == Stored(value) <= MaxStored

(* The quotient of two decimals: what is beyond its last digit is rounded. *)
Divide(x, y) == RoundedQuotient(x * Scale, y)

(* CurrencyExchangeFake.Convert: the first quotient is the reciprocal of   *)
(* the dollars, and an amount so large that it is nothing is divided by.   *)
UsdAmount(amount, from) == Divide(UsdRates[from], amount)

Throws(amount, from) == UsdAmount(amount, from) = 0

(* Mutant: the destination's rate is not looked at. *)
ConvertToDollars(amount, from, to) == Divide(Scale, UsdAmount(amount, from))

Convert(amount, from, to) == Divide(UsdRates[to], UsdAmount(amount, from))

Balance(a) == credits[a] - debits[a]

(* Mutant: the check compares without rounding. *)
CoversToTheUnit(a, value) == value <= Cent * Balance(a)

(* Mutant: something has to be left. *)
CoversWithRest(a, value) == Subtract(Cent * Balance(a), value) > 0

(* The check of withdrawals and transfers. *)
Covers(a, value) == Subtract(Cent * Balance(a), value) >= 0

-----------------------------------------------------------------------------
Credit(a, value) ==
    /\ credits[a] + Stored(value) <= MaxTotal
    /\ credits' = [credits EXCEPT ![a] = @ + Stored(value)]

(* Mutant: debits are negative. *)
DebitTakenOff(a, value) == debits' = [debits EXCEPT ![a] = @ - Stored(value)]

Debit(a, value) ==
    /\ debits[a] + Stored(value) <= MaxTotal
    /\ debits' = [debits EXCEPT ![a] = @ + Stored(value)]

(* An account is opened with an amount of its own currency. *)
OpenAccount(a, amount) ==
    /\ credits[a] = 0 /\ debits[a] = 0
    /\ Fits(amount) /\ Credit(a, amount)
    /\ UNCHANGED debits

Deposit(a, amount, from) ==
    /\ ~Throws(amount, from)
    /\ Fits(Convert(amount, from, Currency[a]))
    /\ Credit(a, Convert(amount, from, Currency[a]))
    /\ UNCHANGED debits

Withdraw(a, amount, from) ==
    /\ ~Throws(amount, from)
    /\ LET value == Convert(amount, from, Currency[a])
       IN  Covers(a, value) /\ Fits(value) /\ Debit(a, value)
    /\ UNCHANGED credits

(* Mutant: what is checked is what the destination is given. *)
TransferChecksGiven(origin, destination, amount, from) ==
    /\ ~Throws(amount, from)
    /\ LET taken == Convert(amount, from, Currency[origin])
           given == Convert(amount, from, Currency[destination])
       IN  /\ Covers(origin, given) /\ Fits(taken) /\ Debit(origin, taken)
           /\ IF Fits(given) THEN Credit(destination, given) ELSE UNCHANGED credits

(* Both conversions are of the amount named.  The debit is saved before    *)
(* the credit, which stays out if its value does not fit.                  *)
Transfer(origin, destination, amount, from) ==
    /\ ~Throws(amount, from)
    /\ LET taken == Convert(amount, from, Currency[origin])
           given == Convert(amount, from, Currency[destination])
       IN  /\ Covers(origin, taken) /\ Fits(taken) /\ Debit(origin, taken)
           /\ IF Fits(given) THEN Credit(destination, given) ELSE UNCHANGED credits

CloseAccount(a) ==
    /\ Balance(a) = 0
    /\ credits' = [credits EXCEPT ![a] = 0]
    /\ debits'  = [debits EXCEPT ![a] = 0]

Next ==
    \E a \in Accounts :
        \/ CloseAccount(a)
        \/ \E amount \in Amounts : OpenAccount(a, amount)
        \/ \E amount \in Amounts, from \in Currencies :
               \/ Deposit(a, amount, from)
               \/ Withdraw(a, amount, from)
               \/ \E destination \in Accounts : Transfer(a, destination, amount, from)

Spec == Init /\ [][Next]_vars

-----------------------------------------------------------------------------
(* The check rounds what is left one way and the column rounds the debit   *)
(* the other, so an account can go below zero without any race, but never  *)
(* by more than a cent, however many requests follow (WithdrawUseCase,     *)
(* TransferUseCase, Money.Subtract).                                       *)
ShortByACentAtMost == \A a \in Accounts : Balance(a) >= -1

(* The two roundings never refuse money that is there: a debit whose       *)
(* stored value the balance covers passes the check.                       *)
CoveredIsAccepted ==
    \A a \in Accounts, amount \in Amounts, from \in Currencies :
        LET value == Convert(amount, from, Currency[a])
        IN  ~Throws(amount, from) /\ Stored(value) <= Balance(a) => Covers(a, value)

(* The amounts the precision of a decimal suffices for: their square, and  *)
(* a little more, is less than one over the last digit of the rate.        *)
Precise(amount, currency) == amount * amount + amount < UsdRates[currency] * Scale

(* Whoever withdraws the balance that is shown gets it, to the cent, and   *)
(* leaves an account that can be closed, although the amount goes through  *)
(* two rounded divisions (CurrencyExchangeFake.Convert).                   *)
BalanceCanBeDrawn ==
    \A a \in Accounts :
        LET all   == Cent * Balance(a)
            value == Convert(all, Currency[a], Currency[a])
        IN  Balance(a) > 0 /\ Precise(all, Currency[a]) =>
                /\ ~Throws(all, Currency[a])
                /\ Covers(a, value) /\ Stored(value) = Balance(a)

(* AccountsApi converts cents by one exact quotient: for amounts within    *)
(* the precision of a decimal it stores what the code does, or one cent    *)
(* beside it.                                                              *)
CentsAreEnough ==
    \A a \in Accounts, to \in Currencies :
        Balance(a) > 0 /\ Precise(Cent * Balance(a), Currency[a]) =>
            Converted(Balance(a), UsdRates, Currency[a], to)
                - Stored(Convert(Cent * Balance(a), Currency[a], to)) \in -1..1
=============================================================================
