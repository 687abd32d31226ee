---------------------------- MODULE AccountDomain ----------------------------
(***************************************************************************)
(* The pure part of the wallet's domain: an account with its collections   *)
(* of credits and debits (Domain/Account.cs, Domain/Credits, Domain/       *)
(* Debits), its balance, and the conversion of money between currencies.   *)
(* Amounts are counted in cents, the precision of the decimal(18,2)        *)
(* columns the values are stored in.                                       *)
(***************************************************************************)
EXTENDS Integers

LOCAL INSTANCE FiniteSetsExt

(* What CreditsCollection, DebitsCollection and the tables hold: finitely  *)
(* many entries, none of them of a negative amount.                        *)
Collection(entries) == IsFiniteSet(entries) /\ \A e \in entries : e.value \in Nat

(* The entries (credits or debits) of one account. *)
EntriesOf(entries, a) == {e \in entries : e.account = a}

(* CreditsCollection.GetTotal and DebitsCollection.GetTotal. *)
GetTotal(entries) == MapThenSumSet(LAMBDA e : e.value, entries)

(* Account.GetCurrentBalance, over the entries of account a only. *)
GetCurrentBalance(credits, debits, a) ==
    GetTotal(EntriesOf(credits, a)) - GetTotal(EntriesOf(debits, a))

(* Mutant: closing is allowed whatever the balance. *)
ClosingAlwaysAllowed(credits, debits, a) == TRUE

(* Account.IsClosingAllowed. *)
IsClosingAllowed(credits, debits, a) == GetCurrentBalance(credits, debits, a) = 0

(* The amount a Convert yields under a table of rates against the dollar,  *)
(* as its cents are stored.                                                *)
RoundedQuotient(x, y) == (2 * x + y) \div (2 * y)

Converted(amount, rate, from, to) == RoundedQuotient(amount * rate[to], rate[from])

=============================================================================
