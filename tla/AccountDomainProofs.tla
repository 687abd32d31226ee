------------------------- MODULE AccountDomainProofs -------------------------
(***************************************************************************)
(* What the totals of an account's entries are for every finite set of     *)
(* entries (Domain/Credits/CreditsCollection.cs, Domain/Debits/            *)
(* DebitsCollection.cs).  GetTotal folds the entries one by one in an      *)
(* order nobody chose; it is proved to count the cents of the set, from    *)
(* which everything the balance theorems need follows.                     *)
(***************************************************************************)
EXTENDS AccountDomain, TLAPS
LOCAL INSTANCE FiniteSetTheorems
LOCAL INSTANCE FiniteSetsExt

(* The cents of an entry, and those of a set of entries: one pair each. *)
CentsOf(e) == {e} \X (1 .. e.value)
Cents(S)   == {c \in S \X Nat : c[2] \in 1 .. c[1].value}

LEMMA CentsOfCount ==
    ASSUME NEW e, e.value \in Nat
    PROVE  IsFiniteSet(CentsOf(e)) /\ Cardinality(CentsOf(e)) = e.value
<1>1. IsFiniteSet({e}) /\ Cardinality({e}) = 1
  BY FS_Singleton
<1>2. IsFiniteSet(1 .. e.value) /\ Cardinality(1 .. e.value) = e.value
  BY FS_Interval
<1>3. QED BY <1>1, <1>2, FS_Product DEF CentsOf

LEMMA CollectionSubset ==
    ASSUME NEW S, Collection(S), NEW T \in SUBSET S
    PROVE  Collection(T)
BY FS_Subset DEF Collection

LEMMA CentsFinite ==
    ASSUME NEW S, Collection(S)
    PROVE  IsFiniteSet(Cents(S)) /\ Cardinality(Cents(S)) \in Nat
<1> DEFINE of == [e \in S |-> CentsOf(e)]
           all == {of[e] : e \in S}
<1>1. of \in Surjection(S, all)
  BY DEF Surjection
<1>2. IsFiniteSet(all)
  BY <1>1, FS_Surjection DEF Collection
<1>3. \A T \in all : IsFiniteSet(T)
  BY CentsOfCount DEF Collection
<1>4. IsFiniteSet(UNION all)
  BY <1>2, <1>3, FS_UNION
<1>5. Cents(S) \subseteq UNION all
  <2> SUFFICES ASSUME NEW e \in S, NEW n \in Nat, n \in 1 .. e.value
               PROVE  <<e, n>> \in UNION all
    BY DEF Cents
  <2>1. <<e, n>> \in of[e]
    BY DEF CentsOf
  <2>2. QED BY <2>1
<1>6. QED BY <1>4, <1>5, FS_Subset, FS_CardinalityType

LEMMA CentsStep ==
    ASSUME NEW S, Collection(S), NEW x \in S
    PROVE  Cardinality(Cents(S)) = x.value + Cardinality(Cents(S \ {x}))
<1>1. Collection(S \ {x})
  BY CollectionSubset
<1>2. x.value \in Nat
  BY DEF Collection
<1>3. Cents(S) = CentsOf(x) \cup Cents(S \ {x})
  <2>1. ASSUME NEW c \in Cents(S) PROVE c \in CentsOf(x) \cup Cents(S \ {x})
    BY DEF Cents, CentsOf
  <2>2. ASSUME NEW c \in Cents(S \ {x}) PROVE c \in Cents(S)
    BY DEF Cents
  <2>3. ASSUME NEW c \in CentsOf(x) PROVE c \in Cents(S)
    BY <1>2 DEF Cents, CentsOf
  <2>4. QED BY <2>1, <2>2, <2>3
<1>4. CentsOf(x) \cap Cents(S \ {x}) = {}
  BY DEF Cents, CentsOf
<1>5. Cardinality(CentsOf(x) \cap Cents(S \ {x})) = 0
  BY <1>4, FS_EmptySet
<1>6. Cardinality(Cents(S)) = Cardinality(CentsOf(x)) + Cardinality(Cents(S \ {x}))
                                - Cardinality(CentsOf(x) \cap Cents(S \ {x}))
  BY <1>1, <1>2, <1>3, CentsOfCount, CentsFinite, FS_Union
<1>7. QED BY <1>1, <1>2, <1>5, <1>6, CentsOfCount, CentsFinite

LEMMA CentsNone == Cardinality(Cents({})) = 0
BY FS_EmptySet DEF Cents

-----------------------------------------------------------------------------
(* The fold of GetTotal, as one step of it is written. *)
Pick(s) == CHOOSE x \in s : TRUE
Folded(sum, S) == [s \in SUBSET S |-> IF s = {} THEN 0 ELSE Pick(s).value + sum[s \ {Pick(s)}]]

LEMMA TotalUnfolds ==
    ASSUME NEW S
    PROVE  GetTotal(S) = (CHOOSE sum : sum = Folded(sum, S))[S]
BY DEF GetTotal, MapThenSumSet, MapThenFoldSet, Folded, Pick

(* The count of cents solves the equation of the fold... *)
LEMMA CentsSolve ==
    ASSUME NEW S, Collection(S)
    PROVE  \E sum : sum = Folded(sum, S)
<1> DEFINE sum == [s \in SUBSET S |-> Cardinality(Cents(s))]
<1>1. ASSUME NEW s \in SUBSET S
      PROVE  sum[s] = IF s = {} THEN 0 ELSE Pick(s).value + sum[s \ {Pick(s)}]
  <2>1. CASE s = {}
    BY <2>1, CentsNone
  <2>2. CASE s # {}
    <3>1. Pick(s) \in s
      BY <2>2 DEF Pick
    <3>2. Collection(s)
      BY CollectionSubset
    <3>3. s \ {Pick(s)} \in SUBSET S
      OBVIOUS
    <3>4. QED BY <2>2, <3>1, <3>2, <3>3, CentsStep
  <2>3. QED BY <2>1, <2>2
<1>2. sum = Folded(sum, S)
  BY <1>1 DEF Folded
<1>3. QED BY <1>2

(* ... and is its only solution. *)
LEMMA SolutionIsCents ==
    ASSUME NEW S, Collection(S), NEW sum, sum = Folded(sum, S)
    PROVE  sum[S] = Cardinality(Cents(S))
<1> DEFINE wrong == {s \in SUBSET S : sum[s] # Cardinality(Cents(s))}
<1>1. SUFFICES ASSUME wrong # {} PROVE FALSE
  OBVIOUS
<1>2. IsWellFoundedOn(StrictSubsetOrdering(S), SUBSET S)
  BY FS_StrictSubsetOrderingWellFounded, FS_FiniteSubsetsOfFinite DEF Collection
<1>3. PICK s \in wrong : \A t \in wrong : <<t, s>> \notin StrictSubsetOrdering(S)
  <2>1. wrong \subseteq SUBSET S
    OBVIOUS
  <2> HIDE DEF wrong
  <2>2. QED BY <1>1, <1>2, <2>1, WFMin
<1>4. sum[s] = IF s = {} THEN 0 ELSE Pick(s).value + sum[s \ {Pick(s)}]
  BY DEF Folded
<1>5. s # {}
  BY <1>4, CentsNone
<1>6. Pick(s) \in s
  BY <1>5 DEF Pick
<1>7. sum[s \ {Pick(s)}] = Cardinality(Cents(s \ {Pick(s)}))
  <2> DEFINE rest == s \ {Pick(s)}
  <2>1. rest \in SUBSET S /\ rest \subseteq s /\ rest # s
    BY <1>6
  <2>2. <<rest, s>> \in StrictSubsetOrdering(S)
    BY <2>1 DEF StrictSubsetOrdering
  <2>3. rest \notin wrong
    BY <1>3, <2>2
  <2> HIDE DEF rest
  <2>4. sum[rest] = Cardinality(Cents(rest))
    BY <2>1, <2>3
  <2>5. QED BY <2>4 DEF rest
<1>8. Collection(s)
  BY CollectionSubset
<1>9. QED BY <1>4, <1>5, <1>6, <1>7, <1>8, CentsStep

(* The total of a collection of entries is the number of their cents,      *)
(* whatever the order they are added in (CreditsCollection.GetTotal and    *)
(* DebitsCollection.GetTotal).                                             *)
THEOREM TotalCountsCents ==
    ASSUME NEW S, Collection(S)
    PROVE  GetTotal(S) = Cardinality(Cents(S))
<1> DEFINE sum == CHOOSE f : f = Folded(f, S)
<1>1. sum = Folded(sum, S)
  BY CentsSolve
<1>2. GetTotal(S) = sum[S]
  BY TotalUnfolds
<1> HIDE DEF sum
<1>3. QED BY <1>1, <1>2, SolutionIsCents

-----------------------------------------------------------------------------
LEMMA TotalType ==
    ASSUME NEW S, Collection(S)
    PROVE  GetTotal(S) \in Nat
BY TotalCountsCents, CentsFinite

LEMMA TotalNone == GetTotal({}) = 0
<1>1. Collection({})
  BY FS_EmptySet DEF Collection
<1>2. QED BY <1>1, TotalCountsCents, CentsNone

(* An entry added adds its value to the total. *)
LEMMA TotalAdd ==
    ASSUME NEW S, Collection(S), NEW x, x \notin S, x.value \in Nat
    PROVE  /\ Collection(S \cup {x})
           /\ GetTotal(S \cup {x}) = GetTotal(S) + x.value
<1>1. Collection(S \cup {x})
  BY FS_AddElement DEF Collection
<1>2. (S \cup {x}) \ {x} = S
  OBVIOUS
<1>3. Cardinality(Cents(S \cup {x})) = x.value + Cardinality(Cents(S))
  BY <1>1, <1>2, CentsStep
<1>4. QED BY <1>1, <1>3, TotalCountsCents, CentsFinite

(* Fewer entries, no greater total. *)
LEMMA TotalMonotone ==
    ASSUME NEW S, Collection(S), NEW T \in SUBSET S
    PROVE  GetTotal(T) <= GetTotal(S)
<1>1. Collection(T)
  BY CollectionSubset
<1>2. Cents(T) \in SUBSET Cents(S)
  BY DEF Cents
<1>3. Cardinality(Cents(T)) <= Cardinality(Cents(S))
  BY <1>2, CentsFinite, FS_Subset
<1>4. QED BY <1>1, <1>3, TotalCountsCents

-----------------------------------------------------------------------------
(* Collections and balances.                                               *)

LEMMA NothingIsACollection == Collection({})
BY FS_EmptySet DEF Collection

LEMMA CollectionUnion ==
    ASSUME NEW S, Collection(S), NEW T, Collection(T)
    PROVE  Collection(S \cup T)
BY FS_Union DEF Collection

(* At most one entry more. *)
LEMMA CollectionGrows ==
    ASSUME NEW S, Collection(S), NEW x, NEW T \in SUBSET (S \cup {x}),
           \A e \in T : e.value \in Nat
    PROVE  Collection(T)
<1>1. IsFiniteSet(S \cup {x})
  BY FS_AddElement DEF Collection
<1>2. QED BY <1>1, FS_Subset DEF Collection

LEMMA EntriesOfCollection ==
    ASSUME NEW S, Collection(S), NEW a
    PROVE  Collection(EntriesOf(S, a))
BY CollectionSubset DEF EntriesOf

LEMMA BalanceType ==
    ASSUME NEW C, Collection(C), NEW D, Collection(D), NEW a
    PROVE  GetCurrentBalance(C, D, a) \in Int
<1>1. GetTotal(EntriesOf(C, a)) \in Nat /\ GetTotal(EntriesOf(D, a)) \in Nat
  BY EntriesOfCollection, TotalType
<1>2. QED BY <1>1 DEF GetCurrentBalance

(* More credits and fewer debits, no lower balance. *)
LEMMA BalanceMonotone ==
    ASSUME NEW a,
           NEW C, Collection(C), NEW CC, Collection(CC), EntriesOf(C, a) \subseteq CC,
           NEW D, Collection(D), NEW DD, Collection(DD), EntriesOf(DD, a) \subseteq D
    PROVE  GetCurrentBalance(C, D, a) <= GetCurrentBalance(CC, DD, a)
<1>1. /\ EntriesOf(C, a) \in SUBSET EntriesOf(CC, a)
      /\ EntriesOf(DD, a) \in SUBSET EntriesOf(D, a)
  BY DEF EntriesOf
<1>2. /\ GetTotal(EntriesOf(C, a)) <= GetTotal(EntriesOf(CC, a))
      /\ GetTotal(EntriesOf(DD, a)) <= GetTotal(EntriesOf(D, a))
  BY <1>1, EntriesOfCollection, TotalMonotone
<1>3. /\ GetTotal(EntriesOf(C, a)) \in Nat /\ GetTotal(EntriesOf(CC, a)) \in Nat
      /\ GetTotal(EntriesOf(D, a)) \in Nat /\ GetTotal(EntriesOf(DD, a)) \in Nat
  BY EntriesOfCollection, TotalType
<1>4. QED BY <1>2, <1>3 DEF GetCurrentBalance

(* A new debit lowers the balance of its account by its value. *)
LEMMA BalanceAfterDebit ==
    ASSUME NEW a, NEW C, Collection(C), NEW D, Collection(D),
           NEW d, d \notin D, d.account = a, d.value \in Nat
    PROVE  /\ Collection(D \cup {d})
           /\ GetCurrentBalance(C, D \cup {d}, a) = GetCurrentBalance(C, D, a) - d.value
<1>1. Collection(D \cup {d})
  BY TotalAdd
<1>2. EntriesOf(D \cup {d}, a) = EntriesOf(D, a) \cup {d}
  BY DEF EntriesOf
<1>3. d \notin EntriesOf(D, a)
  BY DEF EntriesOf
<1>4. GetTotal(EntriesOf(D \cup {d}, a)) = GetTotal(EntriesOf(D, a)) + d.value
  BY <1>2, <1>3, EntriesOfCollection, TotalAdd
<1>5. GetTotal(EntriesOf(C, a)) \in Nat /\ GetTotal(EntriesOf(D, a)) \in Nat
  BY EntriesOfCollection, TotalType
<1>6. QED BY <1>1, <1>4, <1>5 DEF GetCurrentBalance

(* A balance depends on the entries of its account only. *)
LEMMA BalanceOfOwnEntries ==
    ASSUME NEW a, NEW C, NEW CC, EntriesOf(C, a) = EntriesOf(CC, a),
           NEW D, NEW DD, EntriesOf(D, a) = EntriesOf(DD, a)
    PROVE  GetCurrentBalance(C, D, a) = GetCurrentBalance(CC, DD, a)
BY DEF GetCurrentBalance

(* A conversion of money into its own currency changes nothing.            *)
LEMMA QuotientOfAMultiple ==
    ASSUME NEW a \in Nat, NEW k \in Nat \ {0}
    PROVE  RoundedQuotient(a * k, k) = a
  <1> DEFINE q == (2 * (a * k) + k) \div (2 * k)
  <1>1. q \in Int /\ (2 * k) * q <= 2 * (a * k) + k /\ 2 * (a * k) + k < (2 * k) * q + 2 * k
    <2>1. 2 * (a * k) + k \in Int /\ 2 * k \in Int /\ 2 * k > 0
      OBVIOUS
    <2>2. \A x, y \in Int : y > 0 => x \div y \in Int /\ y * (x \div y) <= x /\ x < y * (x \div y) + y
      OBVIOUS
    <2> QED
      BY <2>1, <2>2
  <1> HIDE DEF q
  <1>2. ~(q < a)
    <2>1. q < a => q + 1 <= a
      BY <1>1
    <2>2. q + 1 <= a => k * (q + 1) <= k * a
      BY <1>1
    <2> QED
      BY <1>1, <2>1, <2>2
  <1>3. ~(a < q)
    <2>1. a < q => a + 1 <= q
      BY <1>1
    <2>2. a + 1 <= q => k * (a + 1) <= k * q
      BY <1>1
    <2> QED
      BY <1>1, <2>1, <2>2
  <1>4. q = a
    BY <1>1, <1>2, <1>3
  <1> QED
    BY <1>4 DEF RoundedQuotient, q
=============================================================================
