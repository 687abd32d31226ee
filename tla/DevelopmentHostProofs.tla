------------------------ MODULE DevelopmentHostProofs ------------------------
(***************************************************************************)
(* Proofs about a host without SQL Server, for any controllers, features   *)
(* and settings and any number of requests and accounts: the gates take    *)
(* out what is off and nothing else, and requests that met at no account   *)
(* find the in-memory store sound.                                         *)
(***************************************************************************)
EXTENDS DevelopmentHost, AccountDomainProofs, SequenceTheorems, TLAPS

(* What RemoveAt leaves: the front as it was, the rest one place earlier.  *)
LEMMA RemoveAtLeaves ==
    ASSUME NEW S, NEW s \in Seq(S), NEW k \in 1..Len(s)
    PROVE  /\ RemoveAt(s, k) \in Seq(S)
           /\ Len(RemoveAt(s, k)) = Len(s) - 1
           /\ \A j \in 1..(k - 1) : RemoveAt(s, k)[j] = s[j]
           /\ \A j \in k..(Len(s) - 1) : RemoveAt(s, k)[j] = s[j + 1]
<1> DEFINE front == SubSeq(s, 1, k - 1)
           rest == SubSeq(s, k + 1, Len(s))
<1>1. front \in Seq(S) /\ Len(front) = k - 1 /\ \A j \in 1..(k - 1) : front[j] = s[j]
  OBVIOUS
<1>2. rest \in Seq(S) /\ Len(rest) = Len(s) - k /\ \A j \in 1..(Len(s) - k) : rest[j] = s[k + j]
  OBVIOUS
<1> HIDE DEF front, rest
<1>3. /\ front \o rest \in Seq(S)
      /\ Len(front \o rest) = Len(s) - 1
      /\ \A j \in 1..(k - 1) : (front \o rest)[j] = front[j]
      /\ \A j \in k..(Len(s) - 1) : (front \o rest)[j] = rest[j - (k - 1)]
  <2> DEFINE whole == front \o rest
  <2>1. /\ whole \in Seq(S)
        /\ Len(whole) = Len(front) + Len(rest)
        /\ \A j \in 1..(Len(front) + Len(rest)) :
              whole[j] = IF j <= Len(front) THEN front[j] ELSE rest[j - Len(front)]
    BY <1>1, <1>2, ConcatProperties, Zenon
  <2>2. Len(s) \in Nat /\ Len(front) = k - 1 /\ Len(rest) = Len(s) - k
    BY <1>1, <1>2
  <2> HIDE DEF whole
  <2>3. Len(front) + Len(rest) = Len(s) - 1
    BY <2>2
  <2>4. ASSUME NEW j \in 1..(k - 1) PROVE whole[j] = front[j]
    <3>1. j \in 1..(Len(front) + Len(rest)) /\ j <= Len(front)
      BY <2>2
    <3> QED BY <2>1, <3>1
  <2>5. ASSUME NEW j \in k..(Len(s) - 1) PROVE whole[j] = rest[j - (k - 1)]
    <3>1. j \in 1..(Len(front) + Len(rest)) /\ ~(j <= Len(front)) /\ j - Len(front) = j - (k - 1)
      BY <2>2
    <3> QED BY <2>1, <3>1
  <2> QED BY <2>1, <2>3, <2>4, <2>5 DEF whole
<1>4. RemoveAt(s, k) = front \o rest
  BY DEF RemoveAt, front, rest
<1>5. ASSUME NEW j \in k..(Len(s) - 1) PROVE rest[j - (k - 1)] = s[j + 1]
  <2>1. j - (k - 1) \in 1..(Len(s) - k) /\ k + (j - (k - 1)) = j + 1
    OBVIOUS
  <2> QED BY <1>2, <2>1
<1> QED BY <1>1, <1>3, <1>4, <1>5

(* Nothing has been looked at when the loop starts. *)
LEMMA GatesInitInv == GatesInit => GatesInv
<1> SUFFICES ASSUME GatesInit PROVE GatesInv
  OBVIOUS
<1> DEFINE n == Len(Controllers)
<1>1. n \in Nat /\ \A k \in 1..n : Controllers[k] \in DOMAIN Gate
  BY ControllersAssumption
<1>2. enabled \subseteq Features /\ controllers = Controllers /\ i = n /\ flags = FlagsAt(Controllers, n)
  BY ConfigurationsAssumption DEF GatesInit, Starts
<1>3. n > 0 => flags = Gate[Controllers[n]] /\ flags \in Seq(Features) /\ Len(flags) <= 1
  BY <1>1, <1>2, GateAssumption DEF FlagsAt
<1>4. n = 0 => flags = <<>>
  BY <1>2 DEF FlagsAt
<1>5. GatesTypeOK /\ ServedOnce
  BY <1>1, <1>2, <1>3, <1>4, ControllersAssumption DEF GatesTypeOK, ServedOnce
<1>6. CASE flags # <<>> \/ n = 0
  <2>1. Left = n
    BY <1>2, <1>6 DEF Left
  <2> QED BY <1>1, <1>2, <1>3, <1>4, <1>5, <2>1 DEF GatesInv, FlagsInHand, FrontUntouched, BehindIsOn, OnIsBehind
<1>7. CASE flags = <<>> /\ n > 0
  <2>1. Left = n - 1
    BY <1>2, <1>7 DEF Left
  <2>2. IsOn(Controllers[n])
    BY <1>3, <1>7 DEF IsOn
  <2> QED BY <1>1, <1>2, <1>3, <1>5, <1>7, <2>1, <2>2 DEF GatesInv, FlagsInHand, FrontUntouched, BehindIsOn, OnIsBehind
<1> QED BY <1>1, <1>6, <1>7

(* The next controller is where it was, and a gate without features is on. *)
LEMMA NextControllerInv == GatesInv /\ NextController => GatesInv'
<1> SUFFICES ASSUME GatesInv, NextController PROVE GatesInv'
  OBVIOUS
<1> DEFINE n == Len(Controllers)
           l == Len(controllers)
<1>1. n \in Nat /\ \A k \in 1..n : Controllers[k] \in DOMAIN Gate
  BY ControllersAssumption
<1>2. GatesTypeOK /\ ServedOnce /\ FrontUntouched /\ BehindIsOn /\ OnIsBehind
  BY DEF GatesInv
<1>3. l \in Nat /\ i \in 1..n /\ Left = i - 1 /\ Left <= l /\ i' = i - 1
  BY <1>1, <1>2 DEF NextController, Left, GatesTypeOK, FrontUntouched
<1>4. enabled' = enabled /\ controllers' = controllers /\ flags' = FlagsAt(controllers, i - 1)
  BY DEF NextController
<1>5. i' = 0 => flags' = <<>>
  BY <1>3, <1>4 DEF FlagsAt
<1>6. i' > 0 => /\ i' \in 1..Left /\ flags' = Gate[Controllers[i']] /\ controllers[i'] = Controllers[i']
                /\ flags' \in Seq(Features) /\ Len(flags') <= 1
  <2> SUFFICES ASSUME i' > 0
               PROVE  /\ i' \in 1..Left /\ flags' = Gate[Controllers[i']] /\ controllers[i'] = Controllers[i']
                      /\ flags' \in Seq(Features) /\ Len(flags') <= 1
    OBVIOUS
  <2>1. i' \in 1..n /\ i' \in 1..Left
    BY <1>1, <1>3
  <2>2. controllers[i'] = Controllers[i']
    BY <1>2, <2>1 DEF FrontUntouched
  <2>3. flags' = Gate[Controllers[i']]
    BY <1>3, <1>4, <2>1, <2>2 DEF FlagsAt
  <2> QED BY <1>1, <2>1, <2>2, <2>3, GateAssumption
<1>7. GatesTypeOK'
  <2>1. flags' \in Seq(Features) /\ Len(flags') <= 1
    <3>1. CASE i' = 0
      <4>1. <<>> \in Seq(Features) /\ Len(<<>>) = 0
        OBVIOUS
      <4> QED BY <1>5, <3>1, <4>1
    <3>2. CASE i' # 0
      BY <1>3, <1>6, <3>2
    <3> QED BY <3>1, <3>2
  <2> QED BY <1>1, <1>2, <1>3, <1>4, <2>1 DEF GatesTypeOK
<1>8. ServedOnce'
  BY <1>2, <1>4 DEF ServedOnce
<1>9. FlagsInHand'
  BY <1>3, <1>5, <1>6 DEF FlagsInHand
<1>10. \A c : IsOn(c)' = IsOn(c)
  BY <1>4 DEF IsOn
<1>11. CASE flags' # <<>> \/ i' = 0
  <2>1. Left' = Left
    BY <1>3, <1>11 DEF Left
  <2> QED BY <1>2, <1>4, <1>7, <1>8, <1>9, <1>10, <2>1 DEF GatesInv, FrontUntouched, BehindIsOn, OnIsBehind
<1>12. CASE flags' = <<>> /\ i' # 0
  <2>1. Left' = Left - 1 /\ i' = Left /\ Left \in 1..n /\ Left \in 1..l
    BY <1>3, <1>12 DEF Left
  <2>2. IsOn(Controllers[Left]) /\ controllers[Left] = Controllers[Left]
    BY <1>3, <1>6, <1>12, <2>1 DEF IsOn
  <2>3. FrontUntouched'
    BY <1>2, <1>3, <1>4, <2>1 DEF FrontUntouched
  <2>4. BehindIsOn'
    <3> SUFFICES ASSUME NEW k \in (Left' + 1)..l
                 PROVE  \E m \in (Left' + 1)..n : controllers[k] = Controllers[m] /\ IsOn(Controllers[m])
      BY <1>4, <1>10 DEF BehindIsOn
    <3>1. CASE k = Left
      BY <1>1, <2>1, <2>2, <3>1
    <3>2. CASE k # Left
      <4>1. k \in (Left + 1)..l
        BY <1>3, <2>1, <3>2
      <4>2. PICK m \in (Left + 1)..n : controllers[k] = Controllers[m] /\ IsOn(Controllers[m])
        BY <1>2, <4>1 DEF BehindIsOn
      <4> QED BY <1>1, <2>1, <4>2
    <3> QED BY <3>1, <3>2
  <2>5. OnIsBehind'
    <3> SUFFICES ASSUME NEW m \in (Left' + 1)..n, IsOn(Controllers[m])
                 PROVE  \E k \in (Left' + 1)..l : controllers[k] = Controllers[m]
      BY <1>4, <1>10 DEF OnIsBehind
    <3>1. CASE m = Left
      BY <1>3, <2>1, <2>2, <3>1
    <3>2. CASE m # Left
      <4>1. m \in (Left + 1)..n
        BY <1>1, <2>1, <3>2
      <4>2. PICK k \in (Left + 1)..l : controllers[k] = Controllers[m]
        BY <1>2, <4>1 DEF OnIsBehind
      <4> QED BY <1>3, <2>1, <4>2
    <3> QED BY <3>1, <3>2
  <2> QED BY <1>7, <1>8, <1>9, <2>3, <2>4, <2>5 DEF GatesInv
<1> QED BY <1>11, <1>12

(* A look at a feature: what is on joins the controllers that are through, *)
(* what is off goes, and those behind it close the gap.                    *)
LEMMA LookAtFlagInv == GatesInv /\ LookAtFlag => GatesInv'
<1> SUFFICES ASSUME GatesInv, LookAtFlag PROVE GatesInv'
  OBVIOUS
<1> DEFINE n == Len(Controllers)
           l == Len(controllers)
           c == Controllers[i]
<1>1. n \in Nat /\ \A k \in 1..n : Controllers[k] \in DOMAIN Gate
  BY ControllersAssumption
<1>2. GatesTypeOK /\ ServedOnce /\ FlagsInHand /\ FrontUntouched /\ BehindIsOn /\ OnIsBehind
  BY DEF GatesInv
<1>3. /\ l \in Nat /\ flags # <<>> /\ i \in 1..n /\ Left = i /\ i <= l /\ i' = i
      /\ enabled' = enabled /\ flags' = Tail(flags) /\ flags = Gate[c]
  BY <1>1, <1>2 DEF LookAtFlag, Left, GatesTypeOK, FrontUntouched, FlagsInHand
<1>4. flags \in Seq(Features) /\ Len(flags) = 1 /\ flags' = <<>>
  <2>1. flags \in Seq(Features) /\ Len(flags) = 1
    <3>1. flags \in Seq(Features) /\ Len(flags) <= 1
      BY <1>2 DEF GatesTypeOK
    <3>2. Len(flags) \in Nat \ {0}
      BY <1>3, <3>1, EmptySeq
    <3>3. \A x \in Nat \ {0} : x <= 1 => x = 1
      OBVIOUS
    <3>4. Len(flags) = 1
      BY <3>1, <3>2, <3>3, Zenon
    <3> QED BY <3>1, <3>4
  <2>2. Len(Tail(flags)) = 0 /\ Tail(flags) \in Seq(Features)
    BY <1>3, <2>1
  <2> QED BY <1>3, <2>1, <2>2
<1>5. Left' = Left - 1
  BY <1>3, <1>4 DEF Left
<1>6. controllers[i] = c
  BY <1>2, <1>3 DEF FrontUntouched
<1>7. IsOn(c) <=> Head(flags) \in enabled
  BY <1>3, <1>4 DEF IsOn
<1>8. \A x : IsOn(x)' = IsOn(x)
  BY <1>3 DEF IsOn
<1>9. FlagsInHand'
  BY <1>4 DEF FlagsInHand
<1>10. flags' \in Seq(Features) /\ Len(flags') <= 1
  <2>1. <<>> \in Seq(Features) /\ Len(<<>>) = 0
    OBVIOUS
  <2> QED BY <1>4, <2>1
<1>11. CASE Head(flags) \in enabled
  <2>1. controllers' = controllers /\ IsOn(c)
    BY <1>7, <1>11 DEF LookAtFlag
  <2>2. GatesTypeOK' /\ ServedOnce'
    BY <1>2, <1>3, <1>10, <2>1 DEF ServedOnce, GatesTypeOK
  <2>3. FrontUntouched'
    BY <1>2, <1>3, <1>5, <2>1 DEF FrontUntouched
  <2>4. BehindIsOn'
    <3> SUFFICES ASSUME NEW k \in (Left' + 1)..l
                 PROVE  \E m \in (Left' + 1)..n : controllers[k] = Controllers[m] /\ IsOn(Controllers[m])
      BY <1>8, <2>1 DEF BehindIsOn
    <3>1. CASE k = i
      BY <1>1, <1>3, <1>5, <1>6, <2>1, <3>1
    <3>2. CASE k # i
      <4>1. k \in (Left + 1)..l
        BY <1>3, <1>5, <3>2
      <4>2. PICK m \in (Left + 1)..n : controllers[k] = Controllers[m] /\ IsOn(Controllers[m])
        BY <1>2, <4>1 DEF BehindIsOn
      <4> QED BY <1>1, <1>3, <1>5, <4>2
    <3> QED BY <3>1, <3>2
  <2>5. OnIsBehind'
    <3> SUFFICES ASSUME NEW m \in (Left' + 1)..n, IsOn(Controllers[m])
                 PROVE  \E k \in (Left' + 1)..l : controllers[k] = Controllers[m]
      BY <1>8, <2>1 DEF OnIsBehind
    <3>1. CASE m = i
      BY <1>3, <1>5, <1>6, <3>1
    <3>2. CASE m # i
      <4>1. m \in (Left + 1)..n
        BY <1>1, <1>3, <1>5, <3>2
      <4>2. PICK k \in (Left + 1)..l : controllers[k] = Controllers[m]
        BY <1>2, <4>1 DEF OnIsBehind
      <4> QED BY <1>3, <1>5, <4>2
    <3> QED BY <3>1, <3>2
  <2> QED BY <1>9, <2>2, <2>3, <2>4, <2>5 DEF GatesInv
<1>12. CASE Head(flags) \notin enabled
  <2>1. controllers' = RemoveAt(controllers, i) /\ ~IsOn(c)
    BY <1>3, <1>7, <1>12 DEF LookAtFlag, TakeOut
  <2>2. controllers \in Seq(DOMAIN Gate) /\ i \in 1..l
    BY <1>2, <1>3 DEF GatesTypeOK
  <2>3. /\ controllers' \in Seq(DOMAIN Gate)
        /\ Len(controllers') = l - 1
        /\ \A j \in 1..(i - 1) : controllers'[j] = controllers[j]
        /\ \A j \in i..(l - 1) : controllers'[j] = controllers[j + 1]
    BY <2>1, <2>2, RemoveAtLeaves
  <2>4. GatesTypeOK'
    BY <1>2, <1>3, <1>10, <2>3 DEF GatesTypeOK
  <2>5. ServedOnce'
    <3> SUFFICES ASSUME NEW j \in 1..(l - 1), NEW k \in 1..(l - 1), controllers'[j] = controllers'[k]
                 PROVE  j = k
      BY <2>3 DEF ServedOnce
    <3> DEFINE old(x) == IF x < i THEN x ELSE x + 1
    <3>1. ASSUME NEW x \in 1..(l - 1) PROVE controllers'[x] = controllers[old(x)] /\ old(x) \in 1..l
      <4>1. CASE x < i
        BY <1>3, <2>3, <4>1
      <4>2. CASE ~(x < i)
        <5>1. x \in i..(l - 1)
          BY <1>3, <4>2
        <5> QED BY <1>3, <2>3, <4>2, <5>1
      <4> QED BY <4>1, <4>2
    <3>2. old(j) = old(k)
      BY <1>2, <3>1 DEF ServedOnce
    <3> QED BY <1>3, <3>2
  <2>6. FrontUntouched'
    BY <1>2, <1>3, <1>5, <2>3 DEF FrontUntouched
  <2>7. BehindIsOn'
    <3> SUFFICES ASSUME NEW k \in (Left' + 1)..(l - 1)
                 PROVE  \E m \in (Left' + 1)..n : controllers'[k] = Controllers[m] /\ IsOn(Controllers[m])
      BY <1>8, <2>3 DEF BehindIsOn
    <3>1. k \in i..(l - 1) /\ k + 1 \in (Left + 1)..l
      BY <1>3, <1>5
    <3>2. controllers'[k] = controllers[k + 1]
      BY <2>3, <3>1
    <3>3. PICK m \in (Left + 1)..n : controllers[k + 1] = Controllers[m] /\ IsOn(Controllers[m])
      BY <1>2, <3>1 DEF BehindIsOn
    <3> QED BY <1>1, <1>3, <1>5, <3>2, <3>3
  <2>8. OnIsBehind'
    <3> SUFFICES ASSUME NEW m \in (Left' + 1)..n, IsOn(Controllers[m])
                 PROVE  \E k \in (Left' + 1)..(l - 1) : controllers'[k] = Controllers[m]
      BY <1>8, <2>3 DEF OnIsBehind
    <3>1. m \in (Left + 1)..n
      BY <1>1, <1>3, <1>5, <2>1
    <3>2. PICK k \in (Left + 1)..l : controllers[k] = Controllers[m]
      BY <1>2, <3>1 DEF OnIsBehind
    <3>3. k - 1 \in (Left' + 1)..(l - 1) /\ k - 1 \in i..(l - 1) /\ (k - 1) + 1 = k
      BY <1>3, <1>5
    <3>4. controllers'[k - 1] = Controllers[m]
      BY <2>3, <3>2, <3>3
    <3> QED BY <3>3, <3>4
  <2> QED BY <1>9, <2>4, <2>5, <2>6, <2>7, <2>8 DEF GatesInv
<1> QED BY <1>11, <1>12

(* The invariant of the loop, for every list, gate and setting. *)
THEOREM GatesInvariance == GatesSpec => []GatesInv
<1>1. GatesInv /\ UNCHANGED gates => GatesInv'
  <2> SUFFICES ASSUME GatesInv, UNCHANGED gates PROVE GatesInv'
    OBVIOUS
  <2>1. enabled' = enabled /\ controllers' = controllers /\ i' = i /\ flags' = flags
    BY DEF gates
  <2>2. Left' = Left /\ \A c : IsOn(c)' = IsOn(c)
    BY <2>1 DEF Left, IsOn
  <2>3. GatesTypeOK' /\ ServedOnce' /\ FlagsInHand'
    BY <2>1 DEF GatesInv, GatesTypeOK, ServedOnce, FlagsInHand
  <2>4. FrontUntouched' /\ BehindIsOn' /\ OnIsBehind'
    BY <2>1, <2>2 DEF GatesInv, FrontUntouched, BehindIsOn, OnIsBehind
  <2> QED BY <2>3, <2>4 DEF GatesInv
<1>2. GatesInv /\ [GatesNext]_gates => GatesInv'
  BY <1>1, LookAtFlagInv, NextControllerInv DEF GatesNext
<1> QED BY GatesInitInv, <1>2, PTL DEF GatesSpec

(* When the host has started, it serves exactly what is on, each once.     *)
THEOREM OnlyWhatIsOnIsServed == GatesSpec => []ServedAreThoseThatAreOn
<1>1. GatesInv => ServedAreThoseThatAreOn
  <2> SUFFICES ASSUME GatesInv, Started
               PROVE  /\ ServedOnce
                      /\ {controllers[k] : k \in 1..Len(controllers)}
                             = {c \in {Controllers[k] : k \in 1..Len(Controllers)} : IsOn(c)}
    BY DEF ServedAreThoseThatAreOn
  <2>1. Left = 0
    BY DEF Started, Left
  <2>2. controllers \in Seq(DOMAIN Gate) /\ ServedOnce
    BY DEF GatesInv, GatesTypeOK
  <2>3. \A k \in 1..Len(controllers) :
           \E m \in 1..Len(Controllers) : controllers[k] = Controllers[m] /\ IsOn(Controllers[m])
    BY <2>1 DEF GatesInv, BehindIsOn
  <2>4. \A m \in 1..Len(Controllers) :
           IsOn(Controllers[m]) => \E k \in 1..Len(controllers) : controllers[k] = Controllers[m]
    BY <2>1 DEF GatesInv, OnIsBehind
  <2> QED BY <2>2, <2>3, <2>4
<1> QED BY <1>1, GatesInvariance, PTL

-----------------------------------------------------------------------------
(* The in-memory store.  First how a thread moves.                         *)

Listings == SUBSET Ids

LEMMA ThreadIs ==
    Thread = [at : {"Idle"} \cup Listing \cup Entering, leg : {1, 2}, missing : BOOLEAN,
              mine : Listings, input : Inputs \cup {None}, answer : Answers \cup {None}]
BY DEF Thread, Listings

LEMMA GetsAnswer ==
    ASSUME TypeOK, NEW r \in Requests, NEW a \in Answers, Answer(r, a)
    PROVE  /\ run' \in [Requests -> Thread]
           /\ run'[r] = [run[r] EXCEPT !.answer = a]
           /\ \A q \in Requests \ {r} : run'[q] = run[q]
BY DEF TypeOK, Answer, Thread

(* GetAccounts lists the accounts of its user and goes on to answer.       *)
LEMMA ListingMine ==
    ASSUME TypeOK, NEW r \in Requests, LookUp(r), Op(r) = "GetAccounts"
    PROVE  /\ run' \in [Requests -> Thread]
           /\ run'[r].at = "Return" /\ run'[r].input = run[r].input /\ run'[r].leg = run[r].leg
           /\ run'[r].answer = run[r].answer
           /\ \A q \in Requests \ {r} : run'[q] = run[q]
<1> DEFINE accounts == Mine(In(r).user)
<1>1. accounts \in Listings
  BY DEF Mine, Listings
<1>2. run' = [run EXCEPT ![r].at = "Return", ![r].mine = accounts]
  BY DEF LookUp
<1> HIDE DEF accounts
<1>3. run \in [Requests -> Thread] /\ "Return" \in {"Idle"} \cup Listing \cup Entering
  BY DEF TypeOK, Entering
<1>4. run' = [run EXCEPT ![r] = [run[r] EXCEPT !.at = "Return", !.mine = accounts]]
  BY <1>2, <1>3
<1>5. run[r] \in Thread
  BY <1>3
<1>6. [run[r] EXCEPT !.at = "Return", !.mine = accounts] \in Thread
  BY <1>1, <1>3, <1>5, ThreadIs
<1>7. run' \in [Requests -> Thread] /\ \A q \in Requests \ {r} : run'[q] = run[q]
  BY <1>3, <1>4, <1>6
<1>8. run'[r] = [run[r] EXCEPT !.at = "Return", !.mine = accounts]
  BY <1>3, <1>4
<1> QED BY <1>5, <1>7, <1>8, ThreadIs

(* What a call leaves alone: the other threads, the input, who met.        *)
Calls(r) ==
    /\ UnderWay(r) /\ met' = met
    /\ run' \in [Requests -> Thread]
    /\ \A q \in Requests \ {r} : run'[q] = run[q]
    /\ run'[r].at # "Idle" /\ run'[r].input = run[r].input
    /\ run'[r].answer = "Ok" => run[r].at = "Return" /\ run'[r].at = "Return"
    /\ OnCourse(r)'

LEMMA CallCalls ==
    ASSUME TypeOK, NEW r \in Requests, OnCourse(r), Call(r)
    PROVE  Calls(r)
<1>1. run[r] \in Thread
  BY DEF TypeOK
<1>2. UnderWay(r) /\ In(r) \in Inputs /\ Op(r) \in UseCases /\ run[r].at \in Course(Op(r))
  BY InputsAreTyped DEF Call, SingleThrows, LookUp, Check, Post, Update, Delete, RemoveOld, Add, Return,
        At, UnderWay, OnCourse, Op
<1>3. met' = met
  BY DEF Call, SingleThrows, LookUp, Check, Post, Update, Delete, RemoveOld, Add, Return
<1>4. ASSUME NEW a \in Answers, Answer(r, a), a = "Ok" <=> run[r].at = "Return"
      PROVE  Calls(r)
  <2>1. /\ run' \in [Requests -> Thread]
        /\ run'[r] = [run[r] EXCEPT !.answer = a]
        /\ \A q \in Requests \ {r} : run'[q] = run[q]
    BY <1>4, GetsAnswer
  <2>2. /\ run'[r].at = run[r].at /\ run'[r].input = run[r].input /\ run'[r].leg = run[r].leg
        /\ run'[r].answer = a
    BY <1>1, <2>1 DEF Thread
  <2>3. OnCourse(r)'
    BY <1>2, <1>4, <2>2 DEF OnCourse, UnderWay, In, Op
  <2> QED BY <1>2, <1>3, <1>4, <2>1, <2>2, <2>3 DEF Calls, UnderWay
<1>5. ASSUME NEW point \in Course(Op(r)), NEW leg \in {1, 2}, Goes(r, point, leg),
             leg = 2 => Op(r) = "Transfer" /\ point # "Check"
      PROVE  Calls(r)
  <2>1. point \in Listing \cup Entering /\ point # "Idle"
    BY DEF Course, Listing, Entering
  <2>2. /\ run' \in [Requests -> Thread]
        /\ run'[r] = [run[r] EXCEPT !.at = point, !.leg = leg]
        /\ \A q \in Requests \ {r} : run'[q] = run[q]
    <3>1. point \in {"Idle"} \cup Listing \cup Entering
      BY <2>1
    <3>2. [run[r] EXCEPT !.at = point, !.leg = leg] \in Thread
      BY <1>1, <3>1, ThreadIs
    <3>3. run' = [run EXCEPT ![r] = [run[r] EXCEPT !.at = point, !.leg = leg]]
      BY <1>5 DEF Goes
    <3> QED BY <3>2, <3>3 DEF TypeOK
  <2>3. /\ run'[r].at = point /\ run'[r].input = run[r].input /\ run'[r].leg = leg
        /\ run'[r].answer = run[r].answer
    BY <1>1, <2>2 DEF Thread
  <2>4. run'[r].answer # "Ok"
    BY <1>2, <2>3, IdsAreDistinct DEF UnderWay, Answers
  <2>5. OnCourse(r)'
    BY <1>2, <1>5, <2>1, <2>3, <2>4 DEF OnCourse, UnderWay, In, Op
  <2> QED BY <1>2, <1>3, <2>1, <2>2, <2>3, <2>4, <2>5 DEF Calls
<1>6. run[r].leg \in {1, 2} /\ (run[r].leg = 2 => Op(r) = "Transfer" /\ run[r].at # "Check")
  BY <1>1, <1>2 DEF OnCourse, UnderWay, Thread
<1>7. ASSUME NEW point \in Course(Op(r)), Moves(r, point), point # "Check"
      PROVE  Calls(r)
  BY <1>5, <1>6, <1>7 DEF Moves
<1>8. ASSUME AfterEntry(r), Op(r) # "CloseAccount"
      PROVE  Calls(r)
  BY <1>2, <1>5, <1>7, <1>8 DEF AfterEntry, Course, UseCases, OnAccount
<1>9. CASE SingleThrows(r)
  BY <1>4, <1>9 DEF SingleThrows, Answers, UnderWay
<1>10. CASE LookUp(r)
  <2>1. run[r].at = "Lookup"
    BY <1>10 DEF LookUp, At
  <2>2. CASE Op(r) = "GetAccounts"
    <3>1. run' \in [Requests -> Thread] /\ \A q \in Requests \ {r} : run'[q] = run[q]
      BY <1>10, <2>2, ListingMine
    <3>2. /\ run'[r].at = "Return" /\ run'[r].input = run[r].input /\ run'[r].leg = run[r].leg
          /\ run'[r].answer = run[r].answer
      BY <1>10, <2>2, ListingMine
    <3>3. OnCourse(r)'
      BY <1>2, <1>6, <2>2, <3>2 DEF OnCourse, UnderWay, In, Op, Course
    <3>4. run'[r].answer # "Ok"
      BY <1>2, <3>2, IdsAreDistinct DEF UnderWay, Answers
    <3> QED BY <1>2, <1>3, <3>1, <3>2, <3>3, <3>4 DEF Calls
  <2>3. CASE Op(r) = "Transfer" /\ run[r].leg = 1
    <3>1. run' = [run EXCEPT ![r].leg = 2, ![r].missing = ~Found(r)]
      BY <1>10, <2>3 DEF LookUp
    <3>2. (~Found(r)) \in BOOLEAN
      BY DEF Found
    <3>3. /\ run' \in [Requests -> Thread]
          /\ run'[r] = [run[r] EXCEPT !.leg = 2, !.missing = ~Found(r)]
          /\ \A q \in Requests \ {r} : run'[q] = run[q]
      <4> DEFINE lost == ~Found(r)
      <4>1. run' = [run EXCEPT ![r].leg = 2, ![r].missing = lost] /\ lost \in BOOLEAN
        BY <3>1, <3>2
      <4> HIDE DEF lost
      <4>2. /\ run' \in [Requests -> Thread]
            /\ run'[r] = [run[r] EXCEPT !.leg = 2, !.missing = lost]
            /\ \A q \in Requests \ {r} : run'[q] = run[q]
        <5>1. [run[r] EXCEPT !.leg = 2, !.missing = lost] \in Thread
          BY <1>1, <4>1, ThreadIs
        <5>2. run' = [run EXCEPT ![r] = [run[r] EXCEPT !.leg = 2, !.missing = lost]]
          BY <4>1
        <5> QED BY <5>1, <5>2 DEF TypeOK
      <4> QED BY <4>2 DEF lost
    <3>4. /\ run'[r].at = run[r].at /\ run'[r].input = run[r].input /\ run'[r].leg = 2
          /\ run'[r].answer = run[r].answer
      BY <1>1, <3>3 DEF Thread
    <3>5. OnCourse(r)'
      BY <1>2, <2>1, <2>3, <3>4 DEF OnCourse, UnderWay, In, Op
    <3>6. run'[r].answer # "Ok"
      BY <1>2, <3>4, IdsAreDistinct DEF UnderWay, Answers
    <3> QED BY <1>2, <1>3, <2>1, <3>3, <3>4, <3>5, <3>6 DEF Calls
  <2>4. CASE Op(r) # "GetAccounts" /\ ~(Op(r) = "Transfer" /\ run[r].leg = 1) /\ ~Finds(r)
    BY <1>4, <1>10, <2>1, <2>4 DEF LookUp, Answers
  <2>5. CASE Op(r) # "GetAccounts" /\ ~(Op(r) = "Transfer" /\ run[r].leg = 1) /\ Finds(r)
    <3>1. Op(r) # "OpenAccount"
      BY <1>2, <2>1 DEF Course
    <3>2. CASE Op(r) = "GetAccount"
      BY <1>7, <1>10, <2>5, <3>2 DEF LookUp, Course
    <3>3. CASE Op(r) = "Deposit"
      BY <1>7, <1>10, <2>5, <3>3 DEF LookUp, Course
    <3>4. CASE Op(r) \in {"CloseAccount", "Withdraw", "Transfer"}
      BY <1>5, <1>10, <2>5, <3>4 DEF LookUp, Course
    <3> QED BY <1>2, <2>5, <3>1, <3>2, <3>3, <3>4 DEF UseCases, OnAccount
  <2> QED BY <2>2, <2>3, <2>4, <2>5
<1>11. CASE Check(r)
  <2>1. run[r].at = "Check"
    BY <1>11 DEF Check, At
  <2>2. Op(r) \in {"CloseAccount", "Withdraw", "Transfer"}
    BY <1>2, <2>1 DEF Course, UseCases, OnAccount
  <2> QED BY <1>4, <1>7, <1>11, <2>1, <2>2 DEF Check, Answers, Course
<1>12. CASE Post(r)
  <2>1. Op(r) \in {"OpenAccount", "Deposit", "Withdraw", "Transfer"}
    BY <1>2, <1>12 DEF Post, At, Course, UseCases, OnAccount
  <2> QED BY <1>7, <1>12, <2>1 DEF Post, Course
<1>13. CASE Update(r)
  <2>1. Op(r) \in {"Deposit", "Withdraw", "Transfer"}
    BY <1>2, <1>13 DEF Update, At, Course, UseCases, OnAccount
  <2> QED BY <1>7, <1>8, <1>13, <2>1 DEF Update, Course
<1>14. CASE Delete(r)
  <2>1. Op(r) = "CloseAccount"
    BY <1>2, <1>14 DEF Delete, At, Course, UseCases, OnAccount
  <2> QED BY <1>7, <1>14, <2>1 DEF Delete, Course
<1>15. CASE RemoveOld(r)
  <2>1. Op(r) \in {"CloseAccount", "Deposit", "Withdraw", "Transfer"}
    BY <1>2, <1>15 DEF RemoveOld, At, Course, UseCases, OnAccount
  <2> QED BY <1>7, <1>15, <2>1 DEF RemoveOld, Course
<1>16. CASE Add(r)
  <2>1. Op(r) # "CloseAccount"
    BY <1>2, <1>16 DEF Add, At, Course
  <2> QED BY <1>8, <1>16, <2>1 DEF Add
<1>17. CASE Return(r)
  BY <1>4, <1>17 DEF Return, Answers, At
<1> QED BY <1>9, <1>10, <1>11, <1>12, <1>13, <1>14, <1>15, <1>16, <1>17 DEF Call

-----------------------------------------------------------------------------
(* What is past of a request stays: its input, and whom it met.            *)
Grows ==
    \A q \in Requests : run[q].at # "Idle" =>
        met[q] \subseteq met'[q] /\ run'[q].at # "Idle" /\ run'[q].input = run[q].input

LEMMA CallGrows ==
    ASSUME NEW r \in Requests, Calls(r)
    PROVE  Grows
BY DEF Grows, Calls

LEMMA MeetingsStay ==
    ASSUME Grows, NEW a
    PROVE  /\ About(a) \subseteq About(a)'
           /\ UpdatersMet(a) => UpdatersMet(a)'
           /\ CloseMet(a) => CloseMet(a)'
<1>1. ASSUME NEW q \in Requests, run[q].at # "Idle"
      PROVE  AccountsOf(q)' = AccountsOf(q) /\ In(q)' = In(q) /\ Op(q)' = Op(q)
  BY <1>1 DEF Grows, AccountsOf, In, Op
<1>2. ASSUME NEW q \in About(a) PROVE q \in Requests /\ run[q].at # "Idle"
  BY DEF About, AccountsOf
<1>3. About(a) \subseteq About(a)'
  BY <1>1, <1>2 DEF About
<1>4. \A q \in About(a) : met[q] \subseteq met'[q]
  BY <1>2 DEF Grows
<1>5. ASSUME UpdatersMet(a) PROVE UpdatersMet(a)'
  BY <1>1, <1>2, <1>3, <1>4, <1>5 DEF UpdatersMet
<1>6. ASSUME CloseMet(a) PROVE CloseMet(a)'
  BY <1>1, <1>2, <1>3, <1>4, <1>6 DEF CloseMet
<1> QED BY <1>3, <1>5, <1>6

(* Entries stay, and with them what their payers met. *)
LEMMA PaymentsStay ==
    ASSUME \A q \in Requests : met[q] \subseteq met'[q], debits \subseteq debits', NEW a
    PROVE  /\ EntriesOf(debits, a) \subseteq EntriesOf(debits', a)
           /\ PayersMet(a) => PayersMet(a)'
<1>1. EntriesOf(debits, a) \subseteq EntriesOf(debits', a)
  BY DEF EntriesOf
<1>2. ASSUME PayersMet(a) PROVE PayersMet(a)'
  <2>1. PICK d \in EntriesOf(debits, a), e \in EntriesOf(debits, a) : d.id \in Requests /\ e.id \in met[d.id]
    BY <1>2 DEF PayersMet
  <2>2. e.id \in met'[d.id]
    BY <2>1
  <2> QED BY <1>1, <2>1, <2>2 DEF PayersMet
<1> QED BY <1>1, <1>2

(* A request has its eye on one of its accounts. *)
LEMMA TargetIsItsOwn ==
    ASSUME NEW r \in Requests, OnCourse(r), UnderWay(r), Op(r) # "GetAccounts"
    PROVE  Target(r) \in Ids /\ Target(r) \in AccountsOf(r) /\ r \in About(Target(r))
<1>1. In(r) \in Inputs /\ run[r].at # "Idle" /\ (run[r].leg = 2 => Op(r) = "Transfer")
  BY DEF OnCourse, UnderWay
<1>2. Op(r) = "OpenAccount" \/ In(r).account \in Ids
  BY <1>1, InputsAreTyped DEF Op, UseCases
<1>3. run[r].leg = 2 => In(r).dest \in Ids
  BY <1>1, InputsAreTyped DEF Op
<1>4. Target(r) \in Ids /\ Target(r) \in AccountsOf(r)
  BY <1>1, <1>2, <1>3, IdsAreDistinct DEF Target, AccountsOf, Ids
<1> QED BY <1>4 DEF About

LEMMA StillCounts ==
    ASSUME NEW S, NEW f \in [S -> Nat], NEW t
    PROVE  /\ [f EXCEPT ![t] = @ + 1] \in [S -> Nat]
           /\ [f EXCEPT ![t] = IF @ = 0 THEN 0 ELSE @ - 1] \in [S -> Nat]
<1>1. \A n \in Nat : n + 1 \in Nat /\ (n # 0 => n - 1 \in Nat)
  OBVIOUS
<1> QED BY <1>1

(* What a thread's calls do to the books. *)
LEMMA CallBooks ==
    ASSUME TypeOK, Collection(credits), Collection(debits), NEW r \in Requests, OnCourse(r), Call(r)
    PROVE  /\ listed' \in [Ids -> Nat]
           /\ (credits' \cup debits') \subseteq [id : Ids, account : Ids, value : Nat]
           /\ Collection(credits') /\ Collection(debits')
           /\ ~Post(r) => UNCHANGED <<credits, debits>>
<1>1. UnderWay(r) /\ In(r) \in Inputs
  BY CallCalls DEF Calls, OnCourse, UnderWay
<1>2. CASE Post(r)
  <2>1. run[r].at = "Post" /\ Op(r) # "GetAccounts"
    BY <1>1, <1>2 DEF Post, At, OnCourse, Course
  <2> DEFINE entry == [id |-> r, account |-> Target(r), value |-> In(r).amount]
  <2>2. entry \in [id : Ids, account : Ids, value : Nat]
    BY <1>1, <2>1, TargetIsItsOwn, InputsAreTyped DEF Ids
  <2>3. Collection(credits \cup {entry}) /\ Collection(debits \cup {entry})
    <3>1. ASSUME NEW S, Collection(S) PROVE Collection(S \cup {entry})
      <4>1. \A e \in S \cup {entry} : e.value \in Nat
        BY <2>2, <3>1 DEF Collection
      <4> QED BY <3>1, <4>1, CollectionGrows
    <3> QED BY <3>1
  <2>4. \/ credits' = credits \cup {entry} /\ debits' = debits
        \/ debits' = debits \cup {entry} /\ credits' = credits
    BY <1>2 DEF Post
  <2>5. listed' = listed
    BY <1>2 DEF Post
  <2> QED BY <1>2, <2>2, <2>3, <2>4, <2>5 DEF TypeOK
<1>3. CASE RemoveOld(r)
  <2>1. listed' = [listed EXCEPT ![Target(r)] = IF @ = 0 THEN 0 ELSE @ - 1]
    BY <1>3 DEF RemoveOld
  <2>2. listed' \in [Ids -> Nat]
    BY <2>1, StillCounts DEF TypeOK
  <2> QED BY <1>3, <2>2 DEF RemoveOld, TypeOK
<1>4. CASE Add(r)
  <2>1. listed' = [listed EXCEPT ![Target(r)] = @ + 1]
    BY <1>4 DEF Add
  <2>2. listed' \in [Ids -> Nat]
    BY <2>1, StillCounts DEF TypeOK
  <2> QED BY <1>4, <2>2 DEF Add, TypeOK
<1>5. CASE ~(Post(r) \/ RemoveOld(r) \/ Add(r))
  BY <1>5 DEF Call, SingleThrows, LookUp, Check, Update, Delete, Return, books, TypeOK
<1> QED BY <1>2, <1>3, <1>4, <1>5

(* An entry lowers the balance of the account that it is paid from, by its *)
(* amount, and no other balance.                                           *)
LEMMA PostBalances ==
    ASSUME TypeOK, Collection(credits), Collection(debits), NEW r \in Requests, OnCourse(r), Call(r),
           NEW a
    PROVE  /\ Balance(a) \in Int /\ Balance(a)' \in Int
           /\ \/ Balance(a)' >= Balance(a)
              \/ /\ At(r, "Post") /\ Pays(r) /\ a = Target(r)
                 /\ Balance(a)' = Balance(a) - In(r).amount
<1>1. Collection(credits') /\ Collection(debits')
  BY CallBooks
<1>2. Balance(a) \in Int /\ Balance(a)' \in Int
  BY <1>1, BalanceType DEF Balance
<1>3. CASE ~Post(r)
  <2>1. credits' = credits /\ debits' = debits
    BY <1>3, CallBooks
  <2> QED BY <1>2, <2>1 DEF Balance
<1>4. CASE Post(r)
  <2> DEFINE entry == [id |-> r, account |-> Target(r), value |-> In(r).amount]
  <2>1. CASE ~Pays(r)
    <3>1. credits' = credits \cup {entry} /\ debits' = debits
      BY <1>4, <2>1 DEF Post
    <3>2. EntriesOf(credits, a) \subseteq credits' /\ EntriesOf(debits', a) \subseteq debits
      BY <3>1 DEF EntriesOf
    <3>3. GetCurrentBalance(credits, debits, a) <= GetCurrentBalance(credits', debits', a)
      BY <1>1, <3>2, BalanceMonotone
    <3> QED BY <1>2, <3>3 DEF Balance
  <2>2. CASE Pays(r) /\ (a # Target(r) \/ entry \in debits)
    <3>1. credits' = credits /\ debits' = debits \cup {entry}
      BY <1>4, <2>2 DEF Post
    <3>2. EntriesOf(debits, a) = EntriesOf(debits', a)
      BY <2>2, <3>1 DEF EntriesOf
    <3>3. Balance(a)' = Balance(a)
      BY <3>1, <3>2, BalanceOfOwnEntries DEF Balance
    <3> QED BY <1>2, <3>3
  <2>3. CASE Pays(r) /\ a = Target(r) /\ entry \notin debits
    <3>1. credits' = credits /\ debits' = debits \cup {entry}
      BY <1>4, <2>3 DEF Post
    <3>2. In(r) \in Inputs /\ In(r).amount \in Nat
      BY <1>4, InputsAreTyped DEF Post, At, OnCourse
    <3>3. entry.account = a /\ entry.value = In(r).amount /\ entry \notin debits /\ entry.value \in Nat
      BY <2>3, <3>2
    <3> HIDE DEF entry
    <3>4. GetCurrentBalance(credits, debits \cup {entry}, a)
              = GetCurrentBalance(credits, debits, a) - entry.value
      <4>1. ASSUME NEW C, Collection(C), NEW D, Collection(D), NEW d, d \notin D, d.account = a, d.value \in Nat
            PROVE  GetCurrentBalance(C, D \cup {d}, a) = GetCurrentBalance(C, D, a) - d.value
        BY ONLY <4>1, BalanceAfterDebit
      <4> QED BY <3>3, <4>1, Zenon
    <3>5. Balance(a)' = Balance(a) - In(r).amount
      BY <3>1, <3>3, <3>4 DEF Balance
    <3> QED BY <1>2, <1>4, <2>3, <3>5 DEF Post
  <2> QED BY <2>1, <2>2, <2>3
<1> QED BY <1>2, <1>3, <1>4

-----------------------------------------------------------------------------
(* A check stands until its payment, or payers have met.                   *)

LEMMA CoursesStay ==
    ASSUME PaymentsInv, NEW r \in Requests, Call(r)
    PROVE  Calls(r) /\ \A q \in Requests : OnCourse(q) /\ OnCourse(q)'
<1>1. TypeOK /\ \A q \in Requests : OnCourse(q)
  BY DEF PaymentsInv
<1>2. Calls(r)
  BY <1>1, CallCalls
<1>3. ASSUME NEW q \in Requests, run'[q] = run[q] PROVE OnCourse(q)'
  BY <1>1, <1>3 DEF OnCourse, In, Op
<1> QED BY <1>1, <1>2, <1>3 DEF Calls

(* A payment that takes what another has checked is of a request that met  *)
(* the other, and stands in the account.                                   *)
LEMMA PaymentIsSeen ==
    ASSUME PaymentsInv, NEW r \in Requests, Post(r), Pays(r)
    PROVE  \E d \in EntriesOf(debits', Target(r)) : d.id = r
<1> DEFINE d == [id |-> r, account |-> Target(r), value |-> In(r).amount]
<1>1. d \in debits'
  BY DEF Post
<1>2. d.id = r /\ d.account = Target(r)
  OBVIOUS
<1> QED BY <1>1, <1>2 DEF EntriesOf

LEMMA CallPaymentsInv ==
    ASSUME PaymentsInv, NEW r \in Requests, Call(r), torn' \in BOOLEAN
    PROVE  PaymentsInv'
<1>1. /\ TypeOK /\ Collection(credits) /\ Collection(debits) /\ OnCourse(r) /\ TogetherMet
      /\ \A q \in Requests : OnCourse(q) /\ CheckStands(q)
  BY DEF PaymentsInv
<1>2. Calls(r)
  BY <1>1, CallCalls
<1>3. Grows
  BY <1>2, CallGrows
<1>4. TypeOK' /\ Collection(credits)' /\ Collection(debits)'
  BY <1>1, <1>2, CallBooks DEF TypeOK, Calls
<1>5. TogetherMet'
  <2>1. \A q \in Requests : UnderWay(q)' => UnderWay(q)
    BY <1>2 DEF UnderWay, Calls
  <2> QED BY <1>1, <1>2, <2>1 DEF TogetherMet, Calls
<1>6. \A q \in Requests : OnCourse(q)'
  BY CoursesStay
<1>7. \A a : EntriesOf(debits, a) \subseteq EntriesOf(debits', a) /\ (PayersMet(a) => PayersMet(a)')
  <2>1. debits \subseteq debits'
    <3>1. CASE Post(r)
      BY <3>1 DEF Post
    <3>2. CASE ~Post(r)
      BY <1>1, <3>2, CallBooks
    <3> QED BY <3>1, <3>2
  <2> QED BY <1>2, <2>1, PaymentsStay DEF Calls
<1>8. ASSUME NEW a
      PROVE  /\ Balance(a) \in Int /\ Balance(a)' \in Int
             /\ \/ Balance(a)' >= Balance(a)
                \/ /\ At(r, "Post") /\ Pays(r) /\ a = Target(r)
                   /\ Balance(a)' = Balance(a) - In(r).amount
  BY <1>1, PostBalances
<1>9. ASSUME NEW q \in Requests, q # r PROVE CheckStands(q)'
  <2>1. run'[q] = run[q]
    BY <1>2, <1>9 DEF Calls
  <2>2. At(q, "Post")' = At(q, "Post") /\ Pays(q)' = Pays(q) /\ Target(q)' = Target(q) /\ In(q)' = In(q)
    BY <2>1 DEF At, Pays, Target, Op, In
  <2> SUFFICES ASSUME NEW a, a = Target(q), At(q, "Post"), Pays(q),
                      ~\E e \in EntriesOf(debits', a) : e.id \in met[q]
               PROVE  Balance(a)' >= In(q).amount
    BY <1>2, <2>2 DEF CheckStands, Calls
  <2>3. Balance(a) >= In(q).amount
    BY <1>1, <1>7 DEF CheckStands
  <2>4. In(q).amount \in Nat
    BY <1>1, InputsAreTyped DEF At, OnCourse
  <2>5. ~(Post(r) /\ Pays(r) /\ a = Target(r))
    <3> SUFFICES ASSUME Post(r), Pays(r), a = Target(r) PROVE FALSE
      OBVIOUS
    <3>1. UnderWay(r) /\ UnderWay(q)
      BY DEF Post, At, UnderWay
    <3>2. r \in met[q]
      BY <1>1, <1>9, <3>1 DEF TogetherMet
    <3> QED BY <3>2, PaymentIsSeen
  <2>6. ASSUME At(r, "Post") PROVE Post(r)
    BY <2>6 DEF Call, SingleThrows, LookUp, Check, Update, Delete, RemoveOld, Add, Return, At
  <2> HIDE DEF PaymentsInv
  <2> QED BY <1>8, <2>3, <2>4, <2>5, <2>6
<1>10. CheckStands(r)'
  <2> SUFFICES ASSUME At(r, "Post")', Pays(r)'
               PROVE  Balance(Target(r))' >= In(r)'.amount
    BY DEF CheckStands
  <2>1. In(r)' = In(r) /\ Op(r)' = Op(r) /\ run[r] \in Thread
    BY <1>1, <1>2 DEF Calls, In, Op, TypeOK
  <2>2. run'[r].leg = 1 /\ run'[r].at = "Post" /\ Op(r) \in {"Withdraw", "Transfer"}
    BY <2>1 DEF Pays, At
  <2>3. Check(r) /\ Covers(r) /\ run'[r].leg = run[r].leg
    <3>1. ASSUME NEW point, NEW leg, Goes(r, point, leg) PROVE run'[r].at = point /\ run'[r].leg = leg
      BY <1>1, <2>1, <3>1 DEF Goes, TypeOK, Thread
    <3>2. ASSUME NEW a, Answer(r, a) PROVE run'[r].answer = a
      BY <1>1, <2>1, <3>2 DEF Answer, TypeOK, Thread
    <3>3. run'[r].answer = None
      BY DEF At
    <3>4. ~SingleThrows(r) /\ ~Return(r)
      BY <3>2, <3>3, IdsAreDistinct DEF SingleThrows, Return, Answers
    <3>5. ~Post(r) /\ ~Update(r) /\ ~Delete(r) /\ ~RemoveOld(r) /\ ~Add(r)
      BY <2>2, <3>1 DEF Post, Update, Delete, RemoveOld, Add, Moves, AfterEntry
    <3>6. ~LookUp(r)
      <4> SUFFICES ASSUME LookUp(r) PROVE FALSE
        OBVIOUS
      <4>1. run[r].at = "Lookup"
        BY DEF LookUp, At
      <4>2. ~(Op(r) = "Transfer" /\ run[r].leg = 1)
        <5> SUFFICES ASSUME Op(r) = "Transfer", run[r].leg = 1 PROVE FALSE
          OBVIOUS
        <5> DEFINE lost == ~Found(r)
        <5>1. run' = [run EXCEPT ![r].leg = 2, ![r].missing = lost]
          BY DEF LookUp
        <5> HIDE DEF lost
        <5>2. run'[r].leg = 2
          BY <1>1, <2>1, <5>1 DEF TypeOK, Thread
        <5> QED BY <2>2, <5>2
      <4>3. Finds(r)
        BY <2>2, <3>2, <3>3, <4>2, IdsAreDistinct DEF LookUp, Answers
      <4>4. Goes(r, "Check", 1)
        BY <2>2, <4>2, <4>3 DEF LookUp
      <4> QED BY <2>2, <3>1, <4>4
    <3>7. Check(r)
      BY <3>4, <3>5, <3>6 DEF Call
    <3>8. Covers(r) /\ Moves(r, "Post")
      BY <2>2, <3>2, <3>3, <3>7, IdsAreDistinct DEF Check, Answers
    <3> QED BY <3>1, <3>7, <3>8 DEF Moves
  <2>4. Target(r)' = Target(r)
    BY <2>1, <2>3 DEF Target
  <2>5. UNCHANGED <<credits, debits>>
    BY <2>3 DEF Check, books
  <2>6. Balance(Target(r))' = Balance(Target(r))
    BY <2>4, <2>5 DEF Balance
  <2> QED BY <2>1, <2>3, <2>6 DEF Covers
<1>11. ASSUME NEW a \in Ids PROVE Balance(a)' >= 0 \/ PayersMet(a)'
  <2> SUFFICES ASSUME ~PayersMet(a)' PROVE Balance(a)' >= 0
    OBVIOUS
  <2>1. Balance(a) >= 0
    BY <1>7 DEF PaymentsInv
  <2>2. CASE Balance(a)' >= Balance(a)
    BY <1>8, <2>1, <2>2
  <2>3. CASE /\ At(r, "Post") /\ Pays(r) /\ a = Target(r)
             /\ Balance(a)' = Balance(a) - In(r).amount
    <3>1. Post(r)
      BY <2>3 DEF Call, SingleThrows, LookUp, Check, Update, Delete, RemoveOld, Add, Return, At
    <3>2. CASE Balance(a) >= In(r).amount
      <4>1. In(r).amount \in Nat
        BY <1>1, <2>3, InputsAreTyped DEF At, OnCourse
      <4> QED BY <1>8, <2>3, <3>2, <4>1
    <3>3. CASE \E e \in EntriesOf(debits, a) : e.id \in met[r]
      <4>1. PICK d \in EntriesOf(debits', a) : d.id = r /\ met' = met
        BY <1>2, <2>3, <3>1, PaymentIsSeen DEF Calls
      <4>2. PICK e \in EntriesOf(debits', a) : e.id \in met'[r]
        BY <1>7, <3>3, <4>1
      <4>3. PayersMet(a)'
        BY <4>1, <4>2 DEF PayersMet
      <4> QED BY <4>3
    <3> QED BY <1>1, <2>3, <3>2, <3>3 DEF CheckStands
  <2> QED BY <1>8, <2>2, <2>3
<1> QED BY <1>4, <1>5, <1>6, <1>9, <1>10, <1>11 DEF PaymentsInv

(* A request that arrives meets those that are under way. *)
Arrives(r, input) ==
    /\ run[r].at = "Idle" /\ run[r].answer = None
    /\ run' \in [Requests -> Thread]
    /\ \A q \in Requests \ {r} : run'[q] = run[q]
    /\ run'[r].at = IF input.op = "OpenAccount" THEN "Post" ELSE "Lookup"
    /\ run'[r].input = input /\ run'[r].answer = None
    /\ run'[r].leg = 1 /\ run'[r].missing = FALSE
    /\ met' \in [Requests -> SUBSET Requests]
    /\ \A q \in Requests \ {r} : UnderWay(q) => q \in met'[r] /\ r \in met'[q]
    /\ \A q \in Requests \ {r} : met[q] \subseteq met'[q] /\ (~UnderWay(q) => met'[q] = met[q])
    /\ listed' = listed /\ credits' = credits /\ debits' = debits
    /\ OnCourse(r)'

LEMMA ReceiveArrives ==
    ASSUME TypeOK, NEW r \in Requests, OnCourse(r), NEW input \in Inputs, Receive(r, input)
    PROVE  Arrives(r, input)
<1>1. run[r].at = "Idle" /\ run[r].answer = None /\ run[r].leg = 1 /\ run[r].missing = FALSE
  BY DEF Receive, At, OnCourse
<1> DEFINE first == IF input.op = "OpenAccount" THEN "Post" ELSE "Lookup"
<1>2. first \in Listing \cup Entering /\ first \in Course(input.op) /\ first # "Idle"
  BY InputsAreTyped DEF Listing, Entering, Course, UseCases, OnAccount
<1>3. run' = [run EXCEPT ![r].input = input, ![r].at = first]
  BY DEF Receive
<1> HIDE DEF first
<1>4. /\ run' \in [Requests -> Thread]
      /\ \A q \in Requests \ {r} : run'[q] = run[q]
      /\ run'[r].at = first /\ run'[r].input = input /\ run'[r].answer = run[r].answer
      /\ run'[r].leg = run[r].leg /\ run'[r].missing = run[r].missing
  <2>1. run[r] \in Thread /\ first \in {"Idle"} \cup Listing \cup Entering
    BY <1>2 DEF TypeOK
  <2>2. run' = [run EXCEPT ![r] = [run[r] EXCEPT !.input = input, !.at = first]]
    BY <1>3 DEF TypeOK
  <2>3. [run[r] EXCEPT !.input = input, !.at = first] \in Thread
    BY <2>1, ThreadIs
  <2>4. run' \in [Requests -> Thread] /\ \A q \in Requests \ {r} : run'[q] = run[q]
    BY <2>2, <2>3 DEF TypeOK
  <2>5. run'[r] = [run[r] EXCEPT !.input = input, !.at = first]
    BY <2>2 DEF TypeOK
  <2> QED BY <2>1, <2>4, <2>5 DEF Thread
<1>5. OnCourse(r)'
  BY <1>1, <1>2, <1>4, IdsAreDistinct DEF OnCourse, In, Op, Answers
<1> DEFINE others == {q \in Requests : UnderWay(q)}
<1>6. met' = [q \in Requests |-> IF q = r THEN others ELSE IF q \in others THEN met[q] \cup {r} ELSE met[q]]
  BY DEF Receive
<1>7. /\ met' \in [Requests -> SUBSET Requests]
      /\ \A q \in Requests \ {r} : UnderWay(q) => q \in met'[r] /\ r \in met'[q]
      /\ \A q \in Requests \ {r} : met[q] \subseteq met'[q] /\ (~UnderWay(q) => met'[q] = met[q])
  BY <1>6 DEF TypeOK
<1> QED BY <1>1, <1>4, <1>5, <1>7 DEF Arrives, first, Receive, books

LEMMA ReceivePaymentsInv ==
    ASSUME PaymentsInv, NEW r \in Requests, NEW input \in Inputs, Receive(r, input), torn' \in BOOLEAN
    PROVE  PaymentsInv'
<1>1. /\ TypeOK /\ Collection(credits) /\ Collection(debits) /\ TogetherMet
      /\ \A q \in Requests : OnCourse(q) /\ CheckStands(q)
  BY DEF PaymentsInv
<1>2. Arrives(r, input)
  BY <1>1, ReceiveArrives
<1>3. Grows
  BY <1>2 DEF Arrives, Grows
<1>4. TypeOK' /\ Collection(credits)' /\ Collection(debits)'
  BY <1>1, <1>2 DEF TypeOK, Arrives
<1>5. TogetherMet'
  <2>0. \A q \in Requests : run'[q].at = "Idle" => q # r /\ run[q].at = "Idle" /\ met'[q] = {}
    BY <1>1, <1>2, InputsAreTyped DEF Arrives, TogetherMet, UnderWay
  <2> SUFFICES ASSUME NEW p \in Requests, NEW q \in Requests, p # q, UnderWay(p)', UnderWay(q)'
               PROVE  q \in met'[p]
    BY <2>0 DEF TogetherMet
  <2>1. \A x \in Requests \ {r} : UnderWay(x)' => UnderWay(x)
    BY <1>2 DEF UnderWay, Arrives
  <2>2. CASE p # r /\ q # r
    BY <1>1, <1>2, <2>1, <2>2 DEF TogetherMet, Arrives
  <2>3. CASE p = r \/ q = r
    BY <1>2, <2>1, <2>3 DEF Arrives
  <2> QED BY <2>2, <2>3
<1>6. \A q \in Requests : OnCourse(q)'
  BY <1>1, <1>2 DEF Arrives, OnCourse, In, Op
<1>7. /\ \A q \in Requests : met[q] \subseteq met'[q]
      /\ \A a : PayersMet(a) => PayersMet(a)'
  <2>1. \A q \in Requests : met[q] \subseteq met'[q]
    BY <1>1, <1>2 DEF Arrives, TogetherMet
  <2>2. debits' = debits
    BY <1>2 DEF Arrives
  <2> QED BY <2>1, <2>2, PaymentsStay
<1>8. \A a : Balance(a)' = Balance(a)
  BY <1>2 DEF Arrives, Balance
<1>9. ASSUME NEW q \in Requests PROVE CheckStands(q)'
  <2>1. CASE q # r
    <3>1. run'[q] = run[q]
      BY <1>2, <2>1 DEF Arrives
    <3>2. At(q, "Post")' = At(q, "Post") /\ Pays(q)' = Pays(q) /\ Target(q)' = Target(q) /\ In(q)' = In(q)
      BY <3>1 DEF At, Pays, Target, Op, In
    <3> SUFFICES ASSUME NEW a, a = Target(q), At(q, "Post"), Pays(q),
                        ~\E e \in EntriesOf(debits, a) : e.id \in met'[q]
                 PROVE  Balance(a)' >= In(q).amount
      BY <1>2, <3>2 DEF CheckStands, Arrives
    <3> QED BY <1>1, <1>7, <1>8 DEF CheckStands
  <2>2. CASE q = r
    BY <1>2, <2>2 DEF Arrives, CheckStands, At, Pays, Op, In
  <2> QED BY <2>1, <2>2
<1> QED BY <1>1, <1>4, <1>5, <1>6, <1>7, <1>8, <1>9 DEF PaymentsInv

LEMMA InitPaymentsInv == Init => PaymentsInv
<1> SUFFICES ASSUME Init PROVE PaymentsInv
  OBVIOUS
<1> DEFINE start == [at |-> "Idle", leg |-> 1, missing |-> FALSE, mine |-> {},
                      input |-> None, answer |-> None]
<1>1. run = [r \in Requests |-> start] /\ start \in Thread
  BY DEF Init, Thread
<1>2. listed \in [Ids -> Nat]
  BY DEF Init
<1>3. (credits \cup debits) \subseteq [id : Ids, account : Ids, value : Nat]
  BY SeedsAreCovered DEF Init, Ids
<1>4. met \in [Requests -> SUBSET Requests] /\ torn \in BOOLEAN
  BY DEF Init
<1>5. TypeOK
  BY <1>1, <1>2, <1>3, <1>4 DEF TypeOK
<1>6. Collection(credits) /\ Collection(debits)
  BY SeedsAreCovered DEF Init
<1>7. \A r \in Requests : OnCourse(r) /\ CheckStands(r) /\ ~UnderWay(r) /\ met[r] = {}
  BY <1>1 DEF Init, OnCourse, CheckStands, At, UnderWay
<1>8. ASSUME NEW a \in Ids PROVE Balance(a) >= 0
  <2>1. CASE a \in Seeds
    BY <2>1, SeedsAreCovered DEF Init, Balance
  <2>2. CASE a \notin Seeds
    <3>1. EntriesOf(credits, a) = {} /\ EntriesOf(debits, a) = {}
      BY <2>2, SeedsAreCovered DEF Init, EntriesOf
    <3>2. Balance(a) = GetTotal({}) - GetTotal({})
      BY <3>1 DEF Balance, GetCurrentBalance
    <3> QED BY <3>2, TotalNone
  <2> QED BY <2>1, <2>2
<1> QED BY <1>5, <1>6, <1>7, <1>8 DEF PaymentsInv, TogetherMet

(* Two threads in one collection tear it, and do nothing else. *)
LEMMA TearPaymentsInv ==
    ASSUME PaymentsInv, UNCHANGED <<books, run, met>>, torn' \in BOOLEAN
    PROVE  PaymentsInv'
<1>1. listed' = listed /\ credits' = credits /\ debits' = debits /\ run' = run /\ met' = met
  BY DEF books
<1> USE <1>1 DEF PaymentsInv
<1>2. TypeOK'
  BY DEF TypeOK
<1>3. \A q : AccountsOf(q)' = AccountsOf(q) /\ In(q)' = In(q) /\ Op(q)' = Op(q) /\ UnderWay(q)' = UnderWay(q)
  BY DEF AccountsOf, In, Op, UnderWay
<1>4. \A q \in Requests : OnCourse(q)'
  BY <1>3 DEF OnCourse
<1>5. \A a : Balance(a)' = Balance(a)
  BY DEF Balance
<1>6. \A a : PayersMet(a)' = PayersMet(a)
  BY DEF PayersMet
<1>7. ASSUME NEW q \in Requests PROVE CheckStands(q)'
  <2>1. At(q, "Post")' = At(q, "Post") /\ Pays(q)' = Pays(q) /\ Target(q)' = Target(q)
    BY <1>3 DEF At, Pays, Target
  <2> SUFFICES ASSUME NEW a, a = Target(q), At(q, "Post"), Pays(q),
                      ~\E e \in EntriesOf(debits, a) : e.id \in met[q]
               PROVE  Balance(a)' >= In(q).amount
    BY <1>3, <2>1 DEF CheckStands
  <2> QED BY <1>5 DEF CheckStands
<1>8. TogetherMet'
  BY <1>3 DEF TogetherMet
<1> QED BY <1>2, <1>4, <1>5, <1>6, <1>7, <1>8

(* A balance checked stands until its payment, or payers have met.         *)
THEOREM PaymentsInvariance == Spec => []PaymentsInv
<1>1. PaymentsInv /\ [Next]_store => PaymentsInv'
  <2> SUFFICES ASSUME PaymentsInv, [Next]_store PROVE PaymentsInv'
    OBVIOUS
  <2>1. torn \in BOOLEAN
    BY DEF PaymentsInv, TypeOK
  <2>2. CASE UNCHANGED store
    BY <2>1, <2>2, TearPaymentsInv DEF store, books
  <2>3. ASSUME NEW r \in Requests, Step(r) PROVE PaymentsInv'
    <3>1. CASE Call(r) /\ UNCHANGED torn
      BY <2>1, <3>1, CallPaymentsInv
    <3>2. CASE Tear(r)
      BY <3>2, TearPaymentsInv DEF Tear
    <3> QED BY <2>3, <3>1, <3>2 DEF Step
  <2>4. ASSUME NEW r \in Requests, NEW input \in Inputs, Ask(r, input) PROVE PaymentsInv'
    BY <2>1, <2>4, ReceivePaymentsInv DEF Ask
  <2> QED BY <2>2, <2>3, <2>4 DEF Next
<1> QED BY <1>1, InitPaymentsInv, PTL DEF Spec

-----------------------------------------------------------------------------
(* How often an account is listed.                                         *)

(* Only a transfer is about two accounts. *)
LEMMA OneAccount ==
    ASSUME NEW r \in Requests, OnCourse(r), NEW a \in Ids, a \in AccountsOf(r)
    PROVE  /\ run[r].at # "Idle" /\ Op(r) # "GetAccounts"
           /\ Op(r) # "Transfer" => a = Target(r)
           /\ Op(r) = "Transfer" /\ a # Target(r) /\ run[r].leg = 2 => a = In(r).account
           /\ run[r].leg = 1 /\ Op(r) # "OpenAccount" => Target(r) = In(r).account
<1>1. run[r].at # "Idle"
  BY DEF AccountsOf
<1>2. In(r) \in Inputs /\ (run[r].leg = 2 => Op(r) = "Transfer")
  BY <1>1 DEF OnCourse
<1>3. In(r).op = "Transfer" \/ In(r).dest = None
  BY <1>2, InputsAreTyped
<1>4. a # None
  BY IdsAreDistinct
<1>5. Op(r) # "GetAccounts"
  BY <1>1, <1>2, <1>3, <1>4, InputsAreTyped DEF AccountsOf, Op
<1> QED BY <1>1, <1>2, <1>3, <1>4, <1>5 DEF AccountsOf, Target, Op

(* Where a thread goes, and what it answers. *)
LEMMA GoesThere ==
    ASSUME TypeOK, NEW r \in Requests, NEW point, NEW leg, Goes(r, point, leg)
    PROVE  /\ run'[r].at = point /\ run'[r].leg = leg /\ run'[r].answer = run[r].answer
           /\ run'[r].missing = run[r].missing
BY ThreadIs DEF TypeOK, Goes

LEMMA AnswersIt ==
    ASSUME TypeOK, NEW r \in Requests, NEW a, Answer(r, a)
    PROVE  /\ run'[r].answer = a /\ run'[r].at = run[r].at /\ run'[r].leg = run[r].leg
           /\ run'[r].missing = run[r].missing
BY ThreadIs DEF TypeOK, Answer

(* What is under way with r has met it; two updates at an account, or a    *)
(* close and an update.                                                    *)
LEMMA TheyMet ==
    ASSUME PaymentsInv, NEW r \in Requests, NEW q \in Requests, r # q, UnderWay(r), UnderWay(q)
    PROVE  r \in met[q] /\ q \in met[r]
BY DEF PaymentsInv, TogetherMet

(* A thread that adds an account to the list, or takes one out, is of a    *)
(* request about it, which holds the account unless it opens it.           *)
LEMMA WhoHoldsIt ==
    ASSUME PaymentsInv, NEW r \in Requests, UnderWay(r), NEW a \in Ids, Target(r) = a,
           run[r].at \in {"Post", "Update", "Delete", "Remove", "Add"}
    PROVE  /\ r \in About(a)
           /\ IF Op(r) = "OpenAccount" THEN a = r /\ run[r].at \in {"Post", "Add"} ELSE Holds(r, a)
           /\ run[r].at = "Add" => Op(r) \in Updates \cup {"OpenAccount"}
<1>1. OnCourse(r) /\ run[r].at # "Idle" /\ In(r) \in Inputs /\ run[r].at \in Course(Op(r))
  BY DEF PaymentsInv, OnCourse, UnderWay
<1>2. Op(r) \in Updates \cup {"CloseAccount", "OpenAccount"}
  BY <1>1, InputsAreTyped DEF Course, UseCases, OnAccount, Updates, Op
<1>3. a \in AccountsOf(r) /\ r \in About(a)
  BY <1>1, <1>2, TargetIsItsOwn DEF Updates
<1>4. Op(r) # "OpenAccount" => Holds(r, a)
  BY <1>2, <1>3 DEF Holds
<1>5. Op(r) = "OpenAccount" => a = r /\ run[r].at \in {"Post", "Add"}
  BY <1>1 DEF Target, Course
<1>6. run[r].at = "Add" => Op(r) # "CloseAccount"
  BY <1>1 DEF Course
<1> QED BY <1>2, <1>3, <1>4, <1>5, <1>6

(* The list changes where an account is taken out and where it is added.   *)
LEMMA CallLists ==
    ASSUME PaymentsInv, NEW r \in Requests, Call(r), NEW a \in Ids
    PROVE  /\ listed[a] \in Nat /\ listed'[a] \in Nat
           /\ \/ listed'[a] = listed[a] /\ ~(At(r, "Add") /\ Target(r) = a)
              \/ /\ RemoveOld(r) /\ At(r, "Remove") /\ Target(r) = a
                 /\ listed'[a] = IF listed[a] = 0 THEN 0 ELSE listed[a] - 1
              \/ Add(r) /\ At(r, "Add") /\ Target(r) = a /\ listed'[a] = listed[a] + 1
<1>1. TypeOK /\ listed \in [Ids -> Nat]
  BY DEF PaymentsInv, TypeOK
<1>2. CASE RemoveOld(r)
  <2>1. At(r, "Remove") /\ listed' = [listed EXCEPT ![Target(r)] = IF @ = 0 THEN 0 ELSE @ - 1]
    BY <1>2 DEF RemoveOld
  <2>2. listed'[a] = IF a = Target(r) THEN IF listed[a] = 0 THEN 0 ELSE listed[a] - 1 ELSE listed[a]
    BY <1>1, <2>1
  <2>3. listed[a] \in Nat /\ run[r].at # "Add"
    BY <1>1, <2>1 DEF At
  <2> QED BY <1>2, <2>1, <2>2, <2>3 DEF At
<1>3. CASE Add(r)
  <2>1. At(r, "Add") /\ listed' = [listed EXCEPT ![Target(r)] = @ + 1]
    BY <1>3 DEF Add
  <2>2. listed'[a] = IF a = Target(r) THEN listed[a] + 1 ELSE listed[a]
    BY <1>1, <2>1
  <2>3. listed[a] \in Nat
    BY <1>1
  <2> QED BY <1>3, <2>1, <2>2, <2>3
<1>4. CASE ~RemoveOld(r) /\ ~Add(r)
  <2>1. listed' = listed
    BY <1>4 DEF Call, SingleThrows, LookUp, Check, Post, Update, Delete, Return, books
  <2>2. ~At(r, "Add")
    BY <1>4 DEF Call, SingleThrows, LookUp, Check, Post, Update, Delete, Return, At
  <2> QED BY <1>1, <2>1, <2>2
<1> QED BY <1>2, <1>3, <1>4

(* A request comes to hold an account by finding it.                       *)
LEMMA CallHolds ==
    ASSUME PaymentsInv, NEW r \in Requests, Call(r), NEW a \in Ids, Holds(r, a)'
    PROVE  Holds(r, a) \/ listed[a] > 0
<1>1. TypeOK /\ OnCourse(r) /\ Calls(r) /\ UnderWay(r) /\ run[r].at # "Idle" /\ run[r].leg \in {1, 2}
  BY CoursesStay DEF PaymentsInv, Calls, UnderWay, TypeOK, Thread
<1>2. AccountsOf(r)' = AccountsOf(r) /\ Op(r)' = Op(r) /\ In(r)' = In(r)
  BY <1>1 DEF Calls, AccountsOf, Op, In
<1>3. a \in AccountsOf(r) /\ Op(r) \in Updates \cup {"CloseAccount"}
  BY <1>2 DEF Holds
<1> SUFFICES ASSUME run[r].at = "Lookup", ~(run[r].leg = 2 /\ ~run[r].missing /\ In(r).account = a)
             PROVE  listed[a] > 0
  BY <1>3 DEF Holds
<1>4. LookUp(r) \/ SingleThrows(r)
  BY DEF Call, Check, Post, Update, Delete, RemoveOld, Add, Return, At
<1>5. ASSUME NEW x, Answer(r, x) PROVE FALSE
  <2>1. run'[r].at = "Lookup" /\ run'[r].leg = run[r].leg /\ run'[r].missing = run[r].missing
    BY <1>1, <1>5, AnswersIt
  <2> QED BY <1>2, <2>1 DEF Holds
<1>6. LookUp(r) /\ Op(r) # "GetAccounts"
  BY <1>3, <1>4, <1>5 DEF SingleThrows, Updates
<1>7. ASSUME Found(r), a = Target(r) PROVE listed[a] > 0
  <2>1. listed[a] \in Nat
    BY <1>1 DEF TypeOK
  <2> QED BY <1>7, <2>1 DEF Found, Matches
<1>8. Op(r) # "Transfer" => a = Target(r)
  BY <1>1, <1>3, OneAccount
<1>9. run[r].leg = 1 => Target(r) = In(r).account
  BY <1>1, <1>3, OneAccount DEF Updates
<1>10. Op(r) = "Transfer" /\ a # Target(r) /\ run[r].leg = 2 => a = In(r).account
  BY <1>1, <1>3, OneAccount
<1>11. CASE Op(r) = "Transfer" /\ run[r].leg = 1
  <2> DEFINE lost == ~Found(r)
  <2>1. run' = [run EXCEPT ![r].leg = 2, ![r].missing = lost]
    BY <1>6, <1>11 DEF LookUp
  <2> HIDE DEF lost
  <2>2. run'[r].missing = lost /\ run'[r].at = "Lookup"
    BY <1>1, <2>1, ThreadIs DEF TypeOK
  <2>3. ~lost /\ In(r).account = a
    BY <1>2, <2>2 DEF Holds
  <2> QED BY <1>7, <1>9, <1>11, <2>3 DEF lost
<1>12. CASE ~(Op(r) = "Transfer" /\ run[r].leg = 1)
  <2>1. Found(r) /\ ~run[r].missing
    BY <1>5, <1>6, <1>12 DEF LookUp, Finds
  <2> QED BY <1>1, <1>7, <1>8, <1>10, <1>12, <2>1
<1> QED BY <1>11, <1>12

(* A thread comes to add an account that is not listed, or that it has     *)
(* taken out, or that is new.                                              *)
LEMMA CallAdds ==
    ASSUME PaymentsInv, NEW r \in Requests, Call(r), NEW a \in Ids, Adding(r, a)'
    PROVE  \/ listed'[a] = listed[a] /\ listed[a] = 0
           \/ RemoveOld(r) /\ Target(r) = a
           \/ Op(r) = "OpenAccount" /\ a = r /\ run[r].at = "Post" /\ listed'[a] = listed[a]
<1>1. TypeOK /\ OnCourse(r) /\ Calls(r) /\ UnderWay(r) /\ run[r].at # "Idle" /\ run[r].leg \in {1, 2}
  BY CoursesStay DEF PaymentsInv, Calls, UnderWay, TypeOK, Thread
<1>2. Op(r)' = Op(r) /\ In(r)' = In(r) /\ run'[r].at = "Add" /\ run'[r].answer = None
  BY <1>1 DEF Calls, Op, In, Adding, At
<1>3. ASSUME NEW x \in Answers, Answer(r, x) PROVE FALSE
  BY <1>1, <1>2, <1>3, AnswersIt, IdsAreDistinct
<1>4. ASSUME NEW point, NEW leg, Goes(r, point, leg) PROVE point = "Add" /\ run'[r].leg = leg
  BY <1>1, <1>2, <1>4, GoesThere
<1>5. ~SingleThrows(r) /\ ~Check(r) /\ ~Delete(r) /\ ~Return(r) /\ ~Add(r)
  BY <1>3, <1>4 DEF SingleThrows, Check, Delete, Return, Add, AfterEntry, Moves, Answers
<1>6. ~LookUp(r)
  <2> SUFFICES ASSUME LookUp(r) PROVE FALSE
    OBVIOUS
  <2>1. run[r].at = "Lookup"
    BY DEF LookUp, At
  <2>2. CASE Op(r) = "GetAccounts"
    BY <1>1, <1>2, <2>2, ListingMine
  <2>3. CASE Op(r) = "Transfer" /\ run[r].leg = 1
    <3> DEFINE lost == ~Found(r)
    <3>1. run' = [run EXCEPT ![r].leg = 2, ![r].missing = lost]
      BY <2>3 DEF LookUp
    <3> HIDE DEF lost
    <3>2. run'[r].at = "Lookup"
      BY <1>1, <2>1, <3>1, ThreadIs DEF TypeOK
    <3> QED BY <1>2, <3>2
  <2>4. CASE Op(r) # "GetAccounts" /\ ~(Op(r) = "Transfer" /\ run[r].leg = 1)
    BY <1>3, <1>4, <2>4 DEF LookUp, Moves, Answers
  <2> QED BY <2>2, <2>3, <2>4
<1>7. ASSUME Moves(r, "Add") PROVE Target(r)' = Target(r)
  BY <1>2, <1>4, <1>7 DEF Moves, Target
<1>8. Target(r)' = a
  BY DEF Adding
<1>9. CASE Post(r)
  <2>1. listed' = listed /\ run[r].at = "Post"
    BY <1>9 DEF Post, At
  <2>2. Op(r) = "OpenAccount"
    BY <1>4, <1>9 DEF Post, Moves
  <2> QED BY <1>2, <1>8, <2>1, <2>2 DEF Target
<1>10. CASE Update(r)
  <2>1. listed' = listed /\ ~Found(r) /\ Moves(r, "Add") /\ listed[Target(r)] <= 1 /\ run[r].at = "Update"
    BY <1>4, <1>10 DEF Update, Moves, AfterEntry, books, At
  <2>2. listed[a] <= 1 /\ listed[a] # 1 /\ listed[a] \in Nat
    BY <1>1, <1>7, <1>8, <2>1 DEF Found, Matches, Foreign, TypeOK
  <2> QED BY <2>1, <2>2
<1>11. CASE RemoveOld(r)
  BY <1>4, <1>7, <1>8, <1>11 DEF RemoveOld, Moves
<1> QED BY <1>5, <1>6, <1>9, <1>10, <1>11 DEF Call

(* A close comes to remove an account that it finds listed once, and to    *)
(* answer when it is not listed or it has removed it.                      *)
LEMMA CallDeletes ==
    ASSUME PaymentsInv, NEW r \in Requests, Call(r), NEW a \in Ids
    PROVE  /\ Deletes(r, a, "Remove")' => listed'[a] = listed[a] /\ listed[a] = 1
           /\ Deletes(r, a, "Return")' => \/ Deletes(r, a, "Return") /\ listed'[a] = listed[a]
                                          \/ listed'[a] = listed[a] /\ listed[a] = 0
                                          \/ RemoveOld(r) /\ Deletes(r, a, "Remove")
<1>1. TypeOK /\ OnCourse(r) /\ Calls(r) /\ UnderWay(r) /\ run[r].at # "Idle" /\ run[r].leg \in {1, 2}
  BY CoursesStay DEF PaymentsInv, Calls, UnderWay, TypeOK, Thread
<1>2. Op(r)' = Op(r) /\ In(r)' = In(r) /\ OnCourse(r)'
  BY <1>1 DEF Calls, Op, In
<1> SUFFICES ASSUME Op(r) = "CloseAccount", Target(r)' = a, run'[r].at \in {"Remove", "Return"}
             PROVE  \/ run'[r].at = "Remove" /\ listed'[a] = listed[a] /\ listed[a] = 1
                    \/ run'[r].at = "Return" /\
                         \/ Deletes(r, a, "Return") /\ listed'[a] = listed[a]
                         \/ listed'[a] = listed[a] /\ listed[a] = 0
                         \/ RemoveOld(r) /\ Deletes(r, a, "Remove")
  BY <1>2 DEF Deletes
<1>3. Target(r) = a
  <2>1. run[r].leg = 1 /\ run'[r].leg # 2
    BY <1>1, <1>2 DEF OnCourse
  <2> QED BY <1>2, <2>1 DEF Target
<1>4. ASSUME NEW x, Answer(r, x) PROVE run'[r].at = run[r].at
  BY <1>1, <1>4, AnswersIt
<1>5. ASSUME NEW point, NEW leg, Goes(r, point, leg) PROVE run'[r].at = point
  BY <1>1, <1>5, GoesThere
<1>6. run[r].at \in {"Lookup", "Check", "Delete", "Remove", "Return"}
  BY <1>1 DEF OnCourse, Course
<1>7. ~LookUp(r)
  <2> SUFFICES ASSUME LookUp(r) PROVE FALSE
    OBVIOUS
  <2>1. run[r].at = "Lookup"
    BY DEF LookUp, At
  <2> QED BY <1>4, <1>5, <2>1 DEF LookUp
<1>8. ~Check(r)
  BY <1>4, <1>5 DEF Check, Moves, At
<1>9. ~SingleThrows(r)
  BY <1>4 DEF SingleThrows
<1>10. ~Post(r) /\ ~Update(r) /\ ~Add(r)
  BY <1>6 DEF Post, Update, Add, At
<1>11. CASE Delete(r)
  <2>1. listed' = listed /\ listed[a] \in Nat /\ listed[a] <= 1 /\ run[r].at = "Delete"
    BY <1>1, <1>3, <1>11 DEF Delete, books, TypeOK, At
  <2>2. Found(r) <=> listed[a] = 1
    BY <1>3, <2>1 DEF Found, Matches, Foreign
  <2>3. run'[r].at = IF Found(r) THEN "Remove" ELSE "Return"
    BY <1>5, <1>11 DEF Delete, Moves
  <2> QED BY <2>1, <2>2, <2>3
<1>12. CASE RemoveOld(r)
  <2>1. run'[r].at = "Return" /\ run[r].at = "Remove"
    BY <1>5, <1>12 DEF RemoveOld, Moves, At
  <2> QED BY <1>3, <1>12, <2>1 DEF Deletes
<1>13. CASE Return(r)
  <2>1. run'[r].at = "Return" /\ run[r].at = "Return" /\ listed' = listed
    BY <1>4, <1>13 DEF Return, books, At
  <2> QED BY <1>3, <2>1 DEF Deletes
<1> QED BY <1>7, <1>8, <1>9, <1>10, <1>11, <1>12, <1>13 DEF Call

(* A request throws at an account that is listed twice.                    *)
LEMMA CallErrs ==
    ASSUME PaymentsInv, NEW r \in Requests, Call(r), run'[r].answer = "Error"
    PROVE  \E a \in AccountsOf(r) : a \in Ids /\ listed[a] > 1
<1>1. TypeOK /\ OnCourse(r) /\ Calls(r) /\ UnderWay(r) /\ run[r].answer = None
  BY CoursesStay DEF PaymentsInv, Calls, UnderWay
<1>2. ASSUME NEW point, NEW leg, Goes(r, point, leg) PROVE FALSE
  <2>1. run'[r].answer = None
    BY <1>1, <1>2, GoesThere
  <2> QED BY <2>1, IdsAreDistinct DEF Answers
<1>3. ASSUME NEW x, Answer(r, x) PROVE x = "Error"
  BY <1>1, <1>3, AnswersIt
<1>4. ~Check(r) /\ ~Post(r) /\ ~Update(r) /\ ~Delete(r) /\ ~RemoveOld(r) /\ ~Add(r) /\ ~Return(r)
  BY <1>2, <1>3 DEF Check, Post, Update, Delete, RemoveOld, Add, Return, Moves, AfterEntry
<1>5. ~LookUp(r)
  <2> SUFFICES ASSUME LookUp(r) PROVE FALSE
    OBVIOUS
  <2>1. CASE Op(r) = "GetAccounts"
    <3>1. run'[r].answer = None
      BY <1>1, <2>1, ListingMine
    <3> QED BY <3>1, IdsAreDistinct DEF Answers
  <2>2. CASE Op(r) = "Transfer" /\ run[r].leg = 1
    <3> DEFINE lost == ~Found(r)
    <3>1. run' = [run EXCEPT ![r].leg = 2, ![r].missing = lost]
      BY <2>2 DEF LookUp
    <3> HIDE DEF lost
    <3>2. run'[r].answer = None
      BY <1>1, <3>1, ThreadIs DEF TypeOK
    <3> QED BY <3>2, IdsAreDistinct DEF Answers
  <2>3. CASE Op(r) # "GetAccounts" /\ ~(Op(r) = "Transfer" /\ run[r].leg = 1)
    BY <1>2, <1>3, <2>3 DEF LookUp, Moves
  <2> QED BY <2>1, <2>2, <2>3
<1>6. SingleThrows(r)
  BY <1>4, <1>5 DEF Call
<1>7. Target(r) \in Ids /\ Target(r) \in AccountsOf(r)
  BY <1>1, <1>6, TargetIsItsOwn DEF SingleThrows
<1>8. listed[Target(r)] \in Nat /\ Matches(r) > 1
  BY <1>1, <1>6, <1>7 DEF SingleThrows, TypeOK
<1>9. listed[Target(r)] > 1
  BY <1>8 DEF Matches
<1> QED BY <1>7, <1>9

(* An account that has been opened stays so; a new one has been opened     *)
(* when it is listed.                                                      *)
LEMMA CallOpens ==
    ASSUME PaymentsInv, NEW r \in Requests, Call(r), NEW a \in Ids
    PROVE  /\ Opened(a) => Opened(a)'
           /\ Opened(a)' => Opened(a) \/ (a = r /\ At(r, "Add") /\ Op(r) = "OpenAccount" /\ Add(r))
           /\ Add(r) /\ a = r /\ Op(r) = "OpenAccount" => Opened(a)'
<1>1. TypeOK /\ OnCourse(r) /\ Calls(r) /\ UnderWay(r) /\ run[r].at # "Idle"
  BY CoursesStay DEF PaymentsInv, Calls, UnderWay
<1>2. \A q \in Requests : run[q].at # "Idle" => Op(q)' = Op(q)
  BY <1>1 DEF Calls, Op, In
<1>3. CASE a # r
  BY <1>1, <1>3, IdsAreDistinct DEF Opened, Calls, Op, In, Ids
<1>4. CASE a = r
  <2>1. a \notin Seeds /\ Op(r)' = Op(r)
    BY <1>1, <1>2, <1>4, IdsAreDistinct
  <2>2. CASE Op(r) # "OpenAccount"
    BY <1>4, <2>1, <2>2 DEF Opened
  <2>3. CASE Op(r) = "OpenAccount"
    <3>1. run[r].at \in {"Post", "Add", "Return"}
      BY <1>1, <2>3 DEF OnCourse, Course
    <3>2. CASE run[r].at = "Post"
      <4>1. Post(r)
        BY <3>2 DEF Call, SingleThrows, LookUp, Check, Update, Delete, RemoveOld, Add, Return, At
      <4>2. run'[r].at = "Add"
        BY <1>1, <2>3, <4>1, GoesThere DEF Post, Moves
      <4> QED BY <1>4, <2>1, <3>2, <4>2 DEF Opened, Add, At
    <3>3. CASE run[r].at = "Add"
      <4>1. Add(r) /\ At(r, "Add")
        BY <3>3 DEF Call, SingleThrows, LookUp, Check, Post, Update, Delete, RemoveOld, Return, Add, At
      <4>2. run'[r].at = "Return"
        BY <1>1, <2>3, <4>1, GoesThere DEF Add, AfterEntry, Moves
      <4> QED BY <1>4, <2>1, <2>3, <3>3, <4>1, <4>2 DEF Opened
    <3>4. CASE run[r].at = "Return"
      <4>1. Return(r)
        BY <3>4 DEF Call, SingleThrows, LookUp, Check, Post, Update, Delete, RemoveOld, Add, At
      <4>2. run'[r].at = "Return"
        BY <1>1, <3>4, <4>1, AnswersIt DEF Return
      <4> QED BY <1>4, <2>1, <2>3, <3>4, <4>2 DEF Opened, Add, At
    <3> QED BY <3>1, <3>2, <3>3, <3>4
  <2> QED BY <2>2, <2>3
<1> QED BY <1>3, <1>4

(* The calls of the others, and what has been, stay as they are.           *)
LEMMA OthersStay ==
    ASSUME PaymentsInv, NEW r \in Requests, Call(r), NEW a \in Ids
    PROVE  /\ UpdatersMet(a) => UpdatersMet(a)'
           /\ CloseMet(a) => CloseMet(a)'
           /\ \A q \in Requests \ {r} :
                  /\ Adding(q, a)' <=> Adding(q, a)
                  /\ Deletes(q, a, "Remove")' <=> Deletes(q, a, "Remove")
                  /\ Deletes(q, a, "Return")' <=> Deletes(q, a, "Return")
                  /\ Holds(q, a)' <=> Holds(q, a)
                  /\ UnderWay(q)' <=> UnderWay(q)
           /\ met' = met /\ UnderWay(r)
<1>1. Calls(r)
  BY CoursesStay
<1>2. Grows
  BY <1>1, CallGrows
<1>3. ASSUME NEW q \in Requests \ {r} PROVE run'[q] = run[q]
  BY <1>1 DEF Calls
<1>4. ASSUME NEW q \in Requests \ {r}
      PROVE  /\ Adding(q, a)' <=> Adding(q, a)
             /\ Deletes(q, a, "Remove")' <=> Deletes(q, a, "Remove")
             /\ Deletes(q, a, "Return")' <=> Deletes(q, a, "Return")
             /\ Holds(q, a)' <=> Holds(q, a)
             /\ UnderWay(q)' <=> UnderWay(q)
  BY <1>3 DEF Adding, Deletes, Holds, UnderWay, At, Target, AccountsOf, Op, In
<1> QED BY <1>1, <1>2, <1>4, MeetingsStay DEF Calls

(* Two that are at one account, of which one adds it to the list.          *)
LEMMA MeetAtIt ==
    ASSUME PaymentsInv, ListedInv, NEW r \in Requests, NEW a \in Ids, At(r, "Add"), Target(r) = a,
           NEW q \in Requests, q # r
    PROVE  /\ Adding(q, a) => UpdatersMet(a)
           /\ UnderWay(q) /\ Deletes(q, a, "Remove") => CloseMet(a)
           /\ Deletes(q, a, "Return") => CloseMet(a)
<1>1. UnderWay(r) /\ run[r].at = "Add"
  BY DEF At, UnderWay
<1>2. r \in About(a) /\ (Op(r) = "OpenAccount" => a = r) /\ (Op(r) # "OpenAccount" => Holds(r, a) /\ Op(r) \in Updates)
  BY <1>1, WhoHoldsIt
<1>3. OnlyOpened(a)
  BY DEF ListedInv
<1>4. ASSUME Holds(q, a) PROVE Op(r) # "OpenAccount"
  <2>1. Opened(a)
    BY <1>3, <1>4 DEF OnlyOpened
  <2> QED BY <1>1, <1>2, <2>1, IdsAreDistinct DEF Opened
<1>5. ASSUME Adding(q, a) PROVE UpdatersMet(a)
  <2>1. UnderWay(q) /\ run[q].at = "Add" /\ Target(q) = a
    BY <1>5 DEF Adding, At, UnderWay
  <2>2. q \in About(a) /\ (Op(q) = "OpenAccount" => a = q) /\ (Op(q) # "OpenAccount" => Holds(q, a) /\ Op(q) \in Updates)
    BY <2>1, WhoHoldsIt
  <2>3. Op(q) # "OpenAccount"
    <3> SUFFICES ASSUME Op(q) = "OpenAccount" PROVE FALSE
      OBVIOUS
    <3>1. Holds(r, a) /\ a = q
      BY <1>2, <2>2
    <3>2. Opened(a)
      BY <1>3, <3>1 DEF OnlyOpened
    <3> QED BY <2>1, <3>1, <3>2, IdsAreDistinct DEF Opened
  <2>4. q \in met[r]
    BY <1>1, <2>1, TheyMet
  <2> QED BY <1>2, <1>4, <2>2, <2>3, <2>4 DEF UpdatersMet
<1>6. ASSUME Deletes(q, a, "Remove") \/ Deletes(q, a, "Return")
      PROVE  Op(r) \in Updates /\ Holds(r, a) /\ q \in About(a) /\ Op(q) = "CloseAccount"
  <2>1. OnCourse(q) /\ run[q].at # "Idle" /\ run[q].at # "Lookup" /\ Op(q) = "CloseAccount" /\ Target(q) = a
    BY <1>6 DEF Deletes, PaymentsInv
  <2>2. a \in AccountsOf(q) /\ q \in About(a)
    BY <2>1, IdsAreDistinct DEF OnCourse, Target, AccountsOf, About
  <2>3. Holds(q, a)
    BY <2>1, <2>2 DEF Holds
  <2> QED BY <1>2, <1>4, <2>1, <2>2, <2>3
<1>7. ASSUME UnderWay(q), Deletes(q, a, "Remove") PROVE CloseMet(a)
  <2>1. r \in met[q]
    BY <1>1, <1>7, TheyMet
  <2> QED BY <1>2, <1>6, <1>7, <2>1 DEF CloseMet
<1>8. ASSUME Deletes(q, a, "Return") PROVE CloseMet(a)
  <2>1. r \in met[q] \/ CloseMet(a)
    BY <1>1, <1>6, <1>8 DEF ListedInv, NotRevived
  <2> QED BY <1>2, <1>6, <1>8, <2>1 DEF CloseMet
<1> QED BY <1>5, <1>7, <1>8

LEMMA CallListedInv ==
    ASSUME PaymentsInv, ListedInv, NEW r \in Requests, Call(r)
    PROVE  ListedInv'
<1>1. Calls(r) /\ UnderWay(r) /\ \A q \in Requests : OnCourse(q) /\ OnCourse(q)'
  BY CoursesStay DEF Calls
<1>2. ASSUME NEW a \in Ids PROVE OnlyOpened(a)'
  <2>1. OnlyOpened(a)
    BY DEF ListedInv
  <2>2. ASSUME listed'[a] > 0 PROVE Opened(a)'
    <3>1. CASE listed[a] > 0
      BY <2>1, <3>1, CallOpens DEF OnlyOpened
    <3>2. CASE ~(listed[a] > 0)
      <4>1. Add(r) /\ At(r, "Add") /\ Target(r) = a
        BY <2>2, <3>2, CallLists
      <4>2. (Op(r) = "OpenAccount" => a = r) /\ (Op(r) # "OpenAccount" => Holds(r, a))
        BY <1>1, <4>1, WhoHoldsIt DEF At
      <4> QED BY <2>1, <4>1, <4>2, CallOpens DEF OnlyOpened
    <3> QED BY <3>1, <3>2
  <2>3. ASSUME NEW q \in Requests, Holds(q, a)'
        PROVE  Opened(a)' /\ (a \in Seeds \/ run'[a].answer = "Ok" \/ q \in met'[a])
    <3>1. Holds(q, a) \/ (q = r /\ listed[a] > 0)
      <4>1. CASE q = r
        BY <2>3, <4>1, CallHolds
      <4>2. CASE q # r
        BY <2>3, <4>2, OthersStay
      <4> QED BY <4>1, <4>2
    <3>2. Opened(a) /\ Opened(a)'
      BY <2>1, <3>1, CallOpens DEF OnlyOpened
    <3>3. ASSUME a \notin Seeds, run[a].answer = "Ok" PROVE run'[a].answer = "Ok"
      <4>1. a # r
        BY <1>1, <3>3, IdsAreDistinct DEF UnderWay, Answers
      <4> QED BY <1>1, <3>3, <4>1 DEF Calls, Ids
    <3>4. CASE Holds(q, a)
      BY <2>1, <3>2, <3>3, <3>4, OthersStay DEF OnlyOpened
    <3>5. CASE q = r /\ a \notin Seeds /\ ~Holds(r, a)
      <4>1. a \in Requests /\ run[a].at = "Return" /\ Op(a) = "OpenAccount" /\ OnCourse(a)
        BY <1>1, <3>2, <3>5 DEF Opened, Ids
      <4>2. run[a].answer \in {None, "Ok"}
        BY <4>1 DEF OnCourse
      <4>3. a # r
        <5>1. Op(r) # "OpenAccount"
          BY <1>1, <2>3, <3>5 DEF Holds, Updates, Calls, Op, In
        <5> QED BY <4>1, <5>1
      <4>4. run[a].answer = None => r \in met[a]
        BY <1>1, <4>1, <4>3, TheyMet DEF UnderWay
      <4> QED BY <3>2, <3>3, <3>5, <4>2, <4>4, OthersStay
    <3> QED BY <3>1, <3>2, <3>4, <3>5
  <2> QED BY <2>2, <2>3 DEF OnlyOpened
<1>3. ASSUME NEW a \in Ids PROVE NotLost(a)'
  <2> SUFFICES ASSUME Opened(a)', ~(listed'[a] > 0)
               PROVE  \E q \in Requests : Adding(q, a)' \/ Deletes(q, a, "Return")'
    BY DEF NotLost
  <2>1. CASE RemoveOld(r) /\ At(r, "Remove") /\ Target(r) = a
    <3>1. Moves(r, IF Op(r) = "CloseAccount" THEN "Return" ELSE "Add") /\ TypeOK
      BY <2>1 DEF RemoveOld, PaymentsInv
    <3>2. /\ run'[r].at = IF Op(r) = "CloseAccount" THEN "Return" ELSE "Add"
          /\ run'[r].leg = run[r].leg /\ run'[r].answer = run[r].answer
      BY <3>1, GoesThere DEF Moves
    <3>3. Op(r)' = Op(r) /\ In(r)' = In(r)
      BY <1>1 DEF Calls, Op, In
    <3>4. Target(r)' = a
      BY <2>1, <3>2, <3>3 DEF Target
    <3> QED BY <2>1, <3>2, <3>3, <3>4 DEF Adding, Deletes, At
  <2>2. CASE listed'[a] = listed[a] /\ ~(At(r, "Add") /\ Target(r) = a)
    <3>1. Opened(a)
      <4> SUFFICES ASSUME ~Opened(a) PROVE FALSE
        OBVIOUS
      <4>1. a = r /\ At(r, "Add") /\ Op(r) = "OpenAccount"
        BY CallOpens
      <4> QED BY <2>2, <4>1 DEF Target
    <3>2. PICK q \in Requests : Adding(q, a) \/ Deletes(q, a, "Return")
      BY <2>2, <3>1 DEF ListedInv, NotLost
    <3>3. CASE q # r
      BY <3>2, <3>3, OthersStay
    <3>4. CASE q = r
      <4>1. Deletes(r, a, "Return")
        BY <2>2, <3>2, <3>4 DEF Adding
      <4>2. Return(r) /\ TypeOK
        BY <4>1 DEF Deletes, Call, SingleThrows, LookUp, Check, Post, Update, Delete, RemoveOld, Add, At, PaymentsInv
      <4>3. run'[r].at = "Return" /\ run'[r].leg = run[r].leg
        BY <4>1, <4>2, AnswersIt DEF Return, Deletes
      <4>4. Deletes(r, a, "Return")'
        BY <1>1, <4>1, <4>3 DEF Deletes, Calls, Target, Op, In
      <4> QED BY <4>4
    <3> QED BY <3>3, <3>4
  <2> QED BY <2>1, <2>2, CallLists
<1>4. ASSUME NEW a \in Ids PROVE NotDoubled(a)'
  <2>0. NotDoubled(a) /\ OnlyOpened(a) /\ listed[a] \in Nat /\ listed'[a] \in Nat
    BY CallLists DEF ListedInv
  <2> SUFFICES ASSUME listed'[a] > 1 \/ (listed'[a] > 0 /\ \E q \in Requests : Adding(q, a)')
               PROVE  UpdatersMet(a)
    BY OthersStay DEF NotDoubled
  <2>1. CASE listed[a] > 1
    BY <2>0, <2>1 DEF NotDoubled
  <2>2. CASE Add(r) /\ At(r, "Add") /\ Target(r) = a /\ listed[a] > 0
    BY <2>0, <2>2 DEF NotDoubled, Adding
  <2>3. CASE ~(listed[a] > 1) /\ ~(Add(r) /\ At(r, "Add") /\ Target(r) = a /\ listed[a] > 0)
    <3>1. ~(listed'[a] > 1)
      BY <2>0, <2>3, CallLists
    <3>2. PICK q \in Requests : Adding(q, a)'
      BY <3>1
    <3>3. listed'[a] > 0
      BY <3>1
    <3>4. CASE q = r
      <4>1. ~(listed'[a] = listed[a] /\ listed[a] = 0)
        BY <3>3
      <4>2. ~(RemoveOld(r) /\ Target(r) = a)
        <5> SUFFICES ASSUME RemoveOld(r), Target(r) = a PROVE FALSE
          OBVIOUS
        <5>1. run[r].at = "Remove"
          BY DEF RemoveOld, At
        <5>2. listed' = [listed EXCEPT ![a] = IF @ = 0 THEN 0 ELSE @ - 1] /\ listed \in [Ids -> Nat]
          BY DEF RemoveOld, PaymentsInv, TypeOK
        <5> QED BY <2>0, <2>3, <3>3, <5>2
      <4>3. a = r /\ run[r].at = "Post" /\ listed[a] > 0
        BY <3>2, <3>3, <3>4, <4>1, <4>2, CallAdds
      <4> QED BY <2>0, <4>3, IdsAreDistinct DEF OnlyOpened, Opened
    <3>5. CASE q # r
      <4>1. Adding(q, a)
        BY <3>2, <3>5, OthersStay
      <4>2. CASE listed[a] > 0
        BY <2>0, <4>1, <4>2 DEF NotDoubled
      <4>3. CASE ~(listed[a] > 0)
        <5>1. At(r, "Add") /\ Target(r) = a
          BY <2>0, <3>3, <4>3, CallLists
        <5> QED BY <3>5, <4>1, <5>1, MeetAtIt
      <4> QED BY <4>2, <4>3
    <3> QED BY <3>4, <3>5
  <2> QED BY <2>1, <2>2, <2>3
<1>5. ASSUME NEW a \in Ids PROVE NotRevived(a)'
  <2>0. NotRevived(a) /\ listed[a] \in Nat /\ listed'[a] \in Nat
    BY CallLists DEF ListedInv
  <2>1. ASSUME NEW q \in Requests, UnderWay(q)', Deletes(q, a, "Remove")', listed'[a] > 1
        PROVE  CloseMet(a)
    <3>1. q # r
      BY <2>0, <2>1, CallDeletes
    <3>2. UnderWay(q) /\ Deletes(q, a, "Remove")
      BY <2>1, <3>1, OthersStay
    <3>3. CASE listed[a] > 1
      BY <2>0, <3>2, <3>3 DEF NotRevived
    <3>4. CASE ~(listed[a] > 1)
      <4>1. At(r, "Add") /\ Target(r) = a
        BY <2>0, <2>1, <3>4, CallLists
      <4> QED BY <3>1, <3>2, <4>1, MeetAtIt
    <3> QED BY <3>3, <3>4
  <2>2. ASSUME NEW q \in Requests, Deletes(q, a, "Return")', listed'[a] > 0
        PROVE  CloseMet(a)
    <3>1. CASE q = r
      <4>1. CASE Deletes(r, a, "Return") /\ listed'[a] = listed[a]
        BY <2>0, <2>2, <4>1 DEF NotRevived
      <4>2. CASE RemoveOld(r) /\ Deletes(r, a, "Remove")
        <5>1. listed' = [listed EXCEPT ![a] = IF @ = 0 THEN 0 ELSE @ - 1] /\ listed \in [Ids -> Nat]
          BY <4>2 DEF RemoveOld, Deletes, PaymentsInv, TypeOK
        <5>2. listed[a] > 1
          BY <2>0, <2>2, <5>1
        <5> QED BY <1>1, <2>0, <4>2, <5>2 DEF NotRevived
      <4> QED BY <2>2, <3>1, <4>1, <4>2, CallDeletes
    <3>2. CASE q # r
      <4>1. Deletes(q, a, "Return")
        BY <2>2, <3>2, OthersStay
      <4>2. CASE listed[a] > 0
        BY <2>0, <4>1, <4>2 DEF NotRevived
      <4>3. CASE ~(listed[a] > 0)
        <5>1. At(r, "Add") /\ Target(r) = a
          BY <2>0, <2>2, <4>3, CallLists
        <5> QED BY <3>2, <4>1, <5>1, MeetAtIt
      <4> QED BY <4>2, <4>3
    <3> QED BY <3>1, <3>2
  <2>3. ASSUME NEW q \in Requests, Deletes(q, a, "Return")',
               NEW p \in Requests \ {q}, UnderWay(p)', Holds(p, a)'
        PROVE  p \in met[q] \/ CloseMet(a)
    <3>1. CASE q = r
      <4>1. UnderWay(p)
        BY <2>3, <3>1, OthersStay
      <4> QED BY <1>1, <2>3, <3>1, <4>1, TheyMet
    <3>2. CASE q # r
      <4>1. Deletes(q, a, "Return")
        BY <2>3, <3>2, OthersStay
      <4>2. UnderWay(p)
        BY <1>1, <2>3, OthersStay
      <4>3. Holds(p, a) \/ listed[a] > 0
        BY <2>3, CallHolds, OthersStay
      <4> QED BY <2>0, <2>3, <4>1, <4>2, <4>3 DEF NotRevived
    <3> QED BY <3>1, <3>2
  <2>4. (CloseMet(a) => CloseMet(a)') /\ met' = met
    BY OthersStay
  <2> QED BY <2>1, <2>2, <2>3, <2>4 DEF NotRevived
<1>6. ASSUME NEW q \in Requests PROVE ErrorTakesUpdaters(q)'
  <2> SUFFICES ASSUME run'[q].answer = "Error" PROVE \E a \in AccountsOf(q)' : UpdatersMet(a)'
    BY DEF ErrorTakesUpdaters
  <2>1. AccountsOf(q) \subseteq AccountsOf(q)' /\ \A a : UpdatersMet(a) => UpdatersMet(a)'
    <3>1. Grows
      BY <1>1, CallGrows
    <3> QED BY <3>1, MeetingsStay DEF Grows, AccountsOf, Op, In
  <2>2. CASE q = r
    <3>1. PICK a \in AccountsOf(r) : a \in Ids /\ listed[a] > 1
      BY <2>2, CallErrs
    <3>2. UpdatersMet(a)
      BY <3>1 DEF ListedInv, NotDoubled
    <3> QED BY <2>1, <2>2, <3>1, <3>2
  <2>3. CASE q # r
    <3>1. run[q].answer = "Error"
      BY <1>1, <2>3 DEF Calls
    <3> QED BY <2>1, <3>1 DEF ListedInv, ErrorTakesUpdaters
  <2> QED BY <2>2, <2>3
<1> QED BY <1>2, <1>3, <1>4, <1>5, <1>6 DEF ListedInv

LEMMA ReceiveListedInv ==
    ASSUME PaymentsInv, ListedInv, NEW r \in Requests, NEW input \in Inputs, Receive(r, input)
    PROVE  ListedInv'
<1>1. Arrives(r, input) /\ OnCourse(r) /\ run[r].at = "Idle"
  BY ReceiveArrives DEF PaymentsInv, Arrives
<1>2. Grows /\ \A q \in Requests : met[q] \subseteq met'[q]
  BY <1>1 DEF Arrives, Grows, PaymentsInv, TogetherMet
<1>3. \A a : (UpdatersMet(a) => UpdatersMet(a)') /\ (CloseMet(a) => CloseMet(a)')
  BY <1>2, MeetingsStay
<1>4. ASSUME NEW q \in Requests \ {r} PROVE run'[q] = run[q]
  BY <1>1 DEF Arrives
<1>5. ASSUME NEW a \in Ids, NEW q \in Requests \ {r}
      PROVE  /\ Adding(q, a)' <=> Adding(q, a)
             /\ Deletes(q, a, "Remove")' <=> Deletes(q, a, "Remove")
             /\ Deletes(q, a, "Return")' <=> Deletes(q, a, "Return")
             /\ Holds(q, a)' <=> Holds(q, a)
             /\ UnderWay(q)' <=> UnderWay(q)
  BY <1>4 DEF Adding, Deletes, Holds, UnderWay, At, Target, AccountsOf, Op, In
<1>6. run'[r].at \in {"Post", "Lookup"} /\ run'[r].leg = 1 /\ (run'[r].at = "Post" => Op(r)' = "OpenAccount")
  BY <1>1 DEF Arrives, Op, In
<1>7. ASSUME NEW a \in Ids
      PROVE  ~Adding(r, a)' /\ ~Deletes(r, a, "Remove")' /\ ~Deletes(r, a, "Return")' /\ ~Holds(r, a)'
  BY <1>6 DEF Adding, Deletes, Holds, At, Updates
<1>8. ASSUME NEW a \in Ids
      PROVE  /\ ~Adding(r, a) /\ ~Deletes(r, a, "Remove") /\ ~Deletes(r, a, "Return") /\ ~Holds(r, a)
             /\ ~UnderWay(r)
  BY <1>1 DEF Adding, Deletes, Holds, At, AccountsOf, UnderWay
<1>9. ASSUME NEW a \in Ids PROVE Opened(a)' <=> Opened(a)
  <2>1. CASE a = r
    BY <1>1, <1>6, <2>1 DEF Opened
  <2>2. CASE a # r
    BY <1>4, <2>2 DEF Opened, Op, In, Ids
  <2> QED BY <2>1, <2>2
<1>10. listed' = listed
  BY <1>1 DEF Arrives
<1>11. ASSUME NEW a \in Ids PROVE OnlyOpened(a)'
  <2>1. OnlyOpened(a)
    BY DEF ListedInv
  <2>2. ASSUME NEW q \in Requests, Holds(q, a)'
        PROVE  Opened(a)' /\ (a \in Seeds \/ run'[a].answer = "Ok" \/ q \in met'[a])
    <3>1. Holds(q, a)
      BY <1>5, <1>7, <2>2
    <3>2. Opened(a) /\ (a \in Seeds \/ run[a].answer = "Ok" \/ q \in met[a])
      BY <2>1, <3>1 DEF OnlyOpened
    <3>3. a \notin Seeds => a \in Requests \ {r}
      BY <1>1, <3>2 DEF Opened, Ids
    <3> QED BY <1>2, <1>4, <1>9, <3>2, <3>3
  <2> QED BY <1>9, <1>10, <2>1, <2>2 DEF OnlyOpened
<1>12. ASSUME NEW a \in Ids PROVE NotLost(a)'
  <2>1. Opened(a)' => listed[a] > 0 \/ \E q \in Requests : Adding(q, a) \/ Deletes(q, a, "Return")
    BY <1>9 DEF ListedInv, NotLost
  <2> QED BY <1>5, <1>8, <1>10, <2>1 DEF NotLost
<1>13. ASSUME NEW a \in Ids PROVE NotDoubled(a)'
  <2>1. listed[a] > 1 \/ (listed[a] > 0 /\ \E q \in Requests : Adding(q, a)) => UpdatersMet(a)
    BY DEF ListedInv, NotDoubled
  <2> QED BY <1>3, <1>5, <1>7, <1>10, <2>1 DEF NotDoubled
<1>14. ASSUME NEW a \in Ids PROVE NotRevived(a)'
  <2>0. NotRevived(a)
    BY DEF ListedInv
  <2>1. ASSUME NEW q \in Requests, UnderWay(q)', Deletes(q, a, "Remove")', listed[a] > 1 PROVE CloseMet(a)
    BY <1>5, <1>7, <2>0, <2>1 DEF NotRevived
  <2>2. ASSUME NEW q \in Requests, Deletes(q, a, "Return")', listed[a] > 0 PROVE CloseMet(a)
    BY <1>5, <1>7, <2>0, <2>2 DEF NotRevived
  <2>3. ASSUME NEW q \in Requests, Deletes(q, a, "Return")', NEW p \in Requests \ {q}, UnderWay(p)', Holds(p, a)'
        PROVE  p \in met'[q] \/ CloseMet(a)
    BY <1>2, <1>5, <1>7, <2>0, <2>3 DEF NotRevived
  <2> QED BY <1>3, <1>10, <2>1, <2>2, <2>3 DEF NotRevived
<1>15. ASSUME NEW q \in Requests PROVE ErrorTakesUpdaters(q)'
  <2> SUFFICES ASSUME run'[q].answer = "Error" PROVE \E a \in AccountsOf(q)' : UpdatersMet(a)'
    BY DEF ErrorTakesUpdaters
  <2>1. q # r
    BY <1>1, IdsAreDistinct DEF Arrives, Answers
  <2>2. run[q].answer = "Error" /\ AccountsOf(q)' = AccountsOf(q)
    BY <1>4, <2>1 DEF AccountsOf, Op, In
  <2> QED BY <1>3, <2>2 DEF ListedInv, ErrorTakesUpdaters
<1> QED BY <1>11, <1>12, <1>13, <1>14, <1>15 DEF ListedInv

LEMMA InitListedInv == Init => ListedInv
<1> SUFFICES ASSUME Init PROVE ListedInv
  OBVIOUS
<1>1. \A r \in Requests : run[r].at = "Idle" /\ run[r].answer = None
  BY DEF Init
<1>2. ASSUME NEW a \in Ids, NEW r \in Requests
      PROVE  ~Adding(r, a) /\ ~Deletes(r, a, "Remove") /\ ~Deletes(r, a, "Return") /\ ~Holds(r, a)
  BY <1>1 DEF Adding, Deletes, Holds, At, AccountsOf
<1>3. ASSUME NEW a \in Ids PROVE listed[a] = (IF a \in Seeds THEN 1 ELSE 0) /\ (Opened(a) <=> a \in Seeds)
  BY <1>1 DEF Init, Opened, Ids
<1>4. \A r \in Requests : ErrorTakesUpdaters(r)
  BY <1>1, IdsAreDistinct DEF ErrorTakesUpdaters, Answers
<1>5. ASSUME NEW a \in Ids PROVE OnlyOpened(a) /\ NotLost(a) /\ NotDoubled(a) /\ NotRevived(a)
  BY <1>2, <1>3 DEF OnlyOpened, NotLost, NotDoubled, NotRevived
<1> QED BY <1>4, <1>5 DEF ListedInv

LEMMA TearListedInv ==
    ASSUME ListedInv, UNCHANGED <<books, run, met>>
    PROVE  ListedInv'
<1>1. listed' = listed /\ run' = run /\ met' = met
  BY DEF books
<1>2. \A r, a : /\ AccountsOf(r)' = AccountsOf(r) /\ Op(r)' = Op(r) /\ In(r)' = In(r)
                /\ Target(r)' = Target(r) /\ UnderWay(r)' = UnderWay(r) /\ Opened(a)' = Opened(a)
  BY <1>1 DEF AccountsOf, Op, In, Target, UnderWay, Opened
<1>3. \A a : About(a)' = About(a)
  BY <1>2 DEF About
<1>4. \A a : UpdatersMet(a)' = UpdatersMet(a) /\ CloseMet(a)' = CloseMet(a)
  BY <1>1, <1>2, <1>3 DEF UpdatersMet, CloseMet
<1>5. \A r, a : Adding(r, a)' = Adding(r, a) /\ Holds(r, a)' = Holds(r, a)
  BY <1>1, <1>2 DEF Adding, Holds, At
<1>6. \A r, a : Deletes(r, a, "Remove")' = Deletes(r, a, "Remove") /\ Deletes(r, a, "Return")' = Deletes(r, a, "Return")
  BY <1>1, <1>2 DEF Deletes
<1>7. ASSUME NEW a \in Ids PROVE OnlyOpened(a)' /\ NotLost(a)' /\ NotDoubled(a)' /\ NotRevived(a)'
  <2>1. OnlyOpened(a) /\ NotLost(a) /\ NotDoubled(a) /\ NotRevived(a)
    BY DEF ListedInv
  <2> QED BY <1>1, <1>2, <1>4, <1>5, <1>6, <2>1 DEF OnlyOpened, NotLost, NotDoubled, NotRevived
<1>8. \A r \in Requests : ErrorTakesUpdaters(r)'
  BY <1>1, <1>2, <1>4 DEF ListedInv, ErrorTakesUpdaters
<1> QED BY <1>7, <1>8 DEF ListedInv

(* What was answered, and where its request is.                            *)
LEMMA CloseIsDeleted ==
    ASSUME PaymentsInv, NEW r \in Requests, NEW a
    PROVE  Did(r, "CloseAccount", a) <=> Deletes(r, a, "Return") /\ run[r].answer = "Ok"
BY IdsAreDistinct DEF PaymentsInv, OnCourse, Did, Deletes, Answers

LEMMA OpenIsOpened ==
    ASSUME PaymentsInv, NEW a \in Ids, IsOpen(a)
    PROVE  Opened(a) /\ (a \in Seeds \/ (a \in Requests /\ run[a].answer = "Ok"))
           /\ \A r \in Requests : ~(Deletes(r, a, "Return") /\ run[r].answer = "Ok")
<1>1. a \in Seeds \/ (a \in Requests /\ Did(a, "OpenAccount", a) /\ OnCourse(a))
  BY DEF IsOpen, Ids, PaymentsInv
<1>2. Opened(a) /\ (a \in Seeds \/ (a \in Requests /\ run[a].answer = "Ok"))
  BY <1>1, IdsAreDistinct DEF Did, OnCourse, Opened, Answers
<1> QED BY <1>2, CloseIsDeleted DEF IsOpen

LEMMA OpenedIsOpen ==
    ASSUME PaymentsInv, NEW a \in Ids, Opened(a), \A r \in About(a) : ~UnderWay(r)
    PROVE  a \in Seeds \/ Did(a, "OpenAccount", a)
<1> SUFFICES ASSUME a \notin Seeds PROVE Did(a, "OpenAccount", a)
  OBVIOUS
<1>1. a \in Requests /\ OnCourse(a) /\ run[a].at = "Return" /\ Op(a) = "OpenAccount"
  BY DEF Opened, Ids, PaymentsInv
<1>2. a \in About(a)
  BY <1>1 DEF About, AccountsOf
<1> QED BY <1>1, <1>2 DEF OnCourse, UnderWay, Did, Target

(* Where no request is under way, none adds, and deletes are closes.       *)
LEMMA QuietCloses ==
    ASSUME PaymentsInv, NEW a \in Ids, \A r \in About(a) : ~UnderWay(r), NEW r \in Requests
    PROVE  ~Adding(r, a) /\ (Deletes(r, a, "Return") => run[r].answer = "Ok")
<1>1. OnCourse(r)
  BY DEF PaymentsInv
<1>2. ASSUME Adding(r, a) PROVE FALSE
  <2>1. UnderWay(r) /\ run[r].at = "Add" /\ Target(r) = a
    BY <1>2 DEF Adding, At, UnderWay
  <2> QED BY <2>1, WhoHoldsIt
<1>3. ASSUME Deletes(r, a, "Return") PROVE run[r].answer = "Ok"
  <2>1. r \in About(a)
    BY <1>1, <1>3, IdsAreDistinct DEF Deletes, OnCourse, Target, AccountsOf, About
  <2> QED BY <1>1, <1>3, <2>1 DEF Deletes, OnCourse, UnderWay
<1> QED BY <1>2, <1>3

(* The invariant of the in-memory store, for any number of requests. *)
THEOREM StoreInvariance == Spec => []StoreInv
<1>1. PaymentsInv /\ ListedInv /\ [Next]_store => ListedInv'
  <2> SUFFICES ASSUME PaymentsInv, ListedInv, [Next]_store PROVE ListedInv'
    OBVIOUS
  <2>1. CASE UNCHANGED store
    BY <2>1, TearListedInv DEF store, books
  <2>2. ASSUME NEW r \in Requests, Step(r) PROVE ListedInv'
    BY <2>2, CallListedInv, TearListedInv DEF Step, Tear
  <2>3. ASSUME NEW r \in Requests, NEW input \in Inputs, Ask(r, input) PROVE ListedInv'
    BY <2>3, ReceiveListedInv DEF Ask
  <2> QED BY <2>1, <2>2, <2>3 DEF Next
<1> QED BY <1>1, InitListedInv, PaymentsInvariance, PTL DEF Spec, StoreInv

(* A balance below zero takes two payments out of the account that were    *)
(* under way together (AccountRepositoryFake, Account.Withdraw).           *)
THEOREM OverdraftsAreMeetings == Spec => []OverdraftTakesAMeeting
<1>1. StoreInv => OverdraftTakesAMeeting
  <2> SUFFICES ASSUME StoreInv, NEW a \in Ids, Balance(a) < 0 PROVE PayersMet(a)
    BY DEF OverdraftTakesAMeeting
  <2>1. Collection(credits) /\ Collection(debits) /\ (Balance(a) >= 0 \/ PayersMet(a))
    BY DEF StoreInv, PaymentsInv
  <2>2. Balance(a) \in Int
    BY <2>1, BalanceType DEF Balance
  <2> QED BY <2>1, <2>2
<1> QED BY <1>1, StoreInvariance, PTL

(* Whatever requests meet at an account, once they have ended: an account  *)
(* that is open is never lost from the list; it is there twice, and a      *)
(* request throws, only if two updates met at it; it is there after its    *)
(* close only if an update met the close.                                  *)
THEOREM MeetingsDoubleOrRevive == Spec => []OnlyMeetingsDoubleOrRevive
<1>1. StoreInv => OnlyMeetingsDoubleOrRevive
  <2> SUFFICES ASSUME StoreInv PROVE OnlyMeetingsDoubleOrRevive
    OBVIOUS
  <2>1. ASSUME NEW a \in Ids, \A r \in About(a) : ~UnderWay(r)
        PROVE  /\ IsOpen(a) => listed[a] > 0
               /\ listed[a] > 1 => UpdatersMet(a)
               /\ listed[a] > 0 => IsOpen(a) \/ CloseMet(a)
    <3>1. OnlyOpened(a) /\ NotLost(a) /\ NotDoubled(a) /\ NotRevived(a)
      BY DEF StoreInv, ListedInv
    <3>2. ASSUME IsOpen(a) PROVE listed[a] > 0
      BY <2>1, <3>1, <3>2, OpenIsOpened, QuietCloses DEF NotLost, StoreInv
    <3>3. ASSUME listed[a] > 0, ~IsOpen(a) PROVE CloseMet(a)
      <4>1. Opened(a)
        BY <3>1, <3>3 DEF OnlyOpened
      <4>2. a \in Seeds \/ Did(a, "OpenAccount", a)
        BY <2>1, <4>1, OpenedIsOpen DEF StoreInv
      <4>3. PICK r \in Requests : Did(r, "CloseAccount", a)
        BY <3>3, <4>2 DEF IsOpen
      <4>4. Deletes(r, a, "Return")
        BY <4>3, CloseIsDeleted DEF StoreInv
      <4> QED BY <3>1, <3>3, <4>4 DEF NotRevived
    <3> QED BY <3>1, <3>2, <3>3 DEF NotDoubled
  <2>2. \A r \in Requests : run[r].answer = "Error" => \E a \in AccountsOf(r) : UpdatersMet(a)
    BY DEF StoreInv, ListedInv, ErrorTakesUpdaters
  <2> QED BY <2>1, <2>2 DEF OnlyMeetingsDoubleOrRevive
<1> QED BY <1>1, StoreInvariance, PTL

-----------------------------------------------------------------------------
(* The host: gates and store, of which each leaves the other alone.        *)

LEMMA HostIsBoth == HostSpec => Spec /\ GatesSpec
<1>1. HostInit => Init /\ GatesInit
  BY DEF HostInit
<1>2. [HostNext]_hostVars => [Next]_store
  <2>1. UNCHANGED hostVars => UNCHANGED store
    BY DEF hostVars
  <2>2. StartUp => UNCHANGED store
    BY DEF StartUp
  <2>3. ASSUME NEW r \in Requests, Serve(r) PROVE Next
    BY <2>3 DEF Serve, Next
  <2> QED BY <2>1, <2>2, <2>3 DEF HostNext
<1>3. [HostNext]_hostVars => [GatesNext]_gates
  <2>1. UNCHANGED hostVars => UNCHANGED gates
    BY DEF hostVars
  <2>2. StartUp => GatesNext
    BY DEF StartUp
  <2>3. ASSUME NEW r \in Requests, Serve(r) PROVE UNCHANGED gates
    BY <2>3 DEF Serve
  <2> QED BY <2>1, <2>2, <2>3 DEF HostNext
<1> QED BY <1>1, <1>2, <1>3, PTL DEF HostSpec, Spec, GatesSpec

(* The host's types: the threads of the requests, the accounts listed, and *)
(* the controllers served (MangaContextFake, PopulateFeature).             *)
THEOREM HostTypes == HostSpec => []HostTypeOK
<1>1. StoreInv /\ GatesInv => HostTypeOK
  BY DEF StoreInv, PaymentsInv, GatesInv, HostTypeOK
<1> QED BY <1>1, HostIsBoth, StoreInvariance, GatesInvariance, PTL

(* No use case runs whose feature is off: the controllers are chosen       *)
(* before the first request, and no request changes what it asks for       *)
(* (FeatureGate, PopulateFeature).                                         *)
THEOREM NothingThatIsOffIsDone == HostSpec => []NothingIsDoneThatIsOff
<1>1. HostInit => NothingIsDoneThatIsOff
  BY DEF HostInit, Init, NothingIsDoneThatIsOff
<1>2. PaymentsInv /\ ServedAreThoseThatAreOn /\ NothingIsDoneThatIsOff /\ [HostNext]_hostVars
          => NothingIsDoneThatIsOff'
  <2> SUFFICES ASSUME PaymentsInv, ServedAreThoseThatAreOn, NothingIsDoneThatIsOff, [HostNext]_hostVars,
                      NEW r \in Requests, run'[r].at # "Idle"
               PROVE  IsOn(Op(r))'
    BY DEF NothingIsDoneThatIsOff, IsOn
  <2>1. enabled' = enabled
    BY DEF HostNext, hostVars, StartUp, Serve, GatesNext, LookAtFlag, NextController, gates
  <2>2. ASSUME run[r].at # "Idle", run'[r].input = run[r].input PROVE IsOn(Op(r))'
    BY <2>1, <2>2 DEF NothingIsDoneThatIsOff, IsOn, Op, In
  <2>3. CASE run' = run
    BY <2>2, <2>3
  <2>4. ASSUME NEW q \in Requests, Call(q) PROVE IsOn(Op(r))'
    <3>1. Calls(q)
      BY <2>4, CallCalls DEF PaymentsInv
    <3>2. run[r].at # "Idle" /\ run'[r].input = run[r].input
      BY <3>1 DEF Calls, UnderWay
    <3> QED BY <2>2, <3>2
  <2>5. ASSUME NEW q \in Requests, NEW input \in Inputs, Started, Serves(input.op), Receive(q, input)
        PROVE  IsOn(Op(r))'
    <3>1. Arrives(q, input)
      BY <2>5, ReceiveArrives DEF PaymentsInv
    <3>2. CASE r # q
      BY <2>2, <3>1, <3>2 DEF Arrives
    <3>3. CASE r = q
      <4>1. IsOn(input.op)
        BY <2>5 DEF ServedAreThoseThatAreOn, Serves
      <4>2. run'[r].input = input
        BY <3>1, <3>3 DEF Arrives
      <4> QED BY <2>1, <4>1, <4>2 DEF IsOn, Op, In
    <3> QED BY <3>2, <3>3
  <2>6. CASE UNCHANGED hostVars \/ StartUp
    BY <2>3, <2>6 DEF hostVars, StartUp, store
  <2>7. ASSUME NEW q \in Requests, Serve(q) PROVE IsOn(Op(r))'
    BY <2>3, <2>4, <2>5, <2>7 DEF Serve, Step, Ask, Tear
  <2> QED BY <2>6, <2>7 DEF HostNext
<1> QED BY <1>1, <1>2, HostIsBoth, PaymentsInvariance, OnlyWhatIsOnIsServed, PTL DEF HostSpec

-----------------------------------------------------------------------------
(* One request after the other: the store keeps the promises of the ledger.*)

LEMMA AloneBefore ==
    ASSUME PaymentsInv, NEW r \in Requests, Calls(r) \/ \E input \in Inputs : Arrives(r, input), Alone'
    PROVE  Alone /\ \A q \in Requests \ {r} : ~UnderWay(q)
<1>1. CASE Calls(r)
  <2>1. Alone
    BY <1>1 DEF Calls, Alone
  <2> QED BY <1>1, <2>1 DEF Calls, Alone, PaymentsInv, TogetherMet
<1>2. ASSUME NEW input \in Inputs, Arrives(r, input)
      PROVE  Alone /\ \A q \in Requests \ {r} : ~UnderWay(q)
  <2>1. \A q \in Requests \ {r} : met[q] = {} /\ ~UnderWay(q)
    BY <1>2 DEF Arrives, Alone
  <2>2. met[r] = {}
    BY <1>2 DEF Arrives, PaymentsInv, TogetherMet
  <2> QED BY <2>1, <2>2 DEF Alone
<1> QED BY <1>1, <1>2

(* How often an account is listed while nobody has met: once if it is open,*)
(* but for the one request that is at it.                                  *)
AtRest(a) == IF IsOpen(a) THEN 1 ELSE 0

Lists(r, a) ==
    IF Adding(r, a) \/ Deletes(r, a, "Return") THEN 0
    ELSE IF run[r].at = "Return" /\ Op(r) = "OpenAccount" THEN 1 ELSE AtRest(a)

ListedFor(a) ==
    /\ \A r \in About(a) : UnderWay(r) => listed[a] = Lists(r, a) /\ (Holds(r, a) => IsOpen(a))
    /\ (\A r \in About(a) : ~UnderWay(r)) => listed[a] = AtRest(a)

LEMMA AloneIsSimple ==
    ASSUME StoreInv, Alone, NEW a \in Ids
    PROVE  /\ listed[a] \in {0, 1}
           /\ \A r \in Requests : Adding(r, a) \/ Deletes(r, a, "Return") => listed[a] = 0
           /\ \A r, q \in Requests : Deletes(r, a, "Return") /\ r # q => ~(UnderWay(q) /\ Holds(q, a))
           /\ \A r \in Requests : Holds(r, a) => a \in Seeds \/ Did(a, "OpenAccount", a)
<1>1. OnlyOpened(a) /\ NotDoubled(a) /\ NotRevived(a) /\ listed[a] \in Nat
  BY DEF StoreInv, ListedInv, PaymentsInv, TypeOK
<1>2. ~UpdatersMet(a) /\ ~CloseMet(a)
  BY DEF Alone, UpdatersMet, CloseMet, About
<1>3. listed[a] \in {0, 1} /\ \A r \in Requests : Adding(r, a) => listed[a] = 0
  BY <1>1, <1>2 DEF NotDoubled
<1>4. \A r \in Requests : Deletes(r, a, "Return") => listed[a] = 0
  BY <1>1, <1>2 DEF NotRevived
<1>5. \A r, q \in Requests : Deletes(r, a, "Return") /\ r # q => ~(UnderWay(q) /\ Holds(q, a))
  BY <1>1, <1>2 DEF NotRevived, Alone
<1>6. ASSUME NEW r \in Requests, Holds(r, a), a \notin Seeds PROVE Did(a, "OpenAccount", a)
  <2>1. a \in Requests
    BY <1>6 DEF Ids
  <2>2. Opened(a) /\ run[a].answer = "Ok"
    BY <1>1, <1>6, <2>1 DEF OnlyOpened, Alone
  <2> QED BY <1>6, <2>2 DEF Opened, Did, Target
<1> QED BY <1>3, <1>4, <1>5, <1>6

LEMMA AloneOpenIsListed ==
    ASSUME StoreInv, Alone, NEW a \in Ids, IsOpen(a),
           \A r \in Requests : ~Adding(r, a) /\ ~(Deletes(r, a, "Return") /\ UnderWay(r))
    PROVE  listed[a] = 1
<1>1. Opened(a) /\ \A r \in Requests : ~(Deletes(r, a, "Return") /\ run[r].answer = "Ok")
  BY OpenIsOpened DEF StoreInv
<1>2. NotLost(a) /\ \A r \in Requests : OnCourse(r)
  BY DEF StoreInv, ListedInv, PaymentsInv
<1>3. \A r \in Requests : ~Deletes(r, a, "Return")
  BY <1>1, <1>2 DEF Deletes, OnCourse, UnderWay
<1>4. listed[a] > 0
  BY <1>1, <1>2, <1>3 DEF NotLost
<1> QED BY <1>4, AloneIsSimple

(* What is known of the accounts when nobody has met. *)
LEMMA AloneListed ==
    ASSUME StoreInv, Alone, NEW a \in Ids
    PROVE  /\ ListedFor(a)
           /\ IsOpen(a) => a \in Seeds \/ (a \in Requests /\ run[a].at = "Return" /\ Op(a) = "OpenAccount"
                                                             /\ ~UnderWay(a))
<1>1. PaymentsInv /\ OnlyOpened(a) /\ \A r \in Requests : OnCourse(r)
  BY DEF StoreInv, ListedInv, PaymentsInv
<1>2. \A r, q \in Requests : UnderWay(r) /\ UnderWay(q) => r = q
  BY <1>1, TheyMet DEF Alone
<1>3. \A r \in Requests : Did(r, "CloseAccount", a) => listed[a] = 0 /\ Deletes(r, a, "Return") /\ ~UnderWay(r)
  BY <1>1, AloneIsSimple, CloseIsDeleted, IdsAreDistinct DEF UnderWay, Answers
<1>4. listed[a] \in {0, 1} /\ (listed[a] > 0 => Opened(a))
  BY <1>1, AloneIsSimple DEF OnlyOpened
<1>5. ASSUME NEW r \in About(a), UnderWay(r) PROVE listed[a] = Lists(r, a)
  <2>1. r \in Requests /\ a \in AccountsOf(r)
    BY DEF About
  <2>2. CASE Adding(r, a) \/ Deletes(r, a, "Return")
    BY <2>1, <2>2, AloneIsSimple DEF Lists
  <2>3. CASE run[r].at = "Return" /\ Op(r) = "OpenAccount"
    <3>1. a = r /\ Opened(a) /\ run[a].answer = None
      BY <1>5, <2>1, <2>3 DEF AccountsOf, Opened, UnderWay
    <3>2. \A q \in Requests : ~Adding(q, a)
      BY <1>2, <1>5, <2>1, <2>3 DEF Adding, At, UnderWay
    <3>3. ASSUME NEW q \in Requests, Deletes(q, a, "Return") PROVE FALSE
      <4>1. Holds(q, a)
        BY <3>3, IdsAreDistinct DEF Holds, Deletes, AccountsOf, Target
      <4>2. a \in Seeds \/ Did(a, "OpenAccount", a)
        BY <4>1, AloneIsSimple
      <4> QED BY <2>1, <3>1, <4>2, IdsAreDistinct DEF Did, Answers
    <3>4. listed[a] > 0
      BY <3>1, <3>2, <3>3 DEF NotLost, StoreInv, ListedInv
    <3>5. ~Adding(r, a) /\ ~Deletes(r, a, "Return")
      BY <2>1, <3>2, <3>3
    <3> QED BY <1>4, <2>3, <3>4, <3>5 DEF Lists
  <2>4. CASE /\ ~Adding(r, a) /\ ~Deletes(r, a, "Return")
             /\ ~(run[r].at = "Return" /\ Op(r) = "OpenAccount")
    <3>1. \A q \in Requests : ~Adding(q, a) /\ ~(Deletes(q, a, "Return") /\ UnderWay(q))
      BY <1>2, <1>5, <2>1, <2>4 DEF Adding, At, UnderWay
    <3>2. IsOpen(a) => listed[a] = 1
      BY <3>1, AloneOpenIsListed
    <3>3. ASSUME listed[a] > 0 PROVE IsOpen(a)
      <4>1. Opened(a) /\ \A q \in Requests : ~Did(q, "CloseAccount", a)
        BY <1>3, <1>4, <3>3
      <4>2. ASSUME a \notin Seeds PROVE Did(a, "OpenAccount", a)
        <5>1. a \in Requests /\ run[a].at = "Return" /\ Op(a) = "OpenAccount"
          BY <4>1, <4>2 DEF Opened, Ids
        <5>2. a = r => FALSE
          BY <2>4, <5>1
        <5>3. run[a].answer = "Ok"
          BY <1>1, <1>2, <1>5, <2>1, <5>1, <5>2 DEF OnCourse, UnderWay
        <5> QED BY <5>1, <5>3 DEF Did, Target
      <4> QED BY <4>1, <4>2 DEF IsOpen
    <3> QED BY <1>4, <2>4, <3>2, <3>3 DEF Lists, AtRest
  <2> QED BY <2>2, <2>3, <2>4
<1>6. ASSUME NEW r \in About(a), UnderWay(r), Holds(r, a) PROVE IsOpen(a)
  <2>1. r \in Requests
    BY DEF About
  <2>2. a \in Seeds \/ Did(a, "OpenAccount", a)
    BY <1>6, <2>1, AloneIsSimple
  <2>3. \A q \in Requests : ~Did(q, "CloseAccount", a)
    BY <1>3, <1>6, <2>1, AloneIsSimple
  <2> QED BY <2>2, <2>3 DEF IsOpen
<1>7. ASSUME \A r \in About(a) : ~UnderWay(r) PROVE listed[a] = AtRest(a)
  <2>1. IsOpen(a) => listed[a] = 1
    BY <1>1, <1>7, QuietCloses, AloneOpenIsListed, IdsAreDistinct DEF UnderWay, Answers
  <2>2. listed[a] > 0 => IsOpen(a)
    BY <1>1, <1>3, <1>4, <1>7, OpenedIsOpen DEF IsOpen
  <2> QED BY <1>4, <2>1, <2>2 DEF AtRest
<1>8. ASSUME a \in Requests, Did(a, "OpenAccount", a)
      PROVE  run[a].at = "Return" /\ Op(a) = "OpenAccount" /\ ~UnderWay(a)
  BY <1>1, <1>8, IdsAreDistinct DEF Did, OnCourse, UnderWay, Answers
<1>9. IsOpen(a) => a \in Seeds \/ (a \in Requests /\ Did(a, "OpenAccount", a))
  BY DEF IsOpen, Ids
<1> QED BY <1>5, <1>6, <1>7, <1>8, <1>9 DEF ListedFor

LEMMA CallAloneInv ==
    ASSUME StoreInv, AloneInv, NEW r \in Requests, Call(r), Alone'
    PROVE  \A q \in Requests : Owned(q)' /\ NotYetUsed(q)'
<1>1. /\ TypeOK /\ PaymentsInv /\ Calls(r) /\ OnCourse(r) /\ run[r] \in Thread
      /\ Collection(credits) /\ Collection(debits)
  BY CallCalls DEF StoreInv, PaymentsInv, TypeOK
<1>2. Alone /\ \A q \in Requests \ {r} : ~UnderWay(q)
  BY <1>1, AloneBefore
<1>3. \A q \in Requests : Owned(q) /\ NotYetUsed(q)
  BY <1>2 DEF AloneInv
<1>4. \A q \in Requests : In(q)' = In(q) /\ Op(q)' = Op(q)
  BY <1>1 DEF Calls, In, Op
<1>5. In(r) \in Inputs /\ UnderWay(r) /\ run[r].at # "Idle"
  BY <1>1 DEF Calls, UnderWay, OnCourse
<1>6. ASSUME NEW q \in Requests PROVE Owned(q)'
  <2>1. CASE q # r
    BY <1>1, <1>2, <2>1 DEF Owned, UnderWay, Calls
  <2>2. CASE q = r
    <3> SUFFICES ASSUME run'[r].at # "Lookup", Op(r) \in {"Withdraw", "CloseAccount"}, run'[r].answer = None
                 PROVE  Owner(In(r).account)' = In(r).user
      BY <1>4, <2>2 DEF Owned, UnderWay
    <3>1. In(r).account \in Ids
      BY <1>5, InputsAreTyped DEF Op, OnAccount
    <3>2. Owner(In(r).account)' = Owner(In(r).account)
      BY <1>4, <3>1 DEF Owner, Ids
    <3>3. Owner(In(r).account) = In(r).user
      <4>1. CASE run[r].at # "Lookup"
        BY <1>3, <1>5, <4>1 DEF Owned
      <4>2. CASE run[r].at = "Lookup"
        <5>1. ASSUME NEW x \in Answers, Answer(r, x) PROVE FALSE
          <6>1. run'[r].answer = x
            BY <1>1, <5>1, AnswersIt
          <6> QED BY <6>1, IdsAreDistinct
        <5>2. LookUp(r)
          BY <4>2, <5>1 DEF Call, SingleThrows, Check, Post, Update, Delete, RemoveOld, Add, Return, At, Answers
        <5>3. Finds(r)
          BY <5>1, <5>2 DEF LookUp, Answers
        <5>4. Target(r) = In(r).account
          BY <1>1, <1>5 DEF OnCourse, Target, Thread
        <5>5. ~Foreign(r)
          BY <5>3 DEF Finds, Found, Matches
        <5> QED BY <4>2, <5>4, <5>5 DEF Foreign
      <4> QED BY <4>1, <4>2
    <3> QED BY <3>2, <3>3
  <2> QED BY <2>1, <2>2
<1>7. ASSUME NEW a \in Requests PROVE NotYetUsed(a)'
  <2>1. CASE ~Post(r)
    <3>1. credits' = credits /\ debits' = debits
      BY <1>1, <2>1, CallBooks
    <3>2. CASE a # r
      BY <1>1, <1>3, <1>4, <3>1, <3>2 DEF NotYetUsed, Calls
    <3>3. CASE a = r /\ Op(r) # "OpenAccount"
      BY <1>3, <1>4, <3>1, <3>3 DEF NotYetUsed
    <3>4. CASE a = r /\ Op(r) = "OpenAccount"
      <4>1. Add(r) \/ Return(r)
        <5>1. run[r].at \in {"Post", "Add", "Return"}
          BY <1>1, <1>5, <3>4 DEF OnCourse, Course
        <5> QED BY <2>1, <5>1 DEF Call, SingleThrows, LookUp, Check, Update, Delete, RemoveOld, At
      <4>2. run'[r].at = "Return"
        BY <1>1, <3>4, <4>1, GoesThere, AnswersIt DEF Add, Return, AfterEntry, Moves, At
      <4> QED BY <1>4, <3>4, <4>2 DEF NotYetUsed
    <3> QED BY <3>2, <3>3, <3>4
  <2>2. CASE Post(r)
    <3> DEFINE entry == [id |-> r, account |-> Target(r), value |-> In(r).amount]
    <3>1. run[r].at = "Post" /\ Op(r) # "GetAccounts"
      BY <1>1, <2>2 DEF Post, At, OnCourse, Course
    <3>2. run'[r].at = IF Op(r) = "OpenAccount" THEN "Add" ELSE "Update"
      BY <1>1, <2>2, GoesThere DEF Post, Moves
    <3>3. IF Pays(r) THEN debits' = debits \cup {entry} /\ credits' = credits
                     ELSE credits' = credits \cup {entry} /\ debits' = debits
      BY <2>2 DEF Post
    <3>4. Target(r) \in Ids /\ Target(r) \in AccountsOf(r) /\ r \in About(Target(r))
      BY <1>1, <1>5, <3>1, TargetIsItsOwn
    <3>5. CASE a # Target(r)
      <4>1. EntriesOf(credits', a) = EntriesOf(credits, a) /\ EntriesOf(debits', a) = EntriesOf(debits, a)
        BY <3>3, <3>5 DEF EntriesOf
      <4>2. CASE a # r
        BY <1>1, <1>3, <1>4, <4>1, <4>2 DEF NotYetUsed, Calls
      <4>3. CASE a = r
        <5>1. Op(r) # "OpenAccount"
          BY <3>5, <4>3 DEF Target
        <5> QED BY <1>3, <1>4, <4>1, <4>3, <5>1 DEF NotYetUsed
      <4> QED BY <4>2, <4>3
    <3>6. CASE a = Target(r) /\ Op(r) # "OpenAccount"
      <4>1. Holds(r, a)
        BY <1>1, <1>5, <3>1, <3>6, WhoHoldsIt DEF Ids
      <4>2. IsOpen(a)
        BY <1>2, <1>5, <3>4, <3>6, <4>1, AloneListed DEF ListedFor
      <4>3. run[a].at = "Return" /\ Op(a) = "OpenAccount"
        BY <1>2, <3>4, <3>6, <4>2, AloneListed, IdsAreDistinct
      <4>4. run'[a] = run[a]
        BY <1>1, <3>6, <4>3 DEF Calls
      <4> QED BY <1>4, <4>3, <4>4 DEF NotYetUsed
    <3>7. CASE a = Target(r) /\ Op(r) = "OpenAccount"
      <4>1. a = r /\ ~Pays(r)
        BY <3>7 DEF Target, Pays
      <4>2. EntriesOf(debits, a) = {} /\ EntriesOf(credits, a) = {}
        BY <1>3, <3>1, <4>1 DEF NotYetUsed
      <4>3. EntriesOf(debits', a) = {} /\ EntriesOf(credits', a) = {entry}
        BY <3>3, <3>7, <4>1, <4>2 DEF EntriesOf
      <4>4. entry = [id |-> a, account |-> a, value |-> In(a)'.amount]
        BY <1>4, <3>7, <4>1
      <4> QED BY <1>4, <3>2, <3>7, <4>1, <4>3, <4>4 DEF NotYetUsed
    <3> QED BY <3>5, <3>6, <3>7
  <2> QED BY <2>1, <2>2
<1> QED BY <1>6, <1>7

LEMMA ReceiveAloneInv ==
    ASSUME StoreInv, AloneInv, NEW r \in Requests, NEW input \in Inputs, Receive(r, input), Alone'
    PROVE  \A q \in Requests : Owned(q)' /\ NotYetUsed(q)'
<1>1. PaymentsInv /\ Arrives(r, input)
  BY ReceiveArrives DEF StoreInv, PaymentsInv
<1>2. Alone /\ \A q \in Requests \ {r} : ~UnderWay(q)
  BY <1>1, AloneBefore
<1>3. \A q \in Requests : NotYetUsed(q)
  BY <1>2 DEF AloneInv
<1>4. ASSUME NEW q \in Requests PROVE Owned(q)'
  <2>1. CASE q # r
    BY <1>1, <1>2, <2>1 DEF Owned, UnderWay, Arrives
  <2>2. CASE q = r
    BY <1>1, <2>2 DEF Owned, Arrives, Op, In
  <2> QED BY <2>1, <2>2
<1>5. ASSUME NEW a \in Requests PROVE NotYetUsed(a)'
  <2>1. CASE a # r
    BY <1>1, <1>3, <2>1 DEF NotYetUsed, Arrives, Op, In
  <2>2. CASE a = r
    BY <1>1, <1>3, <2>2 DEF NotYetUsed, Arrives
  <2> QED BY <2>1, <2>2
<1> QED BY <1>4, <1>5

(* Without meetings, only owners pay and close, and a new account has no   *)
(* entry but its first.                                                    *)
THEOREM AloneInvariance == Spec => []AloneInv
<1>1. Init => AloneInv
  <2> SUFFICES ASSUME Init, NEW r \in Requests PROVE Owned(r) /\ NotYetUsed(r)
    BY DEF AloneInv
  <2>1. run[r].at = "Idle"
    BY DEF Init
  <2>2. r \notin Seeds /\ EntriesOf(credits, r) = {} /\ EntriesOf(debits, r) = {}
    BY IdsAreDistinct, SeedsAreCovered DEF Init, EntriesOf
  <2> QED BY <2>1, <2>2 DEF Owned, NotYetUsed, UnderWay
<1>2. StoreInv /\ AloneInv /\ [Next]_store => AloneInv'
  <2> SUFFICES ASSUME StoreInv, AloneInv, [Next]_store, Alone'
               PROVE  \A q \in Requests : Owned(q)' /\ NotYetUsed(q)'
    BY DEF AloneInv
  <2>1. CASE UNCHANGED <<books, run, met>>
    <3>1. credits' = credits /\ debits' = debits /\ run' = run /\ met' = met
      BY <2>1 DEF books
    <3>2. \A q \in Requests : Owned(q) /\ NotYetUsed(q)
      BY <3>1 DEF AloneInv, Alone
    <3>3. \A q : In(q)' = In(q) /\ Op(q)' = Op(q) /\ UnderWay(q)' = UnderWay(q) /\ Owner(q)' = Owner(q)
      BY <3>1 DEF In, Op, UnderWay, Owner
    <3>4. \A q \in Requests : Owned(q)'
      BY <3>1, <3>2, <3>3 DEF Owned
    <3>5. \A q \in Requests : NotYetUsed(q)'
      BY <3>1, <3>2, <3>3 DEF NotYetUsed
    <3> QED BY <3>4, <3>5
  <2>2. ASSUME NEW r \in Requests, Step(r) PROVE \A q \in Requests : Owned(q)' /\ NotYetUsed(q)'
    BY <2>1, <2>2, CallAloneInv DEF Step, Tear
  <2>3. ASSUME NEW r \in Requests, NEW input \in Inputs, Ask(r, input)
        PROVE  \A q \in Requests : Owned(q)' /\ NotYetUsed(q)'
    BY <2>3, ReceiveAloneInv DEF Ask
  <2>4. CASE UNCHANGED store
    BY <2>1, <2>4 DEF store, books
  <2> QED BY <2>2, <2>3, <2>4 DEF Next
<1> QED BY <1>1, <1>2, StoreInvariance, PTL DEF Spec

(* What the ledger sees of a call, whose request is the only one under way.*)
OnlyCall(r) == StoreInv /\ AloneInv /\ Alone /\ Calls(r) /\ \A q \in Requests \ {r} : ~UnderWay(q)

LEMMA WhatIsThere ==
    ASSUME NEW r \in Requests, OnlyCall(r), NEW a \in Ids
    PROVE  /\ There(a) <=> listed[a] > 0 \/ (run[r].at = "Add" /\ Op(r) # "OpenAccount" /\ Target(r) = a)
           /\ There(a)' <=> \/ listed'[a] > 0
                           \/ /\ run'[r].at = "Add" /\ run'[r].answer = None
                              /\ Op(r) # "OpenAccount" /\ Target(r)' = a
           /\ Deleting(a) <=> run[r].at = "Remove" /\ Op(r) = "CloseAccount" /\ Target(r) = a
           /\ Deleting(a)' <=> /\ run'[r].at = "Remove" /\ run'[r].answer = None
                              /\ Op(r) = "CloseAccount" /\ Target(r)' = a
<1>1. OnCourse(r) /\ Calls(r) /\ UnderWay(r) /\ OnCourse(r)' /\ run[r].at # "Idle" /\ run'[r].at # "Idle"
  BY DEF OnlyCall, StoreInv, PaymentsInv, Calls, UnderWay
<1>2. Op(r)' = Op(r) /\ In(r)' = In(r) /\ AccountsOf(r)' = AccountsOf(r)
  BY <1>1 DEF Calls, AccountsOf, Op, In
<1>3. \A q \in Requests \ {r} : ~UnderWay(q) /\ ~UnderWay(q)'
  BY DEF OnlyCall, Calls, UnderWay
<1>4. (run[r].leg = 2 => Op(r) = "Transfer") /\ (run'[r].leg = 2 => Op(r) = "Transfer")
  BY <1>1, <1>2 DEF OnCourse
<1>5. run[r].leg \in {1, 2} /\ run'[r].leg \in {1, 2}
  BY DEF OnlyCall, Calls, StoreInv, PaymentsInv, TypeOK, Thread
<1>6. Target(r) = a => r \in About(a)
  BY <1>1, <1>4, IdsAreDistinct DEF Target, About, AccountsOf
<1>7. Target(r)' = a => r \in About(a)'
  BY <1>1, <1>2, <1>4, IdsAreDistinct DEF Target, About, AccountsOf
<1>8. Op(r) = "CloseAccount" /\ r \in About(a) => Target(r) = a /\ Target(r)' = a
  <2> SUFFICES ASSUME Op(r) = "CloseAccount", r \in About(a) PROVE Target(r) = a /\ Target(r)' = a
    OBVIOUS
  <2>1. Target(r) = a
    BY <1>1, OneAccount DEF About
  <2> QED BY <1>2, <1>4, <1>5, <2>1 DEF Target
<1>9. About(a)' = About(a)
  BY <1>1, <1>2 DEF About, Calls, AccountsOf, Op, In
<1>10. \A point, q : (At(q, point) <=> UnderWay(q) /\ run[q].at = point)
                    \/ point = "Idle"
  BY DEF At, UnderWay
<1>11. \A point, q : (At(q, point)' <=> UnderWay(q)' /\ run'[q].at = point)
                    \/ point = "Idle"
  BY DEF At, UnderWay
<1>12. There(a) <=> listed[a] > 0 \/ (run[r].at = "Add" /\ Op(r) # "OpenAccount" /\ Target(r) = a)
  BY <1>1, <1>3, <1>6, <1>10 DEF There, About
<1>13. There(a)' <=> \/ listed'[a] > 0
                     \/ /\ run'[r].at = "Add" /\ run'[r].answer = None
                        /\ Op(r) # "OpenAccount" /\ Target(r)' = a
  <2>1. UnderWay(r)' <=> run'[r].answer = None
    BY <1>1 DEF UnderWay
  <2> QED BY <1>2, <1>3, <1>7, <1>11, <2>1 DEF There, About
<1>14. Deleting(a) <=> run[r].at = "Remove" /\ Op(r) = "CloseAccount" /\ Target(r) = a
  BY <1>1, <1>3, <1>6, <1>8, <1>10 DEF Deleting, About
<1>15. Deleting(a)' <=> /\ run'[r].at = "Remove" /\ run'[r].answer = None
                        /\ Op(r) = "CloseAccount" /\ Target(r)' = a
  <2>1. UnderWay(r)' <=> run'[r].answer = None
    BY <1>1 DEF UnderWay
  <2> QED BY <1>2, <1>3, <1>7, <1>8, <1>9, <1>11, <2>1 DEF Deleting, About
<1> QED BY <1>12, <1>13, <1>14, <1>15

LEMMA RowsStay ==
    ASSUME NEW r \in Requests, Calls(r), NEW a \in Ids, There(a)' <=> There(a)
    PROVE  Rows'[a] = Rows[a]
<1>1. a \in Seeds \/ In(a)' = In(a)
  BY DEF Calls, In, Ids
<1> QED BY <1>1 DEF Rows

LEMMA BooksStay ==
    ASSUME NEW r \in Requests, OnlyCall(r), credits' = credits, debits' = debits,
           \A a \in Ids : (There(a)' <=> There(a)) /\ (Deleting(a)' <=> Deleting(a))
    PROVE  Rows' = Rows /\ SeenCredits' = SeenCredits /\ SeenDebits' = SeenDebits
<1>1. \A e \in credits \cup debits : e.account \in Ids
  BY DEF OnlyCall, StoreInv, PaymentsInv, TypeOK
<1>2. Rows' = Rows
  <2>1. \A a \in Ids : Rows'[a] = Rows[a]
    BY RowsStay DEF OnlyCall
  <2>2. Rows = [a \in Ids |-> Rows[a]] /\ Rows' = [a \in Ids |-> Rows'[a]]
    BY DEF Rows
  <2> QED BY <2>1, <2>2
<1> QED BY <1>1, <1>2 DEF SeenCredits, SeenDebits

LEMMA PostingCall ==
    ASSUME NEW r \in Requests, OnlyCall(r), run'[r].answer = None, NEW ph, Phase(r)' = ph
    PROVE  L!Moves(r, ph)
<1>1. Calls(r) /\ run[r].answer = None
  BY DEF OnlyCall, Calls, UnderWay
<1>2. Asked' = Asked /\ Answered' = Answered
  BY <1>1 DEF Calls, Asked, Answered
<1>3. \A q \in Requests \ {r} : Phase(q)' = Phase(q)
  BY <1>1 DEF Calls, Phase, HalfDone, Entered, Op, In
<1>4. Phases' = [Phases EXCEPT ![r] = ph]
  BY <1>3 DEF Phases
<1> QED BY <1>2, <1>4 DEF L!Moves

LEMMA QuietCall ==
    ASSUME NEW r \in Requests, OnlyCall(r), run'[r].answer = None, Phase(r)' = Phase(r),
           Rows' = Rows, SeenCredits' = SeenCredits, SeenDebits' = SeenDebits
    PROVE  UNCHANGED L!vars
<1>1. Calls(r) /\ run[r].answer = None
  BY DEF OnlyCall, Calls, UnderWay
<1>2. Asked' = Asked /\ Answered' = Answered
  BY <1>1 DEF Calls, Asked, Answered
<1>3. \A q \in Requests \ {r} : Phase(q)' = Phase(q)
  BY <1>1 DEF Calls, Phase, HalfDone, Entered, Op, In
<1>4. Phases' = Phases
  BY <1>3 DEF Phases
<1> QED BY <1>2, <1>4 DEF L!vars

LEMMA AnsweringCall ==
    ASSUME NEW r \in Requests, OnlyCall(r), NEW x \in Answers, Answer(r, x), UNCHANGED <<books, met>>,
           run[r].at \notin {"Add", "Remove"}
    PROVE  L!Answers(r, x)
<1>1. Calls(r) /\ run[r].answer = None /\ run[r] \in Thread
  BY DEF OnlyCall, Calls, UnderWay, StoreInv, PaymentsInv, TypeOK
<1>2. run'[r].answer = x /\ run'[r].at = run[r].at /\ run'[r].leg = run[r].leg /\ run'[r].input = run[r].input
  BY <1>1, AnswersIt DEF OnlyCall, StoreInv, PaymentsInv, Calls
<1>3. Asked' = Asked /\ Answered' = [Answered EXCEPT ![r] = x]
  BY <1>1, <1>2 DEF Calls, Asked, Answered
<1>4. \A q \in Requests : Phase(q)' = Phase(q)
  BY <1>1, <1>2 DEF Calls, Phase, HalfDone, Entered, Op, In
<1>5. Phases' = Phases
  BY <1>4 DEF Phases
<1>6. \A a \in Ids : (There(a)' <=> There(a)) /\ (Deleting(a)' <=> Deleting(a))
  BY <1>2, WhatIsThere DEF books
<1>7. Rows' = Rows /\ SeenCredits' = SeenCredits /\ SeenDebits' = SeenDebits
  BY <1>6, BooksStay DEF books
<1> QED BY <1>3, <1>5, <1>7 DEF L!Answers, L!books

LEMMA LedgerSees ==
    ASSUME NEW r \in Requests, UnderWay(r), In(r) # None
    PROVE  L!Pending(r, Op(r), Phase(r)) /\ L!In(r) = In(r)
BY DEF L!Pending, L!In, Asked, Phases, Answered, UnderWay, In, Op

(* The account a call is at: it was found, and nobody else is there.       *)
LEMMA TargetIsThere ==
    ASSUME NEW r \in Requests, OnlyCall(r), Op(r) \in OnAccount \ {"GetAccount"},
           run[r].at \notin {"Lookup", "Return"}
    PROVE  /\ Target(r) \in Ids /\ Op(r) # "GetAccounts"
           /\ listed[Target(r)] = IF run[r].at = "Add" THEN 0 ELSE 1
           /\ There(Target(r))
<1>1. OnCourse(r) /\ UnderWay(r) /\ run[r].at # "Idle" /\ Op(r) # "GetAccounts" /\ Op(r) # "OpenAccount"
  BY DEF OnlyCall, StoreInv, PaymentsInv, Calls, UnderWay, OnAccount
<1>2. Target(r) \in Ids /\ r \in About(Target(r))
  BY <1>1, TargetIsItsOwn
<1>3. Holds(r, Target(r))
  BY <1>2 DEF Holds, OnAccount, Updates, About
<1>4. listed[Target(r)] = Lists(r, Target(r)) /\ IsOpen(Target(r))
  BY <1>1, <1>2, <1>3, AloneListed DEF ListedFor, OnlyCall
<1>5. listed[Target(r)] = IF run[r].at = "Add" THEN 0 ELSE 1
  BY <1>1, <1>4 DEF Lists, AtRest, Adding, Deletes, At, UnderWay
<1>6. There(Target(r))
  BY <1>1, <1>2, <1>5, WhatIsThere
<1> QED BY <1>1, <1>2, <1>5, <1>6

(* A new account is not there before it is added. *)
LEMMA NewIsNotThere ==
    ASSUME NEW r \in Requests, OnlyCall(r), Op(r) = "OpenAccount", run[r].at # "Return"
    PROVE  listed[r] = 0 /\ ~There(r)
<1>1. OnCourse(r) /\ UnderWay(r) /\ run[r].at # "Idle"
  BY DEF OnlyCall, StoreInv, PaymentsInv, Calls, UnderWay
<1>2. Target(r) = r /\ r \in Ids /\ r \in About(r)
  BY <1>1 DEF Target, Ids, About, AccountsOf
<1>3. ~IsOpen(r)
  BY <1>2, AloneListed, IdsAreDistinct DEF OnlyCall
<1>4. listed[r] = Lists(r, r)
  BY <1>1, <1>2, AloneListed DEF ListedFor, OnlyCall
<1>5. listed[r] = 0
  BY <1>3, <1>4 DEF Lists, AtRest
<1> QED BY <1>2, <1>5, WhatIsThere

LEMMA RowIsThere ==
    ASSUME NEW r \in Requests, OnlyCall(r), NEW a \in Ids
    PROVE  /\ Rows[a] # None <=> There(a)
           /\ There(a) => Rows[a].owner = Owner(a) /\ Rows[a].currency \in DOMAIN OneToOne
<1>1. CASE a \in Seeds
  BY <1>1, NoneIsNoRow DEF Rows, Owner, OneToOne
<1>2. CASE a \notin Seeds
  <2>1. There(a) => In(a) \in Inputs
    <3>1. SUFFICES ASSUME There(a) PROVE In(a) \in Inputs
      OBVIOUS
    <3>2. a \in Requests /\ OnCourse(a)
      BY <1>2 DEF Ids, OnlyCall, StoreInv, PaymentsInv
    <3>3. run[a].at # "Idle"
      <4>1. CASE listed[a] > 0
        <5>1. CASE \E q \in About(a) : UnderWay(q)
          <6>1. PICK q \in About(a) : UnderWay(q)
            BY <5>1
          <6>2. listed[a] = Lists(q, a) /\ q \in Requests
            BY <6>1, AloneListed DEF ListedFor, OnlyCall, About
          <6>3. q = r
            BY <6>1, <6>2 DEF OnlyCall
          <6>4. (IsOpen(a) \/ (Op(q) = "OpenAccount" /\ q \in About(a)))
            BY <4>1, <6>1, <6>2 DEF Lists, AtRest
          <6>5. Op(q) = "OpenAccount" /\ q \in About(a) => a = q
            BY DEF About, AccountsOf
          <6> QED BY <1>2, <6>1, <6>4, <6>5, AloneListed DEF OnlyCall, UnderWay
        <5>2. CASE \A q \in About(a) : ~UnderWay(q)
          <6>1. IsOpen(a)
            BY <4>1, <5>2, AloneListed DEF ListedFor, AtRest, OnlyCall
          <6> QED BY <1>2, <6>1, AloneListed DEF OnlyCall
        <5> QED BY <5>1, <5>2
      <4>2. CASE ~(listed[a] > 0)
        <5>1. run[r].at = "Add" /\ Op(r) # "OpenAccount" /\ Target(r) = a
          BY <3>1, <4>2, WhatIsThere
        <5>2. /\ OnCourse(r) /\ UnderWay(r) /\ run[r].at # "Idle"
          BY DEF OnlyCall, StoreInv, PaymentsInv, Calls, UnderWay
        <5>3. Op(r) \in OnAccount \ {"GetAccount"}
          BY <5>1, <5>2, InputsAreTyped DEF OnCourse, Course, UseCases, Op, OnAccount
        <5>4. r \in About(a) /\ Holds(r, a)
          BY <5>1, <5>2, <5>3, TargetIsItsOwn DEF Holds, OnAccount, Updates, About
        <5>5. IsOpen(a)
          BY <5>2, <5>4, AloneListed DEF OnlyCall, ListedFor
        <5> QED BY <1>2, <5>5, AloneListed DEF OnlyCall
      <4> QED BY <4>1, <4>2
    <3> QED BY <3>2, <3>3 DEF OnCourse
  <2> QED BY <1>2, <2>1, NoneIsNoRow DEF Rows, Owner, OneToOne
<1> QED BY <1>1, <1>2

LEMMA CallsGoOn ==
    ASSUME NEW r \in Requests, OnlyCall(r), NEW point \in Listing \cup Entering, NEW leg \in {1, 2},
           Goes(r, point, leg)
    PROVE  /\ run'[r].at = point /\ run'[r].leg = leg /\ run'[r].answer = None
           /\ In(r)' = In(r) /\ Op(r)' = Op(r)
BY GoesThere DEF OnlyCall, StoreInv, PaymentsInv, Calls, UnderWay, Op, In

LEMMA OnlyCallIs ==
    ASSUME NEW r \in Requests, OnlyCall(r)
    PROVE  /\ UnderWay(r) /\ OnCourse(r) /\ run[r].at # "Idle" /\ run[r] \in Thread
           /\ In(r) \in Inputs /\ In(r) # None /\ Op(r) \in UseCases /\ run[r].at \in Course(Op(r))
           /\ In(r)' = In(r) /\ Op(r)' = Op(r)
<1>1. UnderWay(r) /\ OnCourse(r) /\ run[r].at # "Idle" /\ run[r] \in Thread
  BY DEF OnlyCall, StoreInv, PaymentsInv, Calls, UnderWay, TypeOK
<1>2. In(r) \in Inputs /\ In(r) # None /\ Op(r) \in UseCases /\ run[r].at \in Course(Op(r))
  BY <1>1, InputsAreTyped DEF OnCourse, Op
<1>3. In(r)' = In(r) /\ Op(r)' = Op(r)
  BY DEF OnlyCall, Calls, In, Op
<1> QED BY <1>1, <1>2, <1>3

(* Finding the account, checking what it has, and the refusals. *)
LEMMA LookUpIsSeen ==
    ASSUME NEW r \in Requests, OnlyCall(r), LookUp(r)
    PROVE  L!Next \/ UNCHANGED L!vars
<1>1. /\ UnderWay(r) /\ OnCourse(r) /\ run[r].at # "Idle" /\ run[r] \in Thread
      /\ In(r) \in Inputs /\ In(r) # None /\ Op(r) \in UseCases /\ run[r].at \in Course(Op(r))
      /\ In(r)' = In(r) /\ Op(r)' = Op(r)
  BY OnlyCallIs
<1>2. run[r].at = "Lookup" /\ Op(r) # "OpenAccount" /\ UNCHANGED <<books, met>>
  BY <1>1 DEF LookUp, At, Course
<1>3. Phase(r) = "asked"
  BY <1>2 DEF Phase, HalfDone, Entered
<1>4. ASSUME run'[r].at \in {"Lookup", "Check", "Post", "Return"}, run'[r].answer = None,
             run'[r].at = "Return" => Op(r) \in {"GetAccount", "GetAccounts"},
             run'[r].at = "Post" => Op(r) # "Transfer"
      PROVE  UNCHANGED L!vars
  <2>1. \A a \in Ids : (There(a)' <=> There(a)) /\ (Deleting(a)' <=> Deleting(a))
    BY <1>2, <1>4, WhatIsThere DEF books
  <2>2. Rows' = Rows /\ SeenCredits' = SeenCredits /\ SeenDebits' = SeenDebits
    BY <1>2, <2>1, BooksStay DEF books
  <2>3. Phase(r)' = Phase(r)
    BY <1>1, <1>3, <1>4 DEF Phase, HalfDone, Entered
  <2> QED BY <1>4, <2>2, <2>3, QuietCall
<1>5. CASE Op(r) = "GetAccounts"
  <2>1. run'[r].at = "Return" /\ run'[r].answer = None
    BY <1>1, <1>5, ListingMine DEF OnlyCall, StoreInv, PaymentsInv, UnderWay
  <2> QED BY <1>4, <1>5, <2>1
<1>6. CASE Op(r) = "Transfer" /\ run[r].leg = 1
  <2>1. run'[r].at = run[r].at /\ run'[r].answer = run[r].answer
    <3> DEFINE lost == ~Found(r)
    <3>1. run' = [run EXCEPT ![r].leg = 2, ![r].missing = lost]
      BY <1>6 DEF LookUp
    <3> HIDE DEF lost
    <3> QED BY <3>1, ThreadIs DEF OnlyCall, StoreInv, PaymentsInv, TypeOK
  <2> QED BY <1>1, <1>2, <1>4, <2>1 DEF UnderWay
<1>7. CASE Op(r) # "GetAccounts" /\ ~(Op(r) = "Transfer" /\ run[r].leg = 1) /\ ~Finds(r)
  <2>1. Answer(r, "NotFound") /\ "NotFound" \in Answers
    BY <1>7 DEF LookUp, Answers
  <2>2. L!Answers(r, "NotFound")
    BY <1>2, <2>1, AnsweringCall
  <2>3. "NotFound" \in L!MayRefuse(Op(r))
    BY <1>1, <1>2, <1>7 DEF L!MayRefuse, UseCases, OnAccount
  <2>4. L!Refuse(r)
    BY <1>1, <1>3, <2>2, <2>3 DEF L!Refuse, L!In, Phases, Answered, Asked, UnderWay, In, Op
  <2> QED BY <2>4 DEF L!Next
<1>8. CASE Op(r) # "GetAccounts" /\ ~(Op(r) = "Transfer" /\ run[r].leg = 1) /\ Finds(r)
  <2>1. \/ Op(r) = "GetAccount" /\ Goes(r, "Return", run[r].leg)
        \/ Op(r) = "Deposit" /\ Goes(r, "Post", run[r].leg)
        \/ Goes(r, "Check", 1)
    BY <1>1, <1>2, <1>8 DEF LookUp, Moves, UseCases, OnAccount
  <2>2. run[r].leg \in {1, 2} /\ {"Return", "Post", "Check"} \subseteq Entering
    BY <1>1 DEF Thread, Entering
  <2>3. /\ run'[r].answer = None
        /\ \/ Op(r) = "GetAccount" /\ run'[r].at = "Return"
           \/ Op(r) = "Deposit" /\ run'[r].at = "Post"
           \/ run'[r].at = "Check"
    BY <2>1, <2>2, CallsGoOn
  <2> QED BY <1>4, <2>3
<1> QED BY <1>5, <1>6, <1>7, <1>8

LEMMA CheckIsSeen ==
    ASSUME NEW r \in Requests, OnlyCall(r), Check(r)
    PROVE  L!Next \/ UNCHANGED L!vars
<1>1. /\ UnderWay(r) /\ OnCourse(r) /\ run[r].at # "Idle" /\ run[r] \in Thread
      /\ In(r) \in Inputs /\ In(r) # None /\ Op(r) \in UseCases /\ run[r].at \in Course(Op(r))
      /\ In(r)' = In(r) /\ Op(r)' = Op(r)
  BY OnlyCallIs
<1>2. /\ run[r].at = "Check" /\ run[r].leg = 1 /\ UNCHANGED <<books, met>>
      /\ Op(r) \in {"CloseAccount", "Withdraw", "Transfer"}
  BY <1>1 DEF Check, At, Course, OnCourse, Thread, UseCases, OnAccount
<1>3. Phase(r) = "asked"
  BY <1>2 DEF Phase, HalfDone, Entered
<1>4. ASSUME NEW point \in {"Delete", "Post"}, Moves(r, point)
      PROVE  UNCHANGED L!vars
  <2>1. run'[r].at = point /\ run'[r].leg = 1 /\ run'[r].answer = None
    BY <1>2, <1>4, CallsGoOn DEF Moves, Listing, Entering
  <2>2. \A a \in Ids : (There(a)' <=> There(a)) /\ (Deleting(a)' <=> Deleting(a))
    BY <1>2, <2>1, WhatIsThere DEF books
  <2>3. Rows' = Rows /\ SeenCredits' = SeenCredits /\ SeenDebits' = SeenDebits
    BY <1>2, <2>2, BooksStay DEF books
  <2>4. Phase(r)' = Phase(r)
    BY <1>1, <1>2, <1>3, <2>1 DEF Phase, HalfDone, Entered
  <2> QED BY <2>1, <2>3, <2>4, QuietCall
<1>5. ASSUME NEW x \in {"HasFunds", "OutOfFunds"}, Answer(r, x), x \in L!MayRefuse(Op(r))
      PROVE  L!Refuse(r)
  <2>1. L!Answers(r, x)
    BY <1>2, <1>5, AnsweringCall DEF Answers
  <2> QED BY <1>1, <1>3, <1>5, <2>1 DEF L!Refuse, L!In, Phases, Answered, Asked, UnderWay, In, Op
<1>6. CASE Op(r) = "CloseAccount"
  <2>1. Moves(r, "Delete") \/ Answer(r, "HasFunds")
    BY <1>6 DEF Check
  <2>2. "HasFunds" \in L!MayRefuse(Op(r))
    BY <1>6 DEF L!MayRefuse
  <2> QED BY <1>4, <1>5, <2>1, <2>2 DEF L!Next
<1>7. CASE Op(r) # "CloseAccount"
  <2>1. Moves(r, "Post") \/ Answer(r, "OutOfFunds")
    BY <1>7 DEF Check
  <2>2. "OutOfFunds" \in L!MayRefuse(Op(r))
    BY <1>2, <1>7 DEF L!MayRefuse
  <2> QED BY <1>4, <1>5, <2>1, <2>2 DEF L!Next
<1> QED BY <1>6, <1>7

LEMMA ReturnIsSeen ==
    ASSUME NEW r \in Requests, OnlyCall(r), Return(r)
    PROVE  L!Next
<1>1. /\ UnderWay(r) /\ In(r) \in Inputs /\ In(r) # None /\ run[r].at = "Return"
      /\ Answer(r, "Ok") /\ UNCHANGED <<books, met>>
  BY OnlyCallIs DEF Return, At
<1>2. L!Answers(r, "Ok")
  BY <1>1, AnsweringCall DEF Answers
<1>3. CASE Op(r) \in {"GetAccount", "GetAccounts"}
  <2>1. Phase(r) = "asked"
    BY <1>1, <1>3 DEF Phase
  <2>2. L!Show(r)
    BY <1>1, <1>2, <1>3, <2>1, LedgerSees DEF L!Show
  <2> QED BY <2>2 DEF L!Next
<1>4. CASE Op(r) \notin {"GetAccount", "GetAccounts"}
  <2>1. Phase(r) = "done"
    BY <1>1, <1>4 DEF Phase
  <2>2. L!Report(r)
    BY <1>1, <1>2, <2>1 DEF L!Report, Phases, Answered, UnderWay
  <2> QED BY <2>2 DEF L!Next
<1> QED BY <1>3, <1>4

(* An update finds the account it takes out, and puts it back. *)
LEMMA UpdateIsSeen ==
    ASSUME NEW r \in Requests, OnlyCall(r), Update(r)
    PROVE  UNCHANGED L!vars
<1>1. /\ UnderWay(r) /\ OnCourse(r) /\ run[r].at # "Idle" /\ run[r] \in Thread
      /\ In(r) \in Inputs /\ In(r) # None /\ Op(r) \in UseCases /\ run[r].at \in Course(Op(r))
      /\ In(r)' = In(r) /\ Op(r)' = Op(r)
  BY OnlyCallIs
<1>2. run[r].at = "Update" /\ Op(r) \in {"Deposit", "Withdraw", "Transfer"} /\ UNCHANGED <<books, met>>
  BY <1>1 DEF Update, At, Course, UseCases, OnAccount
<1>3. Found(r)
  BY <1>2, TargetIsThere DEF Found, Matches, Foreign, OnAccount
<1>4. run'[r].at = "Remove" /\ run'[r].leg = run[r].leg /\ run'[r].answer = None
  BY <1>1, <1>3, CallsGoOn DEF Update, Moves, Thread, Listing
<1>5. \A a \in Ids : (There(a)' <=> There(a)) /\ (Deleting(a)' <=> Deleting(a))
  BY <1>2, <1>4, WhatIsThere DEF books
<1>6. Rows' = Rows /\ SeenCredits' = SeenCredits /\ SeenDebits' = SeenDebits
  BY <1>2, <1>5, BooksStay DEF books
<1>7. Phase(r)' = Phase(r)
  BY <1>1, <1>2, <1>4 DEF Phase, HalfDone, Entered
<1> QED BY <1>4, <1>6, <1>7, QuietCall

(* Only the owner is where an account is paid from or closed. *)
LEMMA OwnerIsSeen ==
    ASSUME NEW r \in Requests, OnlyCall(r), Op(r) \in {"Withdraw", "CloseAccount"}, run[r].at # "Lookup"
    PROVE  L!Owned(r)
<1>1. UnderWay(r) /\ In(r).account \in Ids
  BY OnlyCallIs, InputsAreTyped DEF Op, OnAccount
<1>2. Owner(In(r).account) = In(r).user
  BY <1>1 DEF OnlyCall, AloneInv, Owned
<1>3. L!In(r) = In(r)
  BY DEF L!In, Asked, In
<1> QED BY <1>1, <1>2, <1>3, RowIsThere DEF L!Owned

LEMMA DeleteIsSeen ==
    ASSUME NEW r \in Requests, OnlyCall(r), Delete(r)
    PROVE  L!Erase(r)
<1> DEFINE t == Target(r)
<1>1. /\ UnderWay(r) /\ OnCourse(r) /\ run[r].at # "Idle" /\ run[r] \in Thread
      /\ In(r) \in Inputs /\ In(r) # None /\ Op(r) \in UseCases /\ run[r].at \in Course(Op(r))
      /\ In(r)' = In(r) /\ Op(r)' = Op(r)
  BY OnlyCallIs
<1>2. run[r].at = "Delete" /\ Op(r) = "CloseAccount" /\ run[r].leg = 1 /\ UNCHANGED <<books, met>>
  BY <1>1 DEF Delete, At, Course, UseCases, OnAccount, OnCourse, Thread
<1>3. Found(r) /\ t \in Ids /\ There(t)
  BY <1>2, TargetIsThere DEF Found, Matches, Foreign, OnAccount
<1>4. run'[r].at = "Remove" /\ run'[r].leg = 1 /\ run'[r].answer = None
  BY <1>1, <1>2, <1>3, CallsGoOn DEF Delete, Moves, Thread, Listing
<1>5. t = In(r).account /\ Target(r)' = t
  BY <1>1, <1>2, <1>4 DEF Target
<1>6. \A a \in Ids : (There(a)' <=> There(a)) /\ ~Deleting(a) /\ (Deleting(a)' <=> a = t)
  BY <1>1, <1>2, <1>4, <1>5, WhatIsThere DEF books
<1>7. \A e \in credits \cup debits : e.account \in Ids
  BY DEF OnlyCall, StoreInv, PaymentsInv, TypeOK
<1>8. Rows' = Rows
  <2>1. \A a \in Ids : Rows'[a] = Rows[a]
    BY <1>6, RowsStay DEF OnlyCall
  <2>2. Rows = [a \in Ids |-> Rows[a]] /\ Rows' = [a \in Ids |-> Rows'[a]]
    BY DEF Rows
  <2> QED BY <2>1, <2>2
<1>9. SeenCredits' = SeenCredits
  BY <1>2, <1>6, <1>7 DEF SeenCredits, books
<1>10. SeenDebits' = SeenDebits \ EntriesOf(SeenDebits, t)
  BY <1>2, <1>6, <1>7 DEF SeenDebits, EntriesOf, books
<1>11. Phase(r) = "asked" /\ Phase(r)' = "closing"
  BY <1>1, <1>2, <1>4 DEF Phase, HalfDone, Entered
<1>12. L!Closing(r) /\ L!Moves(r, "closing") /\ L!Owned(r) /\ L!In(r) = In(r)
  BY <1>1, <1>2, <1>4, <1>11, LedgerSees, PostingCall, OwnerIsSeen DEF L!Closing
<1> QED BY <1>5, <1>8, <1>9, <1>10, <1>12 DEF L!Erase, L!EntriesOf, EntriesOf

LEMMA RemoveIsSeen ==
    ASSUME NEW r \in Requests, OnlyCall(r), RemoveOld(r)
    PROVE  L!Next \/ UNCHANGED L!vars
<1> DEFINE t == Target(r)
<1>1. /\ UnderWay(r) /\ OnCourse(r) /\ run[r].at # "Idle" /\ run[r] \in Thread
      /\ In(r) \in Inputs /\ In(r) # None /\ Op(r) \in UseCases /\ run[r].at \in Course(Op(r))
      /\ In(r)' = In(r) /\ Op(r)' = Op(r)
  BY OnlyCallIs
<1>2. /\ run[r].at = "Remove" /\ UNCHANGED <<credits, debits, met>>
      /\ Op(r) \in {"CloseAccount", "Deposit", "Withdraw", "Transfer"}
  BY <1>1 DEF RemoveOld, At, Course, UseCases, OnAccount
<1>3. t \in Ids /\ There(t) /\ listed[t] = 1
  BY <1>2, TargetIsThere DEF OnAccount
<1>4. run'[r].leg = run[r].leg /\ run'[r].answer = None
      /\ run'[r].at = IF Op(r) = "CloseAccount" THEN "Return" ELSE "Add"
  <2>1. {"Return", "Add"} \subseteq Listing \cup Entering /\ run[r].leg \in {1, 2}
    BY <1>1 DEF Listing, Entering, Thread
  <2> QED BY <2>1, CallsGoOn DEF RemoveOld, Moves
<1>5. Target(r)' = t
  BY <1>1, <1>4 DEF Target
<1>6. \A a \in Ids : listed'[a] = IF a = t THEN 0 ELSE listed[a]
  BY <1>3 DEF RemoveOld, OnlyCall, StoreInv, PaymentsInv, TypeOK
<1>7. \A e \in credits \cup debits : e.account \in Ids
  BY DEF OnlyCall, StoreInv, PaymentsInv, TypeOK
<1>8. CASE Op(r) # "CloseAccount"
  <2>1. \A a \in Ids : (There(a)' <=> There(a)) /\ (Deleting(a)' <=> Deleting(a))
    BY <1>1, <1>2, <1>3, <1>4, <1>5, <1>6, <1>8, WhatIsThere
  <2>2. Rows' = Rows /\ SeenCredits' = SeenCredits /\ SeenDebits' = SeenDebits
    BY <1>2, <2>1, BooksStay
  <2>3. Phase(r)' = Phase(r)
    BY <1>1, <1>2, <1>4, <1>8 DEF Phase, HalfDone, Entered
  <2> QED BY <1>4, <2>2, <2>3, QuietCall
<1>9. CASE Op(r) = "CloseAccount"
  <2>1. \A a \in Ids : /\ There(a)' <=> There(a) /\ a # t
                       /\ ~Deleting(a)' /\ (Deleting(a) <=> a = t)
    BY <1>1, <1>2, <1>3, <1>4, <1>5, <1>6, <1>9, WhatIsThere
  <2>2. t = In(r).account
    BY <1>1, <1>9 DEF Target, OnCourse, Thread
  <2>3. Rows' = [Rows EXCEPT ![t] = None]
    <3>1. \A a \in Ids \ {t} : Rows'[a] = Rows[a]
      BY <2>1, RowsStay DEF OnlyCall
    <3>2. Rows'[t] = None
      BY <1>3, <2>1 DEF Rows
    <3>3. Rows = [a \in Ids |-> Rows[a]] /\ Rows' = [a \in Ids |-> Rows'[a]]
      BY DEF Rows
    <3> QED BY <3>1, <3>2, <3>3
  <2>4. SeenCredits' = SeenCredits \ EntriesOf(SeenCredits, t)
    BY <1>2, <1>7, <2>1 DEF SeenCredits, EntriesOf
  <2>5. SeenDebits' = SeenDebits \ EntriesOf(SeenDebits, t)
    BY <1>2, <1>7, <2>1 DEF SeenDebits, EntriesOf
  <2>6. Phase(r) = "closing" /\ Phase(r)' = "done"
    BY <1>1, <1>2, <1>4, <1>9 DEF Phase, HalfDone, Entered
  <2>7. L!Pending(r, "CloseAccount", "closing") /\ L!Moves(r, "done") /\ L!Owned(r) /\ L!In(r) = In(r)
    BY <1>1, <1>2, <1>4, <1>9, <2>6, LedgerSees, PostingCall, OwnerIsSeen
  <2>8. L!Close(r)
    BY <2>2, <2>3, <2>4, <2>5, <2>7 DEF L!Close, L!EntriesOf, EntriesOf
  <2> QED BY <2>8 DEF L!Next, L!Posts
<1> QED BY <1>8, <1>9

LEMMA AddIsSeen ==
    ASSUME NEW r \in Requests, OnlyCall(r), Add(r)
    PROVE  L!Next \/ UNCHANGED L!vars
<1> DEFINE t == Target(r)
<1>1. /\ UnderWay(r) /\ OnCourse(r) /\ run[r].at # "Idle" /\ run[r] \in Thread
      /\ In(r) \in Inputs /\ In(r) # None /\ Op(r) \in UseCases /\ run[r].at \in Course(Op(r))
      /\ In(r)' = In(r) /\ Op(r)' = Op(r)
  BY OnlyCallIs
<1>2. /\ run[r].at = "Add" /\ UNCHANGED <<credits, debits, met>>
      /\ Op(r) \in {"OpenAccount", "Deposit", "Withdraw", "Transfer"}
  BY <1>1 DEF Add, At, Course, UseCases, OnAccount
<1>3. /\ run'[r].answer = None
      /\ IF Op(r) = "Transfer" /\ run[r].leg = 1 THEN run'[r].at = "Post" /\ run'[r].leg = 2
                                                 ELSE run'[r].at = "Return" /\ run'[r].leg = run[r].leg
  <2>1. {"Return", "Post"} \subseteq Listing \cup Entering /\ run[r].leg \in {1, 2}
    BY <1>1 DEF Entering, Thread
  <2> QED BY <2>1, CallsGoOn DEF Add, AfterEntry, Moves
<1>4. t \in Ids
  BY <1>1, <1>2, TargetIsItsOwn
<1>5. \A a \in Ids : listed'[a] = IF a = t THEN listed[t] + 1 ELSE listed[a]
  BY <1>4 DEF Add, OnlyCall, StoreInv, PaymentsInv, TypeOK
<1>6. \A e \in credits \cup debits : e.account \in Ids
  BY DEF OnlyCall, StoreInv, PaymentsInv, TypeOK
<1>7. CASE Op(r) # "OpenAccount"
  <2>1. listed[t] = 0 /\ There(t)
    BY <1>2, <1>7, TargetIsThere DEF OnAccount
  <2>2. \A a \in Ids : (There(a)' <=> There(a)) /\ (Deleting(a)' <=> Deleting(a))
    BY <1>1, <1>2, <1>3, <1>4, <1>5, <1>7, <2>1, WhatIsThere
  <2>3. Rows' = Rows /\ SeenCredits' = SeenCredits /\ SeenDebits' = SeenDebits
    BY <1>2, <2>2, BooksStay
  <2>4. Phase(r)' = Phase(r)
    <3>1. run[r].leg \in {1, 2} /\ run'[r].at # "Idle"
      BY <1>1, <1>3 DEF Thread
    <3>2. CASE Op(r) = "Transfer" /\ run[r].leg = 1
      BY <1>1, <1>2, <1>3, <3>2 DEF Phase, HalfDone, Entered
    <3>3. CASE Op(r) = "Transfer" /\ run[r].leg = 2
      BY <1>1, <1>2, <1>3, <3>3 DEF Phase, HalfDone, Entered
    <3>4. CASE Op(r) # "Transfer"
      BY <1>1, <1>2, <1>3, <1>7, <3>4 DEF Phase, HalfDone, Entered
    <3> QED BY <3>1, <3>2, <3>3, <3>4
  <2> QED BY <1>3, <2>3, <2>4, QuietCall
<1>8. CASE Op(r) = "OpenAccount"
  <2> DEFINE entry == [id |-> r, account |-> r, value |-> In(r).amount]
  <2>1. t = r /\ r \in Ids /\ r \notin Seeds /\ listed[r] = 0 /\ ~There(r)
    BY <1>2, <1>8, NewIsNotThere, IdsAreDistinct DEF Target, Ids
  <2>2. \A a \in Ids : /\ There(a)' <=> There(a) \/ a = r
                       /\ ~Deleting(a)' /\ ~Deleting(a)
    BY <1>1, <1>2, <1>3, <1>4, <1>5, <1>8, <2>1, WhatIsThere
  <2>3. Rows' = [Rows EXCEPT ![r] = [owner |-> In(r).user, currency |-> In(r).currency]]
    <3>1. \A a \in Ids \ {r} : Rows'[a] = Rows[a]
      BY <2>2, RowsStay DEF OnlyCall
    <3>2. Rows'[r] = [owner |-> In(r).user, currency |-> In(r).currency]
      BY <1>1, <2>1, <2>2 DEF Rows
    <3>3. Rows = [a \in Ids |-> Rows[a]] /\ Rows' = [a \in Ids |-> Rows'[a]]
      BY DEF Rows
    <3> QED BY <2>1, <3>1, <3>2, <3>3
  <2>4. EntriesOf(debits, r) = {} /\ EntriesOf(credits, r) = {entry}
    BY <1>2, <1>8 DEF OnlyCall, AloneInv, NotYetUsed
  <2>5. SeenCredits' = SeenCredits \cup {entry}
    <3>1. \A c \in credits' : There(c.account)' <=> There(c.account) \/ c.account = r
      BY <1>2, <1>6, <2>2
    <3>2. \A c : c \in credits /\ c.account = r <=> c = entry
      BY <2>4 DEF EntriesOf
    <3> QED BY <1>2, <3>1, <3>2 DEF SeenCredits
  <2>6. SeenDebits' = SeenDebits
    <3>1. \A d \in debits : d.account # r
      BY <2>4 DEF EntriesOf
    <3> QED BY <1>2, <1>6, <2>2, <3>1 DEF SeenDebits
  <2>7. Phase(r) = "asked" /\ Phase(r)' = "done"
    BY <1>1, <1>2, <1>3, <1>8 DEF Phase, HalfDone, Entered
  <2>8. L!Pending(r, "OpenAccount", "asked") /\ L!Moves(r, "done") /\ L!In(r) = In(r)
    BY <1>1, <1>3, <1>8, <2>7, LedgerSees, PostingCall
  <2>9. L!Open(r)
    BY <2>3, <2>5, <2>6, <2>8 DEF L!Open
  <2> QED BY <2>9 DEF L!Next, L!Posts
<1> QED BY <1>7, <1>8

(* An entry is in the currency of its account, one to one. *)
LEMMA EntryIsItsPosting ==
    ASSUME NEW r \in Requests, OnlyCall(r), NEW a \in Ids, There(a)
    PROVE  [id |-> r, account |-> a, value |-> In(r).amount] \in L!Postings(r, a)
<1>1. In(r) \in Inputs /\ In(r).amount \in Nat
  BY OnlyCallIs, InputsAreTyped
<1>2. OneToOne[Rows[a].currency] = 1 /\ OneToOne[In(r).currency] = 1
  BY <1>1, RowIsThere DEF OneToOne
<1>3. RoundedQuotient(In(r).amount * 1, 1) = In(r).amount
  BY <1>1, QuotientOfAMultiple
<1>4. L!In(r) = In(r)
  BY DEF L!In, Asked, In
<1>5. L!Converted(In(r).amount, OneToOne, In(r).currency, Rows[a].currency) = In(r).amount
  BY <1>2, <1>3 DEF L!Converted, L!RoundedQuotient, RoundedQuotient
<1> QED BY <1>4, <1>5 DEF L!Postings

LEMMA PostIsSeen ==
    ASSUME NEW r \in Requests, OnlyCall(r), Post(r)
    PROVE  L!Next \/ UNCHANGED L!vars
<1> DEFINE t == Target(r)
           entry == [id |-> r, account |-> t, value |-> In(r).amount]
<1>1. /\ UnderWay(r) /\ OnCourse(r) /\ run[r].at # "Idle" /\ run[r] \in Thread
      /\ In(r) \in Inputs /\ In(r) # None /\ Op(r) \in UseCases /\ run[r].at \in Course(Op(r))
      /\ In(r)' = In(r) /\ Op(r)' = Op(r)
  BY OnlyCallIs
<1>2. /\ run[r].at = "Post" /\ listed' = listed
      /\ Op(r) \in {"OpenAccount", "Deposit", "Withdraw", "Transfer"}
  BY <1>1 DEF Post, At, Course, UseCases, OnAccount
<1>3. run[r].leg \in {1, 2} /\ (run[r].leg = 2 => Op(r) = "Transfer")
  BY <1>1 DEF OnCourse, Thread
<1>4. /\ run'[r].answer = None /\ run'[r].leg = run[r].leg
      /\ run'[r].at = IF Op(r) = "OpenAccount" THEN "Add" ELSE "Update"
  BY <1>3, CallsGoOn DEF Post, Moves, Listing
<1>5. Target(r)' = t /\ t \in Ids
  BY <1>1, <1>2, <1>4, TargetIsItsOwn DEF Target
<1>6. \A a \in Ids : (There(a)' <=> There(a)) /\ ~Deleting(a)' /\ ~Deleting(a)
  BY <1>2, <1>4, WhatIsThere
<1>7. \A e \in credits \cup debits : e.account \in Ids
  BY DEF OnlyCall, StoreInv, PaymentsInv, TypeOK
<1>8. Rows' = Rows
  <2>1. \A a \in Ids : Rows'[a] = Rows[a]
    BY <1>6, RowsStay DEF OnlyCall
  <2>2. Rows = [a \in Ids |-> Rows[a]] /\ Rows' = [a \in Ids |-> Rows'[a]]
    BY DEF Rows
  <2> QED BY <2>1, <2>2
<1>9. IF Pays(r) THEN debits' = debits \cup {entry} /\ credits' = credits
                 ELSE credits' = credits \cup {entry} /\ debits' = debits
  BY DEF Post
<1>10. CASE Op(r) = "OpenAccount"
  <2>1. ~There(t) /\ ~Pays(r)
    BY <1>2, <1>10, NewIsNotThere DEF Target, Pays
  <2>2. SeenCredits' = SeenCredits
    BY <1>5, <1>6, <1>7, <1>9, <2>1 DEF SeenCredits
  <2>3. SeenDebits' = SeenDebits
    BY <1>6, <1>7, <1>9, <2>1 DEF SeenDebits
  <2>4. Phase(r)' = Phase(r)
    BY <1>1, <1>2, <1>4, <1>10 DEF Phase, HalfDone, Entered
  <2> QED BY <1>4, <1>8, <2>2, <2>3, <2>4, QuietCall
<1>11. CASE Op(r) # "OpenAccount"
  <2>1. There(t)
    BY <1>2, <1>11, TargetIsThere DEF OnAccount
  <2>2. entry \in L!Postings(r, t) /\ Rows[t] # None
    BY <1>5, <2>1, EntryIsItsPosting, RowIsThere
  <2>3. L!Pending(r, Op(r), Phase(r)) /\ L!In(r) = In(r)
    BY <1>1, LedgerSees
  <2>4. CASE Pays(r)
    <3>1. t = In(r).account /\ run[r].leg = 1 /\ Op(r) \in {"Withdraw", "Transfer"}
      BY <1>11, <2>4 DEF Pays, Target
    <3>2. SeenDebits' = SeenDebits \cup {entry} /\ SeenCredits' = SeenCredits
      BY <1>5, <1>6, <1>7, <1>9, <2>1, <2>4 DEF SeenDebits, SeenCredits
    <3>3. L!PostDebit(r)
      BY <1>8, <2>2, <2>3, <3>1, <3>2 DEF L!PostDebit
    <3>4. Phase(r) = "asked" /\ Phase(r)' = IF Op(r) = "Withdraw" THEN "done" ELSE "debited"
      BY <1>1, <1>2, <1>4, <3>1 DEF Phase, HalfDone, Entered
    <3>5. L!Moves(r, IF Op(r) = "Withdraw" THEN "done" ELSE "debited")
      BY <1>4, <3>4, PostingCall
    <3>6. L!Withdraw(r) \/ L!PayOut(r)
      BY <1>2, <2>3, <3>1, <3>3, <3>4, <3>5, OwnerIsSeen DEF L!Withdraw, L!PayOut
    <3> QED BY <3>6 DEF L!Next, L!Posts
  <2>5. CASE ~Pays(r)
    <3>1. \/ Op(r) = "Deposit" /\ t = In(r).account /\ run[r].leg = 1
          \/ Op(r) = "Transfer" /\ t = In(r).dest /\ run[r].leg = 2
      BY <1>2, <1>3, <1>11, <2>5 DEF Pays, Target
    <3>2. SeenCredits' = SeenCredits \cup {entry} /\ SeenDebits' = SeenDebits
      BY <1>5, <1>6, <1>7, <1>9, <2>1, <2>5 DEF SeenDebits, SeenCredits
    <3>3. L!PostCredit(r, t)
      BY <1>8, <2>2, <3>2 DEF L!PostCredit
    <3>4. Phase(r) = (IF Op(r) = "Deposit" THEN "asked" ELSE "debited") /\ Phase(r)' = "done"
      BY <1>1, <1>2, <1>4, <3>1 DEF Phase, HalfDone, Entered
    <3>5. L!Moves(r, "done")
      BY <1>4, <3>4, PostingCall
    <3>6. L!Deposit(r) \/ L!PayIn(r)
      BY <2>3, <3>1, <3>3, <3>4, <3>5 DEF L!Deposit, L!PayIn
    <3> QED BY <3>6 DEF L!Next, L!Posts
  <2> QED BY <2>4, <2>5
<1> QED BY <1>10, <1>11

(* A request arrives where nobody else is. *)
LEMMA ReceiveIsSeen ==
    ASSUME StoreInv, Alone, NEW r \in Requests, NEW input \in Inputs, Arrives(r, input),
           \A q \in Requests \ {r} : ~UnderWay(q)
    PROVE  L!Next
<1>1. \A q \in Requests : ~UnderWay(q)
  BY DEF Arrives, UnderWay
<1>2. run \in [Requests -> Thread] /\ \A q \in Requests : OnCourse(q)
  BY DEF StoreInv, PaymentsInv, TypeOK
<1>3. \A q \in Requests \ {r} : ~UnderWay(q)'
  BY DEF Arrives, UnderWay
<1>4. \A a \in Ids : (There(a) <=> listed[a] > 0) /\ ~Deleting(a)
  <2>1. \A q \in Requests, point \in {"Add", "Remove"} : ~At(q, point)
    BY <1>1 DEF At, UnderWay
  <2> QED BY <2>1 DEF There, Deleting, About
<1>5. \A a \in Ids : (There(a)' <=> listed[a] > 0) /\ ~Deleting(a)'
  <2>1. \A q \in Requests, point \in {"Add", "Remove"} : ~At(q, point)'
    BY <1>3 DEF At, UnderWay, Arrives
  <2> QED BY <2>1 DEF There, Deleting, About, Arrives
<1>6. \A e \in credits \cup debits : e.account \in Ids
  BY DEF StoreInv, PaymentsInv, TypeOK
<1>7. SeenCredits' = SeenCredits /\ SeenDebits' = SeenDebits
  BY <1>4, <1>5, <1>6 DEF SeenCredits, SeenDebits, Arrives
<1>8. Rows' = Rows
  <2>1. ASSUME NEW a \in Ids PROVE Rows'[a] = Rows[a]
    <3>1. CASE a \in Seeds
      BY <1>4, <1>5, <3>1 DEF Rows
    <3>2. CASE a \in Requests \ {r}
      BY <1>4, <1>5, <3>2 DEF Rows, In, Arrives
    <3>3. CASE a = r /\ a \notin Seeds
      <4>1. listed[r] = AtRest(r)
        BY <1>1, <3>3, AloneListed DEF ListedFor, About
      <4>2. ~IsOpen(r)
        BY <3>3, AloneListed DEF Arrives
      <4>3. listed[r] = 0
        BY <4>1, <4>2 DEF AtRest
      <4> QED BY <1>4, <1>5, <3>3, <4>3 DEF Rows
    <3> QED BY <3>1, <3>2, <3>3 DEF Ids
  <2>2. Rows = [a \in Ids |-> Rows[a]] /\ Rows' = [a \in Ids |-> Rows'[a]]
    BY DEF Rows
  <2> QED BY <2>1, <2>2
<1>9. Asked' = [Asked EXCEPT ![r] = input] /\ Answered' = Answered
  BY <1>2 DEF Arrives, Asked, Answered
<1>10. Phase(r) = "new" /\ Answered[r] = None
  BY DEF Arrives, Phase, Answered
<1>11. Phases' = [Phases EXCEPT ![r] = "asked"]
  <2>1. Phase(r)' = "asked"
    BY DEF Arrives, Phase, HalfDone, Entered
  <2>2. \A q \in Requests \ {r} : Phase(q)' = Phase(q)
    BY DEF Arrives, Phase, HalfDone, Entered, Op, In
  <2> QED BY <2>1, <2>2 DEF Phases
<1>12. L!Ask(r)
  BY <1>7, <1>8, <1>9, <1>10, <1>11 DEF L!Ask, L!books, Phases
<1> QED BY <1>12 DEF L!Next

(* Alone, nobody finds an account twice. *)
LEMMA NobodyThrows ==
    ASSUME NEW r \in Requests, OnlyCall(r)
    PROVE  ~SingleThrows(r)
<1> SUFFICES ASSUME SingleThrows(r) PROVE FALSE
  OBVIOUS
<1>1. Op(r) # "GetAccounts" /\ (listed[Target(r)] > 0 => listed[Target(r)] > 1)
      /\ listed[Target(r)] # 0
  BY DEF SingleThrows, Matches
<1>2. UnderWay(r) /\ Target(r) \in Ids /\ r \in About(Target(r))
  BY <1>1, OnlyCallIs, TargetIsItsOwn
<1>3. listed[Target(r)] = Lists(r, Target(r))
  BY <1>2, AloneListed DEF OnlyCall, ListedFor
<1> QED BY <1>1, <1>3 DEF Lists, AtRest

LEMMA CallIsSeen ==
    ASSUME StoreInv, AloneInv, NEW r \in Requests, Call(r), Alone'
    PROVE  L!Next \/ UNCHANGED L!vars
<1>1. OnlyCall(r)
  BY CoursesStay, AloneBefore DEF StoreInv, OnlyCall
<1>2. Update(r) => UNCHANGED L!vars
  BY <1>1, UpdateIsSeen
<1>3. Delete(r) => L!Next
  BY <1>1, DeleteIsSeen DEF L!Next, L!Posts
<1> QED BY <1>1, <1>2, <1>3, NobodyThrows, LookUpIsSeen, CheckIsSeen, PostIsSeen, RemoveIsSeen, AddIsSeen,
        ReturnIsSeen DEF Call

(* Requests that come one after the other see the promises of the ledger   *)
(* kept: every call on the shared list or an account's collections is one  *)
(* posting of it, an answer, or nothing (AccountRepositoryFake).           *)
THEOREM OneAfterTheOtherItIsALedger == Spec => AloneItIsALedger
<1>1. StoreInv /\ AloneInv /\ [Next]_store => [Alone' => L!Next \/ UNCHANGED L!vars]_store
  <2> SUFFICES ASSUME StoreInv, AloneInv, Next, Alone' PROVE L!Next \/ UNCHANGED L!vars
    OBVIOUS
  <2>1. ASSUME NEW r \in Requests, Call(r) PROVE L!Next \/ UNCHANGED L!vars
    BY <2>1, CallIsSeen
  <2>2. ASSUME NEW r \in Requests, Tear(r) PROVE UNCHANGED L!vars
    <3>1. credits' = credits /\ debits' = debits /\ listed' = listed /\ run' = run
      BY <2>2 DEF Tear, books
    <3>2. \A q : /\ In(q)' = In(q) /\ Op(q)' = Op(q) /\ Target(q)' = Target(q)
                 /\ AccountsOf(q)' = AccountsOf(q) /\ Phase(q)' = Phase(q)
                 /\ \A point : At(q, point)' = At(q, point)
      BY <3>1 DEF In, Op, Target, AccountsOf, Phase, HalfDone, Entered, At
    <3>3. \A a : There(a)' = There(a) /\ Deleting(a)' = Deleting(a) /\ In(a)' = In(a)
      BY <3>1, <3>2 DEF There, Deleting, About
    <3> QED BY <3>1, <3>2, <3>3 DEF L!vars, Rows, SeenCredits, SeenDebits, Asked, Phases, Answered
  <2>3. ASSUME NEW r \in Requests, NEW input \in Inputs, Ask(r, input) PROVE L!Next
    <3>1. Arrives(r, input) /\ PaymentsInv
      BY <2>3, ReceiveArrives DEF Ask, StoreInv, PaymentsInv
    <3>2. Alone /\ \A q \in Requests \ {r} : ~UnderWay(q)
      BY <3>1, AloneBefore
    <3> QED BY <3>1, <3>2, ReceiveIsSeen
  <2> QED BY <2>1, <2>2, <2>3 DEF Next, Step
<1> QED BY <1>1, StoreInvariance, AloneInvariance, PTL DEF Spec, AloneItIsALedger

(* So a store whose requests never meet implements the ledger.             *)
THEOREM WithoutMeetingsItIsALedger == Spec /\ []Alone => L!Spec
<1>1. Init => L!Init
  <2> SUFFICES ASSUME Init PROVE L!Init
    OBVIOUS
  <2>1. \A r \in Requests : run[r].at = "Idle" /\ run[r].input = None /\ run[r].answer = None
    BY DEF Init
  <2>2. \A a \in Ids : (There(a) <=> a \in Seeds) /\ ~Deleting(a)
    <3>1. \A r \in Requests : AccountsOf(r) = {}
      BY <2>1 DEF AccountsOf
    <3>2. \A a : About(a) = {}
      BY <3>1 DEF About
    <3> QED BY <3>2 DEF There, Deleting, Init
  <2>3. SeenCredits = SeedCredits /\ SeenDebits = SeedDebits
    BY <2>2, SeedsAreCovered DEF SeenCredits, SeenDebits, Init, Ids
  <2>4. Rows = [a \in Seeds \cup Requests |-> IF a \in Seeds THEN SeedAccounts[a] ELSE None]
    BY <2>2 DEF Rows, Ids
  <2>5. /\ Asked = [r \in Requests |-> None] /\ Answered = [r \in Requests |-> None]
        /\ Phases = [r \in Requests |-> "new"]
    BY <2>1 DEF Asked, Answered, Phases, Phase
  <2> QED BY <2>3, <2>4, <2>5 DEF L!Init
<1>2. [Alone' => L!Next \/ UNCHANGED L!vars]_store /\ Alone' => [L!Next]_L!vars
  <2>1. UNCHANGED store => UNCHANGED L!vars
    BY DEF store, L!vars, Rows, SeenCredits, SeenDebits, Asked, Phases, Answered, There, Deleting, About,
           AccountsOf, At, In, Op, Target, Phase, HalfDone, Entered
  <2> QED BY <2>1
<1> QED BY <1>1, <1>2, OneAfterTheOtherItIsALedger, PTL DEF Spec, L!Spec, AloneItIsALedger

=============================================================================
