-------------------------- MODULE QueryChangesProofs --------------------------
(***************************************************************************)
(* A client that splices diffs into its list has the query's result, for   *)
(* any objects, places, page sizes and retention.                          *)
(*                                                                         *)
(* The diffs say nothing of positions but those of changed objects.  That  *)
(* this is enough rests on two facts.  Of ids in ascending order without   *)
(* the changed ones, the rest of the result remains, ascending; and into   *)
(* such a list an id is put where it belongs if all that comes before it   *)
(* is there already, which is why the added ids come lowest index first.   *)
(* Whether an id is among the changed ones is what is known of the change  *)
(* log's answers to any client (ChangeLogProofs).                          *)
(***************************************************************************)
EXTENDS QueryChanges, ChangeLogProofs, SequenceTheorems

-----------------------------------------------------------------------------
(* Numbers *)

\* A nonempty set of numbers has a least one: the induction of these proofs.
LEMMA LeastOf ==
    ASSUME NEW S \in SUBSET Nat, S # {}
    PROVE  \E m \in S : \A n \in S : m <= n
  <1>1. PICK m \in S : \A n \in S : ~(<<n, m>> \in OpToRel(<, Nat))
    BY NatLessThanWellFounded, WFMin
  <1>2. OpToRel(<, Nat) = {ss \in Nat \X Nat : ss[1] < ss[2]}
    BY DEF OpToRel
  <1>3. \A n \in S : n \in Nat /\ ~(n < m)
    BY <1>1, <1>2
  <1> QED
    BY <1>3

-----------------------------------------------------------------------------
(* Ascending enumerations *)

\* s lists S by ascending key.
Ascending(s, S, key) ==
    /\ s \in [1..Cardinality(S) -> S]
    /\ \A m, n \in 1..Cardinality(S) : m < n => key[s[m]] < key[s[n]]

\* Keys that tell the elements of S apart.
Keyed(S, key) ==
    /\ IsFiniteSet(S)
    /\ \A x \in S : key[x] \in Nat
    /\ \A x, y \in S : key[x] = key[y] => x = y

\* A finite set can be listed: its least key first, then a list of the rest.
LEMMA AscendingExists ==
    ASSUME NEW S, NEW key, Keyed(S, key)
    PROVE  \E s : Ascending(s, S, key)
  <1> DEFINE Bad == {Cardinality(T) : T \in {T \in SUBSET S : ~\E s : Ascending(s, T, key)}}
  <1>1. \A T \in SUBSET S : IsFiniteSet(T) /\ Cardinality(T) \in Nat
    BY FS_Subset, FS_CardinalityType DEF Keyed
  <1>2. SUFFICES ASSUME Bad # {} PROVE FALSE
    <2>1. ASSUME ~\E s : Ascending(s, S, key) PROVE FALSE
      <3>1. Cardinality(S) \in Bad
        BY <2>1
      <3> QED
        BY <3>1, <1>2
    <2> QED
      BY <2>1
  <1>3. PICK c \in Bad : \A d \in Bad : c <= d
    <2>1. Bad \in SUBSET Nat
      BY <1>1
    <2> HIDE DEF Bad
    <2> QED
      BY <2>1, <1>2, LeastOf
  <1>4. PICK T \in SUBSET S : c = Cardinality(T) /\ ~\E s : Ascending(s, T, key)
    OBVIOUS
  <1>5. T # {}
    <2>1. ASSUME T = {} PROVE FALSE
      <3>1. Cardinality(T) = 0
        BY <2>1, FS_EmptySet
      <3>2. Ascending(<<>>, T, key)
        BY <3>1, <2>1 DEF Ascending
      <3> QED
        BY <3>2, <1>4
    <2> QED
      BY <2>1
  <1>6. PICK x \in T : \A y \in T \ {x} : key[x] < key[y]
    <2> DEFINE keys == {key[y] : y \in T}
    <2>1. keys \in SUBSET Nat /\ keys # {}
      BY <1>5 DEF Keyed
    <2>2. PICK k \in keys : \A j \in keys : k <= j
      <3> HIDE DEF keys
      <3> QED
        BY <2>1, LeastOf
    <2>3. PICK x \in T : key[x] = k
      BY <2>2
    <2>4. ASSUME NEW y \in T \ {x} PROVE key[x] < key[y]
      BY <2>2, <2>3 DEF Keyed
    <2> QED
      BY <2>4
  <1>7. PICK k \in Nat : Cardinality(T \ {x}) = k /\ Cardinality(T) = k + 1
    <2>1. IsFiniteSet(T) /\ IsFiniteSet(T \ {x})
      BY <1>1
    <2>2. Cardinality(T \ {x}) = Cardinality(T) - 1
      BY <2>1, <1>6, FS_RemoveElement
    <2> QED
      BY <2>1, <2>2, FS_CardinalityType
  <1>8. PICK s : Ascending(s, T \ {x}, key)
    <2>1. ASSUME ~\E s : Ascending(s, T \ {x}, key) PROVE FALSE
      <3>1. k \in Bad
        BY <2>1, <1>7
      <3>2. c <= k
        BY <3>1, <1>3
      <3> QED
        BY <3>2, <1>4, <1>7
    <2> QED
      BY <2>1
  <1> DEFINE t == [n \in 1..(k + 1) |-> IF n = 1 THEN x ELSE s[n - 1]]
  <1>9. \A n \in 1..k : s[n] \in T \ {x}
    BY <1>7, <1>8 DEF Ascending
  <1>10. \A m, n \in 1..k : m < n => key[s[m]] < key[s[n]]
    BY <1>7, <1>8 DEF Ascending
  <1>11. \A n \in 1..(k + 1) : t[n] \in T /\ (n # 1 => n - 1 \in 1..k /\ t[n] = s[n - 1])
    BY <1>9
  <1>12. ASSUME NEW m \in 1..(k + 1), NEW n \in 1..(k + 1), m < n
         PROVE  key[t[m]] < key[t[n]]
    <2>1. n - 1 \in 1..k /\ t[n] = s[n - 1]
      BY <1>12
    <2>2. CASE m = 1
      BY <2>1, <2>2, <1>6, <1>9
    <2>3. CASE m # 1
      <3>1. m - 1 \in 1..k /\ t[m] = s[m - 1] /\ m - 1 < n - 1
        BY <2>3, <1>12
      <3> QED
        BY <2>1, <3>1, <1>10
    <2> QED
      BY <2>2, <2>3
  <1>13. t \in [1..(k + 1) -> T]
    BY <1>11
  <1> HIDE DEF t
  <1>14. Ascending(t, T, key)
    BY <1>7, <1>12, <1>13 DEF Ascending
  <1> QED
    BY <1>4, <1>14

\* So what InOrder chooses is a list of that kind.
LEMMA InOrderAscends ==
    ASSUME NEW S, NEW key, Keyed(S, key)
    PROVE  Ascending(InOrder(S, key), S, key)
  BY AscendingExists DEF Ascending, InOrder

\* Sequences by ascending key.
Sorted(s, key) == \A m, n \in 1..Len(s) : m < n => key[s[m]] < key[s[n]]

\* All of S, ascending.
Lists(s, S, key) == s \in Seq(S) /\ Sorted(s, key) /\ ToSet(s) = S

\* It names every element: ascending keys never repeat, and the length is right.
LEMMA InOrderLists ==
    ASSUME NEW S, NEW key, Keyed(S, key)
    PROVE  Lists(InOrder(S, key), S, key)
  <1> DEFINE s == InOrder(S, key)
  <1>1. PICK c \in Nat : c = Cardinality(S)
    BY FS_CardinalityType DEF Keyed
  <1>2. /\ s \in [1..c -> S]
        /\ \A m, n \in 1..c : m < n => key[s[m]] < key[s[n]]
    BY <1>1, InOrderAscends DEF Ascending
  <1> HIDE DEF s
  <1>3. s \in Seq(S) /\ Len(s) = c /\ DOMAIN s = 1..c
    BY <1>2
  <1>4. s \in Injection(1..c, S)
    <2>1. ASSUME NEW m \in 1..c, NEW n \in 1..c, s[m] = s[n] PROVE m = n
      <3>1. key[s[m]] \in Nat /\ key[s[n]] \in Nat
        BY <1>2 DEF Keyed
      <3> QED
        BY <3>1, <2>1, <1>2
    <2> QED
      BY <2>1, <1>2 DEF Injection, IsInjective
  <1>5. Cardinality(1..c) = c
    BY FS_Interval
  <1>6. s \in Surjection(1..c, S)
    BY <1>1, <1>4, <1>5, FS_Injection DEF Keyed
  <1>7. \A x \in S : \E n \in 1..c : s[n] = x
    BY <1>6 DEF Surjection
  <1>8. ToSet(s) = S
    BY <1>2, <1>3, <1>7 DEF ToSet
  <1> QED
    BY <1>2, <1>3, <1>8 DEF Lists, Sorted, s

\* Two ascending lists agree as far as each names what the other does.
LEMMA SamePrefix ==
    ASSUME NEW S, NEW key, \A x \in S : key[x] \in Nat,
           NEW s \in Seq(S), NEW t \in Seq(S), Sorted(s, key), Sorted(t, key),
           NEW k \in 0..Len(s), \A n \in 1..k : s[n] \in ToSet(t),
           \A n \in 1..Len(t) : t[n] \in ToSet(s)
    PROVE  \A n \in 1..k : n <= Len(t) /\ t[n] = s[n]
  <1> DEFINE Bad == {n \in 1..k : ~(n <= Len(t) /\ t[n] = s[n])}
  <1>1. SUFFICES ASSUME Bad # {} PROVE FALSE
    OBVIOUS
  <1>2. Len(s) \in Nat /\ Len(t) \in Nat /\ k \in Nat /\ DOMAIN s = 1..Len(s) /\ DOMAIN t = 1..Len(t)
    OBVIOUS
  <1>3. PICK n \in Bad : \A m \in Bad : n <= m
    <2>1. Bad \in SUBSET Nat
      BY <1>2
    <2> HIDE DEF Bad
    <2> QED
      BY <2>1, <1>1, LeastOf
  <1>4. n \in 1..k /\ n \in 1..Len(s)
    BY <1>2
  <1>5. \A m \in 1..k : m < n => m <= Len(t) /\ t[m] = s[m]
    BY <1>3, <1>4
  <1>6. PICK p \in 1..Len(t) : t[p] = s[n]
    BY <1>2, <1>4 DEF ToSet
  <1>7. \A m \in 1..Len(s) : s[m] \in S /\ key[s[m]] \in Nat
    BY <1>2
  <1>8. \A m \in 1..Len(t) : t[m] \in S /\ key[t[m]] \in Nat
    BY <1>2
  <1>9. n < p
    <2>1. ASSUME p < n PROVE FALSE
      <3>1. p \in 1..Len(s) /\ s[p] = s[n]
        BY <2>1, <1>4, <1>5, <1>6
      <3>2. key[s[p]] < key[s[n]]
        BY <2>1, <3>1, <1>4 DEF Sorted
      <3> QED
        BY <3>1, <3>2, <1>7
    <2>2. p # n
      BY <1>2, <1>6, <1>3
    <2> QED
      BY <2>1, <2>2, <1>4
  <1>10. n \in 1..Len(t) /\ key[t[n]] < key[s[n]]
    <2>1. n \in 1..Len(t)
      BY <1>9, <1>4, <1>2
    <2> QED
      BY <2>1, <1>6, <1>9 DEF Sorted
  <1>11. PICK q \in 1..Len(s) : s[q] = t[n]
    BY <1>2, <1>10 DEF ToSet
  <1>12. q < n
    <2>1. q # n
      BY <1>7, <1>10, <1>11
    <2>2. ASSUME n < q PROVE FALSE
      <3>1. key[s[n]] < key[s[q]]
        BY <2>2, <1>4 DEF Sorted
      <3> QED
        BY <3>1, <1>4, <1>7, <1>10, <1>11
    <2> QED
      BY <2>1, <2>2, <1>4
  <1>13. q \in 1..Len(t) /\ t[q] = t[n]
    BY <1>2, <1>4, <1>5, <1>11, <1>12
  <1>14. key[t[q]] < key[t[n]]
    BY <1>10, <1>12, <1>13 DEF Sorted
  <1> QED
    BY <1>8, <1>10, <1>13, <1>14

\* There is one ascending list of a set.
LEMMA OnlyInOrder ==
    ASSUME NEW S, NEW key, Keyed(S, key), NEW s, Lists(s, S, key)
    PROVE  s = InOrder(S, key)
  <1> DEFINE t == InOrder(S, key)
  <1>1. /\ t \in Seq(S) /\ Sorted(t, key) /\ ToSet(t) = S
        /\ s \in Seq(S) /\ Sorted(s, key) /\ ToSet(s) = S
    BY InOrderLists DEF Lists
  <1>2. \A x \in S : key[x] \in Nat
    BY DEF Keyed
  <1> HIDE DEF t
  <1>3. /\ Len(s) \in Nat /\ Len(t) \in Nat
        /\ \A n \in 1..Len(s) : s[n] \in ToSet(t)
        /\ \A n \in 1..Len(t) : t[n] \in ToSet(s)
    BY <1>1
  <1>4. \A n \in 1..Len(s) : n <= Len(t) /\ t[n] = s[n]
    BY <1>1, <1>2, <1>3, SamePrefix, SMTT(30)
  <1>5. \A n \in 1..Len(t) : n <= Len(s) /\ s[n] = t[n]
    BY <1>1, <1>2, <1>3, SamePrefix, SMTT(30)
  <1>6. Len(s) = Len(t)
    BY <1>3, <1>4, <1>5
  <1>7. s = t
    BY <1>1, <1>4, <1>6, SeqEqual
  <1> QED
    BY <1>7 DEF t

-----------------------------------------------------------------------------
(* Splicing *)

\* InsertAt, place by place.
LEMMA InsertAtIs ==
    ASSUME NEW S, NEW s \in Seq(S), NEW k \in 1..(Len(s) + 1), NEW e \in S
    PROVE  /\ InsertAt(s, k, e) \in Seq(S) /\ Len(InsertAt(s, k, e)) = Len(s) + 1
           /\ \A n \in 1..(Len(s) + 1) :
                  InsertAt(s, k, e)[n] = IF n < k THEN s[n] ELSE IF n = k THEN e ELSE s[n - 1]
  <1> DEFINE front == SubSeq(s, 1, k - 1)
             back == SubSeq(s, k, Len(s))
  <1>1. front \in Seq(S) /\ Len(front) = k - 1 /\ \A n \in 1..(k - 1) : front[n] = s[n]
    OBVIOUS
  <1>2. /\ back \in Seq(S) /\ Len(back) = Len(s) - k + 1
        /\ \A n \in 1..(Len(s) - k + 1) : back[n] = s[k + n - 1]
    OBVIOUS
  <1>3. InsertAt(s, k, e) = front \o <<e>> \o back
    BY DEF InsertAt
  <1> HIDE DEF front, back
  <1> QED
    BY <1>1, <1>2, <1>3

\* A new element joins the members of a list, once.
LEMMA InsertMembers ==
    ASSUME NEW S, NEW s \in Seq(S), NEW k \in 1..(Len(s) + 1), NEW e \in S
    PROVE  /\ ToSet(InsertAt(s, k, e)) = ToSet(s) \cup {e}
           /\ IsInjective(s) /\ e \notin ToSet(s) => IsInjective(InsertAt(s, k, e))
  <1> DEFINE t == InsertAt(s, k, e)
  <1>1. /\ t \in Seq(S) /\ Len(t) = Len(s) + 1
        /\ \A n \in 1..(Len(s) + 1) : t[n] = IF n < k THEN s[n] ELSE IF n = k THEN e ELSE s[n - 1]
    BY InsertAtIs
  <1> HIDE DEF t
  <1>2. Len(s) \in Nat /\ DOMAIN s = 1..Len(s) /\ DOMAIN t = 1..(Len(s) + 1)
    BY <1>1
  <1>3. \A n \in 1..(Len(s) + 1) : n # k =>
            \E m \in 1..Len(s) : t[n] = s[m] /\ m = IF n < k THEN n ELSE n - 1
    BY <1>1, <1>2
  <1>4. t[k] = e
    BY <1>1
  <1>5. \A m \in 1..Len(s) : \E n \in 1..(Len(s) + 1) : t[n] = s[m]
    <2> TAKE m \in 1..Len(s)
    <2>1. CASE m < k
      BY <2>1, <1>1, <1>2
    <2>2. CASE ~(m < k)
      <3>1. m + 1 \in 1..(Len(s) + 1) /\ ~(m + 1 < k) /\ m + 1 # k /\ (m + 1) - 1 = m
        BY <2>2, <1>2
      <3>2. t[m + 1] = s[m]
        BY <3>1, <1>1
      <3> QED
        BY <3>1, <3>2
    <2> QED
      BY <2>1, <2>2
  <1>6. ToSet(t) = ToSet(s) \cup {e}
    <2>1. \A n \in 1..(Len(s) + 1) : t[n] \in ToSet(s) \cup {e}
      BY <1>2, <1>3, <1>4 DEF ToSet
    <2>2. \A m \in 1..Len(s) : s[m] \in ToSet(t)
      BY <1>2, <1>5 DEF ToSet
    <2>3. e \in ToSet(t)
      BY <1>2, <1>4 DEF ToSet
    <2>4. ToSet(t) = {t[n] : n \in 1..(Len(s) + 1)} /\ ToSet(s) = {s[m] : m \in 1..Len(s)}
      BY <1>2 DEF ToSet
    <2> QED
      BY <2>1, <2>2, <2>3, <2>4
  <1>7. ASSUME IsInjective(s), e \notin ToSet(s) PROVE IsInjective(t)
    <2> SUFFICES ASSUME NEW a \in 1..(Len(s) + 1), NEW b \in 1..(Len(s) + 1), t[a] = t[b]
                 PROVE  a = b
      BY <1>2 DEF IsInjective
    <2>1. \A m \in 1..Len(s) : s[m] # e
      BY <1>2, <1>7 DEF ToSet
    <2>2. CASE a = k \/ b = k
      BY <2>1, <2>2, <1>3, <1>4
    <2>3. CASE a # k /\ b # k
      <3>1. PICK m \in 1..Len(s) : t[a] = s[m] /\ m = IF a < k THEN a ELSE a - 1
        BY <2>3, <1>3
      <3>2. PICK n \in 1..Len(s) : t[b] = s[n] /\ n = IF b < k THEN b ELSE b - 1
        BY <2>3, <1>3
      <3>3. m = n
        BY <3>1, <3>2, <1>2, <1>7 DEF IsInjective
      <3> QED
        BY <3>1, <3>2, <3>3, <2>3, <1>2
    <2> QED
      BY <2>2, <2>3
  <1> QED
    BY <1>6, <1>7 DEF t

\* Between the smaller and the greater ones it leaves the list ascending.
LEMMA InsertSorted ==
    ASSUME NEW S, NEW key, \A x \in S : key[x] \in Nat,
           NEW s \in Seq(S), NEW k \in 1..(Len(s) + 1), NEW e \in S, Sorted(s, key),
           \A n \in 1..Len(s) : IF n < k THEN key[s[n]] < key[e] ELSE key[e] < key[s[n]]
    PROVE  Sorted(InsertAt(s, k, e), key)
  <1> DEFINE t == InsertAt(s, k, e)
  <1>1. /\ t \in Seq(S) /\ Len(t) = Len(s) + 1
        /\ \A n \in 1..(Len(s) + 1) : t[n] = IF n < k THEN s[n] ELSE IF n = k THEN e ELSE s[n - 1]
    BY InsertAtIs
  <1> HIDE DEF t
  <1>2. Len(s) \in Nat
    OBVIOUS
  <1>3. ASSUME NEW m \in 1..(Len(s) + 1), NEW n \in 1..(Len(s) + 1), m < n
        PROVE  key[t[m]] < key[t[n]]
    <2>1. CASE n < k
      <3>1. m \in 1..Len(s) /\ n \in 1..Len(s) /\ t[m] = s[m] /\ t[n] = s[n]
        BY <2>1, <1>1, <1>2, <1>3
      <3> QED
        BY <3>1, <1>3 DEF Sorted
    <2>2. CASE n = k
      <3>1. m \in 1..Len(s) /\ m < k /\ t[m] = s[m] /\ t[n] = e
        BY <2>2, <1>1, <1>2, <1>3
      <3> QED
        BY <3>1
    <2>3. CASE n > k
      <3>1. n - 1 \in 1..Len(s) /\ t[n] = s[n - 1] /\ ~(n - 1 < k)
        BY <2>3, <1>1, <1>2, <1>3
      <3>2. key[e] < key[s[n - 1]] /\ s[n - 1] \in S
        BY <3>1
      <3>3. CASE m < k
        <4>1. m \in 1..Len(s) /\ t[m] = s[m] /\ m < n - 1
          BY <3>1, <3>3, <2>3, <1>1, <1>2, <1>3
        <4> QED
          BY <3>1, <4>1 DEF Sorted
      <3>4. CASE m = k
        BY <3>1, <3>2, <3>4, <1>1
      <3>5. CASE m > k
        <4>1. m - 1 \in 1..Len(s) /\ t[m] = s[m - 1] /\ m - 1 < n - 1
          BY <3>5, <1>1, <1>2, <1>3
        <4> QED
          BY <3>1, <4>1 DEF Sorted
      <3> QED
        BY <3>3, <3>4, <3>5, <1>2
    <2> QED
      BY <2>1, <2>2, <2>3, <1>2
  <1> QED
    BY <1>1, <1>3 DEF Sorted, t

\* Removing ids leaves the others, in the order they had.
LEMMA KeptIs ==
    ASSUME NEW ids \in Seq(Ids), IsInjective(ids), NEW removed
    PROVE  /\ Kept(ids, removed) \in Seq(Ids) /\ IsInjective(Kept(ids, removed))
           /\ ToSet(Kept(ids, removed)) = ToSet(ids) \ removed
           /\ \A m, n \in 1..Len(Kept(ids, removed)) : m < n =>
                  \E a, b \in 1..Len(ids) : /\ a < b
                                            /\ ids[a] = Kept(ids, removed)[m]
                                            /\ ids[b] = Kept(ids, removed)[n]
  <1> DEFINE left == {n \in DOMAIN ids : ids[n] \notin removed}
             key == [n \in left |-> n]
             at == InOrder(left, key)
             kept == Kept(ids, removed)
  <1>1. Len(ids) \in Nat /\ DOMAIN ids = 1..Len(ids) /\ left \in SUBSET (1..Len(ids))
    OBVIOUS
  <1>2. IsFiniteSet(left)
    <2>1. IsFiniteSet(1..Len(ids))
      BY <1>1, FS_Interval
    <2> QED
      BY <2>1, <1>1, FS_Subset
  <1>3. PICK c \in Nat : c = Cardinality(left)
    BY <1>2, FS_CardinalityType
  <1>4. Keyed(left, key)
    BY <1>1, <1>2 DEF Keyed
  <1>5. kept = [m \in 1..c |-> ids[at[m]]]
    BY <1>3 DEF Kept
  <1>6. at \in [1..c -> left] /\ \A m, n \in 1..c : m < n => key[at[m]] < key[at[n]]
    BY <1>3, <1>4, InOrderAscends DEF Ascending
  <1>7. at \in Seq(left) /\ ToSet(at) = left /\ DOMAIN at = 1..c
    BY <1>4, <1>6, InOrderLists DEF Lists
  <1>8. \A n \in left : key[n] = n
    OBVIOUS
  <1>9. \A x \in left : x \in 1..Len(ids) /\ ids[x] \notin removed
    BY <1>1
  <1>10. \A x \in 1..Len(ids) : ids[x] \notin removed => x \in left
    BY <1>1
  <1> HIDE DEF left, key, at, kept
  <1>11. \A m, n \in 1..c : m < n => at[m] < at[n]
    BY <1>6, <1>8
  <1>12. kept \in Seq(Ids) /\ Len(kept) = c /\ DOMAIN kept = 1..c
    BY <1>5, <1>6, <1>9, <1>3
  <1>13. \A m \in 1..c : at[m] \in left /\ kept[m] = ids[at[m]]
    BY <1>5, <1>6
  <1>14. \A m, n \in 1..c : m < n =>
             \E a, b \in 1..Len(ids) : a < b /\ ids[a] = kept[m] /\ ids[b] = kept[n]
    BY <1>9, <1>11, <1>13
  <1>15. ASSUME NEW m \in 1..c, NEW n \in 1..c, kept[m] = kept[n] PROVE m = n
    <2>1. at[m] = at[n]
      <3>1. at[m] \in DOMAIN ids /\ at[n] \in DOMAIN ids
        BY <1>1, <1>9, <1>13
      <3>2. ids[at[m]] = ids[at[n]]
        BY <1>13, <1>15
      <3> QED
        BY <3>1, <3>2 DEF IsInjective
    <2>2. at[m] \in Nat
      BY <1>9, <1>13
    <2> QED
      BY <2>1, <2>2, <1>11, <1>3
  <1>16. \A m \in 1..c : kept[m] \in ToSet(ids) \ removed
    BY <1>1, <1>9, <1>13 DEF ToSet
  <1>17. ASSUME NEW x \in 1..Len(ids), ids[x] \notin removed
         PROVE  \E m \in 1..c : kept[m] = ids[x]
    <2>1. \E m \in 1..c : at[m] = x
      BY <1>7, <1>10, <1>17 DEF ToSet
    <2> QED
      BY <2>1, <1>13
  <1>18. ToSet(kept) = {kept[m] : m \in 1..c} /\ ToSet(ids) = {ids[x] : x \in 1..Len(ids)}
    BY <1>1, <1>12 DEF ToSet
  <1>19. ToSet(kept) = ToSet(ids) \ removed
    BY <1>16, <1>17, <1>18
  <1>20. IsInjective(kept)
    BY <1>12, <1>15 DEF IsInjective
  <1> QED
    BY <1>12, <1>14, <1>19, <1>20 DEF kept

\* The lists that the client goes through as it puts in one id after another.
Stages(list, ids, diff, current) ==
    /\ list[0] = Kept(ids, diff.removed)
    /\ \A n \in 1..Len(diff.added) : list[n] = Put(list[n - 1], diff.added[n], current)

\* Splice is the last of them.
LEMMA SpliceStages ==
    ASSUME NEW ids, NEW diff, NEW current, Len(diff.added) \in Nat
    PROVE  \E list : /\ Stages(list, ids, diff, current)
                     /\ Splice(ids, diff, current) = list[Len(diff.added)]
  <1> DEFINE N == Len(diff.added)
             Step(f, n) == IF n = 0 THEN Kept(ids, diff.removed) ELSE Put(f[n - 1], diff.added[n], current)
             Bad == {k \in 0..N : ~\E f : f = [n \in 0..k |-> Step(f, n)]}
  <1>1. N \in Nat
    OBVIOUS
  <1> HIDE DEF N
  <1>2. Bad = {}
    <2> SUFFICES ASSUME Bad # {} PROVE FALSE
      OBVIOUS
    <2>1. PICK k \in Bad : \A j \in Bad : k <= j
      <3>1. Bad \in SUBSET Nat
        BY <1>1
      <3> HIDE DEF Bad
      <3> QED
        BY <3>1, LeastOf
    <2>2. k \in 0..N /\ ~\E f : f = [n \in 0..k |-> Step(f, n)]
      OBVIOUS
    <2>3. CASE k = 0
      <3> DEFINE f == [n \in 0..k |-> Kept(ids, diff.removed)]
      <3>1. f = [n \in 0..k |-> Step(f, n)]
        BY <2>3
      <3> QED
        BY <3>1, <2>2
    <2>4. CASE k # 0
      <3>1. k - 1 \in 0..N /\ k - 1 \notin Bad
        <4>1. k \in 1..N /\ \A j \in Bad : k <= j
          BY <2>1, <2>2, <2>4, <1>1
        <4> HIDE DEF Bad
        <4> QED
          BY <4>1, <1>1
      <3>2. PICK g : g = [n \in 0..(k - 1) |-> Step(g, n)]
        BY <3>1
      <3>5. \A m \in 0..(k - 1) : g[m] = Step(g, m)
        BY <3>2, Zenon
      <3> DEFINE f == [n \in 0..k |-> IF n = k THEN Step(g, k) ELSE g[n]]
      <3>6. f[k] = Step(g, k) /\ \A m \in 0..(k - 1) : f[m] = g[m]
        <4>1. k \in 0..k /\ \A m \in 0..(k - 1) : m \in 0..k /\ m # k
          BY <2>2
        <4> HIDE DEF Step
        <4> QED
          BY <4>1
      <3> HIDE DEF f
      <3>3. ASSUME NEW n \in 0..k PROVE f[n] = Step(f, n)
        <4>1. f[n] = Step(g, n)
          <5> HIDE DEF Step
          <5>1. n = k \/ n \in 0..(k - 1)
            BY <2>2
          <5> QED
            BY <5>1, <3>5, <3>6
        <4>2. CASE n = 0
          BY <4>1, <4>2
        <4>3. CASE n # 0
          <5>1. n - 1 \in 0..(k - 1)
            BY <4>3, <2>2
          <5>2. f[n - 1] = g[n - 1]
            BY <5>1, <3>6
          <5> QED
            BY <4>1, <4>3, <5>2
        <4> QED
          BY <4>2, <4>3
      <3>4. f = [n \in 0..k |-> Step(f, n)]
        <4>1. \A n \in 0..k : f[n] = Step(f, n)
          BY <3>3
        <4>2. f = [n \in 0..k |-> f[n]]
          BY DEF f
        <4> HIDE DEF Step
        <4> QED
          BY <4>1, <4>2
      <3> QED
        BY <3>4, <2>2
    <2> QED
      BY <2>3, <2>4
  <1> DEFINE list == CHOOSE f : f = [n \in 0..N |-> Step(f, n)]
  <1>3. list = [n \in 0..N |-> Step(list, n)]
    <2>1. N \in 0..N
      BY <1>1
    <2>2. \E f : f = [n \in 0..N |-> Step(f, n)]
      BY <2>1, <1>2
    <2> QED
      BY <2>2, Zenon
  <1>4. Splice(ids, diff, current) = list[N]
    BY DEF Splice, N
  <1> HIDE DEF list
  <1>5. list[0] = Kept(ids, diff.removed)
    BY <1>1, <1>3
  <1>6. \A n \in 1..N : list[n] = Put(list[n - 1], diff.added[n], current)
    BY <1>1, <1>3
  <1>7. Stages(list, ids, diff, current)
    BY <1>5, <1>6 DEF Stages, N
  <1> QED
    BY <1>4, <1>7 DEF N

\* An id has an index in a list that names it.
LEMMA IndexIs ==
    ASSUME NEW S, NEW s \in Seq(S), NEW i \in ToSet(s)
    PROVE  Index(s, i) \in 1..Len(s) /\ s[Index(s, i)] = i
  <1>1. \E n \in DOMAIN s : s[n] = i
    BY DEF ToSet
  <1>2. Index(s, i) \in DOMAIN s /\ s[Index(s, i)] = i
    BY <1>1 DEF Index
  <1> QED
    BY <1>2

\* Where Put puts it.
LEMMA PutIs ==
    ASSUME NEW S, NEW s \in Seq(S), NEW i, NEW current, Index(current, i) \in Nat \ {0}
    PROVE  \E k \in 1..(Len(s) + 1) :
               /\ Put(s, i, current) = InsertAt(s, k, i)
               /\ Index(current, i) <= Len(s) + 1 => k = Index(current, i)
  <1> DEFINE x == Index(current, i)
             k == Min({x, Len(s) + 1})
  <1>1. x \in Nat \ {0} /\ Len(s) \in Nat
    OBVIOUS
  <1> HIDE DEF x
  <1>2. k \in {x, Len(s) + 1} /\ k <= x /\ k <= Len(s) + 1
    <2>1. \E m \in {x, Len(s) + 1} : \A y \in {x, Len(s) + 1} : m <= y
      BY <1>1
    <2> QED
      BY <2>1 DEF Min
  <1>3. k \in 1..(Len(s) + 1) /\ (x <= Len(s) + 1 => k = x)
    BY <1>1, <1>2
  <1>4. Put(s, i, current) = InsertAt(s, k, i)
    BY DEF Put, x
  <1> HIDE DEF k
  <1> QED
    BY <1>3, <1>4 DEF x

\* Members of the splice: what is not removed, and what is added.
LEMMA StageMembers ==
    ASSUME NEW ids \in Seq(Ids), IsInjective(ids), NEW current \in Seq(Ids), NEW diff,
           diff.added \in Seq(Ids), IsInjective(diff.added),
           ToSet(diff.added) \in SUBSET (ToSet(current) \cap diff.removed),
           NEW list, Stages(list, ids, diff, current)
    PROVE  \A n \in 0..Len(diff.added) :
               /\ list[n] \in Seq(Ids) /\ IsInjective(list[n])
               /\ ToSet(list[n]) = (ToSet(ids) \ diff.removed) \cup {diff.added[m] : m \in 1..n}
  <1> DEFINE N == Len(diff.added)
             put(n) == {diff.added[m] : m \in 1..n}
             Good(n) == /\ list[n] \in Seq(Ids) /\ IsInjective(list[n])
                        /\ ToSet(list[n]) = (ToSet(ids) \ diff.removed) \cup put(n)
             Bad == {n \in 0..N : ~Good(n)}
  <1>1. SUFFICES ASSUME Bad # {} PROVE FALSE
    OBVIOUS
  <1>2. N \in Nat
    OBVIOUS
  <1>3. PICK n \in Bad : \A m \in Bad : n <= m
    <2>1. Bad \in SUBSET Nat
      BY <1>2
    <2> HIDE DEF Bad
    <2> QED
      BY <2>1, <1>1, LeastOf
  <1>4. n # 0
    <2>1. list[0] = Kept(ids, diff.removed)
      BY DEF Stages
    <2>2. put(0) = {}
      OBVIOUS
    <2>3. Good(0)
      BY <2>1, <2>2, KeptIs
    <2> QED
      BY <2>3, <1>3
  <1>5. n \in 1..N /\ n - 1 \in 0..N /\ Good(n - 1)
    <2>1. n \in 1..N /\ n - 1 \in 0..N /\ n - 1 \notin Bad
      <3>1. n \in 0..N
        BY <1>3
      <3> HIDE DEF Bad
      <3> QED
        BY <3>1, <1>2, <1>3, <1>4
    <2> QED
      BY <2>1
  <1> DEFINE s == list[n - 1]
             i == diff.added[n]
  <1>6. i \in Ids /\ i \in ToSet(diff.added) /\ DOMAIN diff.added = 1..N
    BY <1>5 DEF ToSet
  <1>7. i \in ToSet(current) /\ i \in diff.removed
    BY <1>6
  <1>8. i \notin put(n - 1)
    <2>1. \A m \in 1..(n - 1) : m \in 1..N /\ m # n
      BY <1>5
    <2> QED
      BY <2>1, <1>5, <1>6 DEF IsInjective
  <1>9. i \notin ToSet(s)
    BY <1>5, <1>7, <1>8
  <1>10. Index(current, i) \in Nat \ {0}
    BY <1>7, IndexIs
  <1>11. PICK k \in 1..(Len(s) + 1) : Put(s, i, current) = InsertAt(s, k, i)
    BY <1>5, <1>10, PutIs
  <1>12. list[n] = InsertAt(s, k, i)
    BY <1>5, <1>11 DEF Stages
  <1>13. put(n) = put(n - 1) \cup {i}
    <2>1. \A m : m \in 1..n <=> m \in 1..(n - 1) \/ m = n
      BY <1>5
    <2> QED
      BY <2>1
  <1> HIDE DEF s, i, put
  <1>14. /\ InsertAt(s, k, i) \in Seq(Ids) /\ IsInjective(InsertAt(s, k, i))
         /\ ToSet(InsertAt(s, k, i)) = ToSet(s) \cup {i}
    <2>1. s \in Seq(Ids) /\ IsInjective(s)
      BY <1>5 DEF s
    <2> QED
      BY <2>1, <1>6, <1>9, InsertAtIs, InsertMembers
  <1>15. ToSet(s) = (ToSet(ids) \ diff.removed) \cup put(n - 1)
    BY <1>5 DEF s
  <1>16. Good(n)
    BY <1>12, <1>13, <1>14, <1>15
  <1> QED
    BY <1>3, <1>16

\* Put keeps a list ascending that has all that comes before the new id.
LEMMA PutSorted ==
    ASSUME NEW S, NEW key, Keyed(S, key), NEW current, Lists(current, S, key),
           NEW s \in Seq(S), Sorted(s, key), NEW e \in S, e \notin ToSet(s),
           \A y \in 1..Len(current) : y < Index(current, e) => current[y] \in ToSet(s)
    PROVE  Sorted(Put(s, e, current), key)
  <1> DEFINE x == Index(current, e)
  <1>1. current \in Seq(S) /\ Sorted(current, key) /\ ToSet(current) = S
    BY DEF Lists
  <1>2. x \in 1..Len(current) /\ current[x] = e
    BY <1>1, IndexIs
  <1>3. \A y \in 1..Len(current) : y < x => current[y] \in ToSet(s)
    OBVIOUS
  <1> HIDE DEF x
  <1>4. Len(current) \in Nat /\ Len(s) \in Nat /\ x \in Nat \ {0}
    BY <1>1, <1>2
  <1>5. \A z \in S : key[z] \in Nat
    BY DEF Keyed
  <1>6. \A m \in 1..Len(s) : s[m] \in S /\ s[m] \in ToSet(s) /\ \E p \in 1..Len(current) : current[p] = s[m]
    <2>1. \A m \in 1..Len(s) : s[m] \in S /\ s[m] \in ToSet(s)
      BY DEF ToSet
    <2>2. \A z \in ToSet(current) : \E p \in 1..Len(current) : current[p] = z
      BY <1>1 DEF ToSet
    <2> QED
      BY <2>1, <2>2, <1>1
  <1>7. \A y \in 1..(x - 1) : y <= Len(s) /\ s[y] = current[y]
    <2>1. PICK k \in 0..Len(current) : k = x - 1
      BY <1>2, <1>4
    <2>2. \A y \in 1..k : current[y] \in ToSet(s)
      BY <2>1, <1>3, <1>4
    <2>3. \A m \in 1..Len(s) : s[m] \in ToSet(current)
      BY <1>1, <1>6
    <2>4. \A y \in 1..k : y <= Len(s) /\ s[y] = current[y]
      BY <2>2, <2>3, <1>1, <1>5, SamePrefix, SMTT(30)
    <2> QED
      BY <2>1, <2>4
  <1>8. x \in 1..(Len(s) + 1)
    <2>1. CASE x = 1
      BY <2>1, <1>4
    <2>2. CASE x # 1
      <3>1. x - 1 \in 1..(x - 1)
        BY <2>2, <1>4
      <3>2. x - 1 <= Len(s)
        BY <3>1, <1>7
      <3> QED
        BY <3>2, <1>4
    <2> QED
      BY <2>1, <2>2
  <1>9. Put(s, e, current) = InsertAt(s, x, e)
    <2>1. \E k \in 1..(Len(s) + 1) : /\ Put(s, e, current) = InsertAt(s, k, e)
                                     /\ x <= Len(s) + 1 => k = x
      BY <1>4, PutIs DEF x
    <2> QED
      BY <2>1, <1>4, <1>8
  <1>10. ASSUME NEW m \in 1..Len(s)
         PROVE  IF m < x THEN key[s[m]] < key[e] ELSE key[e] < key[s[m]]
    <2>1. PICK p \in 1..Len(current) : current[p] = s[m]
      BY <1>6
    <2>2. CASE m < x
      <3>1. m \in 1..(x - 1) /\ m \in 1..Len(current)
        BY <2>2, <1>2, <1>4
      <3>2. s[m] = current[m]
        BY <3>1, <1>7
      <3> QED
        BY <3>1, <3>2, <2>2, <1>1, <1>2 DEF Sorted
    <2>3. CASE ~(m < x)
      <3>1. p # x
        BY <2>1, <1>2, <1>6
      <3>2. ASSUME p < x PROVE FALSE
        <4>1. p \in 1..(x - 1)
          BY <3>2, <1>4
        <4>2. p \in 1..Len(s) /\ s[p] = s[m] /\ p < m
          BY <4>1, <3>2, <2>1, <2>3, <1>4, <1>7
        <4>3. key[s[p]] < key[s[m]]
          BY <4>2 DEF Sorted
        <4> QED
          BY <4>2, <4>3, <1>5, <1>6
      <3>3. x < p
        BY <3>1, <3>2, <1>2, <1>4
      <3> QED
        BY <3>3, <2>1, <2>3, <1>1, <1>2 DEF Sorted
    <2> QED
      BY <2>2, <2>3
  <1>11. Sorted(InsertAt(s, x, e), key)
    BY <1>5, <1>8, <1>10, InsertSorted
  <1> QED
    BY <1>9, <1>11

\* When the list starts as the rest of S, ascending, it stays ascending.
LEMMA StageSorted ==
    ASSUME NEW S, NEW key, Keyed(S, key), NEW current, Lists(current, S, key),
           NEW fresh \in SUBSET S, NEW ids, NEW diff,
           Lists(diff.added, fresh, [i \in fresh |-> Index(current, i)]),
           NEW list, Stages(list, ids, diff, current), Sorted(list[0], key),
           \A n \in 0..Len(diff.added) :
               /\ list[n] \in Seq(S)
               /\ ToSet(list[n]) = (S \ fresh) \cup {diff.added[m] : m \in 1..n}
    PROVE  \A n \in 0..Len(diff.added) : Sorted(list[n], key)
  <1> DEFINE N == Len(diff.added)
             added == diff.added
             Bad == {n \in 0..N : ~Sorted(list[n], key)}
  <1>1. SUFFICES ASSUME Bad # {} PROVE FALSE
    OBVIOUS
  <1>2. /\ added \in Seq(fresh) /\ ToSet(added) = fresh
        /\ \A m, n \in 1..N : m < n => Index(current, added[m]) < Index(current, added[n])
    <2>1. added \in Seq(fresh) /\ ToSet(added) = fresh
          /\ Sorted(added, [i \in fresh |-> Index(current, i)])
      BY DEF Lists
    <2>2. \A m \in 1..N : added[m] \in fresh
      BY <2>1
    <2> QED
      BY <2>1, <2>2 DEF Sorted
  <1>3. current \in Seq(S) /\ Sorted(current, key) /\ ToSet(current) = S
    BY DEF Lists
  <1>4. N \in Nat /\ DOMAIN added = 1..N
    BY <1>2
  <1>5. PICK n \in Bad : \A m \in Bad : n <= m
    <2>1. Bad \in SUBSET Nat
      BY <1>4
    <2> HIDE DEF Bad
    <2> QED
      BY <2>1, <1>1, LeastOf
  <1>6. n \in 1..N /\ n - 1 \in 0..N /\ Sorted(list[n - 1], key)
    <2>1. n \in 0..N /\ ~Sorted(list[n], key)
      BY <1>5
    <2>2. n # 0
      BY <2>1
    <2>3. n - 1 \notin Bad
      <3> HIDE DEF Bad
      <3> QED
        BY <2>1, <1>4, <1>5
    <2> QED
      BY <2>1, <2>2, <2>3, <1>4
  <1> DEFINE s == list[n - 1]
             e == added[n]
             put == {added[m] : m \in 1..(n - 1)}
  <1>7. s \in Seq(S) /\ ToSet(s) = (S \ fresh) \cup put /\ Sorted(s, key)
    BY <1>6
  <1>8. e \in fresh /\ e \in S
    BY <1>2, <1>6
  <1>9. \A i \in fresh : Index(current, i) \in Nat /\ Index(current, i) \in 1..Len(current)
    BY <1>3, IndexIs
  <1>10. \A m \in 1..N : added[m] \in fresh
    BY <1>2
  <1>11. e \notin ToSet(s)
    <2>1. ASSUME NEW m \in 1..(n - 1) PROVE added[m] # e
      <3>1. m \in 1..N /\ m < n
        BY <1>6
      <3>2. Index(current, added[m]) < Index(current, e) /\ Index(current, e) \in Nat
        BY <3>1, <1>2, <1>6, <1>8, <1>9
      <3> QED
        BY <3>2
    <2> QED
      BY <2>1, <1>7, <1>8
  <1>12. ASSUME NEW y \in 1..Len(current), y < Index(current, e)
         PROVE  current[y] \in ToSet(s)
    <2>1. current[y] \in S
      BY <1>3
    <2>2. CASE current[y] \notin fresh
      BY <2>1, <2>2, <1>7
    <2>3. CASE current[y] \in fresh
      <3>1. PICK m \in 1..N : added[m] = current[y]
        BY <2>3, <1>2, <1>4 DEF ToSet
      <3>2. Index(current, current[y]) = y
        <4>1. Index(current, current[y]) \in 1..Len(current) /\ current[Index(current, current[y])] = current[y]
          BY <2>1, <1>3, IndexIs
        <4>2. \A a, b \in 1..Len(current) : a < b => key[current[a]] < key[current[b]]
          BY <1>3 DEF Sorted
        <4>3. key[current[y]] \in Nat
          BY <2>1 DEF Keyed
        <4>4. Len(current) \in Nat
          BY <1>3
        <4> QED
          BY <4>1, <4>2, <4>3, <4>4
      <3>3. Index(current, added[m]) < Index(current, e)
        BY <3>1, <3>2, <1>12
      <3>4. m < n
        <4>1. Index(current, added[m]) \in Nat /\ Index(current, e) \in Nat
          BY <1>8, <1>9, <1>10
        <4>2. ~(n < m)
          BY <3>3, <4>1, <1>2, <1>6
        <4>3. n # m
          BY <3>3, <4>1
        <4> QED
          BY <4>2, <4>3, <1>6, <1>4
      <3>5. m \in 1..(n - 1)
        BY <3>4, <1>6
      <3> QED
        BY <3>1, <3>5, <1>7
    <2> QED
      BY <2>2, <2>3
  <1>13. list[n] = Put(s, e, current)
    BY <1>6 DEF Stages
  <1> HIDE DEF s, e
  <1>14. Sorted(Put(s, e, current), key)
    BY <1>7, <1>8, <1>11, <1>12, PutSorted
  <1> QED
    BY <1>5, <1>13, <1>14

\* What a splice leaves: the ids that are not removed, and those that are added.
LEMMA SpliceMembers ==
    ASSUME NEW ids \in Seq(Ids), IsInjective(ids), NEW current \in Seq(Ids), NEW diff,
           diff.added \in Seq(Ids), IsInjective(diff.added),
           ToSet(diff.added) \in SUBSET (ToSet(current) \cap diff.removed)
    PROVE  /\ Splice(ids, diff, current) \in Seq(Ids) /\ IsInjective(Splice(ids, diff, current))
           /\ ToSet(Splice(ids, diff, current)) = (ToSet(ids) \ diff.removed) \cup ToSet(diff.added)
  <1> DEFINE N == Len(diff.added)
  <1>1. N \in 0..N /\ ToSet(diff.added) = {diff.added[m] : m \in 1..N}
    BY DEF ToSet
  <1>2. PICK list : Stages(list, ids, diff, current) /\ Splice(ids, diff, current) = list[N]
    BY <1>1, SpliceStages
  <1>3. /\ list[N] \in Seq(Ids) /\ IsInjective(list[N])
        /\ ToSet(list[N]) = (ToSet(ids) \ diff.removed) \cup {diff.added[m] : m \in 1..N}
    <2>1. \A n \in 0..N : list[n] \in Seq(Ids) /\ IsInjective(list[n])
      BY <1>2, StageMembers
    <2>2. ASSUME NEW n \in 0..N
          PROVE  ToSet(list[n]) = (ToSet(ids) \ diff.removed) \cup {diff.added[m] : m \in 1..n}
      BY <1>2, StageMembers
    <2> QED
      BY <2>1, <2>2, <1>1
  <1> HIDE DEF N
  <1> QED
    BY <1>1, <1>2, <1>3

\* An ascending list of distinct keys names nothing twice.
LEMMA SortedInjective ==
    ASSUME NEW S, NEW key, \A x \in S : key[x] \in Nat, NEW s \in Seq(S), Sorted(s, key)
    PROVE  IsInjective(s)
  <1>1. DOMAIN s = 1..Len(s) /\ Len(s) \in Nat /\ \A n \in 1..Len(s) : key[s[n]] \in Nat
    OBVIOUS
  <1> SUFFICES ASSUME NEW a \in 1..Len(s), NEW b \in 1..Len(s), s[a] = s[b]
               PROVE  a = b
    BY <1>1 DEF IsInjective
  <1>2. ~(a < b) /\ ~(b < a)
    BY <1>1 DEF Sorted
  <1> QED
    BY <1>2, <1>1

\* A list that is right but for what the diff reports becomes the result.
LEMMA SpliceExact ==
    ASSUME NEW S \in SUBSET Ids, NEW key, Keyed(S, key), NEW current, Lists(current, S, key),
           NEW ids \in Seq(Ids), IsInjective(ids), NEW diff,
           NEW fresh \in SUBSET S, fresh \in SUBSET diff.removed,
           Lists(diff.added, fresh, [i \in fresh |-> Index(current, i)]),
           \A i \in Ids : i \in ToSet(ids) /\ i \notin diff.removed <=> i \in S /\ i \notin fresh,
           \A a, b \in 1..Len(ids) :
               a < b /\ ids[a] \notin diff.removed /\ ids[b] \notin diff.removed => key[ids[a]] < key[ids[b]]
    PROVE  Splice(ids, diff, current) = InOrder(S, key)
  <1> DEFINE N == Len(diff.added)
             kept == Kept(ids, diff.removed)
  <1>1. /\ diff.added \in Seq(fresh) /\ ToSet(diff.added) = fresh
        /\ Sorted(diff.added, [i \in fresh |-> Index(current, i)])
        /\ current \in Seq(S) /\ ToSet(current) = S
    BY DEF Lists
  <1>2. diff.added \in Seq(Ids) /\ current \in Seq(Ids) /\ N \in Nat /\ fresh \in SUBSET Ids
        /\ ToSet(diff.added) = {diff.added[m] : m \in 1..N}
    BY <1>1 DEF ToSet
  <1>3. IsInjective(diff.added)
    <2>1. \A i \in fresh : [j \in fresh |-> Index(current, j)][i] \in Nat
      BY <1>1, IndexIs
    <2> QED
      BY <1>1, <2>1, SortedInjective
  <1>4. PICK list : Stages(list, ids, diff, current) /\ Splice(ids, diff, current) = list[N]
    BY <1>2, SpliceStages
  <1>5. \A n \in 0..N : /\ list[n] \in Seq(Ids)
                        /\ ToSet(list[n]) = (ToSet(ids) \ diff.removed) \cup {diff.added[m] : m \in 1..n}
    <2>1. ToSet(diff.added) \in SUBSET (ToSet(current) \cap diff.removed)
      BY <1>1
    <2> QED
      BY <2>1, <1>2, <1>3, <1>4, StageMembers, SMTT(30)
  <1>6. ToSet(ids) \in SUBSET Ids
    BY DEF ToSet
  <1>7. ToSet(ids) \ diff.removed = S \ fresh
    BY <1>6
  <1> HIDE DEF N
  <1>8. \A n \in 0..N : /\ list[n] \in Seq(S)
                        /\ ToSet(list[n]) = (S \ fresh) \cup {diff.added[m] : m \in 1..n}
    <2> SUFFICES ASSUME NEW n \in 0..N
                 PROVE  /\ list[n] \in Seq(S)
                        /\ ToSet(list[n]) = (S \ fresh) \cup {diff.added[m] : m \in 1..n}
      OBVIOUS
    <2>1. list[n] \in Seq(Ids) /\ ToSet(list[n]) = (S \ fresh) \cup {diff.added[m] : m \in 1..n}
      BY <1>5, <1>7
    <2>2. \A m \in 1..n : diff.added[m] \in S
      BY <1>1, <1>2
    <2>3. \A m \in 1..Len(list[n]) : list[n][m] \in ToSet(list[n])
      BY <2>1 DEF ToSet
    <2>4. \A m \in 1..Len(list[n]) : list[n][m] \in S
      BY <2>1, <2>2, <2>3
    <2>5. list[n] \in Seq(S)
      BY <2>1, <2>4
    <2> QED
      BY <2>1, <2>5
  <1>9. list[0] = kept
    BY <1>4 DEF Stages
  <1>10. Sorted(kept, key)
    <2>1. /\ kept \in Seq(Ids) /\ ToSet(kept) = ToSet(ids) \ diff.removed
          /\ \A m, n \in 1..Len(kept) : m < n =>
                 \E a, b \in 1..Len(ids) : a < b /\ ids[a] = kept[m] /\ ids[b] = kept[n]
      BY KeptIs
    <2>2. \A m \in 1..Len(kept) : kept[m] \notin diff.removed
      BY <2>1 DEF ToSet
    <2> HIDE DEF kept
    <2>3. ASSUME NEW m \in 1..Len(kept), NEW n \in 1..Len(kept), m < n
          PROVE  key[kept[m]] < key[kept[n]]
      <3>1. PICK a, b \in 1..Len(ids) : a < b /\ ids[a] = kept[m] /\ ids[b] = kept[n]
        BY <2>1, <2>3
      <3>2. ids[a] \notin diff.removed /\ ids[b] \notin diff.removed
        BY <2>2, <3>1
      <3> QED
        BY <3>1, <3>2
    <2> QED
      BY <2>3 DEF Sorted
  <1>11. \A n \in 0..N : Sorted(list[n], key)
    BY <1>4, <1>8, <1>9, <1>10, StageSorted DEF N
  <1>12. N \in 0..N
    BY <1>2
  <1>13. ToSet(list[N]) = S
    BY <1>1, <1>2, <1>8, <1>12
  <1>14. Lists(list[N], S, key)
    BY <1>8, <1>11, <1>12, <1>13 DEF Lists
  <1> QED
    BY <1>4, <1>14, OnlyInOrder

-----------------------------------------------------------------------------
(* The invariant *)

\* Object i has not changed since the state that the client's list is of.
Settled(i) == \A r \in RowsOf(i) : r.seq <= follower.token

QueryTypeOK == place \in [Ids -> Nat] /\ follower \in Follower

\* The order is total, and only stored objects are in it.
PlacesTellApart ==
    \A i \in Ids : /\ place[i] # 0 => table[Watched][i] # 0
                   /\ \A j \in Ids : place[i] # 0 /\ place[i] = place[j] => i = j

\* A query state is a number of the past.
QueryStateIsPast == follower.token <= Highest(recorded)

\* What has not changed since is in the list exactly when it matches.
SettledRight ==
    follower.has => \A i \in Ids : Settled(i) => (i \in ToSet(follower.ids) <=> place[i] # 0)

\* A list that can still be updated names only objects that existed by then.
ListedIsOld ==
    follower.has /\ follower.token >= pruned =>
        \A i \in ToSet(follower.ids) : \E r \in RowsOf(i) : r.seq <= follower.token

ListedOnce == IsInjective(follower.ids)

\* What has not changed since is in order, but after a diff that was cut short.
SettledInOrder ==
    ~follower.cut =>
        \A a, b \in 1..Len(follower.ids) :
            a < b /\ Settled(follower.ids[a]) /\ Settled(follower.ids[b]) =>
                place[follower.ids[a]] < place[follower.ids[b]]

QueryInv ==
    /\ QueryTypeOK
    /\ PlacesTellApart
    /\ QueryStateIsPast
    /\ SettledRight
    /\ ListedIsOld
    /\ ListedOnce
    /\ SettledInOrder

\* For the change log, the calls of this client are nothing that happens.
LEMMA QueryStepIsLogStep == QueryNext => Next \/ UNCHANGED vars
  BY ChangeLogAssumption
     DEF QueryNext, WriteAt, WriteOther, Prune, Follow, Query, AskQueryChanges, QueryChangesRefused, Next

\* Without a list there is nothing to be wrong.
LEMMA InitQuery == QueryInit => QueryInv
  <1> SUFFICES ASSUME QueryInit PROVE QueryInv
    OBVIOUS
  <1>1. /\ place = [i \in Ids |-> 0] /\ follower = NoList /\ recorded = {}
    BY DEF QueryInit, Init
  <1>2. /\ follower.has = FALSE /\ follower.token = 0 /\ follower.ids = <<>> /\ follower \in Follower
    BY <1>1 DEF NoList, Follower
  <1>3. Highest(recorded) = 0
    BY <1>1 DEF Highest
  <1>4. IsInjective(follower.ids) /\ Len(follower.ids) = 0
    BY <1>2 DEF IsInjective
  <1> QED
    BY <1>1, <1>2, <1>3, <1>4
       DEF QueryInv, QueryTypeOK, PlacesTellApart, QueryStateIsPast, SettledRight, ListedIsOld,
           ListedOnce, SettledInOrder

\* A write is recorded after all that was.
LEMMA WriteAppends ==
    ASSUME IInv, NEW t \in Types, NEW i \in Ids, NEW change \in Changes, Write(t, i, change)
    PROVE  \E n \in Nat, row \in Row :
               /\ row.seq = n + 1 /\ row.type = t /\ row.object = i
               /\ Highest(recorded) = n /\ Highest(recorded)' = n + 1
               /\ recorded' = recorded \cup {row} /\ pruned' = pruned
               /\ table' = [table EXCEPT ![t][i] = IF change = "destroyed" THEN 0 ELSE n + 1]
  <1>1. PICK n \in Nat : Highest(log) = n /\ Highest(recorded) = n /\ \A r \in recorded : r.seq \in 1..n
    BY Recorded, HighestRecorded
  <1> DEFINE row == [seq |-> n + 1, type |-> t, object |-> i, change |-> change]
  <1>2. /\ recorded' = recorded \cup {row} /\ pruned' = pruned
        /\ table' = [table EXCEPT ![t][i] = IF change = "destroyed" THEN 0 ELSE n + 1]
    BY <1>1 DEF Write, AppendChange
  <1>3. row.seq = n + 1 /\ row.type = t /\ row.object = i /\ row \in Row
    BY DEF Row
  <1> HIDE DEF row
  <1>4. Highest(recorded)' = n + 1
    <2>1. \A r \in recorded' : r.seq \in 1..(n + 1)
      BY <1>1, <1>2, <1>3
    <2>2. row \in recorded'
      BY <1>2
    <2>3. /\ Highest(recorded') \in Nat /\ n + 1 <= Highest(recorded')
          /\ \E r \in recorded' : r.seq = Highest(recorded')
      BY <1>3, <2>1, <2>2, HighestOf
    <2> QED
      BY <2>1, <2>3
  <1> QED
    BY <1>1, <1>2, <1>3, <1>4

\* A write unsettles its object, and only that.
LEMMA WriteAtQuery ==
    ASSUME IInv, QueryInv, NEW i \in Ids, NEW change \in Changes, NEW p \in Places \cup {0},
           WriteAt(i, change, p)
    PROVE  QueryInv'
  <1>1. Write(Watched, i, change) /\ Watched \in Types
    BY ChangeLogAssumption DEF WriteAt
  <1>2. /\ p # 0 => change # "destroyed" /\ \A j \in Ids \ {i} : place[j] # p
        /\ place' = [place EXCEPT ![i] = p] /\ follower' = follower
    BY DEF WriteAt
  <1>3. PICK n \in Nat, row \in Row :
            /\ row.seq = n + 1 /\ row.type = Watched /\ row.object = i
            /\ Highest(recorded) = n /\ Highest(recorded)' = n + 1
            /\ recorded' = recorded \cup {row} /\ pruned' = pruned
            /\ table' = [table EXCEPT ![Watched][i] = IF change = "destroyed" THEN 0 ELSE n + 1]
    BY <1>1, WriteAppends
  <1>4. /\ RowsOf(i)' = RowsOf(i) \cup {row}
        /\ \A j \in Ids \ {i} : RowsOf(j)' = RowsOf(j)
    BY <1>3 DEF RowsOf, OfType
  <1>5. /\ place \in [Ids -> Nat] /\ follower \in Follower /\ follower.token \in Nat
        /\ follower.token <= n /\ follower.ids \in Seq(Ids)
    BY <1>3 DEF QueryInv, QueryTypeOK, QueryStateIsPast, Follower
  <1>6. place'[i] = p /\ \A j \in Ids \ {i} : place'[j] = place[j]
    BY <1>2, <1>5
  <1>7. /\ table'[Watched][i] = IF change = "destroyed" THEN 0 ELSE n + 1
        /\ \A j \in Ids \ {i} : table'[Watched][j] = table[Watched][j]
    BY <1>1, <1>3 DEF IInv, TypeOK
  <1>8. ~Settled(i)' /\ \A j \in Ids \ {i} : Settled(j)' <=> Settled(j)
    <2>1. row \in RowsOf(i)' /\ ~(row.seq <= follower.token)
      BY <1>3, <1>4, <1>5
    <2> QED
      BY <2>1, <1>2, <1>4 DEF Settled
  <1>9. QueryTypeOK'
    BY <1>2, <1>5, QueryChangesAssumption DEF QueryTypeOK
  <1>10. PlacesTellApart'
    <2>1. \A j \in Ids : place'[j] # 0 => table'[Watched][j] # 0
      BY <1>2, <1>6, <1>7 DEF QueryInv, PlacesTellApart
    <2>2. ASSUME NEW j \in Ids, NEW k \in Ids, place'[j] # 0, place'[j] = place'[k] PROVE j = k
      BY <2>2, <1>2, <1>6 DEF QueryInv, PlacesTellApart
    <2> QED
      BY <2>1, <2>2 DEF PlacesTellApart
  <1>11. QueryStateIsPast'
    BY <1>2, <1>3, <1>5 DEF QueryStateIsPast
  <1>12. SettledRight'
    BY <1>2, <1>6, <1>8 DEF QueryInv, SettledRight
  <1>13. ListedIsOld'
    <2>1. \A j \in ToSet(follower.ids) : RowsOf(j) \in SUBSET RowsOf(j)'
      BY <1>4, <1>5 DEF ToSet
    <2> QED
      BY <2>1, <1>2, <1>3 DEF QueryInv, ListedIsOld
  <1>14. ListedOnce'
    BY <1>2 DEF QueryInv, ListedOnce
  <1>15. SettledInOrder'
    <2> SUFFICES ASSUME ~follower.cut, NEW a \in 1..Len(follower.ids), NEW b \in 1..Len(follower.ids), a < b,
                        Settled(follower.ids[a])', Settled(follower.ids[b])'
                 PROVE  place'[follower.ids[a]] < place'[follower.ids[b]]
      BY <1>2 DEF SettledInOrder
    <2>1. follower.ids[a] \in Ids /\ follower.ids[b] \in Ids
      BY <1>5
    <2>2. follower.ids[a] # i /\ follower.ids[b] # i
      BY <1>2, <1>8
    <2>3. Settled(follower.ids[a]) /\ Settled(follower.ids[b])
      BY <2>1, <2>2, <1>2, <1>8
    <2> QED
      BY <2>1, <2>2, <2>3, <1>6 DEF QueryInv, SettledInOrder
  <1> QED
    BY <1>9, <1>10, <1>11, <1>12, <1>13, <1>14, <1>15 DEF QueryInv

\* What the invariant looks at besides the client's list: no more was recorded
\* of the type, its objects are as they were, and no pruning was undone.
LEMMA UndisturbedQuery ==
    ASSUME QueryInv, UNCHANGED <<place, follower>>, table'[Watched] = table[Watched],
           OfType(recorded, Watched)' = OfType(recorded, Watched),
           pruned \in Nat, pruned' \in Nat, pruned <= pruned',
           Highest(recorded) \in Nat, Highest(recorded)' \in Nat,
           Highest(recorded) <= Highest(recorded)'
    PROVE  QueryInv'
  <1>1. \A i \in Ids : RowsOf(i)' = RowsOf(i) /\ (Settled(i)' <=> Settled(i))
    BY DEF RowsOf, Settled
  <1>2. follower.token \in Nat /\ follower.ids \in Seq(Ids)
    BY DEF QueryInv, QueryTypeOK, Follower
  <1>3. QueryTypeOK' /\ PlacesTellApart' /\ ListedOnce'
    BY DEF QueryInv, QueryTypeOK, PlacesTellApart, ListedOnce
  <1>4. QueryStateIsPast'
    BY <1>2 DEF QueryInv, QueryStateIsPast
  <1>5. SettledRight'
    BY <1>1 DEF QueryInv, SettledRight
  <1>6. ListedIsOld'
    <2>1. ToSet(follower.ids) \in SUBSET Ids
      BY <1>2 DEF ToSet
    <2> QED
      BY <2>1, <1>1, <1>2 DEF QueryInv, ListedIsOld
  <1>7. SettledInOrder'
    <2>1. \A a \in 1..Len(follower.ids) : Settled(follower.ids[a])' <=> Settled(follower.ids[a])
      BY <1>1, <1>2
    <2> QED
      BY <2>1 DEF QueryInv, SettledInOrder
  <1> QED
    BY <1>3, <1>4, <1>5, <1>6, <1>7 DEF QueryInv

\* Other types share the counter, and nothing else.
LEMMA WriteOtherQuery ==
    ASSUME IInv, QueryInv, NEW t \in Types, NEW i \in Ids, NEW change \in Changes,
           WriteOther(t, i, change)
    PROVE  QueryInv'
  <1>1. t # Watched /\ Write(t, i, change) /\ UNCHANGED <<place, follower>>
    BY DEF WriteOther
  <1>2. PICK n \in Nat, row \in Row :
            /\ row.seq = n + 1 /\ row.type = t /\ row.object = i
            /\ Highest(recorded) = n /\ Highest(recorded)' = n + 1
            /\ recorded' = recorded \cup {row} /\ pruned' = pruned
            /\ table' = [table EXCEPT ![t][i] = IF change = "destroyed" THEN 0 ELSE n + 1]
    BY <1>1, WriteAppends
  <1>3. OfType(recorded, Watched)' = OfType(recorded, Watched)
    BY <1>1, <1>2 DEF OfType
  <1>4. table'[Watched] = table[Watched] /\ pruned \in Nat
    BY <1>1, <1>2, ChangeLogAssumption DEF IInv, TypeOK
  <1> QED
    BY <1>1, <1>2, <1>3, <1>4, UndisturbedQuery

\* Pruning can only refuse what was answered before.
LEMMA PruneQuery ==
    ASSUME IInv, QueryInv, Prune
    PROVE  QueryInv'
  <1>1. PruneChangeLog /\ UNCHANGED <<place, follower, recorded, table>>
    BY DEF Prune, PruneChangeLog
  <1>2. pruned \in Nat /\ pruned' \in Nat /\ pruned <= pruned'
    BY <1>1, PruneIInv DEF IInv, TypeOK
  <1>3. Highest(log) \in Nat /\ Highest(recorded) \in Nat
    BY Recorded, HighestRecorded
  <1> QED
    BY <1>1, <1>2, <1>3, UndisturbedQuery DEF OfType, Highest, Seqs

\* A current state that can still be answered is later than all the type's rows.
\* (It is 0 when pruning has left no row of the type.)
LEMMA CurrentIsKnown ==
    ASSUME IInv, FollowInv
    PROVE  /\ CurrentState(Watched) \in 0..Highest(recorded)
           /\ CurrentState(Watched) >= pruned =>
                  \A i \in Ids : \A r \in RowsOf(i) : r.seq <= CurrentState(Watched)
  <1>1. PICK n \in Nat : /\ Highest(log) = n /\ Highest(recorded) = n /\ pruned \in 0..n
                         /\ log = {r \in recorded : r.seq > pruned}
                         /\ \A r \in recorded : r.seq \in 1..n
    BY Recorded, HighestRecorded
  <1> DEFINE own == OfType(log, Watched)
  <1>2. \A r \in own : r.seq \in 1..n
    BY <1>1 DEF OfType
  <1>3. /\ Highest(own) \in Nat /\ \A r \in own : r.seq <= Highest(own)
        /\ own # {} => \E r \in own : r.seq = Highest(own)
        /\ own = {} => Highest(own) = 0
    <2> HIDE DEF own
    <2> QED
      BY <1>2, HighestOf
  <1>4. CurrentState(Watched) = Highest(own)
    BY DEF CurrentState
  <1>5. Highest(own) <= n
    BY <1>2, <1>3
  <1>6. ASSUME Highest(own) >= pruned, NEW i \in Ids, NEW r \in RowsOf(i)
        PROVE  r.seq <= Highest(own)
    <2>1. r \in recorded /\ r.type = Watched /\ r.seq \in 1..n
      BY <1>1 DEF RowsOf, OfType
    <2>2. CASE r.seq > pruned
      <3>1. r \in own
        BY <2>1, <2>2, <1>1 DEF OfType
      <3> QED
        BY <3>1, <1>3
    <2>3. CASE ~(r.seq > pruned)
      BY <2>1, <2>3, <1>1, <1>3, <1>6
    <2> QED
      BY <2>2, <2>3
  <1> QED
    BY <1>1, <1>3, <1>4, <1>5, <1>6

\* The result is all that matches, in order.
LEMMA ResultIs ==
    ASSUME QueryInv
    PROVE  /\ Keyed(Matching, place) /\ Lists(Result, Matching, place)
           /\ Result \in Seq(Ids) /\ IsInjective(Result) /\ ToSet(Result) = Matching
  <1>1. IsFiniteSet(Matching)
    <2>1. Matching \in SUBSET Ids
      BY DEF Matching
    <2> QED
      BY <2>1, ChangeLogAssumption, FS_Subset
  <1>2. Keyed(Matching, place)
    BY <1>1 DEF Keyed, Matching, QueryInv, QueryTypeOK, PlacesTellApart
  <1>3. Lists(Result, Matching, place)
    BY <1>2, InOrderLists DEF Result
  <1>4. Result \in Seq(Matching) /\ Sorted(Result, place) /\ ToSet(Result) = Matching
    BY <1>3 DEF Lists
  <1>5. IsInjective(Result)
    BY <1>2, <1>4, SortedInjective DEF Keyed
  <1>6. Result \in Seq(Ids)
    <2>1. \A i \in Matching : i \in Ids
      BY DEF Matching
    <2> QED
      BY <1>4, <2>1
  <1> QED
    BY <1>2, <1>3, <1>4, <1>5, <1>6

\* A new list is the result, whatever its query state.
LEMMA QueryQuery ==
    ASSUME IInv, FollowInv, QueryInv, Query
    PROVE  QueryInv'
  <1> DEFINE now == CurrentState(Watched)
  <1>1. /\ follower' = [has |-> TRUE, token |-> now, ids |-> Result, cut |-> FALSE]
        /\ UNCHANGED <<log, pruned, recorded, table, place>>
    BY DEF Query, vars
  <1>2. now \in 0..Highest(recorded) /\ Highest(recorded) \in Nat
        /\ (now >= pruned => \A i \in Ids : \A r \in RowsOf(i) : r.seq <= now)
    BY CurrentIsKnown, Recorded, HighestRecorded
  <1>3. /\ Result \in Seq(Ids) /\ IsInjective(Result) /\ ToSet(Result) = Matching
        /\ Sorted(Result, place)
    BY ResultIs DEF Lists
  <1> HIDE DEF now
  <1>4. /\ follower'.has = TRUE /\ follower'.token = now /\ follower'.ids = Result /\ follower'.cut = FALSE
        /\ follower' \in Follower
    BY <1>1, <1>2, <1>3 DEF Follower
  <1>5. \A i \in Ids : RowsOf(i)' = RowsOf(i)
    BY <1>1 DEF RowsOf, OfType
  <1>6. QueryTypeOK' /\ PlacesTellApart' /\ ListedOnce'
    BY <1>1, <1>3, <1>4 DEF QueryInv, QueryTypeOK, PlacesTellApart, ListedOnce
  <1>7. QueryStateIsPast'
    BY <1>1, <1>2, <1>4 DEF QueryStateIsPast
  <1>8. SettledRight'
    BY <1>1, <1>3, <1>4 DEF SettledRight, Matching
  <1>9. ListedIsOld'
    <2> SUFFICES ASSUME now >= pruned, NEW i \in Matching
                 PROVE  \E r \in RowsOf(i) : r.seq <= now
      BY <1>1, <1>3, <1>4, <1>5 DEF ListedIsOld, Matching
    <2>1. i \in Ids /\ table[Watched][i] # 0
      BY DEF Matching, QueryInv, PlacesTellApart
    <2>2. RowsOf(i) # {}
      BY <2>1 DEF FollowInv, LastRowTells
    <2> QED
      BY <2>1, <2>2, <1>2
  <1>10. SettledInOrder'
    BY <1>1, <1>3, <1>4 DEF SettledInOrder, Sorted
  <1> QED
    BY <1>6, <1>7, <1>8, <1>9, <1>10 DEF QueryInv

\* A refused client has no list.
LEMMA RefusedQuery ==
    ASSUME IInv, QueryInv, QueryChangesRefused
    PROVE  QueryInv'
  <1>1. follower' = NoList /\ UNCHANGED <<log, pruned, recorded, table, place>>
    BY DEF QueryChangesRefused, vars
  <1>2. follower'.has = FALSE /\ follower'.token = 0 /\ follower'.ids = <<>> /\ follower' \in Follower
    BY <1>1 DEF NoList, Follower
  <1>3. IsInjective(follower'.ids) /\ Len(follower'.ids) = 0
    BY <1>2 DEF IsInjective
  <1>4. 0 <= Highest(recorded)
    BY Recorded, HighestRecorded
  <1> QED
    BY <1>1, <1>2, <1>3, <1>4
       DEF QueryInv, QueryTypeOK, PlacesTellApart, QueryStateIsPast, SettledRight, ListedIsOld,
           ListedOnce, SettledInOrder

\* What is added is in the order of the result.
LEMMA AddedIs ==
    ASSUME QueryInv, NEW fresh \in SUBSET Matching
    PROVE  Lists(InOrder(fresh, [i \in fresh |-> Index(Result, i)]), fresh,
                 [i \in fresh |-> Index(Result, i)])
  <1> DEFINE key == [i \in fresh |-> Index(Result, i)]
  <1>1. Result \in Seq(Ids) /\ ToSet(Result) = Matching
    BY ResultIs
  <1>2. \A i \in fresh : key[i] = Index(Result, i) /\ key[i] \in Nat /\ Result[key[i]] = i
    <2>1. \A i \in Matching : Index(Result, i) \in 1..Len(Result) /\ Result[Index(Result, i)] = i
      BY <1>1, IndexIs
    <2>2. Len(Result) \in Nat
      BY <1>1
    <2> QED
      BY <2>1, <2>2
  <1>3. IsFiniteSet(fresh)
    <2>1. fresh \in SUBSET Ids
      BY DEF Matching
    <2> QED
      BY <2>1, ChangeLogAssumption, FS_Subset
  <1> HIDE DEF key
  <1>4. Keyed(fresh, key)
    BY <1>2, <1>3 DEF Keyed
  <1>5. Lists(InOrder(fresh, key), fresh, key)
    BY <1>4, InOrderLists
  <1> QED
    BY <1>5 DEF key

\* A diff, cut short or not, makes the list right up to its new query state; one
\* that is not cut short makes it the result.
LEMMA AskQuery ==
    ASSUME IInv, FollowInv, QueryInv, NEW max \in Nat, AskQueryChanges(max)
    PROVE  QueryInv'
  <1> DEFINE since == follower.token
             rows == Since(log, Watched, since)
             page == Page(rows, max)
             new == IF page = {} THEN since ELSE Highest(page)
             lists == Coalesce(page)
             fetch == lists.created \cup lists.updated
             gone == lists.destroyed
             diff == ComputeQueryChanges(lists, Result)
             fresh == fetch \cap ToSet(Result)
             ids == follower.ids
             spliced == Splice(ids, diff, Result)
  <1>1. /\ follower.has /\ Answerable(Watched, since)
        /\ follower' = [has |-> TRUE, token |-> new, ids |-> spliced, cut |-> follower.cut \/ page # rows]
        /\ UNCHANGED <<log, pruned, recorded, table, place>>
    BY DEF AskQueryChanges, GetChanges, vars
  <1>2. since \in Nat /\ ids \in Seq(Ids) /\ IsInjective(ids) /\ since <= Highest(recorded)
        /\ follower.cut \in BOOLEAN /\ since >= pruned /\ pruned \in Nat
    BY <1>1 DEF QueryInv, QueryTypeOK, Follower, QueryStateIsPast, ListedOnce, Answerable, IInv, TypeOK
  <1>3. /\ page = {r \in OfType(recorded, Watched) : r.seq > since /\ r.seq <= new}
        /\ new \in Nat /\ since <= new
        /\ page # {} => new <= Highest(log)
    BY <1>1, <1>2, PageIsInterval
  <1>4. new <= Highest(recorded)
    BY <1>2, <1>3, HighestRecorded
  <1>5. ASSUME NEW i \in Ids
        PROVE  /\ i \in fetch \cup gone => \E r \in RowsOf(i) : r.seq <= new
               /\ i \in gone /\ (\A r \in RowsOf(i) : r.seq <= new) => table[Watched][i] = 0
               /\ i \notin fetch /\ (\A r \in RowsOf(i) : r.seq <= new) =>
                      \/ i \in gone
                      \/ \A r \in RowsOf(i) : r.seq <= since
                      \/ table[Watched][i] = 0 /\ \A r \in RowsOf(i) : r.seq > since
    <2> HIDE DEF page, new, since
    <2> QED
      BY <1>2, <1>3, AnswerNames
  <1>6. diff.removed = gone \cup fetch
        /\ diff.added = InOrder(fresh, [i \in fresh |-> Index(Result, i)])
    BY DEF ComputeQueryChanges
  <1>7. page = rows => \A i \in Ids : \A r \in RowsOf(i) : r.seq <= new
    <2> SUFFICES ASSUME page = rows, NEW i \in Ids, NEW r \in RowsOf(i)
                 PROVE  r.seq <= new
      OBVIOUS
    <2>1. r \in OfType(recorded, Watched) /\ r.seq \in Nat
      BY Recorded DEF RowsOf, OfType
    <2>2. CASE r.seq <= since
      BY <2>1, <2>2, <1>2, <1>3
    <2>3. CASE r.seq > since
      <3>1. r \in log
        BY <2>1, <2>3, <1>2, Recorded DEF OfType
      <3>2. r \in rows
        BY <2>1, <2>3, <3>1 DEF Since, OfType
      <3> QED
        BY <3>2, <1>3
    <2> QED
      BY <2>1, <2>2, <2>3, <1>2
  <1> HIDE DEF rows, page, new, lists, fetch, gone, diff, spliced
  <1>8. /\ Keyed(Matching, place) /\ Lists(Result, Matching, place)
        /\ Result \in Seq(Ids) /\ IsInjective(Result) /\ ToSet(Result) = Matching
    BY ResultIs
  <1>9. fresh \in SUBSET Matching /\ fresh = fetch \cap Matching /\ Matching \in SUBSET Ids
    BY <1>8 DEF Matching
  <1> HIDE DEF fresh
  <1>10. Lists(diff.added, fresh, [i \in fresh |-> Index(Result, i)])
    BY <1>6, <1>9, AddedIs
  <1>11. diff.added \in Seq(Ids) /\ IsInjective(diff.added) /\ ToSet(diff.added) = fresh
    <2>1. /\ diff.added \in Seq(fresh) /\ ToSet(diff.added) = fresh
          /\ Sorted(diff.added, [i \in fresh |-> Index(Result, i)])
      BY <1>10 DEF Lists
    <2>2. \A i \in fresh : [j \in fresh |-> Index(Result, j)][i] \in Nat
      BY <1>8, <1>9, IndexIs
    <2>3. IsInjective(diff.added)
      BY <2>1, <2>2, SortedInjective
    <2>4. diff.added \in Seq(Ids)
      BY <2>1, <1>9
    <2> QED
      BY <2>1, <2>3, <2>4
  <1>12. spliced \in Seq(Ids) /\ IsInjective(spliced) /\ ToSet(spliced) = (ToSet(ids) \ diff.removed) \cup fresh
    <2>1. ToSet(diff.added) \in SUBSET (ToSet(Result) \cap diff.removed)
      BY <1>6, <1>8, <1>9, <1>11
    <2> QED
      BY <2>1, <1>2, <1>8, <1>11, SpliceMembers DEF spliced
  <1>13. ASSUME NEW i \in Ids, \A r \in RowsOf(i) : r.seq <= new, i \notin fetch
         PROVE  /\ i \in ToSet(ids) /\ i \notin gone => Settled(i)
                /\ place[i] # 0 => i \notin gone /\ Settled(i)
    <2>1. place[i] # 0 => table[Watched][i] # 0
      BY DEF QueryInv, PlacesTellApart
    <2>2. i \in ToSet(ids) => \E r \in RowsOf(i) : r.seq <= since
      BY <1>1, <1>2 DEF QueryInv, ListedIsOld
    <2>3. \A r \in RowsOf(i) : r.seq \in Nat
      BY Recorded DEF RowsOf, OfType
    <2> QED
      BY <2>1, <2>2, <2>3, <1>2, <1>5, <1>13 DEF Settled
  <1>14. \A i \in Ids : Settled(i) => (i \in ToSet(ids) <=> place[i] # 0)
    BY <1>1 DEF QueryInv, SettledRight
  <1>15. /\ follower'.has = TRUE /\ follower'.token = new /\ follower'.ids = spliced
         /\ follower'.cut = (follower.cut \/ page # rows) /\ follower' \in Follower
    BY <1>1, <1>2, <1>3, <1>12 DEF Follower
  <1>16. \A i \in Ids : /\ RowsOf(i)' = RowsOf(i)
                        /\ Settled(i)' <=> \A r \in RowsOf(i) : r.seq <= new
    BY <1>1, <1>15 DEF RowsOf, OfType, Settled
  <1>17. SettledRight'
    <2> SUFFICES ASSUME NEW i \in Ids, \A r \in RowsOf(i) : r.seq <= new
                 PROVE  i \in ToSet(spliced) <=> place[i] # 0
      BY <1>1, <1>15, <1>16 DEF SettledRight
    <2>1. i \in Matching <=> place[i] # 0
      BY DEF Matching
    <2>2. CASE i \in fetch
      BY <2>1, <2>2, <1>6, <1>9, <1>12
    <2>3. CASE i \notin fetch
      BY <2>1, <2>3, <1>6, <1>9, <1>12, <1>13, <1>14
    <2> QED
      BY <2>2, <2>3
  <1>18. ListedIsOld'
    <2> SUFFICES ASSUME NEW i \in ToSet(spliced)
                 PROVE  i \in Ids /\ \E r \in RowsOf(i) : r.seq <= new
      BY <1>1, <1>15, <1>16 DEF ListedIsOld
    <2>1. i \in Ids
      BY <1>12 DEF ToSet
    <2>2. CASE i \in fetch
      BY <2>1, <2>2, <1>5
    <2>3. CASE i \notin fetch
      <3>1. i \in ToSet(ids)
        BY <2>3, <1>9, <1>12
      <3>2. PICK r \in RowsOf(i) : r.seq <= since
        BY <3>1, <1>1, <1>2 DEF QueryInv, ListedIsOld
      <3>3. r.seq \in Nat
        BY Recorded DEF RowsOf, OfType
      <3>4. r.seq <= new
        BY <3>2, <3>3, <1>2, <1>3
      <3> QED
        BY <2>1, <3>4
    <2> QED
      BY <2>2, <2>3, <2>1
  <1>19. SettledInOrder'
    <2> SUFFICES ASSUME ~follower.cut, page = rows
                 PROVE  Sorted(spliced, place)
      BY <1>1, <1>15 DEF SettledInOrder, Sorted
    <2>1. \A i \in Ids : i \in ToSet(ids) /\ i \notin diff.removed <=> i \in Matching /\ i \notin fresh
      <3> TAKE i \in Ids
      <3>1. i \in Matching <=> place[i] # 0
        BY DEF Matching
      <3> QED
        BY <3>1, <1>6, <1>7, <1>9, <1>13, <1>14
    <2>2. \A a, b \in 1..Len(ids) :
              a < b /\ ids[a] \notin diff.removed /\ ids[b] \notin diff.removed =>
                  place[ids[a]] < place[ids[b]]
      <3>1. \A a \in 1..Len(ids) : ids[a] \in Ids /\ ids[a] \in ToSet(ids)
        BY <1>2 DEF ToSet
      <3>2. \A a \in 1..Len(ids) : ids[a] \notin diff.removed => Settled(ids[a])
        BY <3>1, <1>6, <1>7, <1>13
      <3> QED
        BY <3>2 DEF QueryInv, SettledInOrder
    <2>3. fresh \in SUBSET diff.removed
      BY <1>6, <1>9
    <2>4. spliced = Result
      BY <2>1, <2>2, <2>3, <1>2, <1>8, <1>9, <1>10, SpliceExact DEF spliced, Result
    <2> QED
      BY <2>4, <1>8 DEF Lists
  <1>20. QueryTypeOK' /\ PlacesTellApart' /\ ListedOnce' /\ QueryStateIsPast'
    BY <1>1, <1>4, <1>12, <1>15
       DEF QueryInv, QueryTypeOK, PlacesTellApart, ListedOnce, QueryStateIsPast
  <1> QED
    BY <1>17, <1>18, <1>19, <1>20 DEF QueryInv

\* Every step of the bridge, of a writer or of the client keeps the invariant.
LEMMA NextQuery == IInv /\ FollowInv /\ QueryInv /\ [QueryNext]_queryVars => QueryInv'
  <1> SUFFICES ASSUME IInv, FollowInv, QueryInv, [QueryNext]_queryVars PROVE QueryInv'
    OBVIOUS
  <1>1. CASE \E i \in Ids, change \in Changes, p \in Places \cup {0} : WriteAt(i, change, p)
    BY <1>1, WriteAtQuery
  <1>2. CASE \E t \in Types, i \in Ids, change \in Changes : WriteOther(t, i, change)
    BY <1>2, WriteOtherQuery
  <1>3. CASE Prune
    BY <1>3, PruneQuery
  <1>4. CASE Query
    BY <1>4, QueryQuery
  <1>5. ASSUME NEW max \in Limits, AskQueryChanges(max) PROVE QueryInv'
    <2>1. max \in Nat
      BY QueryChangesAssumption
    <2> QED
      BY <2>1, <1>5, AskQuery
  <1>6. CASE QueryChangesRefused
    BY <1>6, RefusedQuery
  <1>7. CASE UNCHANGED queryVars
    <2>1. UNCHANGED <<log, pruned, recorded, table, place, follower>>
      BY <1>7 DEF queryVars, vars
    <2>2. pruned \in Nat /\ Highest(recorded) \in Nat
      BY Recorded, HighestRecorded DEF IInv, TypeOK
    <2> QED
      BY <2>1, <2>2, UndisturbedQuery DEF OfType, Highest, Seqs
  <1> QED
    BY <1>1, <1>2, <1>3, <1>4, <1>5, <1>6, <1>7 DEF QueryNext, Follow

\* Whatever is written, moved, pruned and asked for, in whatever parts: a
\* client's list is right, and in order unless a diff was cut short, for all that
\* has not changed since its query state.
THEOREM ListsAreRight == QuerySpec => [](IInv /\ FollowInv /\ QueryInv)
  <1>1. QueryInit => IInv /\ FollowInv /\ QueryInv
    BY InitIInv, InitFollow, InitQuery DEF QueryInit
  <1>2. IInv /\ FollowInv /\ QueryInv /\ [QueryNext]_queryVars => (IInv /\ FollowInv /\ QueryInv)'
    <2> SUFFICES ASSUME IInv, FollowInv, QueryInv, [QueryNext]_queryVars
                 PROVE  IInv' /\ FollowInv' /\ QueryInv'
      OBVIOUS
    <2>1. [Next]_vars
      BY QueryStepIsLogStep DEF queryVars
    <2> QED
      BY <2>1, NextIInv, NextFollow, NextQuery
  <1> QED
    BY <1>1, <1>2, PTL DEF QuerySpec

\* A client that has the current state has no unsettled objects.
LEMMA CaughtUpIsSettled ==
    ASSUME IInv, FollowInv, CaughtUp
    PROVE  \A i \in Ids : Settled(i)
  BY CurrentIsKnown DEF CaughtUp, Settled

\* A client that has followed the diffs to the current state, in however many
\* parts, lists the matching objects, each once.
THEOREM MembersAlwaysExact == QuerySpec => []MembersExact
  <1>1. IInv /\ FollowInv /\ QueryInv => MembersExact
    <2> SUFFICES ASSUME IInv, FollowInv, QueryInv, CaughtUp
                 PROVE  ToSet(follower.ids) = Matching /\ IsInjective(follower.ids)
      BY DEF MembersExact
    <2>1. \A i \in Ids : i \in ToSet(follower.ids) <=> place[i] # 0
      BY CaughtUpIsSettled DEF QueryInv, SettledRight, CaughtUp
    <2>2. ToSet(follower.ids) \in SUBSET Ids
      BY DEF QueryInv, QueryTypeOK, Follower, ToSet
    <2>3. ToSet(follower.ids) = Matching
      BY <2>1, <2>2 DEF Matching
    <2> QED
      BY <2>3 DEF QueryInv, ListedOnce
  <1> QED
    BY <1>1, ListsAreRight, PTL

\* And if no diff was cut short by maxChanges, its list is the query's result,
\* although the diffs say nothing of the objects that were moved past.
THEOREM OrderAlwaysExact == QuerySpec => []OrderExact
  <1>1. IInv /\ FollowInv /\ QueryInv => OrderExact
    <2> SUFFICES ASSUME IInv, FollowInv, QueryInv, CaughtUp, ~follower.cut
                 PROVE  follower.ids = Result
      BY DEF OrderExact
    <2>1. /\ Keyed(Matching, place) /\ follower.ids \in Seq(Ids)
          /\ \A i \in Matching : i \in Ids
      BY ResultIs DEF QueryInv, QueryTypeOK, Follower, Matching
    <2>2. \A i \in Ids : Settled(i)
      BY CaughtUpIsSettled
    <2>3. \A i \in Ids : i \in ToSet(follower.ids) <=> i \in Matching
      BY <2>2 DEF QueryInv, SettledRight, CaughtUp, Matching
    <2>4. \A a \in 1..Len(follower.ids) : follower.ids[a] \in Ids /\ follower.ids[a] \in ToSet(follower.ids)
      BY <2>1 DEF ToSet
    <2>5. follower.ids \in Seq(Matching)
      BY <2>1, <2>3, <2>4
    <2>6. Sorted(follower.ids, place)
      BY <2>2, <2>4 DEF QueryInv, SettledInOrder, Sorted
    <2>7. ToSet(follower.ids) = Matching
      <3>1. ToSet(follower.ids) \in SUBSET Ids
        BY <2>1 DEF ToSet
      <3> QED
        BY <3>1, <2>1, <2>3
    <2> QED
      BY <2>1, <2>5, <2>6, <2>7, OnlyInOrder DEF Lists, Result
  <1> QED
    BY <1>1, ListsAreRight, PTL

=============================================================================
