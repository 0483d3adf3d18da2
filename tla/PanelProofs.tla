---------------------------- MODULE PanelProofs -----------------------------
(***************************************************************************)
(* The panels of the main page in which the user arranges, chooses and     *)
(* reads: the layer editor, the entry points and the dead code.            *)
(*                                                                         *)
(* LayerEditor, for every set of folders, sequence of graphs and number of *)
(* slots: the arrangement drawn, the one stored and the preset each have a *)
(* lane in one place and a lane for a group exactly while it exists, and   *)
(* new depths only add to what the user arranged.  An arrangement is taken *)
(* apart into its rows: no lane is twice in a row, none is in two.         *)
(*                                                                         *)
(* EntryPoints, for any number of tabs, any catalogue and any names: what  *)
(* a panel shows is what the server is told, the tabs agree once they have *)
(* heard of all changes, the row that Enter takes is the row that is lit,  *)
(* and a name that the server does not resolve was typed.  That the lit    *)
(* row is one of the rows rests on ranks being places: of finitely many    *)
(* matches in a strict order, the n-th is the one with n - 1 before it.    *)
(*                                                                         *)
(* DeadCodePanel, for any number of projects, requests and analyses: the   *)
(* report that is shown answers the last request, and is as new as the     *)
(* last done event of this tab.  An analysis of this tab leaves a graph    *)
(* newer than any the effects have seen, so that the panel asks again when *)
(* that graph is shown.                                                    *)
(*                                                                         *)
(* The first two filter sequences; the first part is about that.           *)
(***************************************************************************)
EXTENDS LayerEditor, EntryPoints, DeadCodePanel, FiniteSetTheorems, FunctionTheorems,
        SequenceTheorems, TLAPS

----------------------------------------------------------------------------
(* Places and sequences.                                                   *)

(* In a finite set where of any two elements one is below the other, every *)
(* place in the order is taken.                                            *)
LEMMA PlacesAreTaken ==
    ASSUME NEW S, IsFiniteSet(S), NEW below \in [S -> SUBSET S],
           \A x \in S : x \notin below[x],
           \A x, y \in S : x # y => \/ x \in below[y] /\ below[x] \subseteq below[y]
                                    \/ y \in below[x] /\ below[y] \subseteq below[x]
    PROVE  /\ Cardinality(S) \in Nat
           /\ \A n \in 1..Cardinality(S) : \E x \in S : Cardinality(below[x]) = n - 1
           /\ \A x, y \in S : Cardinality(below[x]) = Cardinality(below[y]) => x = y
           /\ \A x \in S : Cardinality(below[x]) + 1 \in 1..Cardinality(S)
<1> DEFINE N == Cardinality(S)
           place == [x \in S |-> Cardinality(below[x]) + 1]
<1>1. N \in Nat
  BY FS_CardinalityType
<1>2. \A x \in S : IsFiniteSet(below[x]) /\ Cardinality(below[x]) \in Nat
  BY FS_Subset, FS_CardinalityType
<1>3. \A x, y \in S : x \in below[y] /\ below[x] \subseteq below[y]
                        => Cardinality(below[x]) < Cardinality(below[y])
  <2> SUFFICES ASSUME NEW x \in S, NEW y \in S, x \in below[y], below[x] \subseteq below[y]
               PROVE  Cardinality(below[x]) < Cardinality(below[y])
    OBVIOUS
  <2>1. below[x] \in SUBSET below[y] /\ below[x] # below[y]
    OBVIOUS
  <2>2. /\ Cardinality(below[x]) <= Cardinality(below[y])
        /\ Cardinality(below[y]) = Cardinality(below[x]) => below[y] = below[x]
    BY <1>2, <2>1, FS_Subset
  <2>3. QED
    BY <1>2, <2>1, <2>2
<1>4. \A x, y \in S : Cardinality(below[x]) = Cardinality(below[y]) => x = y
  BY <1>2, <1>3
<1>5. \A x \in S : Cardinality(below[x]) < N
  <2> SUFFICES ASSUME NEW x \in S PROVE Cardinality(below[x]) < N
    OBVIOUS
  <2>1. below[x] \in SUBSET S /\ below[x] # S
    OBVIOUS
  <2>2. Cardinality(below[x]) <= N /\ (N = Cardinality(below[x]) => S = below[x])
    BY <2>1, FS_Subset
  <2>3. QED
    BY <1>1, <1>2, <2>1, <2>2
<1>6. place \in Injection(S, 1..N)
  <2>1. place \in [S -> 1..N]
    BY <1>1, <1>2, <1>5
  <2>2. \A x, y \in S : place[x] = place[y] => x = y
    BY <1>2, <1>4
  <2>3. QED
    BY <2>1, <2>2 DEF Injection, IsInjective
<1>7. place \in Surjection(S, 1..N)
  <2>1. IsFiniteSet(1..N) /\ Cardinality(1..N) = N
    BY <1>1, FS_Interval
  <2>2. QED
    BY <1>6, <2>1, FS_Injection
<1>8. \A n \in 1..N : \E x \in S : Cardinality(below[x]) = n - 1
  <2> SUFFICES ASSUME NEW n \in 1..N PROVE \E x \in S : Cardinality(below[x]) = n - 1
    OBVIOUS
  <2> HIDE DEF place
  <2>1. PICK x \in S : place[x] = n
    BY <1>7 DEF Surjection
  <2>2. Cardinality(below[x]) + 1 = n
    BY <2>1 DEF place
  <2>3. QED
    BY <1>1, <1>2, <2>2
<1>9. \A x \in S : Cardinality(below[x]) + 1 \in 1..N
  BY <1>1, <1>2, <1>5
<1>10. QED
  BY <1>1, <1>4, <1>8, <1>9

(* Counting numbers: each of a finite set has its place.                   *)
LEMMA NumbersHavePlaces ==
    ASSUME NEW S \in SUBSET Nat, IsFiniteSet(S), NEW at,
           at = [n \in 1..Cardinality(S) |->
                    CHOOSE x \in S : Cardinality({y \in S : y < x}) = n - 1]
    PROVE  /\ Cardinality(S) \in Nat
           /\ \A n \in 1..Cardinality(S) : at[n] \in S
           /\ \A m, n \in 1..Cardinality(S) : m < n => at[m] < at[n]
           /\ \A x \in S : \E n \in 1..Cardinality(S) : at[n] = x
<1> DEFINE N == Cardinality(S)
           below == [x \in S |-> {y \in S : y < x}]
<1>1. /\ below \in [S -> SUBSET S]
      /\ \A x \in S : x \notin below[x]
  OBVIOUS
<1>2. ASSUME NEW x \in S, NEW y \in S, x # y
      PROVE  \/ x \in below[y] /\ below[x] \subseteq below[y]
             \/ y \in below[x] /\ below[y] \subseteq below[x]
  <2>1. CASE x < y
    <3>1. \A z \in S : z < x => z < y
      BY <2>1
    <3>2. QED
      BY <2>1, <3>1
  <2>2. CASE y < x
    <3>1. \A z \in S : z < y => z < x
      BY <2>2
    <3>2. QED
      BY <2>2, <3>1
  <2>3. QED
    BY <1>2, <2>1, <2>2
<1>3. \A x \in S : below[x] = {y \in S : y < x}
  OBVIOUS
<1> HIDE DEF below
<1>4. /\ N \in Nat
      /\ \A n \in 1..N : \E x \in S : Cardinality(below[x]) = n - 1
      /\ \A x, y \in S : Cardinality(below[x]) = Cardinality(below[y]) => x = y
      /\ \A x \in S : Cardinality(below[x]) + 1 \in 1..N
  BY <1>1, <1>2, PlacesAreTaken
<1> HIDE DEF N
<1>5. ASSUME NEW n \in 1..N
      PROVE  at[n] \in S /\ Cardinality(below[at[n]]) = n - 1
  <2>1. PICK x \in S : Cardinality({y \in S : y < x}) = n - 1
    BY <1>3, <1>4
  <2>2. at[n] = CHOOSE z \in S : Cardinality({y \in S : y < z}) = n - 1
    BY DEF N
  <2>3. at[n] \in S /\ Cardinality({y \in S : y < at[n]}) = n - 1
    BY <2>1, <2>2
  <2>4. QED
    BY <1>3, <2>3
<1>6. \A x \in S : IsFiniteSet(below[x]) /\ Cardinality(below[x]) \in Nat
  BY <1>1, FS_Subset, FS_CardinalityType
<1>7. ASSUME NEW m \in 1..N, NEW n \in 1..N, m < n
      PROVE  at[m] < at[n]
  <2>1. at[m] \in S /\ at[n] \in S /\ Cardinality(below[at[m]]) = m - 1
        /\ Cardinality(below[at[n]]) = n - 1
    BY <1>5
  <2>2. at[m] # at[n]
    BY <1>4, <1>7, <2>1
  <2>3. CASE at[n] < at[m]
    <3>1. \A z \in S : z < at[n] => z < at[m]
      <4>1. \A x, y, z \in S : z < x /\ x < y => z < y
        OBVIOUS
      <4>2. QED
        BY <2>1, <2>3, <4>1
    <3>2. below[at[n]] \in SUBSET below[at[m]]
      BY <1>3, <2>1, <3>1
    <3>3. Cardinality(below[at[n]]) <= Cardinality(below[at[m]])
      BY <1>6, <2>1, <3>2, FS_Subset
    <3>4. QED
      BY <1>4, <1>7, <2>1, <3>3
  <2>4. at[m] \in Nat /\ at[n] \in Nat
    BY <2>1
  <2>5. at[m] < at[n] \/ at[n] < at[m]
    BY <2>2, <2>4
  <2>6. QED
    BY <2>3, <2>5
<1>8. ASSUME NEW x \in S
      PROVE  \E n \in 1..N : at[n] = x
  <2> DEFINE n == Cardinality(below[x]) + 1
  <2>1. n \in 1..N /\ Cardinality(below[x]) = n - 1
    BY <1>4, <1>6
  <2> HIDE DEF n
  <2>2. at[n] \in S /\ Cardinality(below[at[n]]) = n - 1
    BY <1>5, <2>1
  <2>3. QED
    BY <1>4, <2>1, <2>2
<1>9. QED
  BY <1>4, <1>5, <1>7, <1>8 DEF N

(* Filtering a sequence: its elements in the set, in the same order, so    *)
(* that none is there twice if it was not before.                          *)
LEMMA KeptIs ==
    ASSUME NEW A, NEW s \in Seq(A), NEW S
    PROVE  /\ Kept(s, S) \in Seq(A \cap S)
           /\ {Kept(s, S)[n] : n \in DOMAIN Kept(s, S)} = {s[i] : i \in DOMAIN s} \cap S
           /\ (\A i, j \in DOMAIN s : s[i] = s[j] => i = j)
                 => \A m, n \in DOMAIN Kept(s, S) : Kept(s, S)[m] = Kept(s, S)[n] => m = n
<1> DEFINE I == {i \in DOMAIN s : s[i] \in S}
           N == Cardinality(I)
           at == [n \in 1..N |-> CHOOSE i \in I : Cardinality({j \in I : j < i}) = n - 1]
           k == Kept(s, S)
<1>1. I \in SUBSET Nat /\ IsFiniteSet(I)
  <2>1. Len(s) \in Nat /\ DOMAIN s = 1..Len(s)
    OBVIOUS
  <2>2. IsFiniteSet(1..Len(s)) /\ I \in SUBSET (1..Len(s))
    BY <2>1, FS_Interval
  <2>3. QED
    BY <2>1, <2>2, FS_Subset
<1>2. k = [n \in 1..N |-> s[at[n]]]
  BY DEF Kept
<1>3. /\ N \in Nat
      /\ \A n \in 1..N : at[n] \in I
      /\ \A m, n \in 1..N : m < n => at[m] < at[n]
      /\ \A x \in I : \E n \in 1..N : at[n] = x
  <2> HIDE DEF I
  <2>1. QED
    BY <1>1, NumbersHavePlaces
<1>4. \A i \in I : i \in DOMAIN s /\ s[i] \in A \cap S
  OBVIOUS
<1>5. \A i \in DOMAIN s : s[i] \in S => i \in I
  OBVIOUS
<1> HIDE DEF I, at, N, k
<1>6. k \in Seq(A \cap S)
  BY <1>2, <1>3, <1>4
<1>7. {k[n] : n \in DOMAIN k} = {s[i] : i \in DOMAIN s} \cap S
  <2>1. DOMAIN k = 1..N /\ \A n \in 1..N : k[n] = s[at[n]] /\ at[n] \in I
    BY <1>2, <1>3
  <2>2. \A i \in I : \E n \in 1..N : k[n] = s[i]
    BY <1>3, <2>1
  <2>3. QED
    BY <1>4, <1>5, <2>1, <2>2
<1>8. ASSUME \A i, j \in DOMAIN s : s[i] = s[j] => i = j,
             NEW m \in DOMAIN k, NEW n \in DOMAIN k, k[m] = k[n]
      PROVE  m = n
  <2>1. m \in 1..N /\ n \in 1..N /\ s[at[m]] = s[at[n]] /\ at[m] \in I /\ at[n] \in I
    BY <1>2, <1>3, <1>8
  <2>2. at[m] = at[n] /\ at[m] \in Nat
    BY <1>1, <1>4, <1>8, <2>1
  <2>3. QED
    BY <1>3, <2>1, <2>2
<1>9. QED
  BY <1>6, <1>7, <1>8 DEF k

----------------------------------------------------------------------------
(* Sequences.                                                              *)

(* No element is there twice.                                              *)
Once(s) == \A a, b \in DOMAIN s : s[a] = s[b] => a = b

(* Filtering, without places.                                              *)
LEMMA KeptOnce ==
    ASSUME NEW A, NEW s \in Seq(A), NEW S
    PROVE  /\ Kept(s, S) \in Seq(A)
           /\ ToSet(Kept(s, S)) = ToSet(s) \cap S
           /\ Once(s) => Once(Kept(s, S))
<1>1. /\ Kept(s, S) \in Seq(A \cap S)
      /\ {Kept(s, S)[n] : n \in DOMAIN Kept(s, S)} = {s[i] : i \in DOMAIN s} \cap S
      /\ (\A i, j \in DOMAIN s : s[i] = s[j] => i = j)
            => \A m, n \in DOMAIN Kept(s, S) : Kept(s, S)[m] = Kept(s, S)[n] => m = n
  BY KeptIs
<1> DEFINE k == Kept(s, S)
<1> HIDE DEF k
<1>2. k \in Seq(A)
  BY <1>1 DEF k
<1>3. QED
  BY <1>1, <1>2 DEF ToSet, Once, k

(* An element is put at the end.                                           *)
LEMMA AppendOnce ==
    ASSUME NEW A, NEW s \in Seq(A), NEW x \in A
    PROVE  /\ Append(s, x) \in Seq(A)
           /\ ToSet(Append(s, x)) = ToSet(s) \cup {x}
           /\ Once(s) /\ x \notin ToSet(s) => Once(Append(s, x))
<1> DEFINE t == Append(s, x)
           n == Len(s)
<1>1. /\ t \in Seq(A) /\ n \in Nat /\ DOMAIN s = 1..n /\ DOMAIN t = 1..(n + 1)
      /\ t[n + 1] = x
  OBVIOUS
<1>2. \A i \in 1..n : t[i] = s[i]
  OBVIOUS
<1> HIDE DEF t, n
<1>3. ToSet(t) = ToSet(s) \cup {x}
  <2>1. \A i \in 1..(n + 1) : i \in 1..n \/ i = n + 1
    BY <1>1
  <2>2. \A i \in 1..n : i \in 1..(n + 1)
    BY <1>1
  <2>3. n + 1 \in 1..(n + 1)
    BY <1>1
  <2>4. QED
    BY <1>1, <1>2, <2>1, <2>2, <2>3 DEF ToSet
<1>4. Once(s) /\ x \notin ToSet(s) => Once(t)
  BY <1>1, <1>2 DEF Once, ToSet
<1>5. QED
  BY <1>1, <1>3, <1>4 DEF t

(* It is put somewhere.                                                    *)
LEMMA InsertOnce ==
    ASSUME NEW A, NEW s \in Seq(A), NEW x \in A, NEW k \in 1..(Len(s) + 1)
    PROVE  /\ InsertAt(s, k, x) \in Seq(A)
           /\ ToSet(InsertAt(s, k, x)) = ToSet(s) \cup {x}
           /\ Once(s) /\ x \notin ToSet(s) => Once(InsertAt(s, k, x))
<1> DEFINE t == InsertAt(s, k, x)
           n == Len(s)
           u == SubSeq(s, 1, k - 1)
           v == SubSeq(s, k, n)
<1>1. /\ n \in Nat /\ DOMAIN s = 1..n /\ k \in Int /\ 1 <= k /\ k <= n + 1
      /\ u \in Seq(A) /\ Len(u) = k - 1 /\ \A i \in 1..(k - 1) : u[i] = s[i]
  OBVIOUS
<1>2. v \in Seq(A) /\ Len(v) = n - k + 1 /\ \A i \in 1..(n - k + 1) : v[i] = s[i + k - 1]
  OBVIOUS
<1>3. t = u \o <<x>> \o v
  BY DEF InsertAt
<1> HIDE DEF t, n, u, v
<1>4. /\ u \o <<x>> \in Seq(A) /\ Len(u \o <<x>>) = k
      /\ \A i \in 1..k : (u \o <<x>>)[i] = IF i < k THEN s[i] ELSE x
  BY <1>1
<1>5. /\ t \in Seq(A) /\ Len(t) = n + 1
      /\ \A i \in 1..(n + 1) : t[i] = IF i < k THEN s[i] ELSE IF i = k THEN x ELSE s[i - 1]
  <2> DEFINE w == u \o <<x>>
  <2>1. w \in Seq(A) /\ Len(w) = k /\ \A i \in 1..k : w[i] = IF i < k THEN s[i] ELSE x
    BY <1>4
  <2> HIDE DEF w
  <2>2. t = w \o v
    BY <1>3 DEF w
  <2>3. t \in Seq(A) /\ Len(t) = n + 1
    BY <1>1, <1>2, <2>1, <2>2
  <2>4. \A i \in 1..(n + 1) : i <= k => t[i] = w[i]
    BY <1>1, <1>2, <2>1, <2>2
  <2>5. \A i \in 1..(n + 1) : i > k => t[i] = v[i - k] /\ i - k \in 1..(n - k + 1)
    BY <1>1, <1>2, <2>1, <2>2
  <2>6. \A i \in 1..(n + 1) : i > k => t[i] = s[i - 1]
    <3> SUFFICES ASSUME NEW i \in 1..(n + 1), i > k PROVE t[i] = s[i - 1]
      OBVIOUS
    <3>1. t[i] = v[i - k] /\ i - k \in 1..(n - k + 1)
      BY <2>5
    <3>2. v[i - k] = s[(i - k) + k - 1]
      BY <1>2, <3>1
    <3>3. (i - k) + k - 1 = i - 1
      BY <1>1
    <3>4. QED
      BY <3>1, <3>2, <3>3
  <2>7. QED
    BY <1>1, <2>1, <2>3, <2>4, <2>6
<1>6. DOMAIN t = 1..(n + 1)
  BY <1>5
<1>7. ToSet(t) = ToSet(s) \cup {x}
  <2>1. \A i \in 1..n : \E j \in 1..(n + 1) : t[j] = s[i]
    <3> SUFFICES ASSUME NEW i \in 1..n PROVE \E j \in 1..(n + 1) : t[j] = s[i]
      OBVIOUS
    <3>1. CASE i < k
      BY <1>1, <1>5, <3>1
    <3>2. CASE i >= k
      <4>1. i + 1 \in 1..(n + 1) /\ i + 1 > k /\ (i + 1) - 1 = i
        BY <1>1, <3>2
      <4>2. t[i + 1] = s[i]
        BY <1>1, <1>5, <4>1
      <4>3. QED
        BY <4>1, <4>2
    <3>3. QED
      BY <1>1, <3>1, <3>2
  <2>2. k \in 1..(n + 1) /\ t[k] = x
    BY <1>1, <1>5
  <2>3. \A j \in 1..(n + 1) : t[j] = x \/ \E i \in 1..n : t[j] = s[i]
    <3> SUFFICES ASSUME NEW j \in 1..(n + 1) PROVE t[j] = x \/ \E i \in 1..n : t[j] = s[i]
      OBVIOUS
    <3>1. CASE j < k
      BY <1>1, <1>5, <3>1
    <3>2. CASE j > k
      <4>1. j - 1 \in 1..n /\ t[j] = s[j - 1]
        BY <1>1, <1>5, <3>2
      <4>2. QED
        BY <4>1
    <3>3. CASE j = k
      BY <2>2, <3>3
    <3>4. QED
      BY <1>1, <3>1, <3>2, <3>3
  <2>4. ToSet(s) = {s[i] : i \in 1..n} /\ ToSet(t) = {t[i] : i \in 1..(n + 1)}
    BY <1>1, <1>6 DEF ToSet
  <2>5. QED
    BY <2>1, <2>2, <2>3, <2>4
<1>8. ASSUME Once(s), x \notin ToSet(s)
      PROVE  Once(t)
  <2> DEFINE from(j) == IF j < k THEN j ELSE j - 1
  <2>1. \A j \in 1..(n + 1) : j # k => from(j) \in 1..n /\ t[j] = s[from(j)]
    BY <1>1, <1>5
  <2>2. \A i, j \in 1..(n + 1) : i # k /\ j # k /\ from(i) = from(j) => i = j
    BY <1>1
  <2>3. t[k] = x /\ \A i \in 1..n : s[i] # x
    <3>1. ToSet(s) = {s[i] : i \in 1..n}
      BY <1>1 DEF ToSet
    <3>2. k \in 1..(n + 1)
      BY <1>1
    <3>3. QED
      BY <1>5, <1>8, <3>1, <3>2
  <2> HIDE DEF from
  <2>4. \A i, j \in 1..n : s[i] = s[j] => i = j
    BY <1>1, <1>8 DEF Once
  <2>5. QED
    BY <1>6, <2>1, <2>2, <2>3, <2>4 DEF Once
<1>9. QED
  BY <1>5, <1>7, <1>8 DEF t

(* The least of some numbers.                                              *)
LEMMA MinIs ==
    ASSUME NEW n \in Nat, NEW S \in SUBSET (1..n), S # {}
    PROVE  Min(S) \in S
<1>1. S \in SUBSET Nat /\ IsFiniteSet(S) /\ Cardinality(S) \in Nat \ {0}
  <2>1. IsFiniteSet(1..n)
    BY FS_Interval
  <2>2. IsFiniteSet(S)
    BY <2>1, FS_Subset
  <2>3. QED
    BY <2>2, FS_EmptySet, FS_CardinalityType
<1> DEFINE N == Cardinality(S)
           at == [m \in 1..N |-> CHOOSE x \in S : Cardinality({y \in S : y < x}) = m - 1]
<1>2. /\ \A m \in 1..N : at[m] \in S
      /\ \A l, m \in 1..N : l < m => at[l] < at[m]
      /\ \A x \in S : \E m \in 1..N : at[m] = x
  BY <1>1, NumbersHavePlaces
<1> HIDE DEF at, N
<1>3. at[1] \in S /\ \A x \in S : at[1] <= x
  <2>1. 1 \in 1..N /\ \A m \in 1..N : m = 1 \/ 1 < m
    BY <1>1 DEF N
  <2>2. \A x \in S : x = at[1] \/ at[1] < x
    BY <1>2, <2>1
  <2>3. at[1] \in S
    BY <1>2, <2>1
  <2>4. at[1] \in Nat /\ \A x \in S : x \in Nat
    BY <1>1, <2>3
  <2>5. QED
    BY <2>2, <2>3, <2>4
<1>4. QED
  BY <1>3 DEF Min

(* The greatest of some numbers.                                           *)
LEMMA MaxIs ==
    ASSUME NEW n \in Nat, NEW S \in SUBSET (1..n), S # {}
    PROVE  Max(S) \in S /\ \A i \in S : i <= Max(S)
<1>1. S \in SUBSET Nat /\ IsFiniteSet(S) /\ Cardinality(S) \in Nat \ {0}
  <2>1. IsFiniteSet(1..n)
    BY FS_Interval
  <2>2. IsFiniteSet(S)
    BY <2>1, FS_Subset
  <2>3. QED
    BY <2>2, FS_EmptySet, FS_CardinalityType
<1> DEFINE N == Cardinality(S)
           at == [m \in 1..N |-> CHOOSE x \in S : Cardinality({y \in S : y < x}) = m - 1]
<1>2. /\ \A m \in 1..N : at[m] \in S
      /\ \A l, m \in 1..N : l < m => at[l] < at[m]
      /\ \A x \in S : \E m \in 1..N : at[m] = x
  BY <1>1, NumbersHavePlaces
<1> HIDE DEF at, N
<1>3. at[N] \in S /\ \A x \in S : at[N] >= x
  <2>1. N \in 1..N /\ \A m \in 1..N : m = N \/ m < N
    BY <1>1 DEF N
  <2>2. \A x \in S : x = at[N] \/ x < at[N]
    BY <1>2, <2>1
  <2>3. at[N] \in S
    BY <1>2, <2>1
  <2>4. at[N] \in Nat /\ \A x \in S : x \in Nat
    BY <1>1, <2>3
  <2>5. QED
    BY <2>2, <2>3, <2>4
<1>4. Max(S) \in S /\ \A x \in S : Max(S) >= x
  BY <1>3 DEF Max
<1>5. QED
  BY <1>1, <1>4

----------------------------------------------------------------------------
(* Arrangements.                                                           *)

(* The rows of an arrangement: slot 0 holds the chips without a slot.      *)
LEMMA RowsAre ==
    ASSUME NEW e \in Arrangements
    PROVE  /\ e.groups \in SUBSET Groups /\ e.slots \in Seq(Seq(Lanes))
           /\ e.unassigned \in Seq(Lanes)
           /\ Len(e.slots) \in Nat /\ DOMAIN e.slots = 1..Len(e.slots)
           /\ \A i \in 0..Len(e.slots) : Chips(e, i) \in Seq(Lanes)
           /\ \A lane : lane \in Known(e)
                           <=> \E i \in 0..Len(e.slots) : lane \in ToSet(Chips(e, i))
<1>1. /\ e.groups \in SUBSET Groups /\ e.slots \in Seq(Seq(Lanes))
      /\ e.unassigned \in Seq(Lanes)
  BY DEF Arrangements
<1>2. Len(e.slots) \in Nat /\ DOMAIN e.slots = 1..Len(e.slots)
  BY <1>1
<1>3. \A i \in 0..Len(e.slots) : Chips(e, i) \in Seq(Lanes)
  <2> SUFFICES ASSUME NEW i \in 0..Len(e.slots) PROVE Chips(e, i) \in Seq(Lanes)
    OBVIOUS
  <2>1. CASE i = 0
    BY <1>1, <2>1 DEF Chips
  <2>2. CASE i # 0
    <3>1. i \in 1..Len(e.slots)
      BY <1>2, <2>2
    <3>2. QED
      BY <1>1, <2>2, <3>1 DEF Chips
  <2>3. QED
    BY <2>1, <2>2
<1>4. \A lane : lane \in Known(e) <=> \E i \in 0..Len(e.slots) : lane \in ToSet(Chips(e, i))
  BY DEF Known
<1>5. QED
  BY <1>1, <1>2, <1>3, <1>4

(* No lane twice in a row, none in two rows.                               *)
RowsApart(e) == /\ \A i \in 0..Len(e.slots) : Once(Chips(e, i))
           /\ \A i, j \in 0..Len(e.slots) :
                 i # j => ToSet(Chips(e, i)) \cap ToSet(Chips(e, j)) = {}

(* Consistency, by rows.                                                   *)
LEMMA ConsistentIs ==
    ASSUME NEW e
    PROVE  Consistent(e) <=> /\ RowsApart(e)
                             /\ \A g \in Groups : Folder(g) \in Known(e) <=> g \in e.groups
                             /\ e.groups \subseteq Groups
<1>1. Consistent(e) => RowsApart(e)
  <2> SUFFICES ASSUME Consistent(e) PROVE RowsApart(e)
    OBVIOUS
  <2>1. \A i, j \in 0..Len(e.slots) :
           \A a \in DOMAIN Chips(e, i), b \in DOMAIN Chips(e, j) :
              Chips(e, i)[a] = Chips(e, j)[b] => i = j /\ a = b
    BY DEF Consistent
  <2>2. \A i \in 0..Len(e.slots) : Once(Chips(e, i))
    BY <2>1 DEF Once
  <2>3. \A i, j \in 0..Len(e.slots) :
           i # j => ToSet(Chips(e, i)) \cap ToSet(Chips(e, j)) = {}
    BY <2>1 DEF ToSet
  <2>4. QED
    BY <2>2, <2>3 DEF RowsApart
<1>2. ASSUME RowsApart(e), NEW i \in 0..Len(e.slots), NEW j \in 0..Len(e.slots),
             NEW a \in DOMAIN Chips(e, i), NEW b \in DOMAIN Chips(e, j),
             Chips(e, i)[a] = Chips(e, j)[b]
      PROVE  i = j /\ a = b
  <2>1. Chips(e, i)[a] \in ToSet(Chips(e, i)) /\ Chips(e, j)[b] \in ToSet(Chips(e, j))
    BY DEF ToSet
  <2>2. i = j
    BY <1>2, <2>1 DEF RowsApart
  <2>3. a = b
    BY <1>2, <2>2 DEF RowsApart, Once
  <2>4. QED
    BY <2>2, <2>3
<1>3. (\A g \in Groups : Folder(g) \in Known(e) <=> g \in e.groups) /\ e.groups \subseteq Groups
        <=> {g \in Groups : Folder(g) \in Known(e)} = e.groups
  OBVIOUS
<1>4. QED
  BY <1>1, <1>2, <1>3 DEF Consistent

(* A lane is taken out.                                                    *)
LEMMA TakenIs ==
    ASSUME NEW e \in Arrangements, NEW lane
    PROVE  /\ Taken(e, lane) \in Arrangements
           /\ Taken(e, lane).groups = e.groups
           /\ Len(Taken(e, lane).slots) = Len(e.slots)
           /\ \A i \in 0..Len(e.slots) :
                 ToSet(Chips(Taken(e, lane), i)) = ToSet(Chips(e, i)) \ {lane}
           /\ RowsApart(e) => RowsApart(Taken(e, lane))
<1> DEFINE f == Taken(e, lane)
           slots == [i \in DOMAIN e.slots |-> Without(e.slots[i], lane)]
           unassigned == Without(e.unassigned, lane)
<1>1. /\ e.groups \in SUBSET Groups /\ e.slots \in Seq(Seq(Lanes))
      /\ e.unassigned \in Seq(Lanes)
      /\ Len(e.slots) \in Nat /\ DOMAIN e.slots = 1..Len(e.slots)
      /\ \A i \in 0..Len(e.slots) : Chips(e, i) \in Seq(Lanes)
  BY RowsAre
<1>2. f = [e EXCEPT !.slots = slots, !.unassigned = unassigned]
  BY DEF Taken
<1>3. \A s \in Seq(Lanes) : /\ Without(s, lane) \in Seq(Lanes)
                            /\ ToSet(Without(s, lane)) = ToSet(s) \ {lane}
                            /\ Once(s) => Once(Without(s, lane))
  <2> SUFFICES ASSUME NEW s \in Seq(Lanes)
               PROVE  /\ Without(s, lane) \in Seq(Lanes)
                      /\ ToSet(Without(s, lane)) = ToSet(s) \ {lane}
                      /\ Once(s) => Once(Without(s, lane))
    OBVIOUS
  <2>1. /\ Without(s, lane) \in Seq(Lanes)
        /\ ToSet(Without(s, lane)) = ToSet(s) \cap (Lanes \ {lane})
        /\ Once(s) => Once(Without(s, lane))
    BY KeptOnce DEF Without
  <2>2. ToSet(s) \subseteq Lanes
    BY DEF ToSet
  <2>3. QED
    BY <2>1, <2>2
<1>4. slots \in Seq(Seq(Lanes)) /\ Len(slots) = Len(e.slots) /\ unassigned \in Seq(Lanes)
  <2>1. \A i \in 1..Len(e.slots) : Without(e.slots[i], lane) \in Seq(Lanes)
    BY <1>1, <1>3
  <2>2. QED
    BY <1>1, <1>3, <2>1
<1>5. \A i \in 1..Len(e.slots) : slots[i] = Without(e.slots[i], lane)
  BY <1>1
<1>6. unassigned = Without(e.unassigned, lane)
  OBVIOUS
<1> HIDE DEF slots, unassigned, f
<1>7. /\ f \in Arrangements /\ f.groups = e.groups /\ f.slots = slots
      /\ f.unassigned = unassigned
  BY <1>2, <1>4 DEF Arrangements
<1>8. \A i \in 0..Len(e.slots) : Chips(f, i) = Without(Chips(e, i), lane)
  BY <1>1, <1>5, <1>6, <1>7 DEF Chips
<1>9. \A i \in 0..Len(e.slots) : /\ ToSet(Chips(f, i)) = ToSet(Chips(e, i)) \ {lane}
                                 /\ Once(Chips(e, i)) => Once(Chips(f, i))
  BY <1>1, <1>3, <1>8
<1>10. Len(f.slots) = Len(e.slots)
  BY <1>4, <1>7
<1>11. RowsApart(e) => RowsApart(f)
  BY <1>9, <1>10 DEF RowsApart
<1>12. QED
  BY <1>7, <1>9, <1>10, <1>11 DEF f

(* Only empty slots are trimmed.                                           *)
LEMMA TrimmedIs ==
    ASSUME NEW s \in Seq(Seq(Lanes))
    PROVE  \E m \in 0..Len(s) : /\ Trimmed(s) = SubSeq(s, 1, m)
                                /\ \A i \in 1..Len(s) : i > m => s[i] = <<>>
<1> DEFINE used == {i \in DOMAIN s : s[i] # <<>>}
<1>1. Len(s) \in Nat /\ DOMAIN s = 1..Len(s) /\ used \in SUBSET (1..Len(s))
  OBVIOUS
<1>2. CASE used = {}
  <2>1. Trimmed(s) = SubSeq(s, 1, 0) /\ 0 \in 0..Len(s)
    BY <1>1, <1>2 DEF Trimmed
  <2>2. \A i \in 1..Len(s) : s[i] = <<>>
    BY <1>1, <1>2
  <2>3. QED
    BY <2>1, <2>2
<1>3. CASE used # {}
  <2> DEFINE last == Max(used)
  <2>1. last \in used /\ \A i \in used : i <= last
    BY <1>1, <1>3, MaxIs
  <2>2. Trimmed(s) = SubSeq(s, 1, last)
    BY <1>3 DEF Trimmed
  <2> HIDE DEF last
  <2>3. last \in 0..Len(s)
    BY <1>1, <2>1
  <2>4. \A i \in 1..Len(s) : i > last => i \notin used
    <3> HIDE DEF used
    <3>1. last \in Nat /\ \A i \in 1..Len(s) : i \in Nat
      BY <1>1, <2>3
    <3>2. QED
      BY <2>1, <3>1
  <2>5. \A i \in 1..Len(s) : i \notin used => s[i] = <<>>
    BY <1>1
  <2>6. QED
    BY <2>2, <2>3, <2>4, <2>5
<1>4. QED
  BY <1>2, <1>3

(* An arrangement with its slots trimmed.                                  *)
LEMMA TrimmedKeeps ==
    ASSUME NEW e \in Arrangements, RowsApart(e), NEW f,
           f = [groups |-> e.groups, slots |-> Trimmed(e.slots), unassigned |-> e.unassigned]
    PROVE  /\ f \in Arrangements /\ RowsApart(f) /\ f.groups = e.groups
           /\ \A lane : lane \in Known(f) <=> lane \in Known(e)
<1>1. /\ e.groups \in SUBSET Groups /\ e.slots \in Seq(Seq(Lanes))
      /\ e.unassigned \in Seq(Lanes)
      /\ Len(e.slots) \in Nat /\ DOMAIN e.slots = 1..Len(e.slots)
      /\ \A lane : lane \in Known(e) <=> \E i \in 0..Len(e.slots) : lane \in ToSet(Chips(e, i))
  BY RowsAre
<1>2. PICK m \in 0..Len(e.slots) : /\ Trimmed(e.slots) = SubSeq(e.slots, 1, m)
                                   /\ \A i \in 1..Len(e.slots) : i > m => e.slots[i] = <<>>
  BY <1>1, TrimmedIs
<1>3. /\ Trimmed(e.slots) \in Seq(Seq(Lanes)) /\ Len(Trimmed(e.slots)) = m
      /\ \A i \in 1..m : Trimmed(e.slots)[i] = e.slots[i]
  BY <1>1, <1>2
<1>4. /\ f \in Arrangements /\ f.groups = e.groups /\ f.unassigned = e.unassigned
      /\ f.slots = Trimmed(e.slots)
  BY <1>1, <1>3 DEF Arrangements
<1>5. Len(f.slots) = m /\ \A i \in 0..m : Chips(f, i) = Chips(e, i) /\ i \in 0..Len(e.slots)
  <2>1. Len(f.slots) = m /\ 0..m \subseteq 0..Len(e.slots)
    BY <1>1, <1>3, <1>4
  <2>2. \A i \in 1..m : f.slots[i] = e.slots[i]
    BY <1>3, <1>4
  <2>3. \A i \in 0..m : i = 0 \/ i \in 1..m
    OBVIOUS
  <2>4. QED
    BY <1>4, <2>1, <2>2, <2>3 DEF Chips
<1>6. \A i \in 0..Len(e.slots) : i \notin 0..m => ToSet(Chips(e, i)) = {}
  BY <1>1, <1>2 DEF Chips, ToSet
<1>7. RowsApart(f)
  BY <1>5 DEF RowsApart
<1>8. \A lane : lane \in Known(f) <=> \E i \in 0..m : lane \in ToSet(Chips(f, i))
  BY <1>4, <1>5, RowsAre
<1>9. \A lane : lane \in Known(f) <=> lane \in Known(e)
  BY <1>1, <1>5, <1>6, <1>8
<1>10. QED
  BY <1>4, <1>7, <1>9

----------------------------------------------------------------------------
(* What the operations make of an arrangement.                             *)

(* Lanes of depths and of groups are different, and each is its own.       *)
LEMMA LanesAre ==
    /\ \A d \in Nat : Bfs(d) \in Lanes
    /\ \A g \in Groups : Folder(g) \in Lanes
    /\ \A d, g : Bfs(d) # Folder(g)
    /\ \A c, d : Bfs(c) = Bfs(d) => c = d
    /\ \A g, h : Folder(g) = Folder(h) => g = h
  BY DEF Bfs, Folder, Lanes

(* A lane that was nowhere is put somewhere.                               *)
LEMMA PutKeeps ==
    ASSUME NEW e \in Arrangements, RowsApart(e), NEW f \in Arrangements,
           NEW to \in 0..Len(e.slots), NEW lane, lane \notin Known(e),
           Len(f.slots) = Len(e.slots),
           \A i \in 0..Len(e.slots) : i # to => Chips(f, i) = Chips(e, i),
           ToSet(Chips(f, to)) = ToSet(Chips(e, to)) \cup {lane}, Once(Chips(f, to))
    PROVE  RowsApart(f) /\ \A l : l \in Known(f) <=> l \in Known(e) \/ l = lane
<1>1. \A l : l \in Known(e) <=> \E i \in 0..Len(e.slots) : l \in ToSet(Chips(e, i))
  BY RowsAre
<1>2. \A l : l \in Known(f) <=> \E i \in 0..Len(e.slots) : l \in ToSet(Chips(f, i))
  BY RowsAre
<1>3. \A l : l \in Known(f) <=> l \in Known(e) \/ l = lane
  BY <1>1, <1>2
<1>4. \A i \in 0..Len(f.slots) : Once(Chips(f, i))
  BY DEF RowsApart
<1>5. ASSUME NEW i \in 0..Len(f.slots), NEW j \in 0..Len(f.slots), i # j
      PROVE  ToSet(Chips(f, i)) \cap ToSet(Chips(f, j)) = {}
  <2>1. ToSet(Chips(e, i)) \cap ToSet(Chips(e, j)) = {}
    BY <1>5 DEF RowsApart
  <2>2. lane \notin ToSet(Chips(e, i)) /\ lane \notin ToSet(Chips(e, j))
    BY <1>1
  <2>3. \A k \in {i, j} : ToSet(Chips(f, k)) = IF k = to THEN ToSet(Chips(e, k)) \cup {lane}
                                                ELSE ToSet(Chips(e, k))
    OBVIOUS
  <2>4. QED
    BY <1>5, <2>1, <2>2, <2>3
<1>6. QED
  BY <1>3, <1>4, <1>5 DEF RowsApart

(* Empty slots are added on the right.                                     *)
LEMMA GrownKeeps ==
    ASSUME NEW e \in Arrangements, RowsApart(e), NEW n \in Nat, n >= Len(e.slots),
           NEW f,
           f = [groups |-> e.groups,
                slots |-> [i \in 1..n |-> IF i \in DOMAIN e.slots THEN e.slots[i] ELSE <<>>],
                unassigned |-> e.unassigned]
    PROVE  /\ f \in Arrangements /\ RowsApart(f) /\ f.groups = e.groups /\ Len(f.slots) = n
           /\ \A l : l \in Known(f) <=> l \in Known(e)
<1> DEFINE grown == [i \in 1..n |-> IF i \in DOMAIN e.slots THEN e.slots[i] ELSE <<>>]
<1>1. /\ e.groups \in SUBSET Groups /\ e.slots \in Seq(Seq(Lanes))
      /\ e.unassigned \in Seq(Lanes)
      /\ Len(e.slots) \in Nat /\ DOMAIN e.slots = 1..Len(e.slots)
      /\ \A l : l \in Known(e) <=> \E i \in 0..Len(e.slots) : l \in ToSet(Chips(e, i))
  BY RowsAre
<1>2. grown \in Seq(Seq(Lanes)) /\ Len(grown) = n
  <2>1. \A i \in 1..n : grown[i] \in Seq(Lanes)
    BY <1>1
  <2>2. grown \in [1..n -> Seq(Lanes)]
    BY <2>1
  <2> HIDE DEF grown
  <2>3. QED
    BY <2>2
<1>3. \A i \in 1..n : grown[i] = IF i \in 1..Len(e.slots) THEN e.slots[i] ELSE <<>>
  BY <1>1
<1>4. f = [groups |-> e.groups, slots |-> grown, unassigned |-> e.unassigned]
  OBVIOUS
<1> HIDE DEF grown
<1>5. /\ f \in Arrangements /\ f.groups = e.groups
      /\ f.unassigned = e.unassigned /\ f.slots = grown
  BY <1>1, <1>2, <1>4 DEF Arrangements
<1>6. Len(f.slots) = n
  BY <1>2, <1>5
<1>7. \A i \in 0..n : Chips(f, i) = IF i \in 0..Len(e.slots) THEN Chips(e, i) ELSE <<>>
  <2>1. \A i \in 0..n : i # 0 => i \in 1..n /\ (i \in 0..Len(e.slots) <=> i \in 1..Len(e.slots))
    BY <1>1
  <2>2. 0 \in 0..Len(e.slots)
    BY <1>1
  <2>3. QED
    BY <1>3, <1>5, <2>1, <2>2 DEF Chips
<1>8. ToSet(<<>>) = {} /\ Once(<<>>)
  BY DEF ToSet, Once
<1>9. \A i \in 0..Len(e.slots) : i \in 0..n
  BY <1>1
<1>10. \A l : l \in Known(f) <=> \E i \in 0..n : l \in ToSet(Chips(f, i))
  BY <1>5, <1>6, RowsAre
<1>11. \A l : l \in Known(f) <=> l \in Known(e)
  BY <1>1, <1>7, <1>8, <1>9, <1>10
<1>12. RowsApart(f)
  <2>1. \A i \in 0..n : Once(Chips(f, i))
    BY <1>7, <1>8 DEF RowsApart
  <2>2. \A i, j \in 0..n : i # j => ToSet(Chips(f, i)) \cap ToSet(Chips(f, j)) = {}
    BY <1>7, <1>8 DEF RowsApart
  <2>3. QED
    BY <1>6, <2>1, <2>2 DEF RowsApart
<1>13. QED
  BY <1>5, <1>6, <1>11, <1>12

(* Two sequences one after the other.                                      *)
LEMMA JoinedIs ==
    ASSUME NEW A, NEW s \in Seq(A), NEW t \in Seq(A), NEW j, j = s \o t
    PROVE  /\ j \in Seq(A) /\ Len(j) = Len(s) + Len(t)
           /\ \A i \in 1..Len(s) : j[i] = s[i]
           /\ \A i \in (Len(s) + 1)..(Len(s) + Len(t)) : j[i] = t[i - Len(s)]
<1>1. /\ j \in Seq(A)
      /\ Len(j) = Len(s) + Len(t)
      /\ \A i \in 1 .. Len(s) + Len(t) : j[i] = IF i <= Len(s) THEN s[i] ELSE t[i - Len(s)]
  BY ConcatProperties
<1>2. Len(s) \in Nat /\ Len(t) \in Nat
  OBVIOUS
<1>3. \A i \in 1..Len(s) : i \in 1..(Len(s) + Len(t)) /\ i <= Len(s)
  BY <1>2
<1>4. \A i \in (Len(s) + 1)..(Len(s) + Len(t)) : i \in 1..(Len(s) + Len(t)) /\ ~(i <= Len(s))
  BY <1>2
<1>5. QED
  BY <1>1, <1>3, <1>4

(* Depths an arrangement does not know, and slots of one of them each.     *)
Fresh(d, e) == Once(d) /\ \A i \in DOMAIN d : Bfs(d[i]) \notin Known(e)

(* A slot for each depth.                                                  *)
SlotsFor(new, d) ==
    /\ new \in Seq(Seq(Lanes)) /\ Len(new) = Len(d)
    /\ \A i \in 1..Len(d) : new[i] = <<Bfs(d[i])>>

(* The slots are added on the right.                                       *)
Joined(e, new) == [groups |-> e.groups, slots |-> e.slots \o new, unassigned |-> e.unassigned]

(* Slots of one new depth each are added on the right.                     *)
LEMMA DepthsAppended ==
    ASSUME NEW e \in Arrangements, RowsApart(e), NEW d \in Seq(Nat), Fresh(d, e),
           NEW new, SlotsFor(new, d), NEW f, f = Joined(e, new)
    PROVE  /\ f \in Arrangements /\ RowsApart(f)
           /\ f.groups = e.groups /\ f.unassigned = e.unassigned
           /\ Len(f.slots) = Len(e.slots) + Len(d)
           /\ \A i \in 1..Len(e.slots) : f.slots[i] = e.slots[i]
           /\ \A i \in (Len(e.slots) + 1)..Len(f.slots) :
                 f.slots[i] = <<Bfs(d[i - Len(e.slots)])>>
           /\ \A g \in Groups : Folder(g) \in Known(f) <=> Folder(g) \in Known(e)
<1> DEFINE n == Len(e.slots)
           m == Len(d)
<1>1. /\ e.groups \in SUBSET Groups /\ e.slots \in Seq(Seq(Lanes))
      /\ e.unassigned \in Seq(Lanes)
      /\ n \in Nat /\ DOMAIN e.slots = 1..n
      /\ \A l : l \in Known(e) <=> \E i \in 0..n : l \in ToSet(Chips(e, i))
  BY RowsAre
<1>2. m \in Nat /\ DOMAIN d = 1..m /\ \A i \in 1..m : d[i] \in Nat
  OBVIOUS
<1>3. new \in Seq(Seq(Lanes)) /\ Len(new) = m /\ \A i \in 1..m : new[i] = <<Bfs(d[i])>>
  BY DEF SlotsFor
<1>4. e.slots \o new \in Seq(Seq(Lanes))
  <2> DEFINE j == e.slots \o new
  <2>1. j = e.slots \o new
    OBVIOUS
  <2> HIDE DEF j
  <2>2. j \in Seq(Seq(Lanes))
    BY <1>1, <1>3, <2>1, JoinedIs
  <2>3. QED
    BY <2>2 DEF j
<1>5. /\ f \in Arrangements /\ f.groups = e.groups /\ f.unassigned = e.unassigned
      /\ f.slots = e.slots \o new
  BY <1>1, <1>4 DEF Arrangements, Joined
<1>6. /\ Len(f.slots) = n + m
      /\ \A i \in 1..n : f.slots[i] = e.slots[i]
      /\ \A i \in (n + 1)..(n + m) : f.slots[i] = new[i - n] /\ i - n \in 1..m
  <2> DEFINE j == e.slots \o new
  <2>1. f.slots = j
    BY <1>5
  <2>2. j = e.slots \o new
    OBVIOUS
  <2> HIDE DEF j, n, m
  <2>3. /\ Len(j) = Len(e.slots) + Len(new)
        /\ \A i \in 1..Len(e.slots) : j[i] = e.slots[i]
        /\ \A i \in (Len(e.slots) + 1)..(Len(e.slots) + Len(new)) : j[i] = new[i - Len(e.slots)]
    <3>1. e.slots \in Seq(Seq(Lanes)) /\ new \in Seq(Seq(Lanes))
      BY <1>1, <1>3
    <3>2. QED
      BY <2>2, <3>1, JoinedIs
  <2>4. \A i \in (n + 1)..(n + m) : i - n \in 1..m
    BY <1>1, <1>2
  <2>5. QED
    BY <1>3, <2>3, <2>1, <2>4 DEF n
<1> HIDE DEF n, m
<1>7. /\ \A i \in 0..n : Chips(f, i) = Chips(e, i)
      /\ \A i \in (n + 1)..(n + m) : Chips(f, i) = <<Bfs(d[i - n])>> /\ i - n \in 1..m
  <2>1. \A i \in 0..n : i = 0 \/ i \in 1..n
    BY <1>1
  <2>2. \A i \in (n + 1)..(n + m) : i # 0
    BY <1>1, <1>2
  <2>3. QED
    BY <1>3, <1>5, <1>6, <2>1, <2>2 DEF Chips
<1>8. \A x : ToSet(<<x>>) = {x} /\ Once(<<x>>)
  BY DEF ToSet, Once
<1>9. \A i \in 0..(n + m) : i \in 0..n \/ i \in (n + 1)..(n + m)
  BY <1>1, <1>2
<1>10. \A i \in 0..n : i \in 0..(n + m)
  BY <1>1, <1>2
<1>11. \A i \in (n + 1)..(n + m) : ToSet(Chips(f, i)) = {Bfs(d[i - n])} /\ Once(Chips(f, i))
  BY <1>7, <1>8
<1>12. \A i \in (n + 1)..(n + m) : Bfs(d[i - n]) \notin Known(e)
  BY <1>2, <1>7 DEF Fresh
<1>13. \A l : \A i \in 0..n : l \in ToSet(Chips(f, i)) => l \in Known(e)
  BY <1>1, <1>7
<1>14. RowsApart(f)
  <2>1. \A i \in 0..(n + m) : Once(Chips(f, i))
    BY <1>7, <1>9, <1>11 DEF RowsApart, n
  <2>2. ASSUME NEW i \in 0..(n + m), NEW j \in 0..(n + m), i # j
        PROVE  ToSet(Chips(f, i)) \cap ToSet(Chips(f, j)) = {}
    <3>1. CASE i \in 0..n /\ j \in 0..n
      BY <1>7, <2>2, <3>1 DEF RowsApart, n
    <3>2. CASE i \in 0..n /\ j \in (n + 1)..(n + m)
      BY <1>11, <1>13, <1>12, <3>2
    <3>3. CASE i \in (n + 1)..(n + m) /\ j \in 0..n
      BY <1>11, <1>13, <1>12, <3>3
    <3>4. CASE i \in (n + 1)..(n + m) /\ j \in (n + 1)..(n + m)
      <4>1. i - n # j - n /\ i - n \in 1..m /\ j - n \in 1..m
        BY <1>1, <1>2, <2>2, <3>4
      <4>2. d[i - n] # d[j - n]
        BY <1>2, <4>1 DEF Once, Fresh
      <4>3. QED
        BY <1>11, <3>4, <4>2, LanesAre
    <3>5. QED
      BY <1>9, <3>1, <3>2, <3>3, <3>4
  <2>3. QED
    BY <1>6, <2>1, <2>2 DEF RowsApart
<1>15. ASSUME NEW g \in Groups
       PROVE  Folder(g) \in Known(f) <=> Folder(g) \in Known(e)
  <2>1. Folder(g) \in Known(f) <=> \E i \in 0..(n + m) : Folder(g) \in ToSet(Chips(f, i))
    BY <1>5, <1>6, RowsAre
  <2>2. \A i \in (n + 1)..(n + m) : Folder(g) \notin ToSet(Chips(f, i))
    <3> SUFFICES ASSUME NEW i \in (n + 1)..(n + m) PROVE Folder(g) \notin ToSet(Chips(f, i))
      OBVIOUS
    <3>1. Bfs(d[i - n]) # Folder(g)
      BY LanesAre
    <3>2. QED
      BY <1>11, <3>1
  <2>3. QED
    BY <1>1, <1>7, <1>9, <1>10, <2>1, <2>2
<1>16. \A i \in (n + 1)..(n + m) : f.slots[i] = <<Bfs(d[i - n])>>
  BY <1>3, <1>6
<1>17. QED
  BY <1>5, <1>6, <1>14, <1>15, <1>16 DEF n, m

(* An arrangement as the editor leaves it.                                 *)
Sound(e) == e \in Arrangements /\ Consistent(e)

(* Of a record of the right kind, the rows and the group lanes are to be   *)
(* shown.                                                                  *)
LEMMA SoundIs ==
    ASSUME NEW e \in Arrangements
    PROVE  Consistent(e) <=> /\ RowsApart(e)
                             /\ \A g \in Groups : Folder(g) \in Known(e) <=> g \in e.groups
<1>1. e.groups \subseteq Groups
  BY DEF Arrangements
<1>2. QED
  BY <1>1, ConsistentIs

(* The arrangement without a lane knows the others.                        *)
LEMMA TakenKnows ==
    ASSUME NEW e \in Arrangements, NEW lane
    PROVE  \A l : l \in Known(Taken(e, lane)) <=> l \in Known(e) /\ l # lane
<1> DEFINE f == Taken(e, lane)
<1>1. /\ f \in Arrangements /\ Len(f.slots) = Len(e.slots)
      /\ \A i \in 0..Len(e.slots) : ToSet(Chips(f, i)) = ToSet(Chips(e, i)) \ {lane}
  BY TakenIs
<1> HIDE DEF f
<1>2. \A l : l \in Known(f) <=> \E i \in 0..Len(e.slots) : l \in ToSet(Chips(f, i))
  BY <1>1, RowsAre
<1>3. \A l : l \in Known(e) <=> \E i \in 0..Len(e.slots) : l \in ToSet(Chips(e, i))
  BY RowsAre
<1>4. \A l : l \in Known(f) <=> l \in Known(e) /\ l # lane
  BY <1>1, <1>2, <1>3
<1>5. QED
  BY <1>4 DEF f

(* The depths of a graph are in ascending order, so each is there once.    *)
LEMMA DepthsOnce ==
    ASSUME NEW g \in Graphs
    PROVE  Once(DepthsOf[g])
<1> DEFINE d == DepthsOf[g]
<1>1. d \in Seq(Nat) /\ \A i, j \in DOMAIN d : i < j => d[i] < d[j]
  BY LayerAssumption DEF LayerAssumption
<1> HIDE DEF d
<1>2. DOMAIN d = 1..Len(d) /\ \A i \in DOMAIN d : d[i] \in Nat
  BY <1>1
<1>3. \A i, j \in DOMAIN d : i < j \/ j < i \/ i = j
  BY <1>1, <1>2
<1>4. QED
  BY <1>1, <1>2, <1>3 DEF Once, d

(* Depths, each in a slot of its own.                                      *)
LEMMA DepthRows ==
    ASSUME NEW d \in Seq(Nat)
    PROVE  SlotsFor([i \in DOMAIN d |-> <<Bfs(d[i])>>], d)
<1> DEFINE s == [i \in DOMAIN d |-> <<Bfs(d[i])>>]
<1>1. Len(d) \in Nat /\ DOMAIN d = 1..Len(d) /\ \A i \in 1..Len(d) : d[i] \in Nat
  OBVIOUS
<1>2. \A i \in 1..Len(d) : <<Bfs(d[i])>> \in Seq(Lanes)
  BY <1>1, LanesAre
<1>3. s = [i \in 1..Len(d) |-> <<Bfs(d[i])>>]
  BY <1>1
<1>4. \A i \in 1..Len(d) : s[i] = <<Bfs(d[i])>>
  BY <1>3
<1>5. s \in [1..Len(d) -> Seq(Lanes)]
  BY <1>2, <1>3
<1> HIDE DEF s
<1>6. s \in Seq(Seq(Lanes)) /\ Len(s) = Len(d)
  BY <1>1, <1>5
<1>7. QED
  BY <1>4, <1>6 DEF s, SlotsFor

(* What the editor shows is the stored arrangement with slots of a depth   *)
(* each after it.                                                          *)
ShowsStored(e, kept) ==
    /\ e.groups = kept.groups /\ e.unassigned = kept.unassigned
    /\ Len(kept.slots) <= Len(e.slots)
    /\ \A i \in 1..Len(kept.slots) : e.slots[i] = kept.slots[i]
    /\ \A i \in (Len(kept.slots) + 1)..Len(e.slots) : \E d : e.slots[i] = <<Bfs(d)>>

(* What a graph adds to an arrangement keeps it sound.                     *)
LEMMA BackfilledKeeps ==
    ASSUME NEW e, Sound(e), NEW g \in Graphs, NEW f, f = Backfilled(e, g)
    PROVE  Sound(f) /\ ShowsStored(f, e)
<1> DEFINE S == {d \in Nat : Bfs(d) \notin Known(e)}
           missing == Kept(DepthsOf[g], S)
           new == [i \in DOMAIN missing |-> <<Bfs(missing[i])>>]
<1>1. f = [e EXCEPT !.slots = @ \o new]
  BY DEF Backfilled
<1>2. DepthsOf[g] \in Seq(Nat)
  BY LayerAssumption DEF LayerAssumption
<1>3. Once(DepthsOf[g])
  BY DepthsOnce
<1> HIDE DEF S
<1>4. missing \in Seq(Nat) /\ ToSet(missing) = ToSet(DepthsOf[g]) \cap S /\ Once(missing)
  BY <1>2, <1>3, KeptOnce
<1> HIDE DEF missing
<1>5. SlotsFor(new, missing)
  BY <1>4, DepthRows
<1> HIDE DEF new
<1>6. \A i \in DOMAIN missing : Bfs(missing[i]) \notin Known(e)
  <2>1. \A i \in DOMAIN missing : missing[i] \in S
    BY <1>4 DEF ToSet
  <2>2. QED
    BY <2>1 DEF S
<1>7. /\ e \in Arrangements /\ RowsApart(e)
      /\ \A h \in Groups : Folder(h) \in Known(e) <=> h \in e.groups
  BY SoundIs DEF Sound
<1>8. /\ f \in Arrangements /\ RowsApart(f)
      /\ f.groups = e.groups /\ f.unassigned = e.unassigned
      /\ Len(f.slots) = Len(e.slots) + Len(missing)
      /\ \A i \in 1..Len(e.slots) : f.slots[i] = e.slots[i]
      /\ \A i \in (Len(e.slots) + 1)..Len(f.slots) :
            f.slots[i] = <<Bfs(missing[i - Len(e.slots)])>>
      /\ \A h \in Groups : Folder(h) \in Known(f) <=> Folder(h) \in Known(e)
  <2>1. f = Joined(e, new)
    BY <1>1, <1>7 DEF Arrangements, Joined
  <2>2. Fresh(missing, e)
    BY <1>4, <1>6 DEF Fresh
  <2>3. QED
    BY <1>4, <1>7, <1>5, <2>1, <2>2, DepthsAppended
<1>9. Sound(f)
  BY <1>7, <1>8, SoundIs DEF Sound
<1>10. Len(e.slots) \in Nat /\ Len(missing) \in Nat
  BY <1>4, <1>7, RowsAre
<1>11. Len(e.slots) <= Len(f.slots)
  BY <1>8, <1>10
<1>12. ShowsStored(f, e)
  BY <1>8, <1>11 DEF ShowsStored
<1>13. QED
  BY <1>9, <1>12

(* So is the arrangement nobody has edited.                                *)
LEMMA DefaultIsSound ==
    ASSUME NEW g \in Graphs \cup {None}
    PROVE  Sound(Default(g))
<1> DEFINE e == [groups |-> {}, slots |-> <<>>, unassigned |-> <<>>]
<1>1. e \in Arrangements /\ Len(e.slots) = 0 /\ Chips(e, 0) = <<>>
  BY DEF Arrangements, Chips
<1>2. ToSet(<<>>) = {} /\ Once(<<>>)
  BY DEF ToSet, Once
<1> HIDE DEF e
<1>3. \A i \in 0..Len(e.slots) : Chips(e, i) = <<>>
  BY <1>1
<1>4. (\A l : l \notin Known(e)) /\ RowsApart(e)
  <2>1. \A l : l \in Known(e) <=> \E i \in 0..Len(e.slots) : l \in ToSet(Chips(e, i))
    BY <1>1, RowsAre
  <2>2. QED
    BY <1>2, <1>3, <2>1 DEF RowsApart
<1>5. e.groups = {}
  BY DEF e
<1>6. Sound(e)
  BY <1>1, <1>4, <1>5, SoundIs DEF Sound
<1>7. CASE g = None
  BY <1>6, <1>7 DEF Default, e
<1>8. CASE g # None
  <2> DEFINE d == DepthsOf[g]
             s == [i \in DOMAIN d |-> <<Bfs(d[i])>>]
             f == Joined(e, s)
  <2>1. d \in Seq(Nat)
    BY <1>8, LayerAssumption DEF LayerAssumption
  <2>2. Once(d)
    BY <1>8, DepthsOnce
  <2>3. Default(g) = [groups |-> {}, slots |-> s, unassigned |-> <<>>]
    BY <1>8 DEF Default
  <2> HIDE DEF d
  <2>4. SlotsFor(s, d)
    BY <2>1, DepthRows
  <2> HIDE DEF s
  <2>5. f = Default(g)
    <3>1. <<>> \o s = s
      BY <2>4, ConcatEmptySeq DEF SlotsFor
    <3>2. QED
      BY <2>3, <3>1 DEF e, Joined
  <2>6. Fresh(d, e)
    BY <1>4, <2>2 DEF Fresh
  <2>7. /\ f \in Arrangements /\ RowsApart(f) /\ f.groups = e.groups
        /\ \A h \in Groups : Folder(h) \in Known(f) <=> Folder(h) \in Known(e)
    BY <1>1, <1>4, <2>1, <2>4, <2>6, DepthsAppended
  <2> HIDE DEF f
  <2>8. Sound(f)
    BY <1>4, <1>5, <2>7, SoundIs DEF Sound
  <2>9. QED
    BY <2>5, <2>8
<1>9. QED
  BY <1>7, <1>8

(* The larger of two numbers.                                              *)
LEMMA MaxOfTwo ==
    ASSUME NEW m \in Nat, NEW n \in Nat
    PROVE  Max({m, n}) \in {m, n} /\ Max({m, n}) >= m /\ Max({m, n}) >= n
<1>1. \E x \in {m, n} : \A y \in {m, n} : x >= y
  OBVIOUS
<1>2. Max({m, n}) \in {m, n} /\ \A y \in {m, n} : Max({m, n}) >= y
  BY <1>1 DEF Max
<1>3. QED
  BY <1>2

(* The smaller.                                                            *)
LEMMA MinOfTwo ==
    ASSUME NEW m \in Nat, NEW n \in Nat
    PROVE  Min({m, n}) \in {m, n} /\ Min({m, n}) <= m /\ Min({m, n}) <= n
<1>1. \E x \in {m, n} : \A y \in {m, n} : x <= y
  OBVIOUS
<1>2. Min({m, n}) \in {m, n} /\ \A y \in {m, n} : Min({m, n}) <= y
  BY <1>1 DEF Min
<1>3. QED
  BY <1>2

(* A lane that was taken out is put into a row.                            *)
LEMMA PutBack ==
    ASSUME NEW e, Sound(e), NEW lane \in Lanes, lane \in Known(e),
           NEW left \in Arrangements, RowsApart(left), left.groups = e.groups,
           \A l : l \in Known(left) <=> l \in Known(e) /\ l # lane,
           NEW to \in 0..Len(left.slots), NEW f \in Arrangements, f.groups = e.groups,
           Len(f.slots) = Len(left.slots),
           \A i \in 0..Len(left.slots) : i # to => Chips(f, i) = Chips(left, i),
           ToSet(Chips(f, to)) = ToSet(Chips(left, to)) \cup {lane},
           Once(Chips(left, to)) /\ lane \notin ToSet(Chips(left, to)) => Once(Chips(f, to))
    PROVE  RowsApart(f) /\ Sound(f)
<1>1. lane \notin Known(left)
  OBVIOUS
<1>2. lane \notin ToSet(Chips(left, to)) /\ Once(Chips(left, to))
  BY <1>1, RowsAre DEF RowsApart
<1>3. Once(Chips(f, to))
  BY <1>2
<1>4. RowsApart(f) /\ \A l : l \in Known(f) <=> l \in Known(left) \/ l = lane
  BY <1>1, <1>3, PutKeeps
<1>5. \A l : l \in Known(f) <=> l \in Known(e)
  BY <1>4
<1>6. e \in Arrangements /\ \A h \in Groups : Folder(h) \in Known(e) <=> h \in e.groups
  BY SoundIs DEF Sound
<1>7. Sound(f)
  BY <1>4, <1>5, <1>6, SoundIs DEF Sound
<1>8. QED
  BY <1>4, <1>7

(* An arrangement whose empty slots at the end are cut off is sound still. *)
LEMMA TrimmedSound ==
    ASSUME NEW e, Sound(e), NEW f,
           f = [groups |-> e.groups, slots |-> Trimmed(e.slots), unassigned |-> e.unassigned]
    PROVE  Sound(f)
<1>1. /\ e \in Arrangements /\ RowsApart(e)
      /\ \A h \in Groups : Folder(h) \in Known(e) <=> h \in e.groups
  BY SoundIs DEF Sound
<1>2. /\ f \in Arrangements /\ RowsApart(f) /\ f.groups = e.groups
      /\ \A lane : lane \in Known(f) <=> lane \in Known(e)
  BY <1>1, TrimmedKeeps
<1>3. QED
  BY <1>1, <1>2, SoundIs DEF Sound

(* A lane is moved.                                                        *)
LEMMA MovedKeeps ==
    ASSUME NEW e, Sound(e), NEW lane, lane \in Known(e), NEW to \in Nat, NEW at \in Nat \ {0}
    PROVE  Sound(Moved(e, lane, to, at))
<1> DEFINE left == Taken(e, lane)
<1>1. /\ e \in Arrangements /\ RowsApart(e)
      /\ \A h \in Groups : Folder(h) \in Known(e) <=> h \in e.groups
  BY SoundIs DEF Sound
<1>2. lane \in Lanes
  <2>1. PICK i \in 0..Len(e.slots) : lane \in ToSet(Chips(e, i))
    BY <1>1, RowsAre
  <2>2. Chips(e, i) \in Seq(Lanes)
    BY <1>1, RowsAre
  <2>3. QED
    BY <2>1, <2>2 DEF ToSet
<1>3. left \in Arrangements /\ RowsApart(left) /\ left.groups = e.groups
  BY <1>1, TakenIs
<1>4. \A l : l \in Known(left) <=> l \in Known(e) /\ l # lane
  BY <1>1, TakenKnows
<1> HIDE DEF left
<1>5. /\ left.groups \in SUBSET Groups /\ left.slots \in Seq(Seq(Lanes))
      /\ left.unassigned \in Seq(Lanes)
      /\ Len(left.slots) \in Nat /\ DOMAIN left.slots = 1..Len(left.slots)
  BY <1>3, RowsAre
<1>6. CASE to = 0
  <2> DEFINE f == [groups |-> left.groups, slots |-> left.slots,
                   unassigned |-> Append(left.unassigned, lane)]
             h == [groups |-> f.groups, slots |-> Trimmed(f.slots), unassigned |-> f.unassigned]
  <2>1. /\ Append(left.unassigned, lane) \in Seq(Lanes)
        /\ ToSet(Append(left.unassigned, lane)) = ToSet(left.unassigned) \cup {lane}
        /\ Once(left.unassigned) /\ lane \notin ToSet(left.unassigned)
              => Once(Append(left.unassigned, lane))
    BY <1>2, <1>5, AppendOnce
  <2>2. Moved(e, lane, to, at)
          = [left EXCEPT !.slots = Trimmed(@), !.unassigned = Append(@, lane)]
    BY <1>6 DEF Moved, left
  <2>3. Moved(e, lane, to, at) = h
    BY <1>3, <2>2 DEF Arrangements
  <2>4. f \in Arrangements /\ f.groups = e.groups /\ f.slots = left.slots
        /\ f.unassigned = Append(left.unassigned, lane)
    BY <1>3, <1>5, <2>1 DEF Arrangements
  <2> HIDE DEF f
  <2>5. \A i \in 0..Len(left.slots) : i # 0 => Chips(f, i) = Chips(left, i)
    BY <2>4 DEF Chips
  <2>6. Chips(f, 0) = Append(left.unassigned, lane) /\ Chips(left, 0) = left.unassigned
    BY <2>4 DEF Chips
  <2>7. 0 \in 0..Len(left.slots) /\ Len(f.slots) = Len(left.slots)
    BY <1>5, <2>4
  <2>8. /\ ToSet(Chips(f, 0)) = ToSet(Chips(left, 0)) \cup {lane}
        /\ Once(Chips(left, 0)) /\ lane \notin ToSet(Chips(left, 0)) => Once(Chips(f, 0))
    BY <2>1, <2>6
  <2>9. f.groups = e.groups
    BY <1>3, <2>4
  <2>10. Sound(f)
    BY <1>2, <1>3, <1>4, <2>4, <2>5, <2>7, <2>8, <2>9, PutBack
  <2>11. QED
    BY <2>3, <2>10, TrimmedSound
<1>7. CASE to # 0
  <2> DEFINE n == Max({to, Len(left.slots)})
             grown == [i \in 1..n |-> IF i \in DOMAIN left.slots THEN left.slots[i] ELSE <<>>]
             index == Min({at, Len(grown[to]) + 1})
             row == InsertAt(grown[to], index, lane)
             slots == [grown EXCEPT ![to] = row]
             g == [groups |-> left.groups, slots |-> grown, unassigned |-> left.unassigned]
             f == [groups |-> left.groups, slots |-> slots, unassigned |-> left.unassigned]
             h == [groups |-> f.groups, slots |-> Trimmed(f.slots), unassigned |-> f.unassigned]
  <2>1. n \in Nat /\ n >= Len(left.slots) /\ to \in 1..n
    <3>1. n \in {to, Len(left.slots)} /\ n >= to /\ n >= Len(left.slots)
      BY <1>5, MaxOfTwo
    <3> HIDE DEF n
    <3>2. QED
      BY <1>5, <1>7, <3>1
  <2>2. Moved(e, lane, to, at) = [left EXCEPT !.slots = Trimmed(slots)]
    BY <1>7 DEF Moved, left
  <2>3. Moved(e, lane, to, at) = h
    BY <1>3, <2>2 DEF Arrangements
  <2> HIDE DEF n
  <2>4. /\ g \in Arrangements /\ RowsApart(g) /\ g.groups = left.groups /\ Len(g.slots) = n
        /\ \A l : l \in Known(g) <=> l \in Known(left)
    BY <1>3, <2>1, GrownKeeps
  <2>5. g.slots = grown /\ g.unassigned = left.unassigned
    OBVIOUS
  <2> HIDE DEF grown, g
  <2>6. grown \in Seq(Seq(Lanes)) /\ Len(grown) = n
    BY <2>4, <2>5, RowsAre
  <2>7. grown[to] \in Seq(Lanes)
    BY <2>1, <2>6
  <2>8. index \in 1..(Len(grown[to]) + 1)
    <3>1. Len(grown[to]) + 1 \in Nat /\ at \in Nat
      BY <2>7
    <3>2. index \in {at, Len(grown[to]) + 1} /\ index <= Len(grown[to]) + 1
      BY <3>1, MinOfTwo
    <3> HIDE DEF index
    <3>3. QED
      BY <3>1, <3>2, <2>7
  <2> HIDE DEF index
  <2>9. /\ row \in Seq(Lanes) /\ ToSet(row) = ToSet(grown[to]) \cup {lane}
        /\ Once(grown[to]) /\ lane \notin ToSet(grown[to]) => Once(row)
    BY <1>2, <2>7, <2>8, InsertOnce
  <2> HIDE DEF row
  <2>10. slots \in Seq(Seq(Lanes)) /\ Len(slots) = n
    BY <2>1, <2>6, <2>9
  <2>11. slots[to] = row /\ \A i \in 1..n : i # to => slots[i] = grown[i]
    BY <2>1, <2>6
  <2> HIDE DEF slots
  <2>12. /\ f \in Arrangements /\ f.groups = left.groups /\ f.slots = slots
         /\ f.unassigned = left.unassigned
    BY <1>5, <2>10 DEF Arrangements
  <2> HIDE DEF f
  <2>13. Chips(f, to) = row /\ Chips(g, to) = grown[to]
    BY <1>7, <2>5, <2>11, <2>12 DEF Chips
  <2>14. \A i \in 0..n : i # to => Chips(f, i) = Chips(g, i)
    <3>1. \A i \in 0..n : i = 0 \/ i \in 1..n
      BY <2>1
    <3>2. QED
      BY <3>1, <2>5, <2>11, <2>12 DEF Chips
  <2>15. \A l : l \in Known(g) <=> l \in Known(e) /\ l # lane
    BY <1>4, <2>4
  <2>16. Len(f.slots) = n /\ to \in 0..n /\ f.groups = e.groups /\ g.groups = e.groups
    BY <1>3, <2>1, <2>4, <2>10, <2>12
  <2>17. Sound(f)
    BY <1>2, <2>4, <2>9, <2>12, <2>13, <2>14, <2>15, <2>16, PutBack
  <2>18. QED
    BY <2>3, <2>17, TrimmedSound
<1>8. QED
  BY <1>6, <1>7

(* A group is dissolved.                                                   *)
LEMMA WithoutGroupKeeps ==
    ASSUME NEW e, Sound(e), NEW g \in Groups
    PROVE  Sound(WithoutGroup(e, g))
<1> DEFINE left == Taken(e, Folder(g))
           f == WithoutGroup(e, g)
<1>1. /\ e \in Arrangements /\ RowsApart(e)
      /\ \A h \in Groups : Folder(h) \in Known(e) <=> h \in e.groups
  BY SoundIs DEF Sound
<1>2. left \in Arrangements /\ RowsApart(left) /\ left.groups = e.groups
  BY <1>1, TakenIs
<1>3. \A l : l \in Known(left) <=> l \in Known(e) /\ l # Folder(g)
  BY <1>1, TakenKnows
<1>4. f = [left EXCEPT !.groups = @ \ {g}]
  BY DEF WithoutGroup
<1> HIDE DEF left, f
<1>5. /\ f \in Arrangements /\ f.groups = left.groups \ {g}
      /\ f.slots = left.slots /\ f.unassigned = left.unassigned
  BY <1>2, <1>4 DEF Arrangements
<1>6. \A i : Chips(f, i) = Chips(left, i)
  BY <1>5 DEF Chips
<1>7. RowsApart(f) /\ \A l : l \in Known(f) <=> l \in Known(left)
  BY <1>2, <1>5, <1>6, RowsAre DEF RowsApart
<1>8. \A h \in Groups : Folder(h) = Folder(g) <=> h = g
  BY LanesAre
<1>9. \A h \in Groups : Folder(h) \in Known(f) <=> h \in f.groups
  BY <1>1, <1>2, <1>3, <1>5, <1>7, <1>8
<1>10. Sound(f)
  BY <1>5, <1>7, <1>9, SoundIs DEF Sound
<1>11. QED
  BY <1>10 DEF f

(* A group is made.                                                        *)
LEMMA WithGroupKeeps ==
    ASSUME NEW e, Sound(e), NEW g \in Groups, g \notin e.groups
    PROVE  Sound([e EXCEPT !.groups = @ \cup {g}, !.unassigned = Append(@, Folder(g))])
<1> DEFINE f == [e EXCEPT !.groups = @ \cup {g}, !.unassigned = Append(@, Folder(g))]
<1>1. /\ e \in Arrangements /\ RowsApart(e)
      /\ \A h \in Groups : Folder(h) \in Known(e) <=> h \in e.groups
  BY SoundIs DEF Sound
<1>2. /\ e.groups \in SUBSET Groups /\ e.slots \in Seq(Seq(Lanes))
      /\ e.unassigned \in Seq(Lanes)
      /\ Len(e.slots) \in Nat
  BY <1>1, RowsAre
<1>3. /\ Append(e.unassigned, Folder(g)) \in Seq(Lanes)
      /\ ToSet(Append(e.unassigned, Folder(g))) = ToSet(e.unassigned) \cup {Folder(g)}
      /\ Once(e.unassigned) /\ Folder(g) \notin ToSet(e.unassigned)
            => Once(Append(e.unassigned, Folder(g)))
  BY <1>2, LanesAre, AppendOnce
<1>4. /\ f \in Arrangements /\ f.groups = e.groups \cup {g} /\ f.slots = e.slots
      /\ f.unassigned = Append(e.unassigned, Folder(g))
  BY <1>1, <1>2, <1>3 DEF Arrangements
<1> HIDE DEF f
<1>5. /\ 0 \in 0..Len(e.slots) /\ Chips(e, 0) = e.unassigned
      /\ Chips(f, 0) = Append(e.unassigned, Folder(g))
  BY <1>2, <1>4 DEF Chips
<1>6. \A i \in 0..Len(e.slots) : i # 0 => Chips(f, i) = Chips(e, i)
  BY <1>4 DEF Chips
<1>7. Folder(g) \notin Known(e)
  BY <1>1
<1>8. Once(Chips(f, 0))
  <2>1. Once(e.unassigned) /\ Folder(g) \notin ToSet(e.unassigned)
    BY <1>1, <1>5, <1>7, RowsAre DEF RowsApart
  <2>2. QED
    BY <1>3, <1>5, <2>1
<1>9. Len(f.slots) = Len(e.slots) /\ ToSet(Chips(f, 0)) = ToSet(Chips(e, 0)) \cup {Folder(g)}
  BY <1>3, <1>4, <1>5
<1>10. RowsApart(f) /\ \A l : l \in Known(f) <=> l \in Known(e) \/ l = Folder(g)
  BY <1>1, <1>4, <1>5, <1>6, <1>7, <1>8, <1>9, PutKeeps
<1>11. \A h \in Groups : Folder(h) = Folder(g) <=> h = g
  BY LanesAre
<1>12. \A h \in Groups : Folder(h) \in Known(f) <=> h \in f.groups
  BY <1>1, <1>4, <1>10, <1>11
<1>13. Sound(f)
  BY <1>4, <1>10, <1>12, SoundIs DEF Sound
<1>14. QED
  BY <1>13 DEF f

----------------------------------------------------------------------------
(* The invariant of the editor.                                            *)

(* What there is, and positions are of the nodes of the graph.             *)
TypeInv ==
    /\ dragged \in BOOLEAN
    /\ graph \in Graphs \cup {None}
    /\ pending \in Places \cup {None} /\ storedPos \in Places \cup {None}
    /\ graph = None => pos = None
    /\ graph # None => pos \in Places /\ pos.of = NodesOf[graph]

(* What is drawn and what is kept are sound arrangements.                  *)
EditorSound ==
    /\ Sound(editor)
    /\ storedEditor # None => Sound(storedEditor)
    /\ preset # None => Sound(preset)

(* The editor shows what is stored.                                        *)
StoredShown == storedEditor # None => ShowsStored(editor, storedEditor)

(* While dragged positions are shown, the last written were dragged too,   *)
(* whatever nodes they are for.                                            *)
DropWritten ==
    pos # None /\ pos.kind = "dropped" =>
        LET last == IF pending # None THEN pending ELSE storedPos
        IN  last # None /\ last.kind = "dropped"

(* The invariant.                                                          *)
Inv == TypeInv /\ EditorSound /\ StoredShown /\ DropWritten

(* None is nothing else.                                                   *)
LEMMA NoneIsNone ==
    None \notin Graphs /\ None \notin Arrangements /\ None \notin Places
  BY LayerAssumption DEF LayerAssumption

(* The three ways positions come about.                                    *)
LEMMA PlacesAre ==
    /\ \A g \in Graphs : /\ Layout(g) \in Places /\ Layout(g).of = NodesOf[g]
                         /\ Layout(g).kind = "layout"
                         /\ Restored(g) \in Places /\ Restored(g).of = NodesOf[g]
                         /\ Restored(g).kind = "restored"
                         /\ Dropped(g) \in Places /\ Dropped(g).of = NodesOf[g]
                         /\ Dropped(g).kind = "dropped"
    /\ \A p \in Places : p.kind \in {"layout", "restored", "dropped"}
  BY DEF Places, Layout, Restored, Dropped

(* An arrangement shows itself.                                            *)
LEMMA ShowsItself ==
    ASSUME NEW e, Sound(e)
    PROVE  ShowsStored(e, e)
<1>1. Len(e.slots) \in Nat
  BY RowsAre DEF Sound
<1>2. QED
  BY <1>1 DEF ShowsStored

(* New depths leave the stored arrangement where it is.                    *)
LEMMA ShowsBackfilled ==
    ASSUME NEW e, Sound(e), NEW kept, Sound(kept), ShowsStored(e, kept),
           NEW g \in Graphs
    PROVE  ShowsStored(Backfilled(e, g), kept)
<1> DEFINE f == Backfilled(e, g)
<1>1. f = Backfilled(e, g)
  OBVIOUS
<1> HIDE DEF f
<1>2. Sound(f) /\ ShowsStored(f, e)
  BY <1>1, BackfilledKeeps
<1>3. Len(f.slots) \in Nat /\ Len(e.slots) \in Nat /\ Len(kept.slots) \in Nat
  BY <1>2, RowsAre DEF Sound
<1>4. Len(kept.slots) <= Len(f.slots)
  BY <1>2, <1>3 DEF ShowsStored
<1>5. \A i \in 1..Len(kept.slots) : f.slots[i] = kept.slots[i]
  <2>1. \A i \in 1..Len(kept.slots) : i \in 1..Len(e.slots)
    BY <1>3 DEF ShowsStored
  <2>2. QED
    BY <1>2, <2>1 DEF ShowsStored
<1>6. ASSUME NEW i \in (Len(kept.slots) + 1)..Len(f.slots)
      PROVE  \E d : f.slots[i] = <<Bfs(d)>>
  <2>1. CASE i <= Len(e.slots)
    <3>1. i \in (Len(kept.slots) + 1)..Len(e.slots) /\ i \in 1..Len(e.slots)
      BY <1>3, <2>1
    <3>2. \E d : e.slots[i] = <<Bfs(d)>>
      BY <3>1 DEF ShowsStored
    <3>3. f.slots[i] = e.slots[i]
      BY <1>2, <3>1 DEF ShowsStored
    <3>4. QED
      BY <3>2, <3>3
  <2>2. CASE ~(i <= Len(e.slots))
    <3>1. i \in (Len(e.slots) + 1)..Len(f.slots)
      BY <1>3, <2>2
    <3>2. QED
      BY <1>2, <3>1 DEF ShowsStored
  <2>3. QED
    BY <2>1, <2>2
<1>7. QED
  BY <1>2, <1>4, <1>5, <1>6 DEF ShowsStored, f

(* Nothing is stored at first.                                             *)
LEMMA InitInv == Init => Inv
<1> SUFFICES ASSUME Init PROVE Inv
  OBVIOUS
<1>1. Sound(editor)
  BY DefaultIsSound DEF Init
<1>2. TypeInv /\ EditorSound /\ StoredShown /\ DropWritten
  BY <1>1 DEF Init, TypeInv, EditorSound, StoredShown, DropWritten
<1>3. QED
  BY <1>2 DEF Inv

(* The layer effect shows a layout of the canvas, or nothing.              *)
LEMMA LayerEffectKeeps ==
    ASSUME TypeInv, DropWritten, LayerEffect, graph' = graph
    PROVE  TypeInv' /\ DropWritten'
<1>1. CASE graph = None
  BY <1>1 DEF LayerEffect, positions, TypeInv, DropWritten
<1>2. CASE graph # None
  <2>1. /\ graph \in Graphs /\ pos' = Layout(graph) /\ pending' = Layout(graph)
        /\ storedPos' = storedPos /\ dragged' = dragged
    BY <1>2 DEF LayerEffect, Write, TypeInv
  <2>2. /\ Layout(graph) \in Places /\ Layout(graph).of = NodesOf[graph]
        /\ Layout(graph).kind = "layout"
    BY <2>1, PlacesAre
  <2>3. TypeInv'
    BY <1>2, <2>1, <2>2 DEF TypeInv
  <2>4. DropWritten'
    BY <2>1, <2>2 DEF DropWritten
  <2>5. QED
    BY <2>3, <2>4
<1>3. QED
  BY <1>1, <1>2

(* An edit is drawn and stored.                                            *)
LEMMA SetStateKeeps ==
    ASSUME Inv, NEW e, Sound(e), SetState(e)
    PROVE  Inv'
<1>1. /\ editor' = e /\ storedEditor' = e /\ preset' = preset /\ graph' = graph /\ LayerEffect
  BY DEF SetState
<1>2. TypeInv' /\ DropWritten'
  BY <1>1, LayerEffectKeeps DEF Inv
<1>3. EditorSound'
  <2>1. Sound(editor')
    BY <1>1
  <2>2. storedEditor' # None => Sound(storedEditor')
    BY <1>1
  <2>3. preset' # None => Sound(preset')
    BY <1>1 DEF Inv, EditorSound
  <2>4. QED
    BY <2>1, <2>2, <2>3 DEF EditorSound
<1>4. StoredShown'
  <2>1. ShowsStored(editor', storedEditor')
    BY <1>1, ShowsItself
  <2>2. QED
    BY <2>1 DEF StoredShown
<1>5. QED
  BY <1>2, <1>3, <1>4 DEF Inv

(* A snapshot of what is shown is a value of its kind.                     *)
LEMMA SnapshotIs ==
    ASSUME TypeInv, NEW p \in Places, p.kind = "restored" => storedPos # None
    PROVE  /\ Snapshot(p) \in Places /\ Snapshot(p).of = p.of
           /\ p.kind = "dropped" => Snapshot(p).kind = "dropped"
  BY DEF TypeInv, Places, Snapshot

(* A graph arrives: its depths are added, and its nodes placed.            *)
LEMMA GraphArrivesKeeps ==
    ASSUME Inv, NEW g \in Graphs, GraphArrives(g)
    PROVE  Inv'
<1> DEFINE restored == storedPos # None /\ NodesOf[g] \subseteq storedPos.of
           first == IF ~Changed(g) THEN pos
                    ELSE IF ~restored THEN Layout(g)
                    ELSE IF graph = None \/ NodesOf[g] \ NodesOf[graph] # {}
                         THEN Restored(g)
                         ELSE [of |-> NodesOf[g], kind |-> pos.kind]
           e == IF DepthsOf[g] = DepthsNow THEN editor ELSE Backfilled(editor, g)
<1>1. /\ graph' = g /\ editor' = e
      /\ IF e # editor THEN pos' = Layout(g) /\ pending' = Layout(g)
         ELSE /\ pos' = first
              /\ IF Changed(g) /\ ~dragged
                 THEN pending' = Snapshot(first) ELSE pending' = pending
      /\ storedEditor' = storedEditor /\ preset' = preset
      /\ storedPos' = storedPos /\ dragged' = dragged
  BY DEF GraphArrives, Write
<1>2. g # None /\ TypeInv /\ EditorSound /\ StoredShown /\ DropWritten
  BY NoneIsNone DEF Inv
<1>3. Sound(e)
  BY <1>2, BackfilledKeeps DEF EditorSound
<1>4. storedEditor # None => ShowsStored(e, storedEditor)
  BY <1>2, ShowsBackfilled DEF EditorSound, StoredShown
<1>5. /\ first \in Places /\ first.of = NodesOf[g]
      /\ first.kind = "restored" /\ Changed(g) => storedPos # None
      /\ first.kind = "dropped" => graph # None /\ pos.kind = "dropped"
  <2>1. CASE ~Changed(g)
    BY <1>2, <2>1 DEF TypeInv, Changed
  <2>2. CASE Changed(g) /\ ~restored
    BY <2>2, PlacesAre
  <2>3. CASE Changed(g) /\ restored /\ (graph = None \/ NodesOf[g] \ NodesOf[graph] # {})
    BY <2>3, PlacesAre
  <2>4. CASE Changed(g) /\ restored /\ ~(graph = None \/ NodesOf[g] \ NodesOf[graph] # {})
    <3>1. pos \in Places /\ pos.kind \in {"layout", "restored", "dropped"}
      BY <1>2, <2>4, PlacesAre DEF TypeInv
    <3>2. first = [of |-> NodesOf[g], kind |-> pos.kind]
      BY <2>4
    <3>3. [of |-> NodesOf[g], kind |-> pos.kind] \in Places
      BY <3>1 DEF Places
    <3>4. QED
      BY <2>4, <3>2, <3>3
  <2>5. QED
    BY <2>1, <2>2, <2>3, <2>4
<1> HIDE DEF e, first, restored
<1>6. ASSUME e # editor
      PROVE  TypeInv' /\ DropWritten'
  <2>1. Layout(g) \in Places /\ Layout(g).of = NodesOf[g] /\ Layout(g).kind = "layout"
    BY PlacesAre
  <2>2. pos' = Layout(g) /\ pending' = Layout(g)
    BY <1>1, <1>6
  <2>3. TypeInv'
    BY <1>1, <1>2, <2>1, <2>2 DEF TypeInv
  <2>4. DropWritten'
    BY <2>1, <2>2 DEF DropWritten
  <2>5. QED
    BY <2>3, <2>4
<1>7. ASSUME e = editor /\ Changed(g) /\ ~dragged
      PROVE  TypeInv' /\ DropWritten'
  <2>1. pos' = first /\ pending' = Snapshot(first)
    BY <1>1, <1>7
  <2>2. /\ Snapshot(first) \in Places /\ Snapshot(first).of = first.of
        /\ first.kind = "dropped" => Snapshot(first).kind = "dropped"
    BY <1>2, <1>5, <1>7, SnapshotIs
  <2>3. Snapshot(first) # None
    BY <2>2, NoneIsNone
  <2>4. TypeInv'
    BY <1>1, <1>2, <1>5, <2>1, <2>2 DEF TypeInv
  <2>5. DropWritten'
    BY <2>1, <2>2, <2>3 DEF DropWritten
  <2>6. QED
    BY <2>4, <2>5
<1>8. ASSUME e = editor /\ ~(Changed(g) /\ ~dragged)
      PROVE  TypeInv' /\ DropWritten'
  <2>1. pos' = first /\ pending' = pending
    BY <1>1, <1>8
  <2>2. TypeInv'
    BY <1>1, <1>2, <1>5, <2>1 DEF TypeInv
  <2>3. first.kind = "dropped" => pos # None /\ pos.kind = "dropped"
    BY <1>2, <1>5, NoneIsNone DEF TypeInv
  <2>4. DropWritten'
    BY <1>1, <1>2, <2>1, <2>3 DEF DropWritten
  <2>5. QED
    BY <2>2, <2>4
<1>9. EditorSound'
  <2>1. /\ Sound(editor')
        /\ storedEditor' # None => Sound(storedEditor')
        /\ preset' # None => Sound(preset')
    BY <1>1, <1>2, <1>3 DEF EditorSound
  <2>2. QED
    BY <2>1 DEF EditorSound
<1>10. StoredShown'
  <2>1. storedEditor' # None => ShowsStored(editor', storedEditor')
    BY <1>1, <1>4
  <2>2. QED
    BY <2>1 DEF StoredShown
<1>11. QED
  BY <1>6, <1>7, <1>8, <1>9, <1>10 DEF Inv

(* A step that leaves the arrangements as they are.                        *)
LEMMA ArrangementsStay ==
    ASSUME EditorSound, StoredShown,
           editor' = editor, storedEditor' = storedEditor, preset' \in {preset, editor, None}
    PROVE  EditorSound' /\ StoredShown'
<1>1. /\ Sound(editor')
      /\ storedEditor' # None => Sound(storedEditor')
      /\ preset' # None => Sound(preset')
  BY DEF EditorSound
<1>2. storedEditor' # None => ShowsStored(editor', storedEditor')
  BY DEF StoredShown
<1>3. QED
  BY <1>1, <1>2 DEF EditorSound, StoredShown

(* The user drags, the timer runs out, or the layout is done again.        *)
LEMMA PositionsKeep ==
    ASSUME Inv, Drag \/ Timer \/ Relayout
    PROVE  Inv'
<1>1. EditorSound' /\ StoredShown'
  BY ArrangementsStay DEF Inv, Drag, Timer, Relayout, arrangement
<1>2. TypeInv /\ DropWritten
  BY DEF Inv
<1>3. CASE Drag
  <2>1. /\ graph # None /\ dragged' = TRUE /\ pos' = Dropped(graph) /\ pending' = Dropped(graph)
        /\ graph' = graph /\ storedPos' = storedPos
    BY <1>3 DEF Drag, Write
  <2>2. /\ Dropped(graph) \in Places /\ Dropped(graph).of = NodesOf[graph]
        /\ Dropped(graph).kind = "dropped"
    BY <1>2, <2>1, PlacesAre DEF TypeInv
  <2>3. TypeInv'
    BY <1>2, <2>1, <2>2 DEF TypeInv
  <2>4. Dropped(graph) # None
    BY <2>2, NoneIsNone
  <2>5. DropWritten'
    BY <2>1, <2>2, <2>4 DEF DropWritten
  <2>6. QED
    BY <1>1, <2>3, <2>5 DEF Inv
<1>4. CASE Timer
  <2>1. /\ pending # None /\ storedPos' = pending /\ pending' = None
        /\ graph' = graph /\ pos' = pos /\ dragged' = dragged
    BY <1>4 DEF Timer
  <2>2. TypeInv'
    BY <1>2, <2>1 DEF TypeInv
  <2>3. DropWritten'
    BY <1>2, <2>1 DEF DropWritten
  <2>4. QED
    BY <1>1, <2>2, <2>3 DEF Inv
<1>5. CASE Relayout
  <2>1. CASE graph = None
    <3>1. /\ storedPos' = None /\ pending' = None /\ pos' = pos
          /\ dragged' = dragged /\ graph' = graph
      BY <1>5, <2>1 DEF Relayout
    <3>2. TypeInv' /\ DropWritten'
      BY <1>2, <2>1, <3>1 DEF TypeInv, DropWritten
    <3>3. QED
      BY <1>1, <3>2 DEF Inv
  <2>2. CASE graph # None
    <3>1. /\ storedPos' = None /\ dragged' = FALSE /\ graph' = graph
          /\ pos' = Layout(graph) /\ pending' = Layout(graph)
      BY <1>5, <2>2 DEF Relayout, Write
    <3>2. /\ Layout(graph) \in Places /\ Layout(graph).of = NodesOf[graph]
          /\ Layout(graph).kind = "layout"
      BY <1>2, <2>2, PlacesAre DEF TypeInv
    <3>3. TypeInv'
      BY <1>2, <2>2, <3>1, <3>2 DEF TypeInv
    <3>4. DropWritten'
      BY <3>1, <3>2 DEF DropWritten
    <3>5. QED
      BY <1>1, <3>3, <3>4 DEF Inv
  <2>3. QED
    BY <2>1, <2>2
<1>6. QED
  BY <1>3, <1>4, <1>5

(* The preset is written or deleted.                                       *)
LEMMA PresetKeeps ==
    ASSUME Inv, SavePreset \/ DeletePreset
    PROVE  Inv'
<1>1. EditorSound' /\ StoredShown'
  BY ArrangementsStay DEF Inv, SavePreset, DeletePreset
<1>2. /\ graph' = graph /\ pos' = pos /\ pending' = pending
      /\ storedPos' = storedPos /\ dragged' = dragged
  BY DEF SavePreset, DeletePreset, positions
<1>3. TypeInv' /\ DropWritten'
  BY <1>2 DEF Inv, TypeInv, DropWritten
<1>4. QED
  BY <1>1, <1>3 DEF Inv

(* The page is shown again, or loaded anew.                                *)
LEMMA MountedKeeps ==
    ASSUME Inv, Leave \/ Reload
    PROVE  Inv'
<1>1. /\ graph' = None /\ pos' = None /\ pending' = None /\ dragged' = FALSE
      /\ editor' = IF storedEditor = None THEN Default(None) ELSE storedEditor
      /\ storedEditor' = storedEditor /\ preset' = preset
      /\ storedPos' \in {storedPos, pending}
  BY DEF Leave, Reload, Mounted
<1>2. TypeInv /\ EditorSound
  BY DEF Inv
<1>3. TypeInv' /\ DropWritten'
  BY <1>1, <1>2 DEF TypeInv, DropWritten
<1>4. Sound(editor')
  BY <1>1, <1>2, DefaultIsSound DEF EditorSound
<1>5. EditorSound'
  <2>1. (storedEditor' # None => Sound(storedEditor')) /\ (preset' # None => Sound(preset'))
    BY <1>1, <1>2 DEF EditorSound
  <2>2. QED
    BY <1>4, <2>1 DEF EditorSound
<1>6. StoredShown'
  <2>1. storedEditor' # None => ShowsStored(editor', storedEditor')
    BY <1>1, <1>2, ShowsItself DEF EditorSound
  <2>2. QED
    BY <2>1 DEF StoredShown
<1>7. QED
  BY <1>3, <1>5, <1>6 DEF Inv

(* Every step keeps the invariant.                                         *)
LEMMA NextInv == Inv /\ [Next]_vars => Inv'
<1> SUFFICES ASSUME Inv, [Next]_vars PROVE Inv'
  OBVIOUS
<1>1. TypeInv /\ EditorSound
  BY DEF Inv
<1>2. CASE UNCHANGED vars
  <2>1. editor' = editor /\ storedEditor' = storedEditor /\ preset' = preset /\ graph' = graph
        /\ pos' = pos /\ pending' = pending /\ storedPos' = storedPos /\ dragged' = dragged
    BY <1>2 DEF vars, arrangement, positions
  <2>2. EditorSound' /\ StoredShown'
    BY <2>1, ArrangementsStay DEF Inv
  <2>3. TypeInv' /\ DropWritten'
    BY <2>1 DEF Inv, TypeInv, DropWritten
  <2>4. QED
    BY <2>2, <2>3 DEF Inv
<1>3. ASSUME NEW g \in Graphs, GraphArrives(g) PROVE Inv'
  BY <1>3, GraphArrivesKeeps
<1>4. CASE Drag \/ Timer \/ Relayout
  BY <1>4, PositionsKeep
<1>5. ASSUME NEW g \in Groups, AddGroup(g) PROVE Inv'
  <2>1. Sound([editor EXCEPT !.groups = @ \cup {g}, !.unassigned = Append(@, Folder(g))])
    BY <1>1, <1>5, WithGroupKeeps DEF EditorSound, AddGroup
  <2>2. QED
    BY <1>5, <2>1, SetStateKeeps DEF AddGroup
<1>6. ASSUME NEW g \in Groups, RemoveGroup(g) PROVE Inv'
  <2>1. Sound(WithoutGroup(editor, g))
    BY <1>1, WithoutGroupKeeps DEF EditorSound
  <2>2. QED
    BY <1>6, <2>1, SetStateKeeps DEF RemoveGroup
<1>7. ASSUME NEW lane \in Known(editor), NEW to \in 0..MaxSlots, NEW at \in 1..(Room(to) + 1),
             MoveLane(lane, to, at)
      PROVE  Inv'
  <2>1. to \in Nat
    BY LayerAssumption DEF LayerAssumption
  <2>2. at \in Nat \ {0}
    BY <1>7
  <2>3. Sound(Moved(editor, lane, to, at))
    BY <1>1, <2>1, <2>2, MovedKeeps DEF EditorSound
  <2>4. QED
    BY <1>7, <2>3, SetStateKeeps DEF MoveLane
<1>8. ASSUME NEW e \in Imports, Import(e) PROVE Inv'
  <2>1. Sound(e)
    BY LayerAssumption DEF LayerAssumption, Sound
  <2>2. QED
    BY <1>8, <2>1, SetStateKeeps DEF Import
<1>9. CASE Reset
  <2>1. Sound(Default(graph))
    BY <1>1, DefaultIsSound DEF TypeInv
  <2>2. QED
    BY <1>9, <2>1, SetStateKeeps DEF Reset
<1>10. CASE LoadPreset
  <2>1. Sound(preset)
    BY <1>1, <1>10 DEF EditorSound, LoadPreset
  <2>2. QED
    BY <1>10, <2>1, SetStateKeeps DEF LoadPreset
<1>11. CASE SavePreset \/ DeletePreset
  BY <1>11, PresetKeeps
<1>12. CASE Leave \/ Reload
  BY <1>12, MountedKeeps
<1>13. QED
  BY <1>2, <1>3, <1>4, <1>5, <1>6, <1>7, <1>8, <1>9, <1>10, <1>11, <1>12 DEF Next

(* Equal elements up to the end of the first: a prefix.                    *)
LEMMA PrefixIs ==
    ASSUME NEW A, NEW s \in Seq(A), NEW t \in Seq(A), Len(s) <= Len(t),
           \A i \in 1..Len(s) : t[i] = s[i]
    PROVE  IsPrefix(s, t)
<1>1. Len(s) \in Nat /\ Len(t) \in Nat
  OBVIOUS
<1>2. SubSeq(s, 1, Len(s)) = SubSeq(t, 1, Len(s))
  BY <1>1
<1>3. QED
  BY <1>2 DEF IsPrefix

(* In every state.                                                         *)
LEMMA Invariance ==
    Spec => []Inv
<1>1. Init => Inv
  BY InitInv
<1>2. Inv /\ [Next]_vars => Inv'
  BY NextInv
<1>3. QED
  BY <1>1, <1>2, PTL DEF Spec

(* Whatever the user, the stored settings and the graphs bring, a lane is  *)
(* in one place and there is a lane for each group and for no other, in    *)
(* what is drawn, what is stored and the preset.                           *)
THEOREM ArrangementsAlwaysConsistent ==
    Spec => []ArrangementsConsistent
<1>1. Inv => ArrangementsConsistent
  BY DEF Inv, EditorSound, Sound, ArrangementsConsistent
<1>2. Spec => []Inv
  BY Invariance
<1>3. QED
  BY <1>1, <1>2, PTL

(* New depths take nothing from what the user arranged: the editor shows   *)
(* what is stored, with slots of one depth each on the right of it.        *)
THEOREM ArrangementAlwaysKept ==
    Spec => []ArrangementKept
<1>1. Inv => ArrangementKept
  <2> SUFFICES ASSUME Inv, storedEditor # None
               PROVE  /\ editor.groups = storedEditor.groups
                      /\ editor.unassigned = storedEditor.unassigned
                      /\ IsPrefix(storedEditor.slots, editor.slots)
                      /\ \A i \in (Len(storedEditor.slots) + 1)..Len(editor.slots) :
                            Len(editor.slots[i]) = 1 /\ editor.slots[i][1][1] = "bfs"
    BY DEF ArrangementKept
  <2>1. ShowsStored(editor, storedEditor) /\ Sound(editor) /\ Sound(storedEditor)
    BY DEF Inv, StoredShown, EditorSound
  <2>2. editor.slots \in Seq(Seq(Lanes)) /\ storedEditor.slots \in Seq(Seq(Lanes))
    BY <2>1, RowsAre DEF Sound
  <2>3. IsPrefix(storedEditor.slots, editor.slots)
    BY <2>1, <2>2, PrefixIs DEF ShowsStored
  <2>4. ASSUME NEW i \in (Len(storedEditor.slots) + 1)..Len(editor.slots)
        PROVE  Len(editor.slots[i]) = 1 /\ editor.slots[i][1][1] = "bfs"
    <3>1. PICK d : editor.slots[i] = <<Bfs(d)>>
      BY <2>1 DEF ShowsStored
    <3>2. editor.slots[i][1] = Bfs(d) /\ Len(editor.slots[i]) = 1
      BY <3>1
    <3>3. QED
      BY <3>2 DEF Bfs
  <2>5. QED
    BY <2>1, <2>3, <2>4 DEF ShowsStored
<1>2. Spec => []Inv
  BY Invariance
<1>3. QED
  BY <1>1, <1>2, PTL

(* While the canvas shows what the user dragged, neither the arrival of a  *)
(* graph nor the running timer has something else of the same nodes to     *)
(* write over it.                                                          *)
THEOREM DropAlwaysKept ==
    Spec => []DropIsKept
<1>1. Inv => DropIsKept
  BY DEF Inv, DropWritten, DropIsKept
<1>2. Spec => []Inv
  BY Invariance
<1>3. QED
  BY <1>1, <1>2, PTL

----------------------------------------------------------------------------
(* The entry points.                                                       *)

(* A node that has a name has one that the server resolves.                *)
LEMMA NodesAreNamed ==
    ASSUME NEW g \in Contents, NEW n \in DOMAIN g.nodes, NodeToFqn(g, n) # None
    PROVE  NodeToFqn(g, n) \in Names \cap Resolvable
<1>1. NodeToFqn(g, n) \in Names
  BY NamesAssumption DEF NamesAssumption
<1>2. CASE g.nodes[n].kind = "func"
  <2>1. NodeToFqn(g, n) = <<g.nodes[n].package, None, g.nodes[n].name>>
    BY <1>2 DEF NodeToFqn
  <2>2. QED
    BY <1>1, <1>2, <2>1, NamesAssumption DEF NamesAssumption
<1>3. CASE g.nodes[n].kind # "func"
  <2>1. /\ g.nodes[n].kind = "method" /\ Receiver(g, n) # None
        /\ NodeToFqn(g, n) = <<g.nodes[n].package, Receiver(g, n), g.nodes[n].name>>
    BY <1>3 DEF NodeToFqn
  <2> DEFINE parents == {i \in DOMAIN g.contains :
                            /\ g.contains[i][2] = n
                            /\ g.nodes[g.contains[i][1]].kind \in {"struct", "interface"}}
             i == Min(parents)
  <2>2. parents # {} /\ Receiver(g, n) = g.nodes[g.contains[i][1]].name
    BY <2>1 DEF Receiver
  <2>3. parents \in SUBSET (1..Len(g.contains)) /\ Len(g.contains) \in Nat
    BY NamesAssumption DEF NamesAssumption
  <2>4. i \in parents
    <3> HIDE DEF parents
    <3>1. QED
      BY <2>2, <2>3, MinIs
  <2> HIDE DEF i
  <2>5. /\ i \in DOMAIN g.contains /\ g.contains[i][2] = n
        /\ g.nodes[g.contains[i][1]].kind \in {"struct", "interface"}
    BY <2>4
  <2>6. <<g.nodes[n].package, g.nodes[g.contains[i][1]].name, g.nodes[n].name>> \in Resolvable
    BY <2>1, <2>5, NamesAssumption DEF NamesAssumption
  <2>7. QED
    BY <1>1, <2>1, <2>2, <2>6 DEF i
<1>4. QED
  BY <1>2, <1>3

(* The lists of the picker.                                                *)
Lists == Seq(Names \cap Resolvable)

(* The names of the project, as the server lists them.                     *)
LEMMA CatalogueIsList ==
    Catalogue \in Lists
<1>1. Catalogue \in Seq(Names) /\ ToSet(Catalogue) \subseteq Resolvable
  BY EntryAssumption, NamesAssumption DEF EntryAssumption, NamesAssumption
<1>2. \A i \in 1..Len(Catalogue) : Catalogue[i] \in Names \cap Resolvable
  BY <1>1 DEF ToSet
<1>3. QED
  BY <1>1, <1>2 DEF Lists

(* The names of the nodes on the canvas.                                   *)
LEMMA GraphIsList ==
    ASSUME NEW g \in Contents
    PROVE  GraphToSymbols(g) \in Lists
<1> DEFINE names == [n \in DOMAIN g.nodes |-> NodeToFqn(g, n)]
           S == ToSet(names) \ {None}
           A == Names \cup {None}
<1>1. Len(g.nodes) \in Nat /\ DOMAIN g.nodes = 1..Len(g.nodes)
  BY NamesAssumption DEF NamesAssumption
<1>2. \A n \in 1..Len(g.nodes) : NodeToFqn(g, n) \in A
  BY <1>1, NamesAssumption DEF NamesAssumption
<1>3. names \in [1..Len(g.nodes) -> A]
  BY <1>1, <1>2
<1>4. \A n \in DOMAIN names : n \in DOMAIN g.nodes /\ names[n] = NodeToFqn(g, n)
  OBVIOUS
<1> HIDE DEF names, A
<1>5. names \in Seq(A)
  BY <1>1, <1>3
<1>6. S \subseteq Names \cap Resolvable
  <2> SUFFICES ASSUME NEW f \in S PROVE f \in Names \cap Resolvable
    OBVIOUS
  <2>1. PICK n \in DOMAIN names : f = names[n] /\ f # None
    BY DEF ToSet
  <2>2. QED
    BY <1>4, <2>1, NodesAreNamed
<1> HIDE DEF S
<1>7. Kept(names, S) \in Seq(A \cap S)
  BY <1>5, KeptIs
<1>8. Kept(names, S) \in Seq(Names \cap Resolvable)
  BY <1>6, <1>7
<1>9. QED
  BY <1>8 DEF GraphToSymbols, Lists, names, S

(* The order of the rows.                                                  *)
LEMMA BeforeOrders ==
    ASSUME NEW symbols \in Lists, NEW q
    PROVE  \A i, j, k \in DOMAIN symbols :
              /\ ~Before(symbols, q, i, i)
              /\ i # j => Before(symbols, q, i, j) \/ Before(symbols, q, j, i)
              /\ Before(symbols, q, i, j) /\ Before(symbols, q, j, k)
                    => Before(symbols, q, i, k)
<1> DEFINE D == DOMAIN symbols
           a == [i \in D |-> Score(symbols[i], q)]
           b == [i \in D |-> NameLength[symbols[i]]]
           c == [i \in D |-> PackageOrder[symbols[i]]]
           L(i, j) == \/ a[i] > a[j]
                      \/ /\ a[i] = a[j]
                         /\ \/ b[i] < b[j]
                            \/ /\ b[i] = b[j]
                               /\ \/ c[i] < c[j]
                                  \/ c[i] = c[j] /\ i < j
<1>1. \A i, j \in D : Before(symbols, q, i, j) <=> L(i, j)
  BY DEF Before
<1>2. \A i \in D : i \in Nat /\ symbols[i] \in Names
  BY DEF Lists
<1>3. \A f : Score(f, q) \in Int
  BY DEF Score
<1>4. \A i \in D : a[i] \in Int /\ b[i] \in Int /\ c[i] \in Int
  BY <1>2, <1>3, NamesAssumption DEF NamesAssumption
<1> HIDE DEF a, b, c, D
<1>5. \A i \in D : ~L(i, i)
  BY <1>2, <1>4
<1>6. \A i, j \in D : i # j => L(i, j) \/ L(j, i)
  BY <1>2, <1>4
<1>7. \A i, j, k \in D : L(i, j) /\ L(j, k) => L(i, k)
  BY <1>2, <1>4
<1> HIDE DEF L
<1>8. QED
  BY <1>1, <1>5, <1>6, <1>7 DEF D

(* Every place among the matches is taken.                                 *)
LEMMA MatchesAreRanked ==
    ASSUME NEW symbols \in Lists, NEW q
    PROVE  /\ Cardinality(Matches(symbols, q)) \in Nat
           /\ \A n \in 1..Cardinality(Matches(symbols, q)) :
                 RankSymbols(symbols, q, n) \in Matches(symbols, q)
<1> DEFINE M == Matches(symbols, q)
           below == [i \in M |-> {j \in M : Before(symbols, q, j, i)}]
<1>1. M \in SUBSET (DOMAIN symbols) /\ IsFiniteSet(M)
  <2>1. DOMAIN symbols = 1..Len(symbols) /\ Len(symbols) \in Nat
    BY DEF Lists
  <2>2. IsFiniteSet(1..Len(symbols)) /\ M \in SUBSET (1..Len(symbols))
    BY <2>1, FS_Interval DEF Matches
  <2>3. QED
    BY <2>1, <2>2, FS_Subset
<1> HIDE DEF M
<1>2. below \in [M -> SUBSET M]
  OBVIOUS
<1>3. \A i, j \in M : j \in below[i] <=> Before(symbols, q, j, i)
  OBVIOUS
<1>4. \A i \in M : below[i] = {j \in M : Before(symbols, q, j, i)}
  OBVIOUS
<1> HIDE DEF below
<1>5. \A i \in M : i \notin below[i]
  BY <1>1, <1>3, BeforeOrders
<1>6. \A i, j \in M : i \in below[j] => below[i] \subseteq below[j]
  BY <1>1, <1>2, <1>3, BeforeOrders
<1>7. \A i, j \in M :
        i # j => \/ i \in below[j] /\ below[i] \subseteq below[j]
                 \/ j \in below[i] /\ below[j] \subseteq below[i]
  BY <1>1, <1>3, <1>6, BeforeOrders
<1>8. /\ Cardinality(M) \in Nat
      /\ \A n \in 1..Cardinality(M) : \E i \in M : Cardinality(below[i]) = n - 1
  BY <1>1, <1>2, <1>5, <1>7, PlacesAreTaken
<1>9. ASSUME NEW n \in 1..Cardinality(M)
      PROVE  RankSymbols(symbols, q, n) \in M
  <2>1. RankSymbols(symbols, q, n)
          = CHOOSE i \in M :
              Cardinality({j \in M : Before(symbols, q, j, i)}) = n - 1
    BY DEF RankSymbols, M
  <2>2. \E i \in M : Cardinality({j \in M : Before(symbols, q, j, i)}) = n - 1
    BY <1>4, <1>8
  <2>3. QED
    BY <2>1, <2>2
<1>10. QED
  BY <1>8, <1>9 DEF M

(* The state of a dialog; the lit row is one of the rows.                  *)
Dialogs == [tab : {"pick", "fqn"}, query : Queries \cup {""}, fqn : Typed \cup {None},
            active : Nat, symbols : Lists]

(* A row is lit while there are rows.                                      *)
Lit(d) == Rows(d) > 0 => d.active \in 0..(Rows(d) - 1)

(* What a tab has open is a dialog, with a lit row.                        *)
DialogsOK ==
    /\ dialog \in [Tabs -> Dialogs \cup {None}]
    /\ \A t \in Tabs : dialog[t] # None => Lit(dialog[t])

(* The rows are elements of the list, and there are so many of them.       *)
LEMMA PickerRows ==
    ASSUME NEW d \in Dialogs
    PROVE  /\ Rows(d) \in Nat
           /\ \A n \in 1..Rows(d) : Ranked(d)[n] \in Names \cap Resolvable
<1> DEFINE m == Cardinality(Matches(d.symbols, d.query))
<1>1. d.symbols \in Lists
  BY DEF Dialogs
<1>2. /\ m \in Nat
      /\ \A n \in 1..m :
            RankSymbols(d.symbols, d.query, n) \in Matches(d.symbols, d.query)
  BY <1>1, MatchesAreRanked
<1>3. CASE d.query = ""
  <2>1. Rows(d) = 0
    BY <1>3 DEF Rows
  <2>2. \A n \in 1..0 : FALSE
    OBVIOUS
  <2>3. QED
    BY <2>1, <2>2
<1>4. CASE d.query # ""
  <2>1. Rows(d) = Min({m, PickerLimit})
    BY <1>4 DEF Rows
  <2> HIDE DEF m
  <2>2. Rows(d) \in Nat /\ Rows(d) <= m
    <3>1. PickerLimit \in Nat
      BY EntryAssumption DEF EntryAssumption
    <3>2. QED
      BY <1>2, <2>1, <3>1, MinOfTwo
  <2>3. ASSUME NEW n \in 1..Rows(d)
        PROVE  Ranked(d)[n] \in Names \cap Resolvable
    <3>1. RankSymbols(d.symbols, d.query, n) \in DOMAIN d.symbols
      BY <1>2, <2>2, <2>3 DEF Matches
    <3>2. Ranked(d)[n] = d.symbols[RankSymbols(d.symbols, d.query, n)]
      BY <2>3 DEF Ranked
    <3>3. QED
      BY <1>1, <3>1, <3>2 DEF Lists
  <2>4. QED
    BY <2>2, <2>3
<1>5. QED
  BY <1>3, <1>4

(* The row that is taken is one of the list.                               *)
LEMMA TargetIsPicked ==
    ASSUME NEW d \in Dialogs, Rows(d) > 0
    PROVE  Target(d) \in Resolvable
<1>1. Rows(d) \in Nat /\ d.active \in Nat
  BY PickerRows DEF Dialogs
<1>2. (IF d.active < Rows(d) THEN d.active + 1 ELSE Rows(d)) \in 1..Rows(d)
  BY <1>1
<1>3. QED
  BY <1>2, PickerRows DEF Target

----------------------------------------------------------------------------
(* The dialog.                                                             *)

(* A number by which another is reduced is a row.                          *)
LEMMA Reduced ==
    ASSUME NEW a \in Nat, NEW n \in Nat \ {0}
    PROVE  a % n \in 0..(n - 1)
  OBVIOUS

(* The rows follow the text and the symbols alone.                         *)
LEMMA SameRows ==
    ASSUME NEW d, NEW e, d.query = e.query, d.symbols = e.symbols
    PROVE  Rows(d) = Rows(e)
  BY DEF Rows

(* The highlight fits when it fitted the old rows, or fits the new ones.   *)
LEMMA ReshapedIs ==
    ASSUME NEW old \in Dialogs, Lit(old), NEW new \in Dialogs,
           new.active = old.active \/ Lit(new)
    PROVE  Reshaped(old, new) \in Dialogs /\ Lit(Reshaped(old, new))
<1> DEFINE top == [new EXCEPT !.active = 0]
<1>1. top \in Dialogs /\ top.query = new.query /\ top.symbols = new.symbols /\ top.active = 0
  BY DEF Dialogs
<1>2. Rows(top) = Rows(new) /\ Rows(top) \in Nat
  BY <1>1, SameRows, PickerRows
<1>3. Lit(top)
  <2> HIDE DEF top
  <2>1. QED
    BY <1>1, <1>2 DEF Lit
<1>4. CASE new.query # old.query \/ Rows(new) # Rows(old)
  <2>1. Reshaped(old, new) = top
    BY <1>4 DEF Reshaped
  <2>2. QED
    BY <1>1, <1>3, <2>1
<1>5. CASE new.query = old.query /\ Rows(new) = Rows(old)
  <2>1. Reshaped(old, new) = new
    BY <1>5 DEF Reshaped
  <2>2. QED
    BY <1>5, <2>1 DEF Lit
<1>6. QED
  BY <1>4, <1>5

(* A dialog becomes another one, with a lit row.                           *)
LEMMA DialogKeeps ==
    ASSUME DialogsOK, NEW t \in Tabs, NEW d, SetDialog(t, d),
           d = None \/ (d \in Dialogs /\ Lit(d))
    PROVE  DialogsOK'
<1>1. dialog' = [dialog EXCEPT ![t] = d]
  BY DEF SetDialog
<1>2. dialog' \in [Tabs -> Dialogs \cup {None}]
  BY <1>1 DEF DialogsOK
<1>3. \A u \in Tabs : dialog'[u] = IF u = t THEN d ELSE dialog[u]
  BY <1>1 DEF DialogsOK
<1>4. QED
  BY <1>2, <1>3 DEF DialogsOK, Lit

(* A render of the picker keeps a row lit.                                 *)
LEMMA BecomesKeeps ==
    ASSUME DialogsOK, NEW t \in Tabs, dialog[t] # None, NEW new \in Dialogs,
           new.active = dialog[t].active \/ Lit(new), DialogBecomes(t, new)
    PROVE  DialogsOK'
<1>1. dialog[t] \in Dialogs /\ Lit(dialog[t])
  BY DEF DialogsOK
<1>2. Reshaped(dialog[t], new) \in Dialogs /\ Lit(Reshaped(dialog[t], new))
  BY <1>1, ReshapedIs
<1>3. QED
  BY <1>2, DialogKeeps DEF DialogBecomes

(* The keys and the mouse stay within the rows.                            *)
LEMMA HighlightKeeps ==
    ASSUME DialogsOK, NEW t \in Tabs, Highlight(t)
    PROVE  DialogsOK'
<1> DEFINE d == dialog[t]
           rows == Rows(d)
<1>1. d \in Dialogs /\ d # None
  BY DEF Highlight, DialogsOK
<1>2. rows \in Nat \ {0} /\ d.active \in Nat
  <2>1. rows \in Nat /\ d.active \in Nat
    BY <1>1, PickerRows DEF Dialogs
  <2>2. rows > 0
    BY DEF Highlight
  <2>3. QED
    BY <2>1, <2>2
<1>3. PICK i \in {(d.active + 1) % rows, (d.active - 1 + rows) % rows, 0, rows - 1}
                   \cup 0..(rows - 1) :
            DialogBecomes(t, [d EXCEPT !.active = i])
  BY DEF Highlight
<1> HIDE DEF rows
<1>4. i \in 0..(rows - 1)
  <2>1. d.active + 1 \in Nat /\ d.active - 1 + rows \in Nat
    BY <1>2
  <2>2. /\ (d.active + 1) % rows \in 0..(rows - 1)
        /\ (d.active - 1 + rows) % rows \in 0..(rows - 1)
    BY <1>2, <2>1, Reduced
  <2>3. 0 \in 0..(rows - 1) /\ rows - 1 \in 0..(rows - 1)
    BY <1>2
  <2>4. QED
    BY <1>3, <2>2, <2>3
<1> DEFINE new == [d EXCEPT !.active = i]
<1>5. /\ new \in Dialogs /\ new.active = i
      /\ new.query = d.query /\ new.symbols = d.symbols
  <2>1. i \in Nat
    BY <1>2, <1>4
  <2>2. QED
    BY <1>1, <2>1 DEF Dialogs
<1>6. DialogBecomes(t, new)
  BY <1>3
<1> HIDE DEF new
<1>7. Lit(new)
  BY <1>4, <1>5, SameRows DEF Lit, rows
<1>8. QED
  BY <1>1, <1>5, <1>6, <1>7, BecomesKeeps

(* What is typed, and the choice of the tab.                               *)
LEMMA TypingKeeps ==
    ASSUME DialogsOK, NEW t \in Tabs,
           \/ \E tab \in {"pick", "fqn"} : SetTab(t, tab)
           \/ \E q \in Queries : TypeQuery(t, q)
           \/ \E f \in Typed \cup {None} : TypeFqn(t, f)
    PROVE  DialogsOK'
<1> DEFINE d == dialog[t]
<1>1. d \in Dialogs /\ d # None
  BY DEF SetTab, TypeQuery, TypeFqn, DialogsOK
<1>2. ASSUME NEW tab \in {"pick", "fqn"}, SetTab(t, tab) PROVE DialogsOK'
  <2> DEFINE new == [d EXCEPT !.tab = tab]
  <2>1. new \in Dialogs /\ new.active = d.active
    BY <1>1 DEF Dialogs
  <2>2. DialogBecomes(t, new)
    BY <1>2 DEF SetTab
  <2> HIDE DEF new
  <2>3. QED
    BY <1>1, <2>1, <2>2, BecomesKeeps
<1>3. ASSUME NEW q \in Queries, TypeQuery(t, q) PROVE DialogsOK'
  <2> DEFINE new == [d EXCEPT !.query = q]
  <2>1. new \in Dialogs /\ new.active = d.active
    BY <1>1 DEF Dialogs
  <2>2. DialogBecomes(t, new)
    BY <1>3 DEF TypeQuery
  <2> HIDE DEF new
  <2>3. QED
    BY <1>1, <2>1, <2>2, BecomesKeeps
<1>4. ASSUME NEW f \in Typed \cup {None}, TypeFqn(t, f) PROVE DialogsOK'
  <2> DEFINE new == [d EXCEPT !.fqn = f]
  <2>1. new \in Dialogs /\ new.active = d.active
    BY <1>1 DEF Dialogs
  <2>2. DialogBecomes(t, new)
    BY <1>4 DEF TypeFqn
  <2> HIDE DEF new
  <2>3. QED
    BY <1>1, <2>1, <2>2, BecomesKeeps
<1>5. QED
  BY <1>2, <1>3, <1>4

(* The list is opened, or replaced while it is open.                       *)
LEMMA ListKeeps ==
    ASSUME DialogsOK, NEW t \in Tabs,
           (\E g \in Contents : OpenDialog(t, g)) \/ SymbolsArrive(t)
    PROVE  DialogsOK'
<1>1. ASSUME NEW g \in Contents, OpenDialog(t, g) PROVE DialogsOK'
  <2> DEFINE symbols == IF catalogue[t] = "kept" /\ Catalogue # <<>> THEN Catalogue
                        ELSE GraphToSymbols(g)
             new == [tab |-> "pick", query |-> "", fqn |-> None, active |-> 0,
                     symbols |-> symbols]
  <2>1. SetDialog(t, new)
    BY <1>1 DEF OpenDialog
  <2>2. symbols \in Lists
    BY CatalogueIsList, GraphIsList
  <2> HIDE DEF symbols
  <2>3. new \in Dialogs /\ new.query = ""
    BY <2>2 DEF Dialogs
  <2> HIDE DEF new
  <2>4. Lit(new)
    <3>1. Rows(new) = 0
      BY <2>3 DEF Rows
    <3>2. QED
      BY <3>1 DEF Lit
  <2>5. QED
    BY <2>1, <2>3, <2>4, DialogKeeps
<1>2. CASE SymbolsArrive(t)
  <2> DEFINE d == dialog[t]
             new == [d EXCEPT !.symbols = Catalogue]
             e == IF d = None \/ Catalogue = <<>> THEN d ELSE Reshaped(d, new)
  <2>1. SetDialog(t, e)
    BY <1>2 DEF SymbolsArrive
  <2>2. CASE d = None \/ Catalogue = <<>>
    <3>1. e = d /\ (d = None \/ (d \in Dialogs /\ Lit(d)))
      BY <2>2 DEF DialogsOK
    <3> HIDE DEF e, d
    <3>2. QED
      BY <2>1, <3>1, DialogKeeps
  <2>3. CASE d # None /\ Catalogue # <<>>
    <3>1. d \in Dialogs /\ Lit(d)
      BY <2>3 DEF DialogsOK
    <3>2. new \in Dialogs /\ new.active = d.active
      BY <3>1, CatalogueIsList DEF Dialogs
    <3> HIDE DEF new
    <3>3. Reshaped(d, new) \in Dialogs /\ Lit(Reshaped(d, new))
      BY <3>1, <3>2, ReshapedIs
    <3>4. e = Reshaped(d, new)
      BY <2>3
    <3> HIDE DEF e, d
    <3>5. QED
      BY <2>1, <3>3, <3>4, DialogKeeps
  <2>4. QED
    BY <2>2, <2>3
<1>3. QED
  BY <1>1, <1>2

(* It is closed.                                                           *)
LEMMA ClosingKeeps ==
    ASSUME DialogsOK, NEW t \in Tabs, SetDialog(t, None)
    PROVE  DialogsOK'
<1> DEFINE d == None
<1>1. SetDialog(t, d) /\ d = None
  OBVIOUS
<1> HIDE DEF d
<1>2. QED
  BY <1>1, DialogKeeps

(* The modes the panel can be in.                                          *)
EntryModes == {"auto", "manual", "mixed"}

(* A specification as the panel and the dialog make it.                    *)
Good(s, names) ==
    /\ \E K : s \in [mode : EntryModes, kinds : K, manual : Seq(names)]
    /\ Truthful(s)

(* Where names come from.                                                  *)
Sources == Resolvable \cup typed

(* Every value a tab shows, and everything that is stored or on its way    *)
(* to a tab, was made by one of the edits.                                 *)
AllGood ==
    /\ value \in [Tabs -> {value[t] : t \in Tabs}]
    /\ \A t \in Tabs : Good(value[t], Sources)
    /\ \E S : /\ \A s \in S : Good(Normalized(s), Sources)
              /\ stored \in S
              /\ inbox \in [Tabs -> Seq(S)]

(* The last event on its way to a tab tells what is stored, and a tab that *)
(* has seen all of them shows it.                                          *)
UpToDate ==
    ~crossed => \A t \in Tabs :
        IF inbox[t] = <<>> THEN value[t] = Normalized(stored)
        ELSE inbox[t][Len(inbox[t])] = stored

(* What the tabs share.                                                    *)
Shared == AllGood /\ UpToDate

----------------------------------------------------------------------------
(* The edits.                                                              *)

(* The two settings nobody has edited.                                     *)
LEMMA DefaultIsGood ==
    /\ \A N : Good(DefaultSpec, N)
    /\ Normalized(NoSpec) = DefaultSpec
    /\ \A s, N : Good(s, N) => Normalized(s) = s
<1>1. \A N : DefaultSpec \in [mode : EntryModes, kinds : {{"main"}}, manual : Seq(N)]
  BY DEF DefaultSpec, EntryModes
<1>2. \A N : Good(DefaultSpec, N)
  BY <1>1 DEF Good, Truthful, IsAutoOn, DefaultSpec
<1>3. Normalized(NoSpec) = DefaultSpec
  BY DEF Normalized
<1>4. ASSUME NEW s, NEW N, Good(s, N)
      PROVE  Normalized(s) = s
  BY <1>4 DEF Good, Normalized, NoSpec, EntryModes
<1>5. QED
  BY <1>2, <1>3, <1>4

(* A name stays known.                                                     *)
LEMMA MoreIsGood ==
    ASSUME typed \subseteq typed', NEW s, Good(s, Sources)
    PROVE  Good(s, Sources')
<1>1. Sources \subseteq Sources'
  BY DEF Sources
<1>2. PICK K : s \in [mode : EntryModes, kinds : K, manual : Seq(Sources)]
  BY DEF Good
<1>3. \A N : s.manual \in Seq(Sources) /\ Sources \subseteq N => s.manual \in Seq(N)
  OBVIOUS
<1>4. s \in [mode : EntryModes, kinds : K, manual : Seq(Sources')]
  BY <1>1, <1>2, <1>3
<1>5. QED
  BY <1>4 DEF Good

(* Ticking the box.                                                        *)
LEMMA EnabledIsGood ==
    ASSUME NEW N, NEW s, Good(s, N), NEW on \in BOOLEAN
    PROVE  Good(WithAutoEnabled(s, on), N)
<1>1. PICK K : s \in [mode : EntryModes, kinds : K, manual : Seq(N)]
  BY DEF Good
<1> DEFINE kinds == IF on THEN s.kinds \cup {"main"} ELSE {}
           mode == IF ~on THEN "manual" ELSE IF s.manual # <<>> THEN "mixed" ELSE "auto"
           r == [s EXCEPT !.mode = mode, !.kinds = kinds]
<1>2. /\ WithAutoEnabled(s, on) = r
      /\ mode \in EntryModes
      /\ mode # "manual" <=> kinds # {}
      /\ s.manual # <<>> => mode # "auto"
  BY DEF WithAutoEnabled, EntryModes
<1> HIDE DEF kinds, mode
<1>3. /\ r \in [mode : EntryModes, kinds : {kinds}, manual : Seq(N)]
      /\ r.mode = mode /\ r.kinds = kinds /\ r.manual = s.manual
  BY <1>1, <1>2
<1> HIDE DEF r
<1>4. QED
  BY <1>2, <1>3 DEF Good, Truthful, IsAutoOn, EntryModes

(* Adding a name.                                                          *)
LEMMA AddedIsGood ==
    ASSUME NEW N, NEW s, Good(s, N), NEW fqn \in N
    PROVE  Good(WithManualAdded(s, fqn), N)
<1>1. PICK K : s \in [mode : EntryModes, kinds : K, manual : Seq(N)]
  BY DEF Good
<1> DEFINE manual == Append(s.manual, fqn)
           mode == IF s.mode = "manual" THEN "manual" ELSE "mixed"
           r == [s EXCEPT !.mode = mode, !.manual = manual]
<1>2. WithManualAdded(s, fqn) = r /\ mode \in EntryModes
  BY DEF WithManualAdded, EntryModes
<1>3. manual \in Seq(N) /\ manual # <<>>
  BY <1>1
<1> HIDE DEF manual
<1>4. /\ r \in [mode : EntryModes, kinds : K, manual : Seq(N)] /\ r.mode = mode
      /\ r.manual = manual /\ r.kinds = s.kinds
  BY <1>1, <1>2, <1>3
<1> HIDE DEF r
<1>5. QED
  BY <1>1, <1>2, <1>4, <1>3 DEF Good, Truthful, IsAutoOn, EntryModes

(* Removing a name that is listed.                                         *)
LEMMA RemovedIsGood ==
    ASSUME NEW N, NEW s, Good(s, N), NEW fqn \in ToSet(s.manual)
    PROVE  Good(WithManualRemoved(s, fqn), N)
<1>1. PICK K : s \in [mode : EntryModes, kinds : K, manual : Seq(N)]
  BY DEF Good
<1>2. s.manual # <<>>
  BY DEF ToSet
<1> DEFINE manual == Kept(s.manual, ToSet(s.manual) \ {fqn})
           mode == IF manual = <<>> THEN IF s.kinds # {} THEN "auto" ELSE "manual"
                   ELSE IF s.mode = "mixed" /\ s.kinds = {} THEN "manual" ELSE s.mode
           r == [s EXCEPT !.manual = manual, !.mode = mode]
<1>3. WithManualRemoved(s, fqn) = r
  BY DEF WithManualRemoved
<1>4. manual \in Seq(N)
  BY <1>1, KeptOnce
<1> HIDE DEF manual
<1>5. mode \in EntryModes
  BY <1>1 DEF EntryModes
<1>6. /\ r \in [mode : EntryModes, kinds : K, manual : Seq(N)] /\ r.mode = mode
      /\ r.manual = manual /\ r.kinds = s.kinds
  BY <1>1, <1>5, <1>4
<1> HIDE DEF r
<1>7. QED
  BY <1>1, <1>2, <1>3, <1>5, <1>6 DEF Good, Truthful, IsAutoOn, EntryModes

----------------------------------------------------------------------------
(* The steps.                                                              *)

(* A queue is told by its last element.                                    *)
LEMMA LastOfQueue ==
    ASSUME NEW S, NEW q \in Seq(S)
    PROVE  /\ \A x \in S : Append(q, x) # <<>> /\ Append(q, x)[Len(Append(q, x))] = x
           /\ q # <<>> => IF Tail(q) = <<>> THEN Head(q) = q[Len(q)]
                          ELSE Tail(q)[Len(Tail(q))] = q[Len(q)]
<1>1. ASSUME NEW x \in S
      PROVE  Append(q, x) # <<>> /\ Append(q, x)[Len(Append(q, x))] = x
  <2>1. Len(Append(q, x)) = Len(q) + 1 /\ Append(q, x)[Len(q) + 1] = x /\ Len(q) \in Nat
    OBVIOUS
  <2>2. Append(q, x) # <<>>
    BY <2>1
  <2>3. QED
    BY <2>1, <2>2
<1>2. ASSUME q # <<>>
      PROVE  IF Tail(q) = <<>> THEN Head(q) = q[Len(q)]
             ELSE Tail(q)[Len(Tail(q))] = q[Len(q)]
  <2>1. Tail(q) \in Seq(S) /\ Len(q) \in Nat \ {0} /\ Len(Tail(q)) = Len(q) - 1
    BY <1>2, HeadTailProperties, EmptySeq, LenProperties
  <2>2. CASE Tail(q) = <<>>
    <3>1. Len(q) = 1
      <4> DEFINE n == Len(q)
                 k == Len(Tail(q))
      <4>1. k = 0
        BY <2>2, EmptySeq
      <4>2. n \in Nat \ {0} /\ k = n - 1
        BY <2>1
      <4> HIDE DEF n, k
      <4>3. n = 1
        BY <4>1, <4>2
      <4>4. QED
        BY <4>3 DEF n
    <3>2. Head(q) = q[1]
      BY <1>2
    <3>3. QED
      BY <2>2, <3>1, <3>2
  <2>3. CASE Tail(q) # <<>>
    <3>1. Len(Tail(q)) \in Nat \ {0}
      BY <2>1, <2>3, EmptySeq, LenProperties
    <3>2. Tail(q)[Len(q) - 1] = q[Len(q)]
      BY <1>2, <2>1, <3>1
    <3>3. QED
      BY <2>1, <2>3, <3>2
  <2>4. QED
    BY <2>2, <2>3
<1>3. QED
  BY <1>1, <1>2

(* An edit in a tab, which the others will be told.                        *)
LEMMA ChangeKeeps ==
    ASSUME Shared, NEW t \in Tabs, NEW s, Good(s, Sources'), Change(t, s),
           typed \subseteq typed'
    PROVE  Shared'
<1>1. PICK S : /\ \A x \in S : Good(Normalized(x), Sources)
               /\ stored \in S
               /\ inbox \in [Tabs -> Seq(S)]
  BY DEF Shared, AllGood
<1> DEFINE T == S \cup {s}
<1>2. /\ \A x \in T : Good(Normalized(x), Sources')
      /\ Normalized(s) = s
  <2>1. \A x \in S : Good(Normalized(x), Sources')
    BY <1>1, MoreIsGood
  <2>2. QED
    BY <2>1, DefaultIsGood
<1>3. /\ value' = [value EXCEPT ![t] = s]
      /\ stored' = s
      /\ inbox' = [u \in Tabs |-> IF u = t \/ s = stored THEN inbox[u] ELSE Append(inbox[u], s)]
      /\ crossed' = (crossed \/ inbox[t] # <<>>)
  BY DEF Change, Shows
<1>4. \A u \in Tabs : inbox[u] \in Seq(T) /\ Append(inbox[u], s) \in Seq(T)
  BY <1>1
<1>5. stored' \in T /\ inbox' \in [Tabs -> Seq(T)]
  BY <1>3, <1>4
<1>6. AllGood'
  <2>1. \A u \in Tabs : Good(value[u], Sources')
    BY MoreIsGood DEF Shared, AllGood
  <2>2. /\ value' \in [Tabs -> {value'[u] : u \in Tabs}]
        /\ \A u \in Tabs : Good(value'[u], Sources')
    BY <1>3, <2>1 DEF Shared, AllGood
  <2>3. QED
    BY <1>2, <1>5, <2>2 DEF AllGood, Good, Truthful, IsAutoOn, Normalized
<1>7. UpToDate'
  <2> SUFFICES ASSUME ~crossed', NEW u \in Tabs
               PROVE  IF inbox'[u] = <<>> THEN value'[u] = Normalized(stored')
                      ELSE inbox'[u][Len(inbox'[u])] = stored'
    BY DEF UpToDate, Normalized
  <2>1. ~crossed /\ inbox[t] = <<>>
    BY <1>3
  <2>2. CASE u = t
    BY <1>2, <1>3, <2>1, <2>2 DEF Shared, AllGood
  <2>3. CASE u # t /\ s = stored
    BY <1>3, <2>1, <2>3 DEF Shared, AllGood, UpToDate
  <2>4. CASE u # t /\ s # stored
    <3>1. inbox'[u] = Append(inbox[u], s) /\ inbox[u] \in Seq(T)
      BY <1>3, <1>4, <2>4
    <3>2. s \in T
      OBVIOUS
    <3>3. inbox'[u] # <<>> /\ inbox'[u][Len(inbox'[u])] = s
      <4> HIDE DEF T
      <4>1. QED
        BY <3>1, <3>2, LastOfQueue
    <3>4. QED
      BY <1>3, <3>3
  <2>5. QED
    BY <2>2, <2>3, <2>4
<1>8. QED
  BY <1>6, <1>7 DEF Shared

(* Nothing an invariant is about.                                          *)
LEMMA StutterKeeps ==
    ASSUME Shared, UNCHANGED <<value, stored, inbox, crossed, typed>>
    PROVE  Shared'
  BY DEF Shared, AllGood, UpToDate, Good, Truthful, IsAutoOn, Normalized,
         Sources

(* The project is forgotten.                                               *)
LEMMA ForgetKeeps ==
    ASSUME Shared, Forget
    PROVE  Shared'
<1>1. PICK S : /\ \A x \in S : Good(Normalized(x), Sources)
               /\ stored \in S
               /\ inbox \in [Tabs -> Seq(S)]
  BY DEF Shared, AllGood
<1> DEFINE T == S \cup {NoSpec}
<1>2. \A x \in T : Good(Normalized(x), Sources)
  BY <1>1, DefaultIsGood
<1>3. /\ stored' = NoSpec
      /\ inbox' = [u \in Tabs |-> Append(inbox[u], NoSpec)]
      /\ value' = value /\ typed' = typed
  BY DEF Forget
<1>4. \A u \in Tabs : inbox[u] \in Seq(S) /\ Append(inbox[u], NoSpec) \in Seq(T)
  BY <1>1
<1>5. stored' \in T /\ inbox' \in [Tabs -> Seq(T)]
  BY <1>3, <1>4
<1>6. AllGood'
  BY <1>2, <1>3, <1>5 DEF Shared, AllGood, Good, Truthful, IsAutoOn,
                          Normalized, Sources
<1>7. UpToDate'
  <2> SUFFICES ASSUME NEW u \in Tabs
               PROVE  inbox'[u] # <<>> /\ inbox'[u][Len(inbox'[u])] = stored'
    BY DEF UpToDate, Normalized
  <2>1. QED
    BY <1>3, <1>4
<1>8. QED
  BY <1>6, <1>7 DEF Shared

(* A tab hears of a change.                                                *)
LEMMA EventKeeps ==
    ASSUME Shared, NEW t \in Tabs, StorageEvent(t)
    PROVE  Shared'
<1>1. PICK S : /\ \A x \in S : Good(Normalized(x), Sources)
               /\ stored \in S
               /\ inbox \in [Tabs -> Seq(S)]
  BY DEF Shared, AllGood
<1>2. /\ value' = [value EXCEPT ![t] = Normalized(Head(inbox[t]))]
      /\ inbox' = [inbox EXCEPT ![t] = Tail(@)]
      /\ inbox[t] # <<>> /\ stored' = stored /\ crossed' = crossed /\ typed' = typed
  BY DEF StorageEvent, Shows, history
<1>3. inbox[t] \in Seq(S)
  BY <1>1
<1>4. Head(inbox[t]) \in S /\ Tail(inbox[t]) \in Seq(S)
  BY <1>2, <1>3
<1>5. inbox' \in [Tabs -> Seq(S)]
  BY <1>1, <1>2, <1>4
<1>6. AllGood'
  <2>1. /\ value' \in [Tabs -> {value'[u] : u \in Tabs}]
        /\ \A u \in Tabs : Good(value'[u], Sources)
    BY <1>1, <1>2, <1>4 DEF Shared, AllGood
  <2>2. QED
    BY <1>1, <1>2, <1>5, <2>1 DEF AllGood, Good, Truthful, IsAutoOn,
                                  Normalized, Sources
<1>7. UpToDate'
  <2> SUFFICES ASSUME ~crossed', NEW u \in Tabs
               PROVE  IF inbox'[u] = <<>> THEN value'[u] = Normalized(stored')
                      ELSE inbox'[u][Len(inbox'[u])] = stored'
    BY DEF UpToDate, Normalized
  <2>1. IF inbox[u] = <<>> THEN value[u] = Normalized(stored)
        ELSE inbox[u][Len(inbox[u])] = stored
    BY <1>2 DEF Shared, UpToDate
  <2>2. CASE u # t
    BY <1>1, <1>2, <2>1, <2>2 DEF Shared, AllGood
  <2>3. CASE u = t
    <3>1. inbox'[t] = Tail(inbox[t]) /\ value'[t] = Normalized(Head(inbox[t]))
      BY <1>1, <1>2 DEF Shared, AllGood
    <3>2. inbox[t][Len(inbox[t])] = stored
      BY <1>2, <2>1, <2>3
    <3>3. IF Tail(inbox[t]) = <<>> THEN Head(inbox[t]) = stored
          ELSE Tail(inbox[t])[Len(Tail(inbox[t]))] = stored
      BY <1>2, <1>3, <3>2, LastOfQueue
    <3>4. QED
      BY <1>2, <2>3, <3>1, <3>3
  <2>4. QED
    BY <2>2, <2>3
<1>8. QED
  BY <1>6, <1>7 DEF Shared

(* A tab is loaded anew.                                                   *)
LEMMA ReloadKeeps ==
    ASSUME Shared, NEW t \in Tabs, ReloadTab(t)
    PROVE  Shared'
<1>1. PICK S : /\ \A x \in S : Good(Normalized(x), Sources)
               /\ stored \in S
               /\ inbox \in [Tabs -> Seq(S)]
  BY DEF Shared, AllGood
<1>2. /\ value' = [value EXCEPT ![t] = Normalized(stored)]
      /\ inbox' = [inbox EXCEPT ![t] = <<>>]
      /\ stored' = stored /\ crossed' = crossed /\ typed' = typed
  BY DEF ReloadTab, history
<1>3. inbox' \in [Tabs -> Seq(S)]
  BY <1>1, <1>2
<1>4. AllGood'
  <2>1. /\ value' \in [Tabs -> {value'[u] : u \in Tabs}]
        /\ \A u \in Tabs : Good(value'[u], Sources)
    BY <1>1, <1>2 DEF Shared, AllGood
  <2>2. QED
    BY <1>1, <1>2, <1>3, <2>1 DEF AllGood, Good, Truthful, IsAutoOn,
                                  Normalized, Sources
<1>5. UpToDate'
  BY <1>1, <1>2 DEF Shared, AllGood, UpToDate, Normalized
<1>6. QED
  BY <1>4, <1>5 DEF Shared

(* An edit made on the panel or on a node, or a name the dialog submits.   *)
LEMMA EditKeeps ==
    ASSUME Shared, DialogsOK, NEW t \in Tabs,
           PanelNext(t) \/ CommitActive(t) \/ FqnSubmit(t)
    PROVE  Shared'
<1>1. Good(value[t], Sources)
  BY DEF Shared, AllGood
<1>2. typed' = typed => Good(value[t], Sources') /\ Sources' = Sources
  BY <1>1 DEF Sources
<1>3. ASSUME NEW on \in BOOLEAN, ToggleAuto(t, on) PROVE Shared'
  BY <1>2, <1>3, EnabledIsGood, ChangeKeeps DEF ToggleAuto
<1>4. ASSUME NEW f \in ToSet(value[t].manual), RemoveManual(t, f) PROVE Shared'
  BY <1>2, <1>4, RemovedIsGood, ChangeKeeps DEF RemoveManual
<1>5. ASSUME NEW g \in Contents, NEW n \in DOMAIN g.nodes, AddNode(t, g, n) PROVE Shared'
  <2>1. NodeToFqn(g, n) \in Sources
    BY <1>5, NodesAreNamed DEF AddNode, Sources
  <2>2. QED
    BY <1>2, <1>5, <2>1, AddedIsGood, ChangeKeeps DEF AddNode
<1>6. CASE CommitActive(t)
  <2>1. Target(dialog[t]) \in Sources
    BY <1>6, TargetIsPicked DEF CommitActive, DialogsOK, Sources
  <2>2. QED
    BY <1>2, <1>6, <2>1, AddedIsGood, ChangeKeeps DEF CommitActive, Submit
<1>7. CASE FqnSubmit(t)
  <2>1. typed' = typed \cup {dialog[t].fqn}
    BY <1>7 DEF FqnSubmit
  <2>2. Good(value[t], Sources') /\ dialog[t].fqn \in Sources'
    BY <1>1, <2>1, MoreIsGood DEF Sources
  <2>3. Good(WithManualAdded(value[t], dialog[t].fqn), Sources')
    BY <2>2, AddedIsGood
  <2>4. QED
    BY <1>7, <2>1, <2>3, ChangeKeeps DEF FqnSubmit, Submit
<1>8. QED
  BY <1>3, <1>4, <1>5, <1>6, <1>7 DEF PanelNext

----------------------------------------------------------------------------
(* Every dialog stays one whose lit row is a row.                          *)
LEMMA DialogsStay ==
    ASSUME DialogsOK, [EntryNext]_entryVars
    PROVE  DialogsOK'
<1>1. UNCHANGED dialog => DialogsOK'
  BY DEF DialogsOK
<1>2. ASSUME NEW t \in Tabs, PanelNext(t)
      PROVE  DialogsOK'
  BY <1>1, <1>2 DEF PanelNext, ToggleAuto, RemoveManual, AddNode
<1>3. ASSUME NEW t \in Tabs, OtherNext(t)
      PROVE  DialogsOK'
  <2>1. CASE SymbolsArrive(t)
    BY <2>1, ListKeeps
  <2>2. CASE ReloadTab(t)
    BY <2>2, ClosingKeeps DEF ReloadTab
  <2>3. CASE \/ StorageEvent(t) \/ SymbolsFail(t)
             \/ RunRejected(t) \/ RunOver(t)
    BY <1>1, <2>3 DEF StorageEvent, SymbolsFail, RunRejected, RunOver,
                      RunEnds
  <2>4. QED
    BY <1>3, <2>1, <2>2, <2>3 DEF OtherNext
<1>4. ASSUME NEW t \in DialogTabs, DialogNext(t)
      PROVE  DialogsOK'
  <2>1. t \in Tabs
    BY EntryAssumption DEF EntryAssumption
  <2>2. CASE CommitActive(t) \/ FqnSubmit(t) \/ CloseDialog(t)
    BY <2>1, <2>2, ClosingKeeps DEF CommitActive, FqnSubmit, Submit,
                                    CloseDialog
  <2>3. CASE \E g \in Contents : OpenDialog(t, g)
    BY <2>1, <2>3, ListKeeps
  <2>4. CASE \/ \E tab \in {"pick", "fqn"} : SetTab(t, tab)
             \/ \E q \in Queries : TypeQuery(t, q)
             \/ \E f \in Typed \cup {None} : TypeFqn(t, f)
    BY <2>1, <2>4, TypingKeeps
  <2>5. CASE Highlight(t)
    BY <2>1, <2>5, HighlightKeeps
  <2>6. QED
    BY <1>4, <2>2, <2>3, <2>4, <2>5 DEF DialogNext
<1>5. CASE Forget
  BY <1>1, <1>5 DEF Forget
<1>6. CASE UNCHANGED entryVars
  BY <1>1, <1>6 DEF entryVars
<1>7. QED
  BY <1>2, <1>3, <1>4, <1>5, <1>6 DEF EntryNext

(* What the tabs share stays as the edits made it.                         *)
LEMMA SharedStays ==
    ASSUME Shared, DialogsOK, [EntryNext]_entryVars
    PROVE  Shared'
<1>1. ASSUME NEW t \in Tabs, PanelNext(t)
      PROVE  Shared'
  BY <1>1, EditKeeps
<1>2. ASSUME NEW t \in Tabs, OtherNext(t)
      PROVE  Shared'
  <2>1. CASE StorageEvent(t)
    BY <2>1, EventKeeps
  <2>2. CASE ReloadTab(t)
    BY <2>2, ReloadKeeps
  <2>3. CASE \/ SymbolsArrive(t) \/ SymbolsFail(t)
             \/ RunRejected(t) \/ RunOver(t)
    BY <2>3, StutterKeeps
      DEF SymbolsArrive, SymbolsFail, RunRejected, RunOver,
           RunEnds, storage, history
  <2>4. QED
    BY <1>2, <2>1, <2>2, <2>3 DEF OtherNext
<1>3. ASSUME NEW t \in DialogTabs, DialogNext(t)
      PROVE  Shared'
  <2>1. t \in Tabs
    BY EntryAssumption DEF EntryAssumption
  <2>2. CASE CommitActive(t) \/ FqnSubmit(t)
    BY <2>1, <2>2, EditKeeps
  <2>3. CASE \/ \E g \in Contents : OpenDialog(t, g)
             \/ CloseDialog(t)
    BY <2>3, StutterKeeps DEF OpenDialog, CloseDialog, storage, history
  <2>4. CASE \/ \E tab \in {"pick", "fqn"} : SetTab(t, tab)
             \/ \E q \in Queries : TypeQuery(t, q)
             \/ \E f \in Typed \cup {None} : TypeFqn(t, f)
    BY <2>4, StutterKeeps DEF SetTab, TypeQuery, TypeFqn, DialogBecomes,
                              storage, history
  <2>5. CASE Highlight(t)
    BY <2>5, StutterKeeps DEF Highlight, DialogBecomes, storage, history
  <2>6. QED
    BY <1>3, <2>2, <2>3, <2>4, <2>5 DEF DialogNext
<1>4. CASE Forget
  BY <1>4, ForgetKeeps
<1>5. CASE UNCHANGED entryVars
  BY <1>5, StutterKeeps DEF entryVars, storage, history
<1>6. QED
  BY <1>1, <1>2, <1>3, <1>4, <1>5 DEF EntryNext

(* The invariant.                                                          *)
SettingsInv == Shared /\ DialogsOK

(* Nothing is stored, and no dialog is open.                               *)
LEMMA SettingsInit == EntryInit => SettingsInv
<1> SUFFICES ASSUME EntryInit PROVE SettingsInv
  OBVIOUS
<1>1. \A x \in {NoSpec} : Good(Normalized(x), Sources)
  BY DefaultIsGood
<1>2. stored \in {NoSpec} /\ inbox \in [Tabs -> Seq({NoSpec})]
  BY DEF EntryInit
<1>3. AllGood
  <2>1. value \in [Tabs -> {value[t] : t \in Tabs}] /\ \A t \in Tabs : Good(value[t], Sources)
    BY DefaultIsGood DEF EntryInit
  <2>2. QED
    BY <1>1, <1>2, <2>1 DEF AllGood
<1>4. UpToDate
  BY DefaultIsGood DEF EntryInit, UpToDate
<1>5. dialog = [t \in Tabs |-> None]
  BY DEF EntryInit
<1>6. DialogsOK
  BY <1>5 DEF DialogsOK
<1>7. QED
  BY <1>3, <1>4, <1>6 DEF SettingsInv, Shared

(* One step of the system.                                                 *)
LEMMA SettingsNext ==
    SettingsInv /\ [EntryNext]_entryVars => SettingsInv'
  BY SharedStays, DialogsStay DEF SettingsInv

(* In every state.                                                         *)
LEMMA SettingsHold ==
    EntrySpec => []SettingsInv
  BY SettingsInit, SettingsNext, PTL DEF EntrySpec

(* However many tabs edit the settings, by whichever means, no panel shows *)
(* a box or a name that the server would not take for an entry point.      *)
THEOREM PanelAlwaysTruthful ==
    EntrySpec => []PanelTellsTheTruth
<1>1. SettingsInv => PanelTellsTheTruth
  BY DEF SettingsInv, Shared, AllGood, Good, PanelTellsTheTruth
<1>2. QED
  BY <1>1, SettingsHold, PTL

(* Tabs that have heard of every change show what is stored, unless two of *)
(* them made a change before they had heard of the other's.                *)
THEOREM TabsAlwaysAgree ==
    EntrySpec => []TabsAgree
<1>1. SettingsInv => TabsAgree
  BY DEF SettingsInv, Shared, UpToDate, TabsAgree
<1>2. QED
  BY <1>1, SettingsHold, PTL

(* Whatever the keys, the mouse and the catalogue did before, the row that *)
(* Enter takes is the row the picker has lit.                              *)
THEOREM EnterAlwaysTakesTheLitRow ==
    EntrySpec => []EnterTakesTheLitRow
<1>1. SettingsInv => EnterTakesTheLitRow
  BY DEF SettingsInv, DialogsOK, Lit, EnterTakesTheLitRow
<1>2. QED
  BY <1>1, SettingsHold, PTL

(* A name in a list that the server does not resolve was typed by hand, in *)
(* this tab or in another; none comes from the picker or from a node.      *)
THEOREM PickedNamesAlwaysResolve ==
    EntrySpec => []PickedNamesResolve
<1>1. SettingsInv => PickedNamesResolve
  <2> SUFFICES ASSUME SettingsInv, NEW t \in Tabs
               PROVE  ToSet(value[t].manual) \subseteq Resolvable \cup typed
    BY DEF PickedNamesResolve
  <2>1. value[t].manual \in Seq(Sources)
    BY DEF SettingsInv, Shared, AllGood, Good
  <2>2. QED
    BY <2>1 DEF ToSet, Sources
<1>2. QED
  BY <1>1, SettingsHold, PTL

----------------------------------------------------------------------------
(* The dead-code panel.                                                    *)

(* The generations are counted, and what was asked for has its shape.      *)
ReportTypes ==
    /\ graphGen \in [Projects -> Nat] /\ reportGen \in [Projects -> Nat]
    /\ analysis \in [Projects -> [by : {"mine", "other", None}, wrote : BOOLEAN]]
    /\ project \in Projects \cup {None}
    /\ done \in Gens /\ since \in Nat /\ heard \in Nat
    /\ graphData \in [status : {"idle", "loading", "ready", "error"}, gen : Gens,
                      stamp : Gens, whole : BOOLEAN]
    /\ get \in Gets \cup {None}
    /\ lastStamp \in Stamps \cup {None}
    /\ asks \in [Slots -> Requests \cup {None}]
    /\ asked \in Slots \cup {None}

(* A report is of a graph that was written before it, and an analysis that *)
(* has ended leaves nothing behind.                                        *)
GraphFirst ==
    \A p \in Projects : /\ reportGen[p] <= graphGen[p]
                        /\ analysis[p].by = None => ~analysis[p].wrote

(* Without a project nothing is shown and nothing is waited for.           *)
NothingShown ==
    project = None => /\ asked = None /\ get = None /\ done = None /\ heard = 0
                      /\ report.status = "idle"

(* The request that the panel waits for: it is of the project shown, and   *)
(* its answer is no older than the report there was when it was sent.      *)
Waiting ==
    asked # None =>
        /\ report.status = "loading"
        /\ asks[asked] \in Requests /\ asks[asked].of = project
        /\ since <= reportGen[project]
        /\ LET a == asks[asked].answer
           IN  a # None /\ a.ok => a.gen \in Nat /\ since <= a.gen

(* What came of it.                                                        *)
Shown ==
    /\ report.status = "loading" => asked # None
    /\ report.status = "ready" => /\ report.of = project
                                  /\ report.gen \in Nat /\ since <= report.gen

(* While an analysis of this tab runs the graph stays as it was shown, so  *)
(* that the one it writes is newer than any the effects have seen.         *)
MineIsNews ==
    \A p \in Projects : analysis[p].by = "mine" =>
        /\ p = project /\ graphData.status = "ready"
        /\ analysis[p].wrote => \A x \in Nat : lastStamp = <<p, x>> => x < graphGen[p]

(* So is the one a done event tells of, which has its report.              *)
DoneIsNews ==
    done # None =>
        /\ graphData.status = "ready"
        /\ done <= reportGen[project]
        /\ \A x \in Nat : lastStamp = <<project, x>> => x < done

(* The graph asked for since the last done event is that of it, or newer.  *)
FetchedSince ==
    /\ \A p \in Projects : \A x \in Nat : lastStamp = <<p, x>> => x <= graphGen[p]
    /\ project # None => heard <= reportGen[project]
    /\ get # None =>
          /\ graphData.status = "loading"
          /\ get.stamp # None => heard <= get.stamp /\ get.stamp <= graphGen[project]

(* Once a graph that new was shown, the panel has asked again.             *)
AskedSince ==
    /\ \A x \in Nat : project # None /\ lastStamp = <<project, x>> /\ heard <= x => heard <= since
    /\ project # None /\ graphData.status = "ready" => heard <= since

(* The invariant.                                                          *)
ReportInv ==
    /\ ReportTypes /\ GraphFirst /\ NothingShown /\ Waiting /\ Shown
    /\ MineIsNews /\ DoneIsNews /\ FetchedSince /\ AskedSince

----------------------------------------------------------------------------
(* The parts of the steps.                                                 *)

(* The owner of an analysis changes, and nothing else of it.               *)
LEMMA OwnerChanges ==
    ASSUME ReportTypes, NEW p \in Projects, NEW b \in {"mine", "other", None},
           analysis' = [analysis EXCEPT ![p].by = b]
    PROVE  /\ analysis' \in [Projects -> [by : {"mine", "other", None}, wrote : BOOLEAN]]
           /\ \A q \in Projects : /\ analysis'[q].wrote = analysis[q].wrote
                                  /\ analysis'[q].by = IF q = p THEN b ELSE analysis[q].by
<1>1. analysis' = [analysis EXCEPT ![p] = [analysis[p] EXCEPT !.by = b]]
  BY DEF ReportTypes
<1>2. [analysis[p] EXCEPT !.by = b] = [by |-> b, wrote |-> analysis[p].wrote]
  BY DEF ReportTypes
<1>3. QED
  BY <1>1, <1>2 DEF ReportTypes

(* An analysis that is given up is no longer this tab's.                   *)
LEMMA Disowns ==
    ASSUME ReportTypes, NEW p \in Projects \cup {None}, Disown(p)
    PROVE  /\ analysis' \in [Projects -> [by : {"mine", "other", None}, wrote : BOOLEAN]]
           /\ \A q \in Projects : /\ analysis'[q].wrote = analysis[q].wrote
                                  /\ analysis'[q].by = "mine" => analysis[q].by = "mine" /\ q # p
                                  /\ analysis'[q].by = None => analysis[q].by = None
<1>1. CASE p # None /\ analysis[p].by = "mine"
  BY <1>1, OwnerChanges, PanelAssumption DEF Disown, PanelAssumption
<1>2. CASE ~(p # None /\ analysis[p].by = "mine")
  <2>1. analysis' = analysis
    BY <1>2 DEF Disown
  <2>2. QED
    BY <1>2, <2>1, PanelAssumption DEF PanelAssumption, ReportTypes
<1>3. QED
  BY <1>1, <1>2

(* The panel asks: what it waits for then is its last request.             *)
LEMMA Asks ==
    ASSUME ReportTypes, NEW p \in Projects, Ask(p)
    PROVE  /\ asks' \in [Slots -> Requests \cup {None}]
           /\ asked' \in Slots /\ asked' # None
           /\ asks'[asked'] = [of |-> p, answer |-> None] /\ asks'[asked'] \in Requests
           /\ report' = [status |-> "loading", of |-> p, gen |-> None]
           /\ since' = reportGen[p] /\ since' \in Nat
<1>1. PICK s \in Free : /\ asks' = [asks EXCEPT ![s] = [of |-> p, answer |-> None]]
                        /\ asked' = s
                        /\ report' = [status |-> "loading", of |-> p, gen |-> None]
                        /\ since' = reportGen[p]
  BY DEF Ask
<1>2. s \in Slots /\ s # None
  BY PanelAssumption DEF Free, PanelAssumption
<1>3. [of |-> p, answer |-> None] \in Requests
  BY DEF Requests
<1>4. QED
  BY <1>1, <1>2, <1>3 DEF ReportTypes

(* The graph is asked for.                                                 *)
LEMMA Fetches ==
    ASSUME ReportTypes, NEW p, Fetch(p)
    PROVE  /\ get' \in Gets /\ get'.stamp = None
           /\ graphData' \in [status : {"idle", "loading", "ready", "error"}, gen : Gens,
                          stamp : Gens, whole : BOOLEAN]
           /\ graphData'.status = "loading"
  BY DEF Fetch, ReportTypes, Gets, Gens

(* A project is opened.                                                    *)
LEMMA OpenKeeps ==
    ASSUME ReportInv, NEW p \in Projects, Open(p)
    PROVE  ReportInv'
<1> USE DEF ReportInv
<1>1. ReportTypes /\ p # None
  BY PanelAssumption DEF PanelAssumption
<1>2. /\ project' = p /\ p # project /\ done' = None /\ heard' = 0
      /\ UNCHANGED <<graphGen, reportGen, lastStamp>>
      /\ Fetch(p) /\ Ask(p) /\ Disown(project)
  BY DEF Open
<1>3. project \in Projects \cup {None}
  BY DEF ReportTypes
<1>4. /\ analysis' \in [Projects -> [by : {"mine", "other", None}, wrote : BOOLEAN]]
      /\ \A q \in Projects : /\ analysis'[q].wrote = analysis[q].wrote
                             /\ analysis'[q].by = "mine" => analysis[q].by = "mine" /\ q # project
                             /\ analysis'[q].by = None => analysis[q].by = None
  BY <1>1, <1>2, <1>3, Disowns
<1>5. /\ get' \in Gets /\ get'.stamp = None
      /\ graphData' \in [status : {"idle", "loading", "ready", "error"}, gen : Gens,
                     stamp : Gens, whole : BOOLEAN]
      /\ graphData'.status = "loading"
  BY <1>1, <1>2, Fetches
<1>6. /\ asks' \in [Slots -> Requests \cup {None}]
      /\ asked' \in Slots /\ asked' # None
      /\ asks'[asked'] = [of |-> p, answer |-> None] /\ asks'[asked'] \in Requests
      /\ report' = [status |-> "loading", of |-> p, gen |-> None]
      /\ since' = reportGen[p] /\ since' \in Nat
  BY <1>1, <1>2, Asks
<1>7. ReportTypes'
  BY <1>1, <1>2, <1>4, <1>5, <1>6 DEF ReportTypes, Gens
<1>8. GraphFirst' /\ NothingShown'
  BY <1>1, <1>2, <1>4 DEF GraphFirst, NothingShown
<1>9. Waiting' /\ Shown'
  BY <1>1, <1>2, <1>6 DEF Waiting, Shown, ReportTypes
<1>10. \A q \in Projects : analysis'[q].by # "mine"
  BY <1>4 DEF MineIsNews
<1>11. MineIsNews' /\ DoneIsNews'
  BY <1>2, <1>10 DEF MineIsNews, DoneIsNews
<1>12. FetchedSince'
  BY <1>1, <1>2, <1>5 DEF FetchedSince, ReportTypes
<1>13. AskedSince'
  BY <1>2, <1>6 DEF AskedSince
<1>14. QED
  BY <1>7, <1>8, <1>9, <1>11, <1>12, <1>13

(* The project is closed, with the page or without.                        *)
LEMMA CloseKeeps ==
    ASSUME ReportInv, Close \/ LeavePage
    PROVE  ReportInv'
<1> USE DEF ReportInv
<1>1. ReportTypes
  OBVIOUS
<1>2. /\ project # None /\ project' = None /\ get' = None /\ asked' = None /\ done' = None
      /\ heard' = 0 /\ report' = NoReport /\ Disown(project)
      /\ UNCHANGED <<graphGen, reportGen, asks, since>>
      /\ graphData' \in {graphData, NoGraph} /\ lastStamp' \in {lastStamp, None}
  BY DEF Close, LeavePage
<1>3. /\ analysis' \in [Projects -> [by : {"mine", "other", None}, wrote : BOOLEAN]]
      /\ \A q \in Projects : /\ analysis'[q].wrote = analysis[q].wrote
                             /\ analysis'[q].by = "mine" => analysis[q].by = "mine" /\ q # project
                             /\ analysis'[q].by = None => analysis[q].by = None
  BY <1>1, <1>2, Disowns DEF ReportTypes
<1>4. ReportTypes'
  <2>1. graphData' \in [status : {"idle", "loading", "ready", "error"}, gen : Gens,
                    stamp : Gens, whole : BOOLEAN]
    <3>1. NoGraph \in [status : {"idle", "loading", "ready", "error"}, gen : Gens,
                       stamp : Gens, whole : BOOLEAN]
      BY DEF NoGraph, Gens
    <3>2. QED
      BY <1>2, <3>1 DEF ReportTypes
  <2>2. QED
    BY <1>2, <1>3, <2>1 DEF ReportTypes, Gens
<1>5. \A q \in Projects, x \in Nat : None # <<q, x>>
  BY PanelAssumption DEF PanelAssumption, Stamps
<1>6. GraphFirst' /\ NothingShown' /\ Waiting' /\ Shown'
  BY <1>2, <1>3 DEF GraphFirst, NothingShown, Waiting, Shown, NoReport
<1>7. MineIsNews' /\ DoneIsNews'
  BY <1>2, <1>3 DEF MineIsNews, DoneIsNews
<1>8. FetchedSince' /\ AskedSince'
  BY <1>2, <1>5 DEF FetchedSince, AskedSince
<1>9. QED
  BY <1>4, <1>6, <1>7, <1>8

(* The graph is asked for again, by the button or for a done event.        *)
LEMMA RefetchKeeps ==
    ASSUME ReportInv, Refresh \/ HearDone
    PROVE  ReportInv'
<1> USE DEF ReportInv
<1>1. ReportTypes
  OBVIOUS
<1>2. /\ project # None /\ project' = project /\ done' = None
      /\ Fetch(project) /\ Disown(project)
      /\ heard' = heard \/ (done # None /\ heard' = done)
      /\ UNCHANGED <<graphGen, reportGen, lastStamp, report, asks, asked, since>>
  BY DEF Refresh, HearDone, NothingShown, panel
<1>3. /\ analysis' \in [Projects -> [by : {"mine", "other", None}, wrote : BOOLEAN]]
      /\ \A q \in Projects : /\ analysis'[q].wrote = analysis[q].wrote
                             /\ analysis'[q].by = "mine" => analysis[q].by = "mine" /\ q # project
                             /\ analysis'[q].by = None => analysis[q].by = None
  BY <1>1, <1>2, Disowns DEF ReportTypes
<1>4. /\ get' \in Gets /\ get'.stamp = None
      /\ graphData' \in [status : {"idle", "loading", "ready", "error"}, gen : Gens,
                     stamp : Gens, whole : BOOLEAN]
      /\ graphData'.status = "loading"
  BY <1>1, <1>2, Fetches
<1>5. heard' \in Nat /\ heard' <= reportGen[project] /\ project \in Projects
  BY <1>2 DEF ReportTypes, DoneIsNews, FetchedSince, Gens
<1>6. ReportTypes'
  BY <1>1, <1>2, <1>3, <1>4, <1>5 DEF ReportTypes, Gens
<1>7. GraphFirst' /\ NothingShown' /\ Waiting' /\ Shown'
  BY <1>2, <1>3 DEF GraphFirst, NothingShown, Waiting, Shown
<1>8. MineIsNews' /\ DoneIsNews'
  BY <1>2, <1>3 DEF MineIsNews, DoneIsNews
<1>9. FetchedSince'
  BY <1>2, <1>4, <1>5 DEF FetchedSince
<1>10. ASSUME NEW x \in Nat, lastStamp = <<project, x>>, heard' <= x PROVE heard' <= since
  BY <1>2, <1>10 DEF DoneIsNews, AskedSince, ReportTypes, Gens
<1>11. AskedSince'
  BY <1>2, <1>4, <1>10 DEF AskedSince
<1>12. QED
  BY <1>6, <1>7, <1>8, <1>9, <1>11

(* The server answers a request of the graph, or does not.                 *)
LEMMA GraphReadKeeps ==
    ASSUME ReportInv, ReadGraph \/ StatGraph \/ GraphFailed
    PROVE  ReportInv'
<1> USE DEF ReportInv
<1>1. /\ get # None /\ get \in Gets /\ project \in Projects /\ done = None
      /\ project # None /\ graphData.status = "loading"
      /\ UNCHANGED <<graphGen, reportGen, analysis, done, project, lastStamp, heard>>
      /\ UNCHANGED <<report, asks, asked, since>>
      /\ \A q \in Projects : analysis[q].by # "mine"
  BY DEF ReadGraph, StatGraph, GraphFailed, ReportTypes, NothingShown, FetchedSince, DoneIsNews,
         MineIsNews, server, panel
<1>2. /\ get' \in Gets \cup {None} /\ graphData'.status # "ready"
      /\ graphData' \in [status : {"idle", "loading", "ready", "error"}, gen : Gens,
                     stamp : Gens, whole : BOOLEAN]
      /\ get' # None => /\ graphData' = graphData
                        /\ get'.stamp # None => \/ get'.stamp = get.stamp
                                                \/ get'.stamp = graphGen[project]
  <2>1. CASE ReadGraph
    <3>1. graphGen[project] \in Gens /\ (graphGen[project] = reportGen[project]) \in BOOLEAN
      BY <1>1 DEF ReportTypes, Gens
    <3>2. /\ get' = [get EXCEPT !.gen = graphGen[project],
                                !.whole = (graphGen[project] = reportGen[project])]
          /\ graphData' = graphData
      BY <2>1 DEF ReadGraph
    <3>3. get' \in Gets /\ get'.stamp = get.stamp
      BY <1>1, <3>1, <3>2 DEF Gets
    <3>4. QED
      BY <1>1, <3>2, <3>3 DEF ReportTypes
  <2>2. CASE StatGraph
    BY <1>1, <2>2 DEF StatGraph, ReportTypes, Gets, Gens
  <2>3. CASE GraphFailed
    BY <1>1, <2>3 DEF GraphFailed, ReportTypes
  <2>4. QED
    BY <2>1, <2>2, <2>3
<1>3. ReportTypes'
  BY <1>1, <1>2 DEF ReportTypes
<1>4. GraphFirst' /\ NothingShown' /\ Waiting' /\ Shown'
  BY <1>1, PanelAssumption DEF PanelAssumption, GraphFirst, NothingShown, Waiting, Shown
<1>5. MineIsNews' /\ DoneIsNews'
  BY <1>1 DEF MineIsNews, DoneIsNews
<1>6. FetchedSince'
  <2>1. heard <= graphGen[project]
    BY <1>1 DEF FetchedSince, GraphFirst, ReportTypes
  <2>2. graphGen[project] <= graphGen[project]
    BY <1>1 DEF ReportTypes
  <2>3. QED
    BY <1>1, <1>2, <2>1, <2>2 DEF FetchedSince
<1>7. AskedSince'
  BY <1>1, <1>2 DEF AskedSince
<1>8. QED
  BY <1>3, <1>4, <1>5, <1>6, <1>7

(* The graph is shown, and the report asked for unless it is the one that  *)
(* was shown before.                                                       *)
LEMMA ShowKeeps ==
    ASSUME ReportInv, ShowGraph
    PROVE  ReportInv'
<1> USE DEF ReportInv
<1>1. /\ get # None /\ get \in Gets /\ get.stamp \in Nat /\ project \in Projects
      /\ done = None /\ get' = None /\ lastStamp' = <<project, get.stamp>>
      /\ graphData' = [status |-> "ready", gen |-> get.gen, stamp |-> get.stamp,
                       whole |-> get.whole]
      /\ UNCHANGED <<graphGen, reportGen, analysis, done, project, heard>>
      /\ \A q \in Projects : analysis[q].by # "mine"
      /\ heard <= get.stamp /\ get.stamp <= graphGen[project] /\ heard <= reportGen[project]
  BY DEF ShowGraph, ReportTypes, Gets, Gens, NothingShown, FetchedSince, DoneIsNews, MineIsNews,
         server
<1>2. /\ asks' \in [Slots -> Requests \cup {None}] /\ asked' \in Slots \cup {None}
      /\ since' \in Nat /\ heard <= since'
      /\ Waiting' /\ Shown'
  <2>1. CASE lastStamp = <<project, get.stamp>>
    <3>1. UNCHANGED <<report, asks, asked, since>>
      BY <2>1 DEF ShowGraph, panel
    <3>2. heard <= since
      BY <1>1, <2>1, PanelAssumption DEF AskedSince, PanelAssumption
    <3>3. QED
      BY <1>1, <3>1, <3>2 DEF ReportTypes, Waiting, Shown
  <2>2. CASE lastStamp # <<project, get.stamp>>
    <3>1. Ask(project)
      BY <2>2 DEF ShowGraph
    <3>2. /\ asks' \in [Slots -> Requests \cup {None}]
          /\ asked' \in Slots /\ asked' # None
          /\ asks'[asked'] = [of |-> project, answer |-> None] /\ asks'[asked'] \in Requests
          /\ report' = [status |-> "loading", of |-> project, gen |-> None]
          /\ since' = reportGen[project] /\ since' \in Nat
      BY <1>1, <3>1, Asks
    <3>3. Waiting' /\ Shown'
      BY <1>1, <3>2 DEF Waiting, Shown
    <3>4. QED
      BY <1>1, <3>2, <3>3
  <2>3. QED
    BY <2>1, <2>2
<1>3. ReportTypes'
  BY <1>1, <1>2 DEF ReportTypes, Gets, Stamps
<1>4. GraphFirst' /\ NothingShown'
  BY <1>1, PanelAssumption DEF GraphFirst, NothingShown, PanelAssumption
<1>5. MineIsNews' /\ DoneIsNews'
  BY <1>1 DEF MineIsNews, DoneIsNews
<1>6. FetchedSince'
  BY <1>1 DEF FetchedSince
<1>7. AskedSince'
  BY <1>1, <1>2 DEF AskedSince
<1>8. QED
  BY <1>2, <1>3, <1>4, <1>5, <1>6, <1>7

(* The panel asks once more after an error.                                *)
LEMMA RetryKeeps ==
    ASSUME ReportInv, Retry
    PROVE  ReportInv'
<1> USE DEF ReportInv
<1>1. /\ project \in Projects /\ Ask(project)
      /\ UNCHANGED <<graphGen, reportGen, analysis, done, project, graphData, get, lastStamp,
                     heard>>
  BY DEF Retry, ReportTypes, server, page
<1>2. /\ asks' \in [Slots -> Requests \cup {None}]
      /\ asked' \in Slots /\ asked' # None
      /\ asks'[asked'] = [of |-> project, answer |-> None] /\ asks'[asked'] \in Requests
      /\ report' = [status |-> "loading", of |-> project, gen |-> None]
      /\ since' = reportGen[project] /\ since' \in Nat
  BY <1>1, Asks
<1>3. ReportTypes'
  BY <1>1, <1>2 DEF ReportTypes
<1>4. project # None
  BY DEF Retry
<1>5. GraphFirst' /\ NothingShown' /\ Waiting' /\ Shown'
  BY <1>1, <1>2, <1>4 DEF GraphFirst, NothingShown, Waiting, Shown
<1>6. MineIsNews' /\ DoneIsNews' /\ FetchedSince'
  BY <1>1 DEF MineIsNews, DoneIsNews, FetchedSince
<1>7. AskedSince'
  BY <1>1, <1>2, <1>4 DEF AskedSince, FetchedSince
<1>8. QED
  BY <1>3, <1>5, <1>6, <1>7

(* The server answers with the report it has then.                         *)
LEMMA AnswerKeeps ==
    ASSUME ReportInv, NEW s \in Slots, Answer(s)
    PROVE  ReportInv'
<1> USE DEF ReportInv
<1>1. /\ asks[s] \in Requests /\ asks[s].answer = None
      /\ UNCHANGED <<graphGen, reportGen, analysis, done, project, graphData, get, lastStamp,
                     report, asked, since, heard>>
  BY DEF Answer, ReportTypes, server, page
<1>2. PICK ok \in BOOLEAN :
          asks' = [asks EXCEPT ![s].answer =
                      [ok |-> ok, gen |-> IF ok THEN reportGen[asks[s].of] ELSE None]]
  BY DEF Answer
<1> DEFINE a == [ok |-> ok, gen |-> IF ok THEN reportGen[asks[s].of] ELSE None]
<1>3. a \in Answers /\ a.ok = ok /\ (ok => a.gen = reportGen[asks[s].of])
  BY <1>1 DEF Answers, Gens, Requests, ReportTypes
<1> HIDE DEF a
<1>4. asks' = [asks EXCEPT ![s] = [of |-> asks[s].of, answer |-> a]]
  <2>1. asks' = [asks EXCEPT ![s] = [asks[s] EXCEPT !.answer = a]]
    BY <1>2 DEF ReportTypes, a
  <2>2. [asks[s] EXCEPT !.answer = a] = [of |-> asks[s].of, answer |-> a]
    BY <1>1 DEF Requests
  <2>3. QED
    BY <2>1, <2>2
<1>5. [of |-> asks[s].of, answer |-> a] \in Requests
  BY <1>1, <1>3 DEF Requests
<1>6. ReportTypes'
  BY <1>1, <1>4, <1>5 DEF ReportTypes
<1>7. Waiting'
  <2> SUFFICES ASSUME asked # None
               PROVE  Waiting'
    BY <1>1 DEF Waiting
  <2>1. asked \in Slots
    BY DEF ReportTypes
  <2>2. CASE asked = s
    <3>1. asks'[asked] = [of |-> asks[s].of, answer |-> a]
      BY <1>4, <2>1, <2>2 DEF ReportTypes
    <3>2. asks[s].of = project /\ project \in Projects
      BY <1>1, <2>2 DEF Waiting, Requests
    <3>3. reportGen[project] \in Nat /\ since <= reportGen[project]
      BY <3>2 DEF ReportTypes, Waiting
    <3>4. QED
      BY <1>1, <1>3, <1>5, <3>1, <3>2, <3>3 DEF Waiting
  <2>3. CASE asked # s
    <3>1. asks'[asked] = asks[asked]
      BY <1>4, <2>1, <2>3 DEF ReportTypes
    <3>2. QED
      BY <1>1, <3>1 DEF Waiting
  <2>4. QED
    BY <2>2, <2>3
<1>8. /\ GraphFirst' /\ NothingShown' /\ Shown'
      /\ MineIsNews' /\ DoneIsNews' /\ FetchedSince' /\ AskedSince'
  BY <1>1 DEF GraphFirst, NothingShown, Shown, MineIsNews, DoneIsNews, FetchedSince,
              AskedSince
<1>9. QED
  BY <1>6, <1>7, <1>8

(* An answer comes to the panel, which takes the one it waits for.         *)
LEMMA DeliverKeeps ==
    ASSUME ReportInv, NEW s \in Slots, Deliver(s)
    PROVE  ReportInv'
<1> USE DEF ReportInv
<1>1. /\ asks[s] # None /\ asks[s].answer # None
      /\ asks' = [asks EXCEPT ![s] = None]
      /\ UNCHANGED <<graphGen, reportGen, analysis, done, project, graphData, get, lastStamp,
                     since, heard>>
  BY DEF Deliver, Take, server, page
<1>2. asked' \in {asked, None} /\ (asked' # None => asked' # s /\ report' = report)
  BY DEF Deliver
<1>3. ReportTypes'
  BY <1>1, <1>2 DEF ReportTypes
<1>4. Waiting'
  <2> SUFFICES ASSUME asked' # None
               PROVE  Waiting'
    BY DEF Waiting
  <2>1. asked' = asked /\ asked \in Slots /\ asked # s /\ report' = report
    BY <1>2 DEF ReportTypes
  <2>2. asks'[asked] = asks[asked]
    BY <1>1, <2>1 DEF ReportTypes
  <2>3. QED
    BY <1>1, <2>1, <2>2 DEF Waiting
<1>5. Shown' /\ NothingShown'
  <2>1. CASE s = asked
    <3>1. /\ asked # None /\ asked' = None
          /\ report' = Outcome(asks[s].of, asks[s].answer)
      BY <2>1, PanelAssumption DEF Deliver, PanelAssumption
    <3>2. /\ report'.status = "ready" => asks[s].answer.ok
          /\ report'.status # "loading"
          /\ report'.of = asks[s].of /\ report'.gen = asks[s].answer.gen
      BY <3>1 DEF Outcome
    <3>3. asked # None => project # None
      BY DEF NothingShown
    <3>4. QED
      BY <1>1, <2>1, <3>1, <3>2, <3>3 DEF Waiting, Shown, NothingShown
  <2>2. CASE s # asked
    BY <1>1, <2>2 DEF Deliver, Shown, NothingShown
  <2>3. QED
    BY <2>1, <2>2
<1>6. GraphFirst' /\ MineIsNews' /\ DoneIsNews' /\ FetchedSince' /\ AskedSince'
  BY <1>1 DEF GraphFirst, MineIsNews, DoneIsNews, FetchedSince, AskedSince
<1>7. QED
  BY <1>3, <1>4, <1>5, <1>6

(* An analysis begins, of this tab or another's, or this tab's is refused. *)
LEMMA BeginKeeps ==
    ASSUME ReportInv, Reanalyse \/ ReanalyseRefused \/ \E p \in Projects : OtherAnalyses(p)
    PROVE  ReportInv'
<1> USE DEF ReportInv
<1>1. /\ UNCHANGED <<graphGen, reportGen, project, graphData, get, lastStamp, report, asks, asked,
                     since, heard>>
      /\ done' \in {done, None}
  BY DEF Reanalyse, ReanalyseRefused, OtherAnalyses, page, panel
<1>2. /\ analysis' \in [Projects -> [by : {"mine", "other", None}, wrote : BOOLEAN]]
      /\ MineIsNews' /\ GraphFirst'
  <2>1. CASE Reanalyse
    <3>1. /\ project \in Projects /\ graphData.status = "ready" /\ analysis[project].by = None
          /\ analysis' = [analysis EXCEPT ![project].by = "mine"]
      BY <2>1 DEF Reanalyse, ReportTypes
    <3>2. ~analysis[project].wrote
      BY <3>1 DEF GraphFirst
    <3>3. QED
      BY <1>1, <3>1, <3>2, OwnerChanges, PanelAssumption
         DEF PanelAssumption, MineIsNews, GraphFirst
  <2>2. CASE ReanalyseRefused
    <3>1. /\ analysis' \in [Projects -> [by : {"mine", "other", None}, wrote : BOOLEAN]]
          /\ \A q \in Projects : /\ analysis'[q].wrote = analysis[q].wrote
                                 /\ analysis'[q].by = "mine" => analysis[q].by = "mine"
                                 /\ analysis'[q].by = None => analysis[q].by = None
      BY <2>2, Disowns DEF ReanalyseRefused, ReportTypes
    <3>2. QED
      BY <1>1, <3>1 DEF MineIsNews, GraphFirst
  <2>3. CASE \E p \in Projects : OtherAnalyses(p)
    <3>1. PICK p \in Projects : /\ analysis[p].by = None
                                /\ analysis' = [analysis EXCEPT ![p].by = "other"]
      BY <2>3 DEF OtherAnalyses
    <3>2. ~analysis[p].wrote
      BY <3>1 DEF GraphFirst
    <3>3. /\ analysis' \in [Projects -> [by : {"mine", "other", None}, wrote : BOOLEAN]]
          /\ \A q \in Projects : /\ analysis'[q].wrote = analysis[q].wrote
                                 /\ analysis'[q].by = IF q = p THEN "other" ELSE analysis[q].by
      BY <3>1, OwnerChanges
    <3>4. "other" # None
      BY PanelAssumption DEF PanelAssumption
    <3>5. QED
      BY <1>1, <3>2, <3>3, <3>4 DEF MineIsNews, GraphFirst
  <2>4. QED
    BY <2>1, <2>2, <2>3
<1>3. NothingShown' /\ Waiting' /\ Shown' /\ DoneIsNews' /\ FetchedSince' /\ AskedSince'
  BY <1>1 DEF NothingShown, Waiting, Shown, DoneIsNews, FetchedSince, AskedSince
<1>4. ReportTypes'
  BY <1>1, <1>2 DEF ReportTypes, Gens
<1>5. QED
  BY <1>2, <1>3, <1>4

(* A graph is written.                                                     *)
LEMMA WriteGraphKeeps ==
    ASSUME ReportInv, NEW p \in Projects, WriteGraph(p)
    PROVE  ReportInv'
<1> USE DEF ReportInv
<1>1. /\ analysis[p].by # None /\ graphGen' = [graphGen EXCEPT ![p] = @ + 1]
      /\ analysis' = [analysis EXCEPT ![p].wrote = TRUE]
      /\ UNCHANGED <<reportGen, done, project, graphData, get, lastStamp, report, asks, asked,
                     since, heard>>
  BY DEF WriteGraph, page, panel
<1>2. /\ analysis' \in [Projects -> [by : {"mine", "other", None}, wrote : BOOLEAN]]
      /\ \A q \in Projects : /\ analysis'[q].by = analysis[q].by
                             /\ q # p => analysis'[q].wrote = analysis[q].wrote
  <2>1. PICK w \in BOOLEAN : w /\ analysis' = [analysis EXCEPT ![p].wrote = w]
    BY <1>1
  <2>2. analysis' = [analysis EXCEPT ![p] = [analysis[p] EXCEPT !.wrote = w]]
    BY <2>1
  <2>3. [analysis[p] EXCEPT !.wrote = w] = [by |-> analysis[p].by, wrote |-> w]
    BY DEF ReportTypes
  <2>4. QED
    BY <2>2, <2>3 DEF ReportTypes
<1>3. /\ graphGen' \in [Projects -> Nat]
      /\ \A q \in Projects : graphGen[q] <= graphGen'[q]
      /\ \A x \in Nat : x <= graphGen[p] => x < graphGen'[p]
  BY <1>1 DEF ReportTypes
<1>4. ReportTypes'
  BY <1>1, <1>2, <1>3 DEF ReportTypes
<1>5. GraphFirst'
  <2>1. \A q \in Projects : reportGen[q] \in Nat /\ graphGen[q] \in Nat /\ graphGen'[q] \in Nat
    BY <1>3 DEF ReportTypes
  <2>2. QED
    BY <1>1, <1>2, <1>3, <2>1 DEF GraphFirst
<1>6. MineIsNews'
  BY <1>1, <1>2, <1>3 DEF MineIsNews, FetchedSince
<1>7. FetchedSince'
  <2>1. \A q \in Projects, x \in Nat : x <= graphGen[q] => x <= graphGen'[q]
    BY <1>3 DEF ReportTypes
  <2>2. get # None => project \in Projects
    BY DEF NothingShown, ReportTypes
  <2>3. get # None => get.stamp = None \/ get.stamp \in Nat
    BY DEF ReportTypes, Gets, Gens
  <2>4. QED
    BY <1>1, <2>1, <2>2, <2>3 DEF FetchedSince
<1>8. NothingShown' /\ Waiting' /\ Shown' /\ DoneIsNews' /\ AskedSince'
  BY <1>1 DEF NothingShown, Waiting, Shown, DoneIsNews, AskedSince
<1>9. QED
  BY <1>4, <1>5, <1>6, <1>7, <1>8

(* An analysis ends, with the report of its graph or without.              *)
LEMMA EndKeeps ==
    ASSUME ReportInv, NEW p \in Projects, WriteReport(p) \/ AnalysisFails(p)
    PROVE  ReportInv'
<1> USE DEF ReportInv
<1>1. /\ analysis' = [analysis EXCEPT ![p] = Idle]
      /\ UNCHANGED <<graphGen, project, graphData, get, lastStamp, report, asks, asked, since,
                     heard>>
      /\ reportGen' = reportGen \/ reportGen' = [reportGen EXCEPT ![p] = graphGen[p]]
      /\ \/ done' = done
         \/ /\ WriteReport(p) /\ analysis[p].by = "mine" /\ analysis[p].wrote
            /\ done' = graphGen[p] /\ reportGen' = [reportGen EXCEPT ![p] = graphGen[p]]
  BY DEF WriteReport, AnalysisFails, page, panel
<1>2. /\ analysis' \in [Projects -> [by : {"mine", "other", None}, wrote : BOOLEAN]]
      /\ \A q \in Projects : /\ q # p => analysis'[q] = analysis[q]
                             /\ q = p => analysis'[q].by = None /\ ~analysis'[q].wrote
  <2>1. /\ Idle \in [by : {"mine", "other", None}, wrote : BOOLEAN]
        /\ Idle.by = None /\ ~Idle.wrote
    BY DEF Idle
  <2>2. QED
    BY <1>1, <2>1 DEF ReportTypes
<1>3. /\ reportGen' \in [Projects -> Nat]
      /\ \A q \in Projects : reportGen[q] <= reportGen'[q] /\ reportGen'[q] <= graphGen[q]
  <2>1. \A q \in Projects : /\ reportGen[q] \in Nat /\ graphGen[q] \in Nat
                              /\ reportGen[q] <= graphGen[q]
    BY DEF ReportTypes, GraphFirst
  <2>2. reportGen \in [Projects -> Nat]
    BY DEF ReportTypes
  <2>3. CASE reportGen' = reportGen
    BY <2>1, <2>2, <2>3
  <2>4. CASE reportGen' = [reportGen EXCEPT ![p] = graphGen[p]]
    BY <2>1, <2>2, <2>4
  <2>5. QED
    BY <1>1, <2>3, <2>4
<1>4. \A q \in Projects, x \in Nat : x <= reportGen[q] => x <= reportGen'[q]
  BY <1>3 DEF ReportTypes
<1>5. project # None => project \in Projects
  BY DEF ReportTypes
<1>6. DoneIsNews' /\ (project = None => done' = None) /\ done' \in Gens
  <2>1. CASE done' = done
    <3>1. done # None => project # None /\ done \in Nat
      BY DEF NothingShown, ReportTypes, Gens
    <3>2. QED
      BY <1>1, <1>4, <1>5, <2>1, <3>1 DEF DoneIsNews, NothingShown, ReportTypes
  <2>2. CASE done' # done
    <3>1. /\ p = project /\ graphData.status = "ready" /\ done' = graphGen[p]
          /\ reportGen'[p] = graphGen[p] /\ graphGen[p] \in Nat
          /\ \A x \in Nat : lastStamp = <<p, x>> => x < graphGen[p]
      BY <1>1, <2>2 DEF MineIsNews, ReportTypes
    <3>2. project # None
      BY <3>1, PanelAssumption DEF PanelAssumption
    <3>3. QED
      BY <1>1, <3>1, <3>2 DEF DoneIsNews, Gens
  <2>3. QED
    BY <2>1, <2>2
<1>7. ReportTypes'
  BY <1>1, <1>2, <1>3, <1>6 DEF ReportTypes
<1>8. GraphFirst' /\ NothingShown' /\ Shown'
  BY <1>1, <1>2, <1>3, <1>6 DEF GraphFirst, NothingShown, Shown
<1>9. Waiting'
  <2>1. asked # None => project # None
    BY DEF NothingShown
  <2>2. QED
    BY <1>1, <1>4, <1>5, <2>1 DEF Waiting, ReportTypes
<1>10. MineIsNews'
  BY <1>1, <1>2, PanelAssumption DEF PanelAssumption, MineIsNews
<1>11. FetchedSince' /\ AskedSince'
  BY <1>1, <1>4, <1>5 DEF FetchedSince, AskedSince, ReportTypes
<1>12. QED
  BY <1>6, <1>7, <1>8, <1>9, <1>10, <1>11

----------------------------------------------------------------------------
(* Nothing is shown or asked for at first.                                 *)
LEMMA ReportStarts == ReportInit => ReportInv
<1> SUFFICES ASSUME ReportInit PROVE ReportInv
  OBVIOUS
<1>1. ReportTypes
  BY DEF ReportInit, ReportTypes, NoGraph, Idle, Gens
<1>2. \A q \in Projects, x \in Nat : None # <<q, x>>
  BY PanelAssumption DEF PanelAssumption, Stamps
<1>3. GraphFirst /\ NothingShown /\ Waiting /\ Shown
  BY DEF ReportInit, GraphFirst, NothingShown, Waiting, Shown, NoReport, Idle
<1>4. MineIsNews /\ DoneIsNews
  BY PanelAssumption DEF PanelAssumption, ReportInit, MineIsNews, DoneIsNews, Idle
<1>5. FetchedSince /\ AskedSince
  BY <1>2 DEF ReportInit, FetchedSince, AskedSince, NoGraph
<1>6. QED
  BY <1>1, <1>3, <1>4, <1>5 DEF ReportInv

(* Every step keeps the invariant.                                         *)
LEMMA ReportKept == ReportInv /\ [ReportNext]_reportVars => ReportInv'
<1> SUFFICES ASSUME ReportInv, [ReportNext]_reportVars PROVE ReportInv'
  OBVIOUS
<1>1. CASE UNCHANGED reportVars \/ \E d \in DOMAIN Place : ActivateRow(d)
  BY <1>1 DEF reportVars, server, page, panel, ActivateRow, ReportInv, ReportTypes, GraphFirst,
              NothingShown, Waiting, Shown, MineIsNews, DoneIsNews, FetchedSince, AskedSince
<1>2. QED
  BY <1>1, OpenKeeps, CloseKeeps, RefetchKeeps, GraphReadKeeps, ShowKeeps, RetryKeeps,
     AnswerKeeps, DeliverKeeps, BeginKeeps, WriteGraphKeeps, EndKeeps DEF ReportNext

(* It has the two properties in it.                                        *)
LEMMA ReportInvImplies == ReportInv => ReportAnswersLastAsk /\ DoneIsReported
<1> SUFFICES ASSUME ReportInv PROVE ReportAnswersLastAsk /\ DoneIsReported
  OBVIOUS
<1>1. asked # None => asks[asked] # None
  BY PanelAssumption DEF PanelAssumption, ReportInv, Waiting
<1>2. ReportAnswersLastAsk
  BY <1>1 DEF ReportAnswersLastAsk, ReportInv, Shown
<1>3. ASSUME graphData.status = "ready", report.status = "ready" PROVE report.gen >= heard
  BY <1>3 DEF ReportInv, ReportTypes, Shown, NothingShown, AskedSince
<1>4. QED
  BY <1>2, <1>3 DEF DoneIsReported

(* In every state.                                                         *)
LEMMA ReportHolds == ReportSpec => []ReportInv
  BY ReportStarts, ReportKept, PTL DEF ReportSpec

(* The report on the screen is of the project on the screen and no older   *)
(* than what the server had when the panel asked last, and the skeleton    *)
(* rows are shown only while an answer is still to come: whatever order    *)
(* the answers come in.                                                    *)
THEOREM ReportAlwaysAnswersLastAsk == ReportSpec => []ReportAnswersLastAsk
  BY ReportHolds, ReportInvImplies, PTL

(* Once a re-analysis of this tab is done and its graph shown, the report  *)
(* beside it is not from before it.                                        *)
THEOREM DoneAlwaysReported == ReportSpec => []DoneIsReported
  BY ReportHolds, ReportInvImplies, PTL
=============================================================================
