----------------------------- MODULE FileSysProof -----------------------------
(***************************************************************************)
(* Proofs about FileSys, for any sectors, names, processes and limits: the *)
(* disk is sound at every moment, open files keep what is theirs, and      *)
(* sectors are lost only in the known ways.                                *)
(***************************************************************************)
EXTENDS FileSys, FiniteSetTheorems, SequenceTheorems, WellFoundedInduction, TLAPS

-----------------------------------------------------------------------------
(* Numbers, sets and lists.                                                *)

LEMMA MinIs ==
  ASSUME NEW S, S \subseteq Nat, S # {}
  PROVE  Min(S) \in S
<1> DEFINE R == OpToRel(<, Nat)
<1>1. R = {p \in Nat \X Nat : p[1] < p[2]}
  BY DEF OpToRel
<1>2. IsWellFoundedOn(R, Nat)
  BY NatLessThanWellFounded, Zenon
<1> HIDE DEF R
<1>3. \E x \in S : \A y \in S : <<y, x>> \notin R
  BY <1>2, WFMin
<1>4. \E x \in S : \A y \in S : x <= y
  <2>1. PICK x \in S : \A y \in S : <<y, x>> \notin R
    BY <1>3
  <2>2. ASSUME NEW y \in S PROVE ~(y < x)
    BY <1>1, <2>1
  <2>3. \A y \in S : y \in Int /\ x \in Int
    OBVIOUS
  <2> QED
    BY <2>2, <2>3
<1> QED
  BY <1>4 DEF Min

(* There is one k-th smallest number for each k.                           *)
LEMMA NthIs ==
  ASSUME NEW n \in Nat, NEW K \in SUBSET (1 .. n)
  PROVE  /\ IsFiniteSet(K) /\ Cardinality(K) \in Nat
         /\ \A k \in 1 .. Cardinality(K) : Nth(K, k) \in K
         /\ \A k, m \in 1 .. Cardinality(K) : Nth(K, k) = Nth(K, m) => k = m
         /\ \A i \in K : \E k \in 1 .. Cardinality(K) : Nth(K, k) = i
<1> DEFINE Upto(i) == {j \in K : j <= i}
           c == Cardinality(K)
           rank == [i \in K |-> Cardinality(Upto(i))]
<1>1. IsFiniteSet(K) /\ c \in Nat
  <2>1. IsFiniteSet(1 .. n)
    BY FS_Interval
  <2>2. IsFiniteSet(K)
    BY <2>1, FS_Subset
  <2> QED
    BY <2>2, FS_CardinalityType
<1>2. \A i \in K : /\ IsFiniteSet(Upto(i)) /\ Cardinality(Upto(i)) \in Nat
                   /\ Cardinality(Upto(i)) <= c
  <2> SUFFICES ASSUME NEW i \in K
               PROVE  /\ IsFiniteSet(Upto(i)) /\ Cardinality(Upto(i)) \in Nat
                      /\ Cardinality(Upto(i)) <= c
    OBVIOUS
  <2>1. Upto(i) \in SUBSET K
    OBVIOUS
  <2> QED
    BY <1>1, <2>1, FS_Subset, FS_CardinalityType
<1>3. \A i \in K : Cardinality(Upto(i)) # 0
  <2> SUFFICES ASSUME NEW i \in K PROVE Cardinality(Upto(i)) # 0
    OBVIOUS
  <2>1. i \in Upto(i)
    OBVIOUS
  <2> QED
    BY <1>2, <2>1, FS_EmptySet
<1>4. \A i, j \in K : i < j => Cardinality(Upto(i)) < Cardinality(Upto(j))
  <2> SUFFICES ASSUME NEW i \in K, NEW j \in K, i < j
               PROVE  Cardinality(Upto(i)) < Cardinality(Upto(j))
    OBVIOUS
  <2>1. Upto(i) \in SUBSET Upto(j) /\ j \in Upto(j) /\ j \notin Upto(i)
    <3>1. i \in Int /\ j \in Int /\ \A k \in K : k \in Int
      OBVIOUS
    <3>2. \A k \in K : k <= i => k <= j
      BY <3>1
    <3>3. j <= j /\ ~(j <= i)
      BY <3>1
    <3> QED
      BY <3>2, <3>3
  <2> HIDE DEF Upto
  <2>2. Cardinality(Upto(i)) <= Cardinality(Upto(j))
    BY <1>2, <2>1, FS_Subset
  <2>3. Cardinality(Upto(i)) # Cardinality(Upto(j))
    BY <1>2, <2>1, FS_Subset
  <2> QED
    BY <1>2, <2>2, <2>3
<1>5. rank \in [K -> 1 .. c]
  BY <1>1, <1>2, <1>3
<1>6. \A i, j \in K : rank[i] = rank[j] => i = j
  <2> SUFFICES ASSUME NEW i \in K, NEW j \in K, rank[i] = rank[j] PROVE i = j
    OBVIOUS
  <2>1. i \in Int /\ j \in Int /\ rank[i] \in Nat /\ rank[j] \in Nat
    BY <1>2
  <2>2. i < j => rank[i] < rank[j]
    BY <1>4
  <2>3. j < i => rank[j] < rank[i]
    BY <1>4
  <2> HIDE DEF rank
  <2> QED
    BY <2>1, <2>2, <2>3
<1>7. \A i \in K : rank[i] = Cardinality({j \in K : j <= i})
  OBVIOUS
<1> HIDE DEF rank, c
<1>8. \A k \in 1 .. c : \E i \in K : rank[i] = k
  <2>1. rank \in Injection(K, 1 .. c)
    BY <1>5, <1>6 DEF Injection, IsInjective
  <2>2. IsFiniteSet(1 .. c) /\ Cardinality(1 .. c) = c
    BY <1>1, FS_Interval
  <2>3. rank \in Surjection(K, 1 .. c)
    BY <2>1, <2>2, FS_Injection DEF c
  <2> QED
    BY <2>3 DEF Surjection
<1>9. \A k \in 1 .. c : Nth(K, k) \in K /\ rank[Nth(K, k)] = k
  <2> SUFFICES ASSUME NEW k \in 1 .. c PROVE Nth(K, k) \in K /\ rank[Nth(K, k)] = k
    OBVIOUS
  <2>1. \E i \in K : Cardinality({j \in K : j <= i}) = k
    BY <1>7, <1>8
  <2>2. Nth(K, k) \in K /\ Cardinality({j \in K : j <= Nth(K, k)}) = k
    BY <2>1 DEF Nth
  <2> QED
    BY <1>7, <2>2
<1>10. \A i \in K : rank[i] \in 1 .. c /\ Nth(K, rank[i]) = i
  BY <1>5, <1>6, <1>9
<1> QED
  BY <1>1, <1>9, <1>10 DEF c

(* Sets that some numbering makes correspond have as many elements.        *)
LEMMA SameNumber ==
  ASSUME NEW S, NEW T, IsFiniteSet(S), NEW f \in [S -> T],
         \A x, y \in S : f[x] = f[y] => x = y,
         \A z \in T : \E x \in S : f[x] = z
  PROVE  IsFiniteSet(T) /\ Cardinality(T) = Cardinality(S) /\ Cardinality(S) \in Nat
<1>1. f \in Bijection(S, T)
  BY DEF Bijection, Injection, Surjection, IsInjective
<1>2. ExistsBijection(S, T)
  BY <1>1 DEF ExistsBijection
<1> QED
  BY <1>2, FS_Bijection, FS_CardinalityType

(* How often a list has an element.                                        *)
TimesIn(q, s) == Cardinality({k \in DOMAIN q : q[k] = s})

LEMMA TimesType ==
  ASSUME NEW S, NEW q \in Seq(S), NEW s
  PROVE  TimesIn(q, s) \in Nat /\ IsFiniteSet({k \in DOMAIN q : q[k] = s})
<1>1. {k \in DOMAIN q : q[k] = s} \in SUBSET (1 .. Len(q)) /\ Len(q) \in Nat
  OBVIOUS
<1> QED
  BY <1>1, NthIs DEF TimesIn

LEMMA TimesNone ==
  ASSUME NEW s
  PROVE  TimesIn(<<>>, s) = 0
<1>1. {k \in DOMAIN <<>> : <<>>[k] = s} = {}
  OBVIOUS
<1> QED
  BY <1>1, FS_EmptySet DEF TimesIn

LEMMA TimesOne ==
  ASSUME NEW x, NEW s
  PROVE  TimesIn(<<x>>, s) = IF s = x THEN 1 ELSE 0
<1> DEFINE T == {k \in DOMAIN <<x>> : <<x>>[k] = s}
<1>1. DOMAIN <<x>> = {1} /\ <<x>>[1] = x
  OBVIOUS
<1>2. T = IF s = x THEN {1} ELSE {}
  BY <1>1
<1>3. Cardinality({1}) = 1 /\ Cardinality({}) = 0
  BY FS_Singleton, FS_EmptySet
<1> QED
  BY <1>2, <1>3 DEF TimesIn

LEMMA TimesTail ==
  ASSUME NEW S, NEW q \in Seq(S), q # <<>>, NEW s
  PROVE  TimesIn(q, s) = TimesIn(Tail(q), s) + (IF s = Head(q) THEN 1 ELSE 0)
<1> DEFINE t == Tail(q)
           A == {k \in DOMAIN q : q[k] = s}
           B == {k \in DOMAIN t : t[k] = s}
           f == [k \in B |-> k + 1]
<1>1. /\ t \in Seq(S) /\ DOMAIN q = 1 .. Len(q) /\ DOMAIN t = 1 .. Len(q) - 1
      /\ Len(q) \in Nat \ {0} /\ \A k \in DOMAIN t : t[k] = q[k + 1]
      /\ Head(q) = q[1]
  BY HeadTailProperties, EmptySeq
<1> HIDE DEF t
<1>2. IsFiniteSet(A) /\ IsFiniteSet(B) /\ Cardinality(A) \in Nat /\ Cardinality(B) \in Nat
  BY <1>1, TimesType DEF TimesIn
<1>3. f \in [B -> A \ {1}]
  BY <1>1
<1>4. \A x, y \in B : f[x] = f[y] => x = y
  BY <1>1
<1>5. \A z \in A \ {1} : \E x \in B : f[x] = z
  <2> SUFFICES ASSUME NEW z \in A \ {1} PROVE \E x \in B : f[x] = z
    OBVIOUS
  <2>1. z - 1 \in DOMAIN t /\ t[z - 1] = q[z] /\ (z - 1) + 1 = z
    BY <1>1
  <2>2. z - 1 \in B
    BY <2>1
  <2> QED
    BY <2>1, <2>2
<1> HIDE DEF A, B, f
<1>6. Cardinality(A \ {1}) = Cardinality(B)
  BY <1>2, <1>3, <1>4, <1>5, SameNumber
<1>7. Cardinality(A \ {1}) = IF 1 \in A THEN Cardinality(A) - 1 ELSE Cardinality(A)
  BY <1>2, FS_RemoveElement
<1>8. 1 \in A <=> s = Head(q)
  BY <1>1 DEF A
<1>9. TimesIn(q, s) = Cardinality(A) /\ TimesIn(t, s) = Cardinality(B)
  BY DEF TimesIn, A, B
<1> QED
  BY <1>2, <1>6, <1>7, <1>8, <1>9 DEF t

LEMMA PickedIs ==
  ASSUME NEW S, NEW q \in Seq(S), NEW K \in SUBSET DOMAIN q
  PROVE  /\ \A T : (\A k \in K : q[k] \in T) => Picked(q, K) \in Seq(T)
         /\ \A s : TimesIn(Picked(q, K), s) = Cardinality({k \in K : q[k] = s})
<1> DEFINE c == Cardinality(K)
           r == Picked(q, K)
<1>1. K \in SUBSET (1 .. Len(q)) /\ Len(q) \in Nat
  OBVIOUS
<1>2. /\ c \in Nat /\ IsFiniteSet(K)
      /\ \A k \in 1 .. c : Nth(K, k) \in K
      /\ \A k, m \in 1 .. c : Nth(K, k) = Nth(K, m) => k = m
      /\ \A i \in K : \E k \in 1 .. c : Nth(K, k) = i
  BY <1>1, NthIs
<1>3. r = [k \in 1 .. c |-> q[Nth(K, k)]]
  BY DEF Picked
<1> HIDE DEF r, c
<1>4. \A T : (\A k \in K : q[k] \in T) => r \in Seq(T)
  <2> SUFFICES ASSUME NEW T, \A k \in K : q[k] \in T PROVE r \in Seq(T)
    OBVIOUS
  <2>1. r \in [1 .. c -> T]
    BY <1>2, <1>3
  <2> QED
    BY <1>2, <2>1
<1>5. ASSUME NEW s PROVE TimesIn(r, s) = Cardinality({k \in K : q[k] = s})
  <2> DEFINE A == {k \in DOMAIN r : r[k] = s}
             B == {k \in K : q[k] = s}
             f == [k \in A |-> Nth(K, k)]
  <2>1. DOMAIN r = 1 .. c /\ \A k \in 1 .. c : r[k] = q[Nth(K, k)]
    BY <1>3
  <2>2. f \in [A -> B]
    BY <1>2, <2>1
  <2>3. \A x, y \in A : f[x] = f[y] => x = y
    BY <1>2, <2>1
  <2>4. \A z \in B : \E x \in A : f[x] = z
    BY <1>2, <2>1
  <2>5. A \in SUBSET (1 .. c)
    BY <2>1
  <2> HIDE DEF A, B, f
  <2>6. IsFiniteSet(A)
    BY <1>2, <2>5, NthIs
  <2>7. Cardinality(B) = Cardinality(A)
    BY <2>2, <2>3, <2>4, <2>6, SameNumber
  <2> QED
    BY <2>7 DEF TimesIn, A, B
<1> QED
  BY <1>4, <1>5 DEF r
-----------------------------------------------------------------------------
(* How often descriptors name a file.                                      *)

HandlesIn(fd, s) ==
  {h \in Process \X (1 .. MAX_FILE_DESC_COUNT) :
     h[2] \in DOMAIN fd[h[1]] /\ fd[h[1]][h[2]] = s}
HeldIn(fd, s) == Cardinality(HandlesIn(fd, s))

Table == {q \in Seq(Sector \cup {NULL}) : Len(q) <= MAX_FILE_DESC_COUNT}
Tables == [Process -> Table]

(* Process p, and no other, gets the table r.                              *)
Replaced(fd, fd2, p, r) == fd2[p] = r /\ \A u \in Process \ {p} : fd2[u] = fd[u]

OneIf(s, x) == IF s = x THEN 1 ELSE 0

LEMMA Limits ==
  /\ Sector \subseteq Nat /\ NULL \notin Sector /\ 0 \in Nat
  /\ MaxLength \in Nat /\ MAX_FILE_DESC_COUNT \in Nat
BY FileSysAssumption

LEMMA HandlesFinite ==
  ASSUME NEW fd, NEW s
  PROVE  IsFiniteSet(HandlesIn(fd, s)) /\ HeldIn(fd, s) \in Nat
<1> DEFINE n == MAX_FILE_DESC_COUNT
           row == 1 .. n
<1>1. n \in Nat /\ IsFiniteSet(Process)
  BY FileSysAssumption
<1> HIDE DEF n
<1>2. IsFiniteSet(row)
  BY <1>1, FS_Interval
<1> HIDE DEF row
<1>3. IsFiniteSet(Process \X row)
  BY <1>1, <1>2, FS_Product
<1>4. HandlesIn(fd, s) \subseteq Process \X row
  BY DEF HandlesIn, row, n
<1>5. IsFiniteSet(HandlesIn(fd, s))
  BY <1>3, <1>4, FS_Subset
<1> QED
  BY <1>5, FS_CardinalityType DEF HeldIn

LEMMA HeldNone ==
  ASSUME NEW s PROVE HeldIn(NoFiles, s) = 0
<1>1. HandlesIn(NoFiles, s) = {}
  BY DEF HandlesIn, NoFiles
<1> QED
  BY <1>1, FS_EmptySet DEF HeldIn

(* A set with one element more, or not.                                    *)
LEMMA OneMore ==
  ASSUME NEW G, NEW H, IsFiniteSet(H), NEW h, h \notin H,
         \A g \in G : g = h \/ g \in H, \A g \in H : g \in G
  PROVE  Cardinality(G) = Cardinality(H) + (IF h \in G THEN 1 ELSE 0)
<1>1. h \in G => G = H \cup {h}
  OBVIOUS
<1>2. h \notin G => G = H
  OBVIOUS
<1> QED
  BY <1>1, <1>2, FS_AddElement, FS_CardinalityType

(* process_add_file() adds a handle.                                       *)
LEMMA HeldAdd ==
  ASSUME NEW fd \in Tables, NEW p \in Process,
         Len(fd[p]) < MAX_FILE_DESC_COUNT, NEW x \in Sector, NEW s,
         NEW fd2, Replaced(fd, fd2, p, Append(fd[p], x))
  PROVE  /\ Append(fd[p], x) \in Table
         /\ HeldIn(fd2, s) = HeldIn(fd, s) + OneIf(s, x)
<1> USE DEF Tables, Replaced, OneIf
<1> DEFINE q == fd[p]
           n == Len(q) + 1
           r == Append(q, x)
           H == HandlesIn(fd, s)
<1>1. /\ q \in Seq(Sector \cup {NULL}) /\ MAX_FILE_DESC_COUNT \in Nat
      /\ n \in 1 .. MAX_FILE_DESC_COUNT /\ DOMAIN q = 1 .. n - 1
  BY FileSysAssumption DEF Table
<1>2. /\ r \in Seq(Sector \cup {NULL}) /\ Len(r) = n /\ DOMAIN r = 1 .. n
      /\ r[n] = x /\ \A i \in 1 .. n - 1 : r[i] = q[i]
  BY <1>1
<1>3. /\ r \in Table /\ fd2[p] = r
      /\ \A u \in Process \ {p} : fd2[u] = fd[u]
  BY <1>1, <1>2 DEF Table
<1> HIDE DEF r, q, n
<1>4. /\ \A h \in HandlesIn(fd2, s) : h = <<p, n>> \/ h \in H
      /\ \A h \in H : h \in HandlesIn(fd2, s)
  <2>1. ASSUME NEW u \in Process, NEW i \in 1 .. MAX_FILE_DESC_COUNT
        PROVE  /\ i \in DOMAIN fd2[u] /\ fd2[u][i] = s /\ <<u, i>> # <<p, n>> =>
                    i \in DOMAIN fd[u] /\ fd[u][i] = s
               /\ i \in DOMAIN fd[u] /\ fd[u][i] = s =>
                    i \in DOMAIN fd2[u] /\ fd2[u][i] = s
    <3>1. CASE u = p
      <4>1. DOMAIN fd2[u] = 1 .. n /\ DOMAIN fd[u] = 1 .. n - 1
        BY <1>1, <1>2, <1>3, <3>1 DEF q
      <4>2. \A j \in 1 .. n - 1 : fd2[u][j] = fd[u][j]
        BY <1>2, <1>3, <3>1 DEF q
      <4>3. i \in 1 .. n /\ i # n => i \in 1 .. n - 1
        BY <1>1
      <4>4. i \in 1 .. n - 1 => i \in 1 .. n
        BY <1>1
      <4> QED
        BY <3>1, <4>1, <4>2, <4>3, <4>4
    <3>2. CASE u # p
      BY <1>3, <3>2
    <3> QED
      BY <3>1, <3>2
  <2> QED
    BY <2>1 DEF HandlesIn
<1>5. <<p, n>> \notin H
  <2>1. n \notin 1 .. n - 1
    BY <1>1
  <2> QED
    BY <1>1, <2>1 DEF HandlesIn, q
<1>6. <<p, n>> \in HandlesIn(fd2, s) <=> s = x
  BY <1>1, <1>2, <1>3 DEF HandlesIn
<1>7. IsFiniteSet(H)
  BY HandlesFinite
<1>8. Cardinality(HandlesIn(fd2, s))
        = Cardinality(H) + (IF <<p, n>> \in HandlesIn(fd2, s) THEN 1 ELSE 0)
  BY <1>4, <1>5, <1>7, OneMore
<1>9. HeldIn(fd2, s) = HeldIn(fd, s) + (IF s = x THEN 1 ELSE 0)
  BY <1>6, <1>8 DEF HeldIn
<1> QED
  BY <1>3, <1>9 DEF r, q

(* process_close_file() takes one away.                                    *)
LEMMA HeldClose ==
  ASSUME NEW fd \in Tables, NEW p \in Process, NEW k \in DOMAIN fd[p],
         NEW s \in Sector, NEW r, r = [fd[p] EXCEPT ![k] = NULL],
         NEW fd2, Replaced(fd, fd2, p, r)
  PROVE  /\ r \in Table
         /\ HeldIn(fd, s) = HeldIn(fd2, s) + OneIf(s, fd[p][k])
<1> USE DEF Tables, Replaced, OneIf
<1> DEFINE q == fd[p]
           H == HandlesIn(fd2, s)
<1>1. /\ q \in Seq(Sector \cup {NULL}) /\ MAX_FILE_DESC_COUNT \in Nat
      /\ DOMAIN q = 1 .. Len(q) /\ Len(q) <= MAX_FILE_DESC_COUNT /\ Len(q) \in Nat
      /\ NULL \notin Sector
  BY FileSysAssumption DEF Table
<1>2. k \in 1 .. MAX_FILE_DESC_COUNT
  BY <1>1
<1>3. /\ r \in Seq(Sector \cup {NULL}) /\ Len(r) = Len(q) /\ DOMAIN r = DOMAIN q
      /\ r[k] = NULL /\ \A i \in DOMAIN q : i # k => r[i] = q[i]
  BY <1>1
<1>4. /\ r \in Table /\ fd2[p] = r
      /\ \A u \in Process \ {p} : fd2[u] = fd[u]
  BY <1>1, <1>3 DEF Table
<1> HIDE DEF q
<1>5. /\ \A h \in HandlesIn(fd, s) : h = <<p, k>> \/ h \in H
      /\ \A h \in H : h \in HandlesIn(fd, s)
  <2>1. ASSUME NEW u \in Process, NEW i \in 1 .. MAX_FILE_DESC_COUNT
        PROVE  /\ i \in DOMAIN fd[u] /\ fd[u][i] = s /\ <<u, i>> # <<p, k>> =>
                    i \in DOMAIN fd2[u] /\ fd2[u][i] = s
               /\ i \in DOMAIN fd2[u] /\ fd2[u][i] = s =>
                    i \in DOMAIN fd[u] /\ fd[u][i] = s
    <3>1. CASE u = p
      BY <1>1, <1>3, <1>4, <3>1 DEF q
    <3>2. CASE u # p
      BY <1>4, <3>2
    <3> QED
      BY <3>1, <3>2
  <2> QED
    BY <2>1 DEF HandlesIn
<1>6. <<p, k>> \notin H
  BY <1>1, <1>3, <1>4 DEF HandlesIn
<1>7. <<p, k>> \in HandlesIn(fd, s) <=> s = fd[p][k]
  BY <1>2 DEF HandlesIn
<1>8. IsFiniteSet(H)
  BY HandlesFinite
<1>9. Cardinality(HandlesIn(fd, s))
        = Cardinality(H) + (IF <<p, k>> \in HandlesIn(fd, s) THEN 1 ELSE 0)
  BY <1>5, <1>6, <1>8, OneMore
<1>10. HeldIn(fd, s) = HeldIn(fd2, s) + (IF s = fd[p][k] THEN 1 ELSE 0)
  BY <1>7, <1>9 DEF HeldIn
<1> QED
  BY <1>4, <1>10 DEF q

(* exit takes all of one process away.                                     *)
LEMMA HeldExit ==
  ASSUME NEW fd \in Tables, NEW p \in Process, NEW s,
         NEW fd2, Replaced(fd, fd2, p, <<>>)
  PROVE  /\ <<>> \in Table
         /\ HeldIn(fd, s) = HeldIn(fd2, s) + TimesIn(fd[p], s)
<1> USE DEF Tables, Replaced
<1> DEFINE q == fd[p]
           A == HandlesIn(fd2, s)
           K == {k \in DOMAIN q : q[k] = s}
           B == {h \in HandlesIn(fd, s) : h[1] = p}
           f == [k \in K |-> <<p, k>>]
<1>1. /\ q \in Seq(Sector \cup {NULL}) /\ MAX_FILE_DESC_COUNT \in Nat
      /\ DOMAIN q = 1 .. Len(q) /\ Len(q) <= MAX_FILE_DESC_COUNT /\ Len(q) \in Nat
  BY FileSysAssumption DEF Table
<1>2. <<>> \in Table
  BY <1>1 DEF Table
<1>3. fd2[p] = <<>> /\ \A u \in Process \ {p} : fd2[u] = fd[u]
  OBVIOUS
<1> HIDE DEF q
<1>4. A = {h \in HandlesIn(fd, s) : h[1] # p}
  <2>1. DOMAIN <<>> = {}
    OBVIOUS
  <2> QED
    BY <1>3, <2>1 DEF HandlesIn
<1>5. HandlesIn(fd, s) = A \cup B /\ A \cap B = {}
  BY <1>4
<1>6. f \in [K -> B]
  BY <1>1 DEF HandlesIn, q
<1>7. \A x, y \in K : f[x] = f[y] => x = y
  OBVIOUS
<1>8. \A z \in B : \E x \in K : f[x] = z
  <2> SUFFICES ASSUME NEW z \in B PROVE \E x \in K : f[x] = z
    OBVIOUS
  <2>1. z[2] \in K /\ z = <<p, z[2]>>
    BY DEF HandlesIn, q
  <2> QED
    BY <2>1
<1>9. IsFiniteSet(A) /\ IsFiniteSet(K) /\ Cardinality(A) \in Nat
  BY <1>1, TimesType, HandlesFinite DEF HeldIn
<1>10. Cardinality(K) = TimesIn(fd[p], s)
  BY DEF TimesIn, q
<1>11. HeldIn(fd, s) = Cardinality(A \cup B) /\ HeldIn(fd2, s) = Cardinality(A)
  BY <1>5 DEF HeldIn
<1> HIDE DEF A, B, K, f
<1>12. IsFiniteSet(B) /\ Cardinality(B) = Cardinality(K) /\ Cardinality(K) \in Nat
  <2>1. IsFiniteSet(K)
    BY <1>9
  <2>2. f \in Bijection(K, B)
    BY <1>6, <1>7, <1>8 DEF Bijection, Injection, Surjection, IsInjective
  <2>3. ExistsBijection(K, B)
    BY <2>2 DEF ExistsBijection
  <2> QED
    BY <2>1, <2>3, FS_Bijection, FS_CardinalityType
<1>13. Cardinality(A \cup B) = Cardinality(A) + Cardinality(B)
  <2>1. Cardinality(A \cap B) = 0
    BY <1>5, FS_EmptySet
  <2>2. Cardinality(A \cup B) = Cardinality(A) + Cardinality(B) - Cardinality(A \cap B)
    BY <1>9, <1>12, FS_Union
  <2> QED
    BY <1>9, <1>12, <2>1, <2>2
<1> QED
  BY <1>2, <1>10, <1>11, <1>12, <1>13

-----------------------------------------------------------------------------
(* Who has which sectors.                                                  *)

(* The files F with inodes d and the call in progress, which has C, share  *)
(* no sector, and all their sectors are marked in map.                     *)
Apart(F, d, map, C) ==
  /\ C \subseteq map
  /\ \A s \in F :
       /\ d[s] \in Inode /\ s \notin Extent(d[s])
       /\ Sectors(s, d[s]) \subseteq map
       /\ Sectors(s, d[s]) \cap C = {}
       /\ \A t \in F \ {s} : Sectors(t, d[t]) \cap Sectors(s, d[s]) = {}

Loss(F, d, map, C) == map \ (C \cup UNION {Sectors(s, d[s]) : s \in F})

LEMMA LossIs ==
  ASSUME NEW F, NEW d, NEW map, NEW C, NEW x
  PROVE  x \in Loss(F, d, map, C) <=>
           x \in map /\ x \notin C /\ \A s \in F : x \notin Sectors(s, d[s])
BY DEF Loss

(* A sector of a file is no other file's and not of the call.              *)
LEMMA ApartOne ==
  ASSUME NEW F, NEW d, NEW map, NEW C, Apart(F, d, map, C),
         NEW s \in F, NEW x \in Sectors(s, d[s])
  PROVE  /\ x \in map /\ x \notin C
         /\ \A t \in F : t # s => x \notin Sectors(t, d[t]) /\ x # t
         /\ x \in F => x = s
<1>1. \A t \in F : t \in Sectors(t, d[t])
  BY DEF Sectors
<1> QED
  BY <1>1 DEF Apart

(* Files and sectors that are forgotten leave the others alone.            *)
LEMMA ApartShrink ==
  ASSUME NEW F, NEW d, NEW map, NEW C, Apart(F, d, map, C),
         NEW G \in SUBSET F, NEW D \in SUBSET C
  PROVE  Apart(G, d, map, D)
BY DEF Apart

(* Writing elsewhere leaves the inodes of the files alone.                 *)
LEMMA ApartWrite ==
  ASSUME NEW F, NEW d, NEW map, NEW C, Apart(F, d, map, C),
         NEW d2, \A s \in F : d2[s] = d[s]
  PROVE  Apart(F, d2, map, C) /\ Loss(F, d2, map, C) = Loss(F, d, map, C)
<1>1. \A s \in F : Sectors(s, d2[s]) = Sectors(s, d[s])
  OBVIOUS
<1>2. Apart(F, d2, map, C)
  BY <1>1 DEF Apart
<1>3. \A x : x \in Loss(F, d2, map, C) <=> x \in Loss(F, d, map, C)
  BY <1>1, LossIs
<1> QED
  BY <1>2, <1>3

(* The call takes free sectors.                                            *)
LEMMA ApartMark ==
  ASSUME NEW F, NEW d, NEW map, NEW C, Apart(F, d, map, C),
         NEW X, X \cap map = {}
  PROVE  /\ Apart(F, d, map \cup X, C \cup X)
         /\ Loss(F, d, map \cup X, C \cup X) \subseteq Loss(F, d, map, C)
<1>1. Apart(F, d, map \cup X, C \cup X)
  BY DEF Apart
<1>2. \A x : x \in Loss(F, d, map \cup X, C \cup X) => x \in Loss(F, d, map, C)
  BY LossIs
<1> QED
  BY <1>1, <1>2

(* The call frees the sectors X of those it has.                           *)
LEMMA ApartRelease ==
  ASSUME NEW F, NEW d, NEW map, NEW C, Apart(F, d, map, C),
         NEW X \in SUBSET C
  PROVE  /\ Apart(F, d, map \ X, C \ X)
         /\ Loss(F, d, map \ X, C \ X) \subseteq Loss(F, d, map, C)
<1>1. Apart(F, d, map \ X, C \ X)
  <2>1. \A s \in F : Sectors(s, d[s]) \cap X = {}
    BY DEF Apart
  <2> QED
    BY <2>1 DEF Apart
<1>2. \A x : x \in Loss(F, d, map \ X, C \ X) => x \in Loss(F, d, map, C)
  BY LossIs
<1> QED
  BY <1>1, <1>2

(* The sectors of the call become a file.                                  *)
LEMMA ApartAdd ==
  ASSUME NEW F, NEW d, NEW map, NEW s, Apart(F, d, map, Sectors(s, d[s])),
         d[s] \in Inode, s \notin Extent(d[s])
  PROVE  /\ Apart(F \cup {s}, d, map, {})
         /\ Loss(F \cup {s}, d, map, {}) \subseteq Loss(F, d, map, Sectors(s, d[s]))
         /\ s \notin F
<1>1. s \in Sectors(s, d[s])
  BY DEF Sectors
<1>2. s \notin F
  <2>1. \A t \in F : t \in Sectors(t, d[t])
    BY DEF Sectors
  <2> QED
    BY <1>1, <2>1 DEF Apart
<1>3. Apart(F \cup {s}, d, map, {})
  BY <1>2 DEF Apart
<1>4. \A x : x \in Loss(F \cup {s}, d, map, {}) => x \in Loss(F, d, map, Sectors(s, d[s]))
  BY LossIs
<1> QED
  BY <1>2, <1>3, <1>4

(* The sectors of a file pass to the call, which is to free them.          *)
LEMMA ApartClose ==
  ASSUME NEW F, NEW d, NEW map, Apart(F, d, map, {}), NEW s \in F
  PROVE  /\ Apart(F \ {s}, d, map, Sectors(s, d[s]))
         /\ Loss(F \ {s}, d, map, Sectors(s, d[s])) \subseteq Loss(F, d, map, {})
<1>1. Apart(F \ {s}, d, map, Sectors(s, d[s]))
  BY DEF Apart
<1>2. \A x : x \in Loss(F \ {s}, d, map, Sectors(s, d[s])) => x \in Loss(F, d, map, {})
  BY LossIs
<1> QED
  BY <1>1, <1>2

-----------------------------------------------------------------------------
(* The invariant.                                                          *)

Files == DOMAIN open_inodes \cup Listed

Types ==
  /\ disk \in [Sector -> Inode \cup {"data"}]
  /\ entries \in [Slot -> [name : Name, sector : Sector] \cup {NULL}]
  /\ free_map \subseteq Sector
  /\ DOMAIN open_inodes \subseteq Sector
  /\ open_inodes \in [DOMAIN open_inodes ->
                        [open_cnt : Nat \ {0}, removed : BOOLEAN, data : Inode]]
  /\ file_desc \in [Process -> Table]
  /\ lost \in [Sector -> Nat]

(* The call c frees the sectors A, and may then free B.                    *)
Releases(c, A, B, q) ==
  /\ A \cap B = {}
  /\ \/ c = [at |-> "release", extents |-> <<A>>, closing |-> q]
     \/ c = [at |-> "release", extents |-> <<A, B>>, closing |-> q]

(* What the call c has got to, with the disk d.                            *)
CallIs(c, d) ==
  \/ c = Idle
  \/ c \in [at : {"allocate"}, name : Name \cup {Bad}, length : 0 .. MaxLength,
            sector : Sector]
  \/ /\ c \in [at : {"inode", "data"}, name : Name \cup {Bad}, sector : Sector,
               inode : Inode, zeroed : 0 .. MaxLength]
     /\ c.sector \notin Extent(c.inode)
     /\ c.at = "data" => d[c.sector] = c.inode
  \/ c \in [at : {"close"}, closing : Seq(Sector)] /\ c.closing # <<>>
  \/ \E A, B \in SUBSET Sector : \E q \in Seq(Sector) : Releases(c, A, B, q)

(* The inodes in memory are copies of those on the disk, and exactly the   *)
(* removed ones have no entry in the directory.                            *)
CopiesOK ==
  \A s \in DOMAIN open_inodes :
    /\ disk[s] = open_inodes[s].data
    /\ open_inodes[s].removed <=> s \notin Listed

EntriesDiffer ==
  \A k, l \in Slot :
    entries[k] # NULL /\ entries[l] # NULL /\ k # l =>
      entries[k].name # entries[l].name /\ entries[k].sector # entries[l].sector

(* The inodes that the call c is still to close.                           *)
Pending(c, s) == IF c.at \in {"close", "release"} THEN TimesIn(c.closing, s) ELSE 0

CountIn(oi, s) == IF s \in DOMAIN oi THEN oi[s].open_cnt ELSE 0

CountsOK ==
  \A s \in Sector :
    lost[s] + HeldIn(file_desc, s) + Pending(call, s) = CountIn(open_inodes, s)

FInv ==
  /\ Types
  /\ CallIs(call, disk)
  /\ Apart(Files, disk, free_map, InCall)
  /\ CopiesOK
  /\ EntriesDiffer
  /\ CountsOK

LEMMA CountsAre == CountsOK <=> CountsAreExact
BY DEF CountsOK, CountsAreExact, Openers, HeldIn, HandlesIn, Pending, TimesIn, CountIn

LEMMA LeakedIs == Leaked = Loss(Files, disk, free_map, InCall)
BY DEF Leaked, Loss, Files

LEMMA LeakedIsNext == Leaked' = Loss(Files, disk, free_map, InCall)'
BY DEF Leaked, Loss, Files, Listed, InCall, Sectors, Extent

LEMMA FilesAreSectors ==
  ASSUME Types PROVE Listed \subseteq Sector /\ Files \subseteq Sector
<1>1. Listed \subseteq Sector
  BY DEF Listed, Types
<1> QED
  BY <1>1 DEF Files, Types

LEMMA PendingType ==
  ASSUME NEW c, NEW d, CallIs(c, d), NEW s
  PROVE  Pending(c, s) \in Nat
<1>1. c.at \in {"close", "release"} => c.closing \in Seq(Sector)
  BY DEF CallIs, Idle, Releases
<1> QED
  BY <1>1, TimesType DEF Pending

(* What has been and what is in the call, by its place.                    *)
LEMMA InCallIs ==
  ASSUME Types, CallIs(call, disk)
  PROVE  /\ call = Idle => InCall = {}
         /\ call.at = "close" => InCall = {}
         /\ call.at = "allocate" => InCall = {call.sector}
         /\ call.at \in {"inode", "data"} => InCall = Sectors(call.sector, call.inode)
         /\ call.at = "release" => InCall = UNION Range(call.extents)
BY DEF InCall, Idle, CallIs, Releases

-----------------------------------------------------------------------------
(* What steps have in common.                                              *)

(* The file system after a step that leaves directory and inodes alone.    *)
LEMMA FilesStay ==
  ASSUME UNCHANGED entries, UNCHANGED open_inodes
  PROVE  /\ Files' = Files /\ Listed' = Listed
         /\ EntriesDiffer => EntriesDiffer'
         /\ CopiesOK /\ (\A s \in Files : disk'[s] = disk[s]) => CopiesOK'
<1>1. Listed' = Listed
  BY DEF Listed
<1>2. Files' = Files
  BY <1>1 DEF Files
<1>3. EntriesDiffer => EntriesDiffer'
  BY DEF EntriesDiffer
<1>4. CopiesOK /\ (\A s \in Files : disk'[s] = disk[s]) => CopiesOK'
  BY <1>1 DEF CopiesOK, Files
<1> QED
  BY <1>1, <1>2, <1>3, <1>4

LEMMA CountsStay ==
  ASSUME CountsOK, UNCHANGED fileVars, \A s : Pending(call', s) = Pending(call, s)
  PROVE  CountsOK'
BY DEF CountsOK, fileVars

(* The call goes on with closing.                                          *)
LEMMA GoOnIs ==
  ASSUME NEW q \in Seq(Sector), GoOn(q)
  PROVE  /\ \A d : CallIs(call', d)
         /\ InCall' = {}
         /\ \A s : Pending(call', s) = TimesIn(q, s)
<1>1. CASE q = <<>>
  <2>1. call' = Idle
    BY <1>1 DEF GoOn
  <2>2. InCall' = {}
    BY <2>1 DEF InCall, Idle
  <2>3. \A s : Pending(call', s) = 0
    BY <2>1 DEF Pending, Idle
  <2> QED
    BY <1>1, <2>1, <2>2, <2>3, TimesNone DEF CallIs
<1>2. CASE q # <<>>
  <2>1. call' = [at |-> "close", closing |-> q]
    BY <1>2 DEF GoOn
  <2>2. InCall' = {}
    BY <2>1 DEF InCall
  <2>3. \A s : Pending(call', s) = TimesIn(q, s)
    BY <2>1 DEF Pending
  <2> QED
    BY <1>2, <2>1, <2>2, <2>3 DEF CallIs
<1> QED
  BY <1>1, <1>2

(* bitmap_scan() finds free sectors.                                       *)
LEMMA FoundIs ==
  ASSUME NEW n \in Nat, Fits(n)
  PROVE  /\ Found(n) \in Sector \cup {0}
         /\ n > 0 => Found(n) \in Sector
         /\ Found(n) .. Found(n) + n - 1 \subseteq Sector \ free_map
<1>1. CASE n = 0
  <2>1. Found(n) = 0
    BY <1>1 DEF Found
  <2> QED
    BY <1>1, <2>1
<1>2. CASE n # 0
  <2>1. Groups(n) \subseteq Nat /\ Groups(n) # {}
    BY <1>2, FileSysAssumption DEF Groups, Fits
  <2>2. Found(n) \in Groups(n)
    BY <1>2, <2>1, MinIs DEF Found
  <2> QED
    BY <2>2 DEF Groups
<1> QED
  BY <1>1, <1>2

(* inode_open().                                                           *)
LEMMA OpenIs ==
  ASSUME Types, CopiesOK, NEW s \in Sector, disk[s] \in Inode
  PROVE  /\ DOMAIN inode_open(s) = DOMAIN open_inodes \cup {s}
         /\ inode_open(s) \in [DOMAIN open_inodes \cup {s} ->
                [open_cnt : Nat \ {0}, removed : BOOLEAN, data : Inode]]
         /\ \A t : CountIn(inode_open(s), t)
                     = CountIn(open_inodes, t) + (IF t = s THEN 1 ELSE 0)
         /\ \A t \in DOMAIN open_inodes :
              /\ inode_open(s)[t].data = disk[t]
              /\ inode_open(s)[t].removed = open_inodes[t].removed
         /\ s \notin DOMAIN open_inodes =>
              inode_open(s)[s].data = disk[s] /\ inode_open(s)[s].removed = FALSE
<1> DEFINE oi == inode_open(s)
           D == DOMAIN open_inodes
           Mem == [open_cnt : Nat \ {0}, removed : BOOLEAN, data : Inode]
<1>1. open_inodes \in [D -> Mem] /\ \A t \in D : disk[t] = open_inodes[t].data
  BY DEF Types, CopiesOK
<1> HIDE DEF D
<1>2. CASE s \in D
  <2>1. oi = [open_inodes EXCEPT ![s].open_cnt = @ + 1]
    BY <1>2 DEF inode_open, D
  <2>2. DOMAIN oi = D /\ D = D \cup {s}
    BY <1>1, <1>2, <2>1
  <2>3. \A t \in D : t # s => oi[t] = open_inodes[t]
    BY <1>1, <2>1
  <2>4. /\ oi[s] = [open_inodes[s] EXCEPT !.open_cnt = @ + 1]
        /\ open_inodes[s] \in Mem
    BY <1>1, <1>2, <2>1
  <2>5. /\ oi[s] \in Mem /\ oi[s].open_cnt = open_inodes[s].open_cnt + 1
        /\ oi[s].removed = open_inodes[s].removed /\ oi[s].data = open_inodes[s].data
    BY <2>4
  <2>6. oi \in [D -> Mem]
    BY <1>1, <2>1, <2>2, <2>3, <2>5
  <2>7. \A t \in D : open_inodes[t].open_cnt \in Nat
    BY <1>1
  <2>8. \A t : CountIn(oi, t) = CountIn(open_inodes, t) + (IF t = s THEN 1 ELSE 0)
    BY <1>2, <2>2, <2>3, <2>5, <2>7 DEF CountIn, D
  <2>9. \A t \in D : oi[t].data = disk[t] /\ oi[t].removed = open_inodes[t].removed
    BY <1>1, <2>3, <2>5
  <2> HIDE DEF oi
  <2> QED
    BY <1>2, <2>2, <2>6, <2>8, <2>9 DEF oi, D
<1>3. CASE s \notin D
  <2> DEFINE new == [open_cnt |-> 1, removed |-> FALSE, data |-> disk[s]]
  <2>1. oi = [t \in D \cup {s} |-> IF t = s THEN new ELSE open_inodes[t]]
    BY <1>3 DEF inode_open, D
  <2>2. new \in Mem /\ new.open_cnt = 1 /\ new.removed = FALSE /\ new.data = disk[s]
    OBVIOUS
  <2> HIDE DEF new
  <2>3. oi \in [D \cup {s} -> Mem] /\ DOMAIN oi = D \cup {s}
    BY <1>1, <2>1, <2>2
  <2>4. oi[s] = new /\ \A t \in D : oi[t] = open_inodes[t]
    BY <1>3, <2>1
  <2>5. \A t \in D : open_inodes[t].open_cnt \in Nat
    BY <1>1
  <2>6. \A t : CountIn(oi, t) = CountIn(open_inodes, t) + (IF t = s THEN 1 ELSE 0)
    BY <1>3, <2>2, <2>3, <2>4, <2>5 DEF CountIn, D
  <2>7. \A t \in D : oi[t].data = disk[t] /\ oi[t].removed = open_inodes[t].removed
    BY <1>1, <2>4
  <2> HIDE DEF oi
  <2> QED
    BY <1>3, <2>2, <2>3, <2>4, <2>6, <2>7 DEF oi, D
<1> QED
  BY <1>2, <1>3

(* The sector that a name leads to.                                        *)
LEMMA LookupIs ==
  ASSUME Types, NEW name, NEW k \in lookup(name)
  PROVE  /\ k \in Slot /\ entries[k] # NULL
         /\ entries[k].sector \in Sector /\ entries[k].sector \in Listed
BY DEF Types, lookup, Listed

-----------------------------------------------------------------------------
(* create.                                                                 *)

LEMMA CreateStep ==
  ASSUME FInv, NEW name \in Name \cup {Bad}, NEW n \in 0 .. MaxLength, Create(name, n)
  PROVE  FInv' /\ Leaked' \subseteq Leaked
<1> DEFINE s == Found(1)
<1>1. /\ Types /\ CallIs(call, disk) /\ Apart(Files, disk, free_map, {})
      /\ CopiesOK /\ EntriesDiffer /\ CountsOK /\ InCall = {} /\ call = Idle
  BY InCallIs DEF FInv, Create
<1>2. /\ s \in Sector /\ s \notin free_map /\ free_map' = free_map \cup {s}
      /\ call' = [at |-> "allocate", name |-> name, length |-> n, sector |-> s]
      /\ UNCHANGED <<disk, entries, fileVars, open_inodes>>
  <2>1. Fits(1)
    BY DEF Create
  <2>2. s \in Sector /\ s .. s + 1 - 1 \subseteq Sector \ free_map
    BY <2>1, FoundIs
  <2>3. s \in s .. s + 1 - 1
    <3>1. \A x \in Nat : x \in x .. x + 1 - 1
      OBVIOUS
    <3> QED
      BY <2>2, <3>1, FileSysAssumption
  <2>4. s \in Sector /\ s \notin free_map
    BY <2>2, <2>3
  <2> QED
    BY <2>4 DEF Create, Mark, fileVars
<1> HIDE DEF s
<1>3. Types'
  BY <1>1, <1>2 DEF Types, fileVars, Slot
<1>4. CallIs(call, disk)'
  BY <1>2 DEF CallIs
<1>5. Files' = Files /\ EntriesDiffer' /\ CopiesOK'
  BY <1>1, <1>2, FilesStay
<1>6. InCall' = {} \cup {s}
  BY <1>2 DEF InCall
<1>7. /\ Apart(Files, disk, free_map \cup {s}, {} \cup {s})
      /\ Loss(Files, disk, free_map \cup {s}, {} \cup {s})
           \subseteq Loss(Files, disk, free_map, {})
  <2>1. {s} \cap free_map = {}
    BY <1>2
  <2> QED
    BY <1>1, <2>1, ApartMark
<1>8. \A t : Pending(call', t) = Pending(call, t)
  BY <1>1, <1>2 DEF Pending, Idle
<1>9. CountsOK'
  BY <1>1, <1>2, <1>8, CountsStay
<1>10. Apart(Files, disk, free_map, InCall)' /\ Leaked' \subseteq Leaked
  BY <1>1, <1>2, <1>5, <1>6, <1>7, LeakedIs, LeakedIsNext
<1> QED
  BY <1>3, <1>4, <1>5, <1>9, <1>10 DEF FInv

LEMMA AllocateStep ==
  ASSUME FInv, AllocateData
  PROVE  FInv' /\ Leaked' \subseteq Leaked
<1> DEFINE n == call.length
           X == Found(n) .. Found(n) + n - 1
           i == [start |-> Found(n), length |-> n]
<1>1. /\ Types /\ CallIs(call, disk) /\ Apart(Files, disk, free_map, InCall)
      /\ CopiesOK /\ EntriesDiffer /\ CountsOK /\ call.at = "allocate"
      /\ InCall = {call.sector}
  BY InCallIs DEF FInv, AllocateData
<1>2. /\ call.name \in Name \cup {Bad} /\ n \in 0 .. MaxLength /\ call.sector \in Sector
  BY <1>1 DEF CallIs, Idle, Releases
<1>3. call.sector \in free_map
  BY <1>1 DEF Apart
<1>4. UNCHANGED <<disk, entries, fileVars, open_inodes>>
  BY DEF AllocateData, fileVars
<1>5. Files' = Files /\ EntriesDiffer' /\ CopiesOK'
  BY <1>1, <1>4, FilesStay
<1>6. CASE Fits(n)
  <2>1. /\ Found(n) \in Sector \cup {0} /\ X \subseteq Sector \ free_map
    <3>1. n \in Nat
      BY <1>2, FileSysAssumption
    <3> QED
      BY <1>6, <3>1, FoundIs
  <2>2. /\ free_map' = free_map \cup Extent(i)
        /\ call' = [at |-> "inode", name |-> call.name, sector |-> call.sector,
                    inode |-> i, zeroed |-> 0]
    BY <1>6 DEF AllocateData, Mark
  <2>3. Extent(i) = X /\ i \in Inode
    BY <1>2, <2>1 DEF Extent, Inode
  <2>4. call.sector \notin X
    BY <1>3, <2>1
  <2>5. 0 \in 0 .. MaxLength
    BY FileSysAssumption
  <2>6. X \cap free_map = {} /\ X \subseteq Sector
    BY <2>1
  <2> HIDE DEF X, i
  <2>7. Types'
    BY <1>1, <1>4, <2>2, <2>3, <2>6 DEF Types, fileVars, Slot
  <2>8. CallIs(call, disk)'
    BY <1>2, <2>2, <2>3, <2>4, <2>5 DEF CallIs
  <2>9. InCall' = InCall \cup X
    BY <1>1, <2>2, <2>3 DEF InCall, Sectors
  <2>10. /\ Apart(Files, disk, free_map \cup X, InCall \cup X)
         /\ Loss(Files, disk, free_map \cup X, InCall \cup X)
              \subseteq Loss(Files, disk, free_map, InCall)
    BY <1>1, <2>6, ApartMark
  <2>11. \A t : Pending(call', t) = Pending(call, t)
    BY <1>1, <2>2 DEF Pending
  <2>12. CountsOK'
    BY <1>1, <1>4, <2>11, CountsStay
  <2>13. Apart(Files, disk, free_map, InCall)' /\ Leaked' \subseteq Leaked
    BY <1>4, <1>5, <2>2, <2>3, <2>9, <2>10, LeakedIs, LeakedIsNext
  <2> QED
    BY <1>5, <2>7, <2>8, <2>12, <2>13 DEF FInv
<1>7. CASE ~Fits(n)
  <2>1. /\ free_map' = free_map
        /\ call' = [at |-> "release", extents |-> <<{call.sector}>>, closing |-> <<>>]
    BY <1>7 DEF AllocateData
  <2>2. Types'
    BY <1>1, <1>4, <2>1 DEF Types, fileVars, Slot
  <2>3. CallIs(call, disk)'
    <3>1. /\ {call.sector} \in SUBSET Sector /\ {call.sector} \cap {} = {}
          /\ <<>> \in Seq(Sector)
      BY <1>2
    <3> QED
      BY <2>1, <3>1 DEF CallIs, Releases
  <2>4. InCall' = InCall
    <3>1. InCall' = UNION Range(<<{call.sector}>>)
      BY <2>1 DEF InCall
    <3>2. Range(<<{call.sector}>>) = {{call.sector}}
      BY DEF Range
    <3> QED
      BY <1>1, <3>1, <3>2
  <2>5. \A t : Pending(call', t) = Pending(call, t)
    BY <1>1, <2>1, TimesNone DEF Pending
  <2>6. CountsOK'
    BY <1>1, <1>4, <2>5, CountsStay
  <2>7. Apart(Files, disk, free_map, InCall)' /\ Leaked' \subseteq Leaked
    BY <1>1, <1>4, <1>5, <2>1, <2>4, LeakedIs, LeakedIsNext
  <2> QED
    BY <1>5, <2>2, <2>3, <2>6, <2>7 DEF FInv
<1> QED
  BY <1>6, <1>7

(* A write to a sector that holds no inode of a file.                      *)
LEMMA WriteStays ==
  ASSUME FInv, NEW x \in Sector, NEW v \in Inode \cup {"data"},
         disk' = [disk EXCEPT ![x] = v], x \notin Files,
         UNCHANGED <<entries, free_map, fileVars>>,
         InCall' = InCall, \A s : Pending(call', s) = Pending(call, s),
         CallIs(call, disk)'
  PROVE  FInv' /\ Leaked' \subseteq Leaked
<1>1. /\ Types /\ CallIs(call, disk) /\ Apart(Files, disk, free_map, InCall)
      /\ CopiesOK /\ EntriesDiffer /\ CountsOK
  BY DEF FInv
<1>2. UNCHANGED <<entries, free_map, fileVars, open_inodes>>
  BY DEF fileVars
<1>3. /\ disk' \in [Sector -> Inode \cup {"data"}]
      /\ \A s \in Sector : s # x => disk'[s] = disk[s]
  BY <1>1 DEF Types
<1>4. \A s \in Files : disk'[s] = disk[s]
  BY <1>1, <1>3, FilesAreSectors
<1>5. Types'
  BY <1>1, <1>2, <1>3 DEF Types, fileVars, Slot
<1>6. Files' = Files /\ EntriesDiffer' /\ CopiesOK'
  BY <1>1, <1>2, <1>4, FilesStay
<1>7. CountsOK'
  BY <1>1, CountsStay
<1>8. /\ Apart(Files, disk', free_map, InCall)
      /\ Loss(Files, disk', free_map, InCall) = Loss(Files, disk, free_map, InCall)
  <2> DEFINE F == Files
             C == InCall
             d2 == disk'
  <2>1. Apart(F, disk, free_map, C) /\ \A s \in F : d2[s] = disk[s]
    BY <1>1, <1>4
  <2> HIDE DEF F, C, d2
  <2>2. Apart(F, d2, free_map, C) /\ Loss(F, d2, free_map, C) = Loss(F, disk, free_map, C)
    BY <2>1, ApartWrite
  <2> QED
    BY <2>2 DEF F, C, d2
<1>9. Apart(Files, disk, free_map, InCall)' /\ Leaked' \subseteq Leaked
  BY <1>2, <1>6, <1>8, LeakedIs, LeakedIsNext
<1> QED
  BY <1>5, <1>6, <1>7, <1>9 DEF FInv

(* The sectors of the call are no inodes of files.                         *)
LEMMA CallIsApart ==
  ASSUME FInv, NEW x \in InCall PROVE x \notin Files
<1>1. \A s \in Files : s \in Sectors(s, disk[s])
  BY DEF Sectors
<1> QED
  BY <1>1 DEF FInv, Apart

LEMMA WriteInodeStep ==
  ASSUME FInv, WriteInode
  PROVE  FInv' /\ Leaked' \subseteq Leaked
<1>1. /\ call \in [at : {"inode", "data"}, name : Name \cup {Bad}, sector : Sector,
                   inode : Inode, zeroed : 0 .. MaxLength]
      /\ call.sector \notin Extent(call.inode) /\ call.at = "inode"
  BY DEF FInv, CallIs, Releases, WriteInode, Idle
<1>2. InCall = Sectors(call.sector, call.inode)
  BY <1>1 DEF InCall
<1>3. /\ call'.at = "data" /\ call'.name = call.name /\ call'.sector = call.sector
      /\ call'.inode = call.inode /\ call'.zeroed = call.zeroed
      /\ call' \in [at : {"inode", "data"}, name : Name \cup {Bad}, sector : Sector,
                    inode : Inode, zeroed : 0 .. MaxLength]
  BY <1>1 DEF WriteInode
<1>4. call.sector \notin Files
  BY <1>2, CallIsApart DEF Sectors
<1>5. InCall' = InCall
  BY <1>2, <1>3 DEF InCall, Sectors, Extent
<1>6. \A s : Pending(call', s) = Pending(call, s)
  BY <1>1, <1>3 DEF Pending
<1>7. disk'[call.sector] = call.inode
  BY <1>1 DEF WriteInode, FInv, Types
<1>8. CallIs(call, disk)'
  BY <1>1, <1>3, <1>7 DEF CallIs, Extent
<1> QED
  BY <1>1, <1>4, <1>5, <1>6, <1>8, WriteStays DEF WriteInode

LEMMA WriteZerosStep ==
  ASSUME FInv, WriteZeros
  PROVE  FInv' /\ Leaked' \subseteq Leaked
<1> DEFINE x == call.inode.start + call.zeroed
<1>1. /\ call \in [at : {"inode", "data"}, name : Name \cup {Bad}, sector : Sector,
                   inode : Inode, zeroed : 0 .. MaxLength]
      /\ call.sector \notin Extent(call.inode) /\ call.at = "data"
      /\ disk[call.sector] = call.inode
  BY DEF FInv, CallIs, Releases, WriteZeros, Idle
<1>2. InCall = Sectors(call.sector, call.inode)
  BY <1>1 DEF InCall
<1>3. /\ call'.at = "data" /\ call'.name = call.name /\ call'.sector = call.sector
      /\ call'.inode = call.inode /\ call'.zeroed = call.zeroed + 1
      /\ call' \in [at : {"inode", "data"}, name : Name \cup {Bad}, sector : Sector,
                    inode : Inode, zeroed : 0 .. MaxLength]
  <2>1. call.zeroed + 1 \in 0 .. MaxLength
    BY <1>1, FileSysAssumption DEF WriteZeros, Inode
  <2> QED
    BY <1>1, <2>1 DEF WriteZeros
<1>4. x \in Extent(call.inode)
  <2>1. call.inode.start \in Nat /\ call.inode.length \in Nat /\ call.zeroed \in Nat
    <3>1. call.inode \in Inode /\ call.zeroed \in 0 .. MaxLength
      BY <1>1
    <3>2. call.inode.start \in Sector \cup {0} /\ call.inode.length \in 0 .. MaxLength
      BY <3>1 DEF Inode
    <3>3. \A n \in 0 .. MaxLength : n \in Nat
      BY Limits
    <3> QED
      BY <3>1, <3>2, <3>3, Limits
  <2>2. call.zeroed < call.inode.length
    BY DEF WriteZeros
  <2> QED
    BY <2>1, <2>2 DEF Extent
<1> HIDE DEF x
<1>5. x \in InCall /\ x # call.sector
  BY <1>1, <1>2, <1>4 DEF Sectors
<1>6. x \notin Files /\ x \in Sector
  BY <1>5, CallIsApart DEF FInv, Apart, Types
<1>7. disk' = [disk EXCEPT ![x] = "data"]
  BY DEF WriteZeros, x
<1>8. InCall' = InCall
  BY <1>2, <1>3 DEF InCall, Sectors, Extent
<1>9. \A s : Pending(call', s) = Pending(call, s)
  BY <1>1, <1>3 DEF Pending
<1>10. disk'[call.sector] = call.inode
  BY <1>1, <1>5, <1>7 DEF FInv, Types
<1>11. CallIs(call, disk)'
  BY <1>1, <1>3, <1>10 DEF CallIs, Extent
<1> QED
  BY <1>6, <1>7, <1>8, <1>9, <1>11, WriteStays DEF WriteZeros

(* dir_add() makes the sectors of the call a file, or gives the first of   *)
(* them back and loses the others.                                         *)
LEMMA DirAddStep ==
  ASSUME FInv, DirAdd
  PROVE  FInv' /\ (Leaked' \subseteq Leaked \/ (Created /\ AddFails))
<1> DEFINE s == call.sector
<1>1. /\ call \in [at : {"inode", "data"}, name : Name \cup {Bad}, sector : Sector,
                   inode : Inode, zeroed : 0 .. MaxLength]
      /\ s \notin Extent(call.inode) /\ call.at = "data" /\ disk[s] = call.inode
  BY DEF FInv, CallIs, Releases, DirAdd, Created, Idle
<1>2. /\ Types /\ Apart(Files, disk, free_map, InCall) /\ CopiesOK /\ EntriesDiffer
      /\ CountsOK
  BY DEF FInv
<1>3. InCall = Sectors(s, disk[s]) /\ s \in Sector /\ call.name \in Name \cup {Bad}
      /\ disk[s] \in Inode /\ s \notin Extent(disk[s])
  BY <1>1 DEF InCall
<1>4. UNCHANGED <<disk, free_map, fileVars, open_inodes>>
  BY DEF DirAdd, fileVars
<1>5. CASE AddFails
  <2>1. /\ call' = [at |-> "release", extents |-> <<{s}>>, closing |-> <<>>]
        /\ UNCHANGED entries
    BY <1>5 DEF DirAdd
  <2>2. Types'
    BY <1>2, <1>4, <2>1 DEF Types, fileVars, Slot
  <2>3. CallIs(call, disk)'
    <3>1. {s} \in SUBSET Sector /\ {s} \cap {} = {} /\ <<>> \in Seq(Sector)
      BY <1>3
    <3> QED
      BY <2>1, <3>1 DEF CallIs, Releases
  <2>4. InCall' = {s}
    <3>1. InCall' = UNION Range(<<{s}>>)
      BY <2>1 DEF InCall
    <3>2. Range(<<{s}>>) = {{s}}
      BY DEF Range
    <3> QED
      BY <3>1, <3>2
  <2>5. Files' = Files /\ EntriesDiffer' /\ CopiesOK'
    BY <1>2, <1>4, <2>1, FilesStay
  <2>6. \A t : Pending(call', t) = Pending(call, t)
    BY <1>1, <2>1, TimesNone DEF Pending
  <2>7. CountsOK'
    BY <1>2, <1>4, <2>6, CountsStay
  <2>8. Apart(Files, disk, free_map, {s})
    <3>1. {s} \in SUBSET InCall
      BY <1>3 DEF Sectors
    <3> QED
      BY <1>2, <3>1, ApartShrink
  <2>9. Apart(Files, disk, free_map, InCall)'
    BY <1>4, <2>4, <2>5, <2>8
  <2> QED
    BY <1>5, <2>2, <2>3, <2>5, <2>7, <2>9 DEF FInv, DirAdd
<1>6. CASE ~AddFails
  <2> DEFINE j == Min(FreeSlots)
             e == [name |-> call.name, sector |-> s]
  <2>1. /\ entries' = [entries EXCEPT ![j] = e] /\ call' = Idle
    BY <1>6 DEF DirAdd
  <2>2. j \in Slot /\ entries[j] = NULL
    <3>1. FreeSlots \subseteq Nat /\ FreeSlots # {}
      BY <1>6 DEF FreeSlots, AddFails, Slot
    <3>2. j \in FreeSlots
      BY <3>1, MinIs
    <3> QED
      BY <3>2 DEF FreeSlots
  <2>3. /\ e \in [name : Name, sector : Sector] /\ e # NULL
        /\ e.name = call.name /\ e.sector = s
        /\ \A k \in Slot : entries[k] # NULL => entries[k].name # call.name
    BY <1>3, <1>6, FileSysAssumption DEF AddFails, lookup
  <2> HIDE DEF j, e
  <2>4. /\ entries' \in [Slot -> [name : Name, sector : Sector] \cup {NULL}]
        /\ entries'[j] = e /\ \A k \in Slot : k # j => entries'[k] = entries[k]
    BY <1>2, <2>1, <2>2, <2>3 DEF Types
  <2>5. Types'
    BY <1>2, <1>4, <2>4 DEF Types, fileVars
  <2>6. CallIs(call, disk)'
    BY <2>1 DEF CallIs
  <2>7. Listed' = Listed \cup {s}
    <3>1. \A x : x \in Listed' <=> \E k \in Slot : entries'[k] # NULL /\ x = entries'[k].sector
      BY DEF Listed
    <3>2. \A x : x \in Listed <=> \E k \in Slot : entries[k] # NULL /\ x = entries[k].sector
      BY DEF Listed
    <3>3. \A x : x \in Listed' <=> x = s \/ x \in Listed
      BY <2>2, <2>3, <2>4, <3>1, <3>2
    <3> QED
      BY <3>3
  <2>8. Files' = Files \cup {s}
    BY <1>4, <2>7 DEF Files
  <2>9. /\ Apart(Files \cup {s}, disk, free_map, {})
        /\ Loss(Files \cup {s}, disk, free_map, {}) \subseteq Loss(Files, disk, free_map, InCall)
        /\ s \notin Files
    <3>1. Apart(Files, disk, free_map, Sectors(s, disk[s]))
      BY <1>2, <1>3
    <3> HIDE DEF s
    <3> QED
      BY <1>3, <3>1, ApartAdd
  <2>10. InCall' = {}
    BY <2>1 DEF InCall, Idle
  <2>11. CopiesOK'
    BY <1>2, <1>4, <2>7, <2>9 DEF CopiesOK, Files
  <2>12. EntriesDiffer'
    <3>1. \A k \in Slot : entries[k] # NULL => entries[k].sector # s
      BY <2>9 DEF Files, Listed
    <3> QED
      BY <1>2, <2>2, <2>3, <2>4, <3>1 DEF EntriesDiffer, Slot
  <2>13. \A t : Pending(call', t) = Pending(call, t)
    BY <1>1, <2>1 DEF Pending, Idle
  <2>14. CountsOK'
    BY <1>2, <1>4, <2>13, CountsStay
  <2>15. Apart(Files, disk, free_map, InCall)' /\ Leaked' \subseteq Leaked
    BY <1>4, <2>8, <2>9, <2>10, LeakedIs, LeakedIsNext
  <2>16. FInv'
    BY <2>5, <2>6, <2>11, <2>12, <2>14, <2>15 DEF FInv
  <2> QED
    BY <2>15, <2>16
<1> QED
  BY <1>5, <1>6

-----------------------------------------------------------------------------
(* close.                                                                  *)

LEMMA ReleaseStep ==
  ASSUME FInv, ReleaseNext
  PROVE  FInv' /\ Leaked' \subseteq Leaked
<1>1. /\ Types /\ CallIs(call, disk) /\ Apart(Files, disk, free_map, InCall)
      /\ CopiesOK /\ EntriesDiffer /\ CountsOK /\ call.at = "release"
  BY DEF FInv, ReleaseNext
<1>2. PICK A \in SUBSET Sector, B \in SUBSET Sector, q \in Seq(Sector) :
        /\ A \cap B = {}
        /\ \/ call = [at |-> "release", extents |-> <<A>>, closing |-> q]
           \/ call = [at |-> "release", extents |-> <<A, B>>, closing |-> q]
  <2>1. \E A, B \in SUBSET Sector : \E q \in Seq(Sector) : Releases(call, A, B, q)
    BY <1>1 DEF CallIs, Idle
  <2> QED
    BY <2>1 DEF Releases
<1>3. UNCHANGED <<disk, entries, fileVars, open_inodes>>
  BY DEF ReleaseNext, fileVars
<1>4. Files' = Files /\ EntriesDiffer' /\ CopiesOK'
  BY <1>1, <1>3, FilesStay
<1>5. free_map' = free_map \ A /\ A \subseteq InCall /\ InCall' = InCall \ A
      /\ CallIs(call', disk') /\ \A t : Pending(call', t) = TimesIn(q, t)
  <2>1. CASE call = [at |-> "release", extents |-> <<A>>, closing |-> q]
    <3>1. Head(<<A>>) = A /\ Tail(<<A>>) = <<>> /\ Range(<<A>>) = {A}
      BY DEF Range
    <3>2. free_map' = free_map \ A /\ GoOn(q)
      BY <2>1, <3>1 DEF ReleaseNext, Release
    <3>3. InCall = A
      BY <2>1, <3>1 DEF InCall
    <3>4. InCall' = {} /\ CallIs(call', disk') /\ \A t : Pending(call', t) = TimesIn(q, t)
      BY <3>2, GoOnIs
    <3> QED
      BY <3>2, <3>3, <3>4
  <2>2. CASE call = [at |-> "release", extents |-> <<A, B>>, closing |-> q]
    <3>1. /\ Head(<<A, B>>) = A /\ Tail(<<A, B>>) = <<B>> /\ <<B>> # <<>>
          /\ Range(<<A, B>>) = {A, B} /\ Range(<<B>>) = {B}
      BY DEF Range
    <3>2. /\ free_map' = free_map \ A
          /\ call' = [at |-> "release", extents |-> <<B>>, closing |-> q]
      BY <2>2, <3>1 DEF ReleaseNext, Release
    <3>3. InCall = A \cup B
      BY <2>2, <3>1 DEF InCall
    <3>4. InCall' = B
      BY <3>1, <3>2 DEF InCall
    <3>5. CallIs(call', disk')
      <4>1. B \cap {} = {} /\ {} \in SUBSET Sector
        OBVIOUS
      <4> QED
        BY <3>2, <4>1 DEF CallIs, Releases
    <3>6. \A t : Pending(call', t) = TimesIn(q, t)
      BY <3>2 DEF Pending
    <3> QED
      BY <1>2, <3>2, <3>3, <3>4, <3>5, <3>6
  <2> QED
    BY <1>2, <2>1, <2>2
<1>6. Types'
  BY <1>1, <1>3, <1>5 DEF Types, fileVars, Slot
<1>7. \A t : Pending(call, t) = TimesIn(q, t)
  BY <1>2 DEF Pending
<1>8. CountsOK'
  BY <1>1, <1>3, <1>5, <1>7, CountsStay
<1>9. /\ Apart(Files, disk, free_map \ A, InCall \ A)
      /\ Loss(Files, disk, free_map \ A, InCall \ A) \subseteq Loss(Files, disk, free_map, InCall)
  <2>1. A \in SUBSET InCall
    BY <1>5
  <2> QED
    BY <1>1, <2>1, ApartRelease
<1>10. Apart(Files, disk, free_map, InCall)' /\ Leaked' \subseteq Leaked
  BY <1>3, <1>4, <1>5, <1>9, LeakedIs, LeakedIsNext
<1> QED
  BY <1>4, <1>5, <1>6, <1>8, <1>10 DEF FInv

(* A sector that the call is to close is that of an inode in memory.       *)
LEMMA PendingIsOpen ==
  ASSUME FInv, NEW s \in Sector, Pending(call, s) > 0
  PROVE  s \in DOMAIN open_inodes
<1>1. lost[s] \in Nat /\ HeldIn(file_desc, s) \in Nat /\ Pending(call, s) \in Nat
  BY HandlesFinite, PendingType DEF FInv, Types
<1>2. lost[s] + HeldIn(file_desc, s) + Pending(call, s) = CountIn(open_inodes, s)
  BY DEF FInv, CountsOK
<1>3. CountIn(open_inodes, s) # 0
  BY <1>1, <1>2
<1> QED
  BY <1>3 DEF CountIn

LEMMA InodeCloseStep ==
  ASSUME FInv, InodeClose
  PROVE  FInv' /\ Leaked' \subseteq Leaked
<1> DEFINE q == call.closing
           s == Head(q)
           D == DOMAIN open_inodes
           Mem == [open_cnt : Nat \ {0}, removed : BOOLEAN, data : Inode]
<1>1. /\ Types /\ CallIs(call, disk) /\ Apart(Files, disk, free_map, InCall)
      /\ CopiesOK /\ EntriesDiffer /\ CountsOK /\ call.at = "close" /\ InCall = {}
  BY InCallIs DEF FInv, InodeClose
<1>2. q \in Seq(Sector) /\ q # <<>>
  BY <1>1 DEF CallIs, Idle, Releases
<1>3. /\ s \in Sector /\ Tail(q) \in Seq(Sector)
      /\ \A t : TimesIn(q, t) = TimesIn(Tail(q), t) + (IF t = s THEN 1 ELSE 0)
      /\ \A t : TimesIn(Tail(q), t) \in Nat
  BY <1>2, TimesTail, TimesType, HeadTailProperties
<1>4. \A t : Pending(call, t) = TimesIn(q, t)
  BY <1>1 DEF Pending
<1>5. s \in D
  <2>1. Pending(call, s) > 0
    BY <1>3, <1>4
  <2> QED
    BY <1>3, <2>1, PendingIsOpen
<1>6. UNCHANGED <<disk, entries, free_map, file_desc, lost>>
  BY DEF InodeClose, diskVars
<1>7. /\ open_inodes \in [D -> Mem] /\ D \subseteq Sector
      /\ \A t \in D : disk[t] = open_inodes[t].data
      /\ \A t \in D : open_inodes[t].removed <=> t \notin Listed
      /\ \A t \in Sector : /\ lost[t] \in Nat
                           /\ lost[t] + HeldIn(file_desc, t) + TimesIn(q, t)
                                = CountIn(open_inodes, t)
  BY <1>1, <1>4 DEF Types, CopiesOK, CountsOK
<1>8. \A t : HeldIn(file_desc, t) \in Nat
  BY HandlesFinite
<1>9. Listed' = Listed /\ EntriesDiffer'
  BY <1>1, <1>6 DEF Listed, EntriesDiffer
<1>10. LET i == open_inodes[s] IN
         IF i.open_cnt > 1
         THEN /\ open_inodes' = [open_inodes EXCEPT ![s].open_cnt = @ - 1]
              /\ GoOn(Tail(q))
         ELSE /\ open_inodes' = Restrict(open_inodes, D \ {s})
              /\ IF i.removed
                 THEN call' = [at |-> "release", extents |-> <<{s}, Extent(i.data)>>,
                               closing |-> Tail(q)]
                 ELSE GoOn(Tail(q))
  BY DEF InodeClose
<1> HIDE DEF s, q, D
<1>11. open_inodes[s] \in Mem /\ open_inodes[s].open_cnt \in Nat \ {0}
  BY <1>5, <1>7
<1>12. CASE open_inodes[s].open_cnt > 1
  <2>1. /\ open_inodes' = [open_inodes EXCEPT ![s].open_cnt = @ - 1]
        /\ GoOn(Tail(q))
    BY <1>10, <1>12
  <2>2. DOMAIN open_inodes' = D /\ \A t \in D : t # s => open_inodes'[t] = open_inodes[t]
    BY <1>7, <2>1
  <2>3. open_inodes'[s] = [open_inodes[s] EXCEPT !.open_cnt = @ - 1]
    BY <1>5, <1>7, <2>1
  <2>4. /\ open_inodes'[s].open_cnt = open_inodes[s].open_cnt - 1
        /\ open_inodes'[s].removed = open_inodes[s].removed
        /\ open_inodes'[s].data = open_inodes[s].data
        /\ open_inodes'[s] \in Mem
    <3>1. open_inodes[s].open_cnt - 1 \in Nat \ {0}
      BY <1>11, <1>12
    <3> QED
      BY <1>11, <2>3, <3>1
  <2>5. open_inodes' \in [D -> Mem]
    <3>1. open_inodes' = [t \in D |-> open_inodes'[t]]
      BY <1>7, <2>1
    <3>2. \A t \in D : open_inodes'[t] \in Mem
      BY <1>7, <2>2, <2>4
    <3> QED
      BY <3>1, <3>2
  <2>6. Types'
    BY <1>1, <1>6, <1>7, <2>2, <2>5 DEF Types, Slot
  <2>7. /\ CallIs(call, disk)' /\ InCall' = {}
        /\ \A t : Pending(call', t) = TimesIn(Tail(q), t)
    BY <1>3, <2>1, GoOnIs
  <2>8. Files' = Files
    BY <1>9, <2>2 DEF Files, D
  <2>9. CopiesOK'
    BY <1>6, <1>7, <1>9, <2>2, <2>4 DEF CopiesOK
  <2>10. \A t \in Sector : CountIn(open_inodes, t)
                             = CountIn(open_inodes', t) + (IF t = s THEN 1 ELSE 0)
    <3>1. \A t \in D : open_inodes[t].open_cnt \in Nat
      BY <1>7
    <3> QED
      BY <1>5, <1>11, <2>2, <2>4, <3>1 DEF CountIn, D
  <2>11. CountsOK'
    <3>1. \A t \in Sector : CountIn(open_inodes', t) \in Nat
      BY <2>2, <2>5 DEF CountIn
    <3>2. ASSUME NEW t \in Sector
          PROVE  lost[t] + HeldIn(file_desc, t) + TimesIn(Tail(q), t)
                   = CountIn(open_inodes', t)
      <4>1. /\ lost[t] \in Nat /\ HeldIn(file_desc, t) \in Nat
            /\ TimesIn(Tail(q), t) \in Nat /\ CountIn(open_inodes', t) \in Nat
        BY <1>3, <1>7, <1>8, <3>1
      <4>2. lost[t] + HeldIn(file_desc, t) + TimesIn(q, t) = CountIn(open_inodes, t)
        BY <1>7
      <4>3. TimesIn(q, t) = TimesIn(Tail(q), t) + (IF t = s THEN 1 ELSE 0)
        BY <1>3
      <4> QED
        BY <2>10, <4>1, <4>2, <4>3
    <3> QED
      BY <1>6, <2>7, <3>2 DEF CountsOK
  <2>12. Apart(Files, disk, free_map, InCall)' /\ Leaked' \subseteq Leaked
    BY <1>1, <1>6, <2>7, <2>8, LeakedIs, LeakedIsNext
  <2> QED
    BY <1>9, <2>6, <2>7, <2>9, <2>11, <2>12 DEF FInv
<1>13. CASE ~(open_inodes[s].open_cnt > 1)
  <2>1. open_inodes' = [t \in D \ {s} |-> open_inodes[t]]
    BY <1>10, <1>13 DEF Restrict
  <2>2. /\ DOMAIN open_inodes' = D \ {s} /\ open_inodes' \in [D \ {s} -> Mem]
        /\ \A t \in D \ {s} : open_inodes'[t] = open_inodes[t]
    BY <1>7, <2>1
  <2>3. open_inodes[s].open_cnt = 1
    BY <1>11, <1>13
  <2>4. Types'
    BY <1>1, <1>6, <1>7, <2>2 DEF Types, Slot
  <2>5. CopiesOK'
    BY <1>6, <1>7, <1>9, <2>2 DEF CopiesOK
  <2>6. \A t \in Sector : CountIn(open_inodes, t)
                            = CountIn(open_inodes', t) + (IF t = s THEN 1 ELSE 0)
    <3>1. \A t \in D : open_inodes[t].open_cnt \in Nat
      BY <1>7
    <3> QED
      BY <1>5, <2>2, <2>3, <3>1 DEF CountIn, D
  <2>7. (\A t : Pending(call', t) = TimesIn(Tail(q), t)) => CountsOK'
    <3>1. \A t \in Sector : CountIn(open_inodes', t) \in Nat
      BY <2>2 DEF CountIn
    <3>2. ASSUME NEW t \in Sector
          PROVE  lost[t] + HeldIn(file_desc, t) + TimesIn(Tail(q), t)
                   = CountIn(open_inodes', t)
      <4>1. /\ lost[t] \in Nat /\ HeldIn(file_desc, t) \in Nat
            /\ TimesIn(Tail(q), t) \in Nat /\ CountIn(open_inodes', t) \in Nat
        BY <1>3, <1>7, <1>8, <3>1
      <4>2. lost[t] + HeldIn(file_desc, t) + TimesIn(q, t) = CountIn(open_inodes, t)
        BY <1>7
      <4>3. TimesIn(q, t) = TimesIn(Tail(q), t) + (IF t = s THEN 1 ELSE 0)
        BY <1>3
      <4> QED
        BY <2>6, <4>1, <4>2, <4>3
    <3> QED
      BY <1>6, <3>2 DEF CountsOK
  <2>8. CASE open_inodes[s].removed
    <3> DEFINE A == {s}
               B == Extent(disk[s])
    <3>1. call' = [at |-> "release", extents |-> <<A, B>>, closing |-> Tail(q)]
      BY <1>5, <1>7, <1>10, <1>13, <2>8
    <3>2. s \notin Listed /\ s \in Files
      BY <1>5, <1>7, <2>8 DEF Files, D
    <3>3. Files' = Files \ {s}
      BY <1>9, <2>2, <3>2 DEF Files, D
    <3>4. /\ A \cap B = {} /\ A \in SUBSET Sector
          /\ B \in SUBSET Sector /\ A \cup B = Sectors(s, disk[s])
      BY <1>1, <1>3, <3>2 DEF Apart, Types, Sectors
    <3> HIDE DEF A, B
    <3>5. CallIs(call, disk)'
      BY <1>3, <3>1, <3>4 DEF CallIs, Releases
    <3>6. InCall' = Sectors(s, disk[s])
      <4>1. Range(<<A, B>>) = {A, B}
        BY DEF Range
      <4>2. InCall' = UNION Range(<<A, B>>)
        BY <3>1 DEF InCall
      <4> QED
        BY <3>4, <4>1, <4>2
    <3>7. \A t : Pending(call', t) = TimesIn(Tail(q), t)
      BY <3>1 DEF Pending
    <3>8. /\ Apart(Files \ {s}, disk, free_map, Sectors(s, disk[s]))
          /\ Loss(Files \ {s}, disk, free_map, Sectors(s, disk[s]))
               \subseteq Loss(Files, disk, free_map, {})
      BY <1>1, <3>2, ApartClose
    <3>9. Apart(Files, disk, free_map, InCall)' /\ Leaked' \subseteq Leaked
      BY <1>1, <1>6, <3>3, <3>6, <3>8, LeakedIs, LeakedIsNext
    <3> QED
      BY <1>9, <2>4, <2>5, <2>7, <3>5, <3>7, <3>9 DEF FInv
  <2>9. CASE ~open_inodes[s].removed
    <3>1. GoOn(Tail(q))
      BY <1>10, <1>13, <2>9
    <3>2. /\ CallIs(call, disk)' /\ InCall' = {}
          /\ \A t : Pending(call', t) = TimesIn(Tail(q), t)
      BY <1>3, <3>1, GoOnIs
    <3>3. s \in Listed
      BY <1>5, <1>7, <2>9
    <3>4. Files' = Files
      BY <1>9, <2>2, <3>3 DEF Files, D
    <3>5. Apart(Files, disk, free_map, InCall)' /\ Leaked' \subseteq Leaked
      BY <1>1, <1>6, <3>2, <3>4, LeakedIs, LeakedIsNext
    <3> QED
      BY <1>9, <2>4, <2>5, <2>7, <3>2, <3>5 DEF FInv
  <2> QED
    BY <2>8, <2>9
<1> QED
  BY <1>12, <1>13

-----------------------------------------------------------------------------
(* open, write, remove and exit.                                           *)

(* inode_open() of a file that the directory lists, before the caller has  *)
(* decided who holds it.                                                   *)
LEMMA OpenStays ==
  ASSUME FInv, NEW s \in Listed
  PROVE  /\ s \in Sector
         /\ DOMAIN inode_open(s) = DOMAIN open_inodes \cup {s}
         /\ DOMAIN inode_open(s) \cup Listed = Files
         /\ DOMAIN inode_open(s) \subseteq Sector
         /\ inode_open(s) \in [DOMAIN inode_open(s) ->
                [open_cnt : Nat \ {0}, removed : BOOLEAN, data : Inode]]
         /\ \A t : CountIn(inode_open(s), t)
                     = CountIn(open_inodes, t) + (IF t = s THEN 1 ELSE 0)
         /\ \A t \in DOMAIN inode_open(s) :
              /\ disk[t] = inode_open(s)[t].data
              /\ inode_open(s)[t].removed <=> t \notin Listed
<1>1. /\ Types /\ Apart(Files, disk, free_map, InCall) /\ CopiesOK /\ s \in Sector
      /\ s \in Files
  BY FilesAreSectors DEF FInv, Files
<1>2. disk[s] \in Inode
  BY <1>1 DEF Apart
<1>3. /\ DOMAIN inode_open(s) = DOMAIN open_inodes \cup {s}
      /\ inode_open(s) \in [DOMAIN open_inodes \cup {s} ->
             [open_cnt : Nat \ {0}, removed : BOOLEAN, data : Inode]]
      /\ \A t : CountIn(inode_open(s), t)
                  = CountIn(open_inodes, t) + (IF t = s THEN 1 ELSE 0)
      /\ \A t \in DOMAIN open_inodes :
           /\ inode_open(s)[t].data = disk[t]
           /\ inode_open(s)[t].removed = open_inodes[t].removed
      /\ s \notin DOMAIN open_inodes =>
           inode_open(s)[s].data = disk[s] /\ inode_open(s)[s].removed = FALSE
  BY <1>1, <1>2, OpenIs
<1>4. \A t \in DOMAIN open_inodes : open_inodes[t].removed <=> t \notin Listed
  BY <1>1 DEF CopiesOK
<1>5. \A t \in DOMAIN open_inodes \cup {s} :
        /\ disk[t] = inode_open(s)[t].data
        /\ inode_open(s)[t].removed <=> t \notin Listed
  BY <1>3, <1>4
<1>6. (DOMAIN open_inodes \cup {s}) \cup Listed = Files
  BY DEF Files
<1>7. DOMAIN open_inodes \subseteq Sector
  BY <1>1 DEF Types
<1> QED
  BY <1>1, <1>3, <1>5, <1>6, <1>7

LEMMA OpenStep ==
  ASSUME FInv, NEW p \in Process, Open(p)
  PROVE  FInv' /\ Leaked' \subseteq Leaked
<1>1. /\ Types /\ CallIs(call, disk) /\ Apart(Files, disk, free_map, InCall)
      /\ CopiesOK /\ EntriesDiffer /\ CountsOK
  BY DEF FInv
<1>2. PICK name \in Name : \E k \in lookup(name) :
        LET s == entries[k].sector IN
          /\ open_inodes' = inode_open(s)
          /\ \/ /\ Len(file_desc[p]) < MAX_FILE_DESC_COUNT
                /\ file_desc' = [file_desc EXCEPT ![p] = Append(@, s)]
                /\ UNCHANGED lost
             \/ /\ lost' = [lost EXCEPT ![s] = @ + 1]
                /\ UNCHANGED file_desc
  BY DEF Open
<1>3. PICK k \in lookup(name) :
        LET s == entries[k].sector IN
          /\ open_inodes' = inode_open(s)
          /\ \/ /\ Len(file_desc[p]) < MAX_FILE_DESC_COUNT
                /\ file_desc' = [file_desc EXCEPT ![p] = Append(@, s)]
                /\ UNCHANGED lost
             \/ /\ lost' = [lost EXCEPT ![s] = @ + 1]
                /\ UNCHANGED file_desc
  BY <1>2
<1> DEFINE s == entries[k].sector
<1>4. UNCHANGED <<disk, entries, free_map, call>>
  BY DEF Open, diskVars
<1>5. s \in Listed
  BY <1>1, LookupIs
<1>6. open_inodes' = inode_open(s)
  BY <1>3
<1>7. \/ /\ Len(file_desc[p]) < MAX_FILE_DESC_COUNT
         /\ file_desc' = [file_desc EXCEPT ![p] = Append(file_desc[p], s)]
         /\ UNCHANGED lost
      \/ /\ lost' = [lost EXCEPT ![s] = @ + 1]
         /\ UNCHANGED file_desc
  BY <1>3
<1> HIDE DEF s
<1>8. /\ s \in Sector
      /\ DOMAIN open_inodes' \cup Listed = Files
      /\ DOMAIN open_inodes' \subseteq Sector
      /\ open_inodes' \in [DOMAIN open_inodes' ->
             [open_cnt : Nat \ {0}, removed : BOOLEAN, data : Inode]]
      /\ \A t : CountIn(open_inodes', t)
                  = CountIn(open_inodes, t) + (IF t = s THEN 1 ELSE 0)
      /\ \A t \in DOMAIN open_inodes' :
           /\ disk[t] = open_inodes'[t].data
           /\ open_inodes'[t].removed <=> t \notin Listed
  BY <1>5, <1>6, OpenStays
<1>9. Listed' = Listed /\ EntriesDiffer'
  BY <1>1, <1>4 DEF Listed, EntriesDiffer
<1>10. Files' = Files
  BY <1>8, <1>9 DEF Files
<1>11. /\ file_desc \in [Process -> Table] /\ lost \in [Sector -> Nat]
       /\ \A t : HeldIn(file_desc, t) \in Nat
  BY <1>1, HandlesFinite DEF Types
<1>12. /\ file_desc' \in [Process -> Table] /\ lost' \in [Sector -> Nat]
       /\ \A t \in Sector : lost'[t] + HeldIn(file_desc', t)
            = lost[t] + HeldIn(file_desc, t) + (IF t = s THEN 1 ELSE 0)
  <2>1. CASE /\ Len(file_desc[p]) < MAX_FILE_DESC_COUNT
             /\ file_desc' = [file_desc EXCEPT ![p] = Append(file_desc[p], s)]
             /\ UNCHANGED lost
    <3> DEFINE fd == file_desc
               fd2 == file_desc'
    <3>1. /\ fd \in Tables /\ Len(fd[p]) < MAX_FILE_DESC_COUNT /\ s \in Sector
          /\ Replaced(fd, fd2, p, Append(fd[p], s))
          /\ fd2 = [fd EXCEPT ![p] = Append(fd[p], s)]
      BY <1>8, <1>11, <2>1 DEF Tables, Replaced
    <3> HIDE DEF fd, fd2
    <3>2. \A t : /\ Append(fd[p], s) \in Table
                /\ HeldIn(fd2, t) = HeldIn(fd, t) + OneIf(t, s)
      BY <3>1, HeldAdd
    <3>3. fd2 \in [Process -> Table]
      BY <3>1, <3>2 DEF Tables
    <3>4. \A t \in Sector : lost[t] \in Nat /\ HeldIn(fd, t) \in Nat
      BY <1>11 DEF fd
    <3>5. \A t \in Sector : lost[t] + HeldIn(fd2, t)
                              = lost[t] + HeldIn(fd, t) + (IF t = s THEN 1 ELSE 0)
      BY <3>2, <3>4 DEF OneIf
    <3> QED
      BY <1>11, <2>1, <3>3, <3>5 DEF fd, fd2
  <2>2. CASE lost' = [lost EXCEPT ![s] = @ + 1] /\ UNCHANGED file_desc
    <3>1. lost' \in [Sector -> Nat]
      BY <1>8, <1>11, <2>2
    <3>2. \A t \in Sector : lost'[t] = lost[t] + (IF t = s THEN 1 ELSE 0)
      BY <1>8, <1>11, <2>2
    <3>3. \A t \in Sector : lost[t] \in Nat /\ HeldIn(file_desc, t) \in Nat
      BY <1>11
    <3>4. \A t \in Sector : lost'[t] + HeldIn(file_desc, t)
            = lost[t] + HeldIn(file_desc, t) + (IF t = s THEN 1 ELSE 0)
      BY <3>2, <3>3
    <3> QED
      BY <1>11, <2>2, <3>1, <3>4
  <2> QED
    BY <1>7, <2>1, <2>2
<1>13. Types'
  BY <1>1, <1>4, <1>8, <1>12 DEF Types, Slot
<1>14. CallIs(call, disk)' /\ InCall' = InCall
  BY <1>1, <1>4 DEF InCall, Sectors, Extent
<1>15. CopiesOK'
  BY <1>4, <1>8, <1>9 DEF CopiesOK
<1>16. CountsOK'
  <2>1. \A t \in Sector : lost'[t] + HeldIn(file_desc', t) + Pending(call, t)
                            = CountIn(open_inodes', t)
    <3> SUFFICES ASSUME NEW t \in Sector
                 PROVE  lost'[t] + HeldIn(file_desc', t) + Pending(call, t)
                          = CountIn(open_inodes', t)
      OBVIOUS
    <3>1. /\ lost[t] \in Nat /\ HeldIn(file_desc, t) \in Nat /\ Pending(call, t) \in Nat
          /\ lost'[t] \in Nat /\ HeldIn(file_desc', t) \in Nat
      BY <1>1, <1>11, <1>12, HandlesFinite, PendingType
    <3>2. lost[t] + HeldIn(file_desc, t) + Pending(call, t) = CountIn(open_inodes, t)
      BY <1>1 DEF CountsOK
    <3>3. lost'[t] + HeldIn(file_desc', t)
            = lost[t] + HeldIn(file_desc, t) + (IF t = s THEN 1 ELSE 0)
      BY <1>12
    <3>4. CountIn(open_inodes', t) = CountIn(open_inodes, t) + (IF t = s THEN 1 ELSE 0)
      BY <1>8
    <3> QED
      BY <3>1, <3>2, <3>3, <3>4
  <2> QED
    BY <1>4, <2>1 DEF CountsOK
<1>17. Apart(Files, disk, free_map, InCall)' /\ Leaked' \subseteq Leaked
  BY <1>1, <1>4, <1>10, <1>14, LeakedIs, LeakedIsNext
<1> QED
  BY <1>9, <1>13, <1>14, <1>15, <1>16, <1>17 DEF FInv

(* The entry goes and the inode stays, open for the call itself.           *)
LEMMA RemoveStep ==
  ASSUME FInv, RemoveFile
  PROVE  FInv' /\ Leaked' \subseteq Leaked
<1>1. /\ Types /\ CallIs(call, disk) /\ Apart(Files, disk, free_map, {})
      /\ CopiesOK /\ EntriesDiffer /\ CountsOK /\ InCall = {} /\ call = Idle
  BY InCallIs DEF FInv, RemoveFile
<1>2. PICK name \in Name : \E k \in lookup(name) :
        LET s == entries[k].sector IN
          /\ entries' = [entries EXCEPT ![k] = NULL]
          /\ open_inodes' = [inode_open(s) EXCEPT ![s].removed = TRUE]
          /\ GoOn(<<s>>)
  BY DEF RemoveFile
<1>3. PICK k \in lookup(name) :
        LET s == entries[k].sector IN
          /\ entries' = [entries EXCEPT ![k] = NULL]
          /\ open_inodes' = [inode_open(s) EXCEPT ![s].removed = TRUE]
          /\ GoOn(<<s>>)
  BY <1>2
<1> DEFINE s == entries[k].sector
           oi == inode_open(s)
           Mem == [open_cnt : Nat \ {0}, removed : BOOLEAN, data : Inode]
<1>4. UNCHANGED <<disk, free_map, file_desc, lost>>
  BY DEF RemoveFile
<1>5. s \in Listed /\ k \in Slot /\ entries[k] # NULL
  BY <1>1, LookupIs
<1>6. /\ entries' = [entries EXCEPT ![k] = NULL]
      /\ open_inodes' = [oi EXCEPT ![s].removed = TRUE]
      /\ GoOn(<<s>>)
  BY <1>3
<1>7. /\ s \in Sector
      /\ DOMAIN oi = DOMAIN open_inodes \cup {s}
      /\ DOMAIN oi \cup Listed = Files
      /\ DOMAIN oi \subseteq Sector
      /\ oi \in [DOMAIN oi -> Mem]
      /\ \A t : CountIn(oi, t) = CountIn(open_inodes, t) + (IF t = s THEN 1 ELSE 0)
      /\ \A t \in DOMAIN oi :
           /\ disk[t] = oi[t].data
           /\ oi[t].removed <=> t \notin Listed
  BY <1>5, OpenStays
<1>8. \A x : x \in Listed' <=> x \in Listed /\ x # s
  <2>1. \A x : x \in Listed' <=> \E l \in Slot : entries'[l] # NULL /\ x = entries'[l].sector
    BY DEF Listed
  <2>2. \A x : x \in Listed <=> \E l \in Slot : entries[l] # NULL /\ x = entries[l].sector
    BY DEF Listed
  <2>3. entries'[k] = NULL /\ \A l \in Slot : l # k => entries'[l] = entries[l]
    BY <1>1, <1>5, <1>6 DEF Types
  <2>4. \A l \in Slot : entries[l] # NULL /\ l # k => entries[l].sector # s
    BY <1>1, <1>5 DEF EntriesDiffer
  <2> HIDE DEF s
  <2> QED
    BY <2>1, <2>2, <2>3, <2>4 DEF s
<1>9. /\ entries' \in [Slot -> [name : Name, sector : Sector] \cup {NULL}]
      /\ EntriesDiffer'
  BY <1>1, <1>5, <1>6 DEF Types, EntriesDiffer, Slot
<1> HIDE DEF s, oi
<1>10. /\ DOMAIN open_inodes' = DOMAIN oi
       /\ \A t \in DOMAIN oi : t # s => open_inodes'[t] = oi[t]
       /\ open_inodes'[s] = [oi[s] EXCEPT !.removed = TRUE]
       /\ open_inodes' = [t \in DOMAIN oi |-> open_inodes'[t]]
  BY <1>6, <1>7
<1>11. /\ open_inodes'[s] \in Mem /\ open_inodes'[s].removed = TRUE
       /\ open_inodes'[s].data = oi[s].data /\ open_inodes'[s].open_cnt = oi[s].open_cnt
  <2> DEFINE m == oi[s]
             new == open_inodes'[s]
  <2>1. m \in Mem /\ new = [m EXCEPT !.removed = TRUE]
    BY <1>7, <1>10
  <2> HIDE DEF m, new
  <2>2. /\ new \in Mem /\ new.removed = TRUE
        /\ new.data = m.data /\ new.open_cnt = m.open_cnt
    BY <2>1
  <2> QED
    BY <2>2 DEF m, new
<1>12. open_inodes' \in [DOMAIN oi -> Mem]
  <2> HIDE DEF Mem
  <2> DEFINE after(t) == open_inodes'[t]
  <2>1. \A t \in DOMAIN oi : after(t) \in Mem
    BY <1>7, <1>10, <1>11
  <2>2. open_inodes' = [t \in DOMAIN oi |-> after(t)]
    BY <1>10
  <2> HIDE DEF after
  <2> QED
    BY <2>1, <2>2
<1>13. Types'
  <2>1. /\ open_inodes' \in [DOMAIN open_inodes' -> Mem]
        /\ DOMAIN open_inodes' \subseteq Sector
    BY <1>7, <1>10, <1>12
  <2> QED
    BY <1>1, <1>4, <1>9, <2>1 DEF Types, Slot
<1>14. Files' = Files
  <2>1. \A x : x \in Files' <=> x \in DOMAIN oi \/ x \in Listed'
    BY <1>10 DEF Files
  <2>2. s \in DOMAIN oi
    BY <1>7
  <2> QED
    BY <1>7, <1>8, <2>1, <2>2
<1>15. CopiesOK'
  BY <1>4, <1>7, <1>8, <1>10, <1>11 DEF CopiesOK
<1>16. CallIs(call, disk)' /\ InCall' = {} /\ \A t : Pending(call', t) = TimesIn(<<s>>, t)
  <2>1. <<s>> \in Seq(Sector)
    BY <1>7
  <2> QED
    BY <1>6, <2>1, GoOnIs
<1>17. \A t : Pending(call', t) = (IF t = s THEN 1 ELSE 0) /\ Pending(call, t) = 0
  BY <1>1, <1>16, TimesOne DEF Pending, Idle
<1>18. \A t : CountIn(open_inodes', t) = CountIn(oi, t)
  BY <1>10, <1>11 DEF CountIn
<1>19. CountsOK'
  <2> SUFFICES ASSUME NEW t \in Sector
               PROVE  lost[t] + HeldIn(file_desc, t) + Pending(call', t)
                        = CountIn(open_inodes', t)
    BY <1>4 DEF CountsOK
  <2>1. lost[t] \in Nat /\ HeldIn(file_desc, t) \in Nat
    BY <1>1, HandlesFinite DEF Types
  <2>2. lost[t] + HeldIn(file_desc, t) + Pending(call, t) = CountIn(open_inodes, t)
    BY <1>1 DEF CountsOK
  <2>3. CountIn(open_inodes', t) = CountIn(open_inodes, t) + (IF t = s THEN 1 ELSE 0)
    BY <1>7, <1>18
  <2> QED
    BY <1>17, <2>1, <2>2, <2>3
<1>20. Apart(Files, disk, free_map, InCall)' /\ Leaked' \subseteq Leaked
  BY <1>1, <1>4, <1>14, <1>16, LeakedIs, LeakedIsNext
<1> QED
  BY <1>9, <1>13, <1>15, <1>16, <1>19, <1>20 DEF FInv

(* file_write() writes sectors of an open file, which hold no inode.       *)
LEMMA WriteStep ==
  ASSUME FInv, NEW p \in Process, Write(p)
  PROVE  FInv' /\ Leaked' \subseteq Leaked
<1>1. PICK s \in Range(file_desc[p]) \ {NULL} :
        \E d \in Extent(open_inodes[s].data) : disk' = [disk EXCEPT ![d] = "data"]
  BY DEF Write
<1>2. PICK d \in Extent(open_inodes[s].data) : disk' = [disk EXCEPT ![d] = "data"]
  BY <1>1
<1>3. call = Idle /\ UNCHANGED <<entries, free_map, fileVars, call>>
  BY DEF Write
<1>4. s \in DOMAIN open_inodes
  <2>1. PICK k \in DOMAIN file_desc[p] : file_desc[p][k] = s
    BY DEF Range
  <2>2. file_desc[p] \in Table
    BY DEF FInv, Types
  <2>3. /\ file_desc[p] \in Seq(Sector \cup {NULL}) /\ k \in 1 .. Len(file_desc[p])
        /\ Len(file_desc[p]) \in Nat /\ Len(file_desc[p]) <= MAX_FILE_DESC_COUNT
    BY <2>2 DEF Table
  <2>4. s \in Sector /\ k \in 1 .. MAX_FILE_DESC_COUNT
    BY <2>1, <2>3, Limits
  <2>5. <<p, k>> \in HandlesIn(file_desc, s)
    BY <2>1, <2>4 DEF HandlesIn
  <2>6. IsFiniteSet(HandlesIn(file_desc, s)) /\ HeldIn(file_desc, s) \in Nat
    BY HandlesFinite
  <2>7. HeldIn(file_desc, s) # 0
    BY <2>5, <2>6, FS_EmptySet DEF HeldIn
  <2>8. lost[s] \in Nat /\ Pending(call, s) \in Nat
    BY <2>4, PendingType DEF FInv, Types
  <2>9. lost[s] + HeldIn(file_desc, s) + Pending(call, s) = CountIn(open_inodes, s)
    BY <2>4 DEF FInv, CountsOK
  <2>10. CountIn(open_inodes, s) # 0
    BY <2>6, <2>7, <2>8, <2>9
  <2> QED
    BY <2>10 DEF CountIn
<1>5. /\ Apart(Files, disk, free_map, InCall) /\ s \in Files
      /\ disk[s] = open_inodes[s].data /\ free_map \subseteq Sector
  BY <1>4 DEF FInv, Types, CopiesOK, Files
<1>6. d \in Sectors(s, disk[s]) /\ d \in Extent(disk[s])
  BY <1>5 DEF Sectors
<1>7. d \in free_map /\ (d \in Files => d = s)
  BY <1>5, <1>6, ApartOne
<1>8. d # s
  BY <1>5, <1>6 DEF Apart
<1>9. d \in Sector /\ d \notin Files
  BY <1>5, <1>7, <1>8
<1>10. InCall' = InCall /\ \A t : Pending(call', t) = Pending(call, t)
  BY <1>3 DEF InCall, Sectors, Extent
<1>11. CallIs(call, disk)'
  BY <1>3 DEF CallIs
<1> QED
  BY <1>2, <1>3, <1>9, <1>10, <1>11, WriteStays

(* What a process gives up passes to the call, which is to close it.       *)
LEMMA GivenUp ==
  ASSUME FInv, call = Idle, NEW q \in Seq(Sector), GoOn(q),
         UNCHANGED <<diskVars, open_inodes, lost>>,
         file_desc' \in [Process -> Table],
         \A t \in Sector : HeldIn(file_desc, t) = HeldIn(file_desc', t) + TimesIn(q, t)
  PROVE  FInv' /\ Leaked' \subseteq Leaked
<1>1. /\ Types /\ CallIs(call, disk) /\ Apart(Files, disk, free_map, {})
      /\ CopiesOK /\ EntriesDiffer /\ CountsOK /\ InCall = {}
  BY InCallIs DEF FInv
<1>2. UNCHANGED <<disk, entries, free_map, open_inodes, lost>>
  BY DEF diskVars
<1>3. Types'
  BY <1>1, <1>2 DEF Types, Slot
<1>4. CallIs(call, disk)' /\ InCall' = {} /\ \A t : Pending(call', t) = TimesIn(q, t)
  BY GoOnIs
<1>5. Files' = Files /\ EntriesDiffer' /\ CopiesOK'
  BY <1>1, <1>2, FilesStay
<1>6. CountsOK'
  <2> SUFFICES ASSUME NEW t \in Sector
               PROVE  lost[t] + HeldIn(file_desc', t) + Pending(call', t)
                        = CountIn(open_inodes, t)
    BY <1>2 DEF CountsOK
  <2>1. /\ lost[t] \in Nat /\ HeldIn(file_desc, t) \in Nat
        /\ HeldIn(file_desc', t) \in Nat
        /\ TimesIn(q, t) \in Nat /\ Pending(call, t) = 0
    BY <1>1, HandlesFinite, TimesType DEF Types, Pending, Idle
  <2>2. lost[t] + HeldIn(file_desc, t) + Pending(call, t) = CountIn(open_inodes, t)
    BY <1>1 DEF CountsOK
  <2>3. HeldIn(file_desc, t) = HeldIn(file_desc', t) + TimesIn(q, t)
    OBVIOUS
  <2> QED
    BY <1>4, <2>1, <2>2, <2>3
<1>7. Apart(Files, disk, free_map, InCall)' /\ Leaked' \subseteq Leaked
  BY <1>1, <1>2, <1>4, <1>5, LeakedIs, LeakedIsNext
<1> QED
  BY <1>3, <1>4, <1>5, <1>6, <1>7 DEF FInv

LEMMA CloseStep ==
  ASSUME FInv, NEW p \in Process, Close(p)
  PROVE  FInv' /\ Leaked' \subseteq Leaked
<1> DEFINE f == file_desc
           f2 == file_desc'
<1>1. PICK k \in DOMAIN file_desc[p] :
        /\ file_desc[p][k] # NULL
        /\ file_desc' = [file_desc EXCEPT ![p][k] = NULL]
        /\ GoOn(<<file_desc[p][k]>>)
  BY DEF Close
<1>2. call = Idle /\ UNCHANGED <<diskVars, open_inodes, lost>>
  BY DEF Close
<1> DEFINE x == f[p][k]
           r == [f[p] EXCEPT ![k] = NULL]
<1>3. f \in Tables /\ f[p] \in Seq(Sector \cup {NULL})
  BY DEF FInv, Types, Table, Tables
<1>4. f2 = [f EXCEPT ![p] = r] /\ Replaced(f, f2, p, r)
  BY <1>1, <1>3 DEF Tables, Replaced
<1>5. x \in Sector /\ k \in DOMAIN f[p] /\ r = [f[p] EXCEPT ![k] = NULL]
  BY <1>1, <1>3
<1> HIDE DEF f, f2, r
<1>6. \A t \in Sector : r \in Table /\ HeldIn(f, t) = HeldIn(f2, t) + OneIf(t, x)
  BY <1>3, <1>4, <1>5, HeldClose
<1>7. f2 \in [Process -> Table]
  BY <1>3, <1>4, <1>5, <1>6 DEF Tables
<1>8. \A t \in Sector : HeldIn(f, t) = HeldIn(f2, t) + TimesIn(<<x>>, t)
  BY <1>6, TimesOne DEF OneIf
<1>9. <<x>> \in Seq(Sector)
  BY <1>5
<1>10. GoOn(<<x>>)
  BY <1>1 DEF f
<1> HIDE DEF x
<1> QED
  BY <1>2, <1>7, <1>8, <1>9, <1>10, GivenUp DEF f, f2

LEMMA ExitStep ==
  ASSUME FInv, NEW p \in Process, Exit(p)
  PROVE  FInv' /\ Leaked' \subseteq Leaked
<1> DEFINE f == file_desc
           f2 == file_desc'
           K == OpenFds(p)
           q == Picked(file_desc[p], K)
<1>1. /\ call = Idle /\ GoOn(q) /\ file_desc' = [file_desc EXCEPT ![p] = <<>>]
      /\ UNCHANGED <<diskVars, open_inodes, lost>>
  BY DEF Exit
<1>2. f \in Tables /\ f[p] \in Seq(Sector \cup {NULL})
  BY DEF FInv, Types, Table, Tables
<1>3. Replaced(f, f2, p, <<>>) /\ f2 = [f EXCEPT ![p] = <<>>]
  BY <1>1, <1>2 DEF Tables, Replaced
<1>4. /\ K \in SUBSET DOMAIN f[p] /\ \A k \in K : f[p][k] \in Sector
      /\ \A k \in DOMAIN f[p] : f[p][k] \in Sector => k \in K
      /\ q = Picked(f[p], K)
  BY <1>2, Limits DEF OpenFds
<1> HIDE DEF f, f2, K, q
<1>5. q \in Seq(Sector) /\ \A t : TimesIn(q, t) = Cardinality({k \in K : f[p][k] = t})
  BY <1>2, <1>4, PickedIs
<1>6. \A t : <<>> \in Table /\ HeldIn(f, t) = HeldIn(f2, t) + TimesIn(f[p], t)
  BY <1>2, <1>3, HeldExit
<1>7. f2 \in [Process -> Table]
  BY <1>2, <1>3, <1>6 DEF Tables
<1>8. \A t \in Sector : HeldIn(f, t) = HeldIn(f2, t) + TimesIn(q, t)
  <2> SUFFICES ASSUME NEW t \in Sector
               PROVE  HeldIn(f, t) = HeldIn(f2, t) + TimesIn(q, t)
    OBVIOUS
  <2>1. {k \in K : f[p][k] = t} = {k \in DOMAIN f[p] : f[p][k] = t}
    BY <1>4
  <2>2. TimesIn(q, t) = TimesIn(f[p], t)
    BY <1>5, <2>1 DEF TimesIn
  <2> QED
    BY <1>6, <2>2
<1> QED
  BY <1>1, <1>5, <1>7, <1>8, GivenUp DEF f, f2

-----------------------------------------------------------------------------
(* A crash leaves the disk as it is, and nothing in memory.                *)
LEMMA CrashStep == FInv /\ Crash => FInv'
<1> SUFFICES ASSUME FInv, Crash PROVE FInv'
  OBVIOUS
<1>1. /\ Types /\ Apart(Files, disk, free_map, InCall) /\ EntriesDiffer
  BY DEF FInv
<1>2. /\ open_inodes' = <<>> /\ file_desc' = NoFiles /\ lost' = [s \in Sector |-> 0]
      /\ call' = Idle /\ UNCHANGED <<disk, entries, free_map>>
  BY DEF Crash, diskVars
<1>3. DOMAIN open_inodes' = {}
  BY <1>2
<1>4. <<>> \in Table
  BY Limits DEF Table
<1>5. Types'
  <2>1. open_inodes' \in [DOMAIN open_inodes' ->
                            [open_cnt : Nat \ {0}, removed : BOOLEAN, data : Inode]]
    BY <1>2, <1>3
  <2>2. file_desc' \in [Process -> Table] /\ lost' \in [Sector -> Nat]
    BY <1>2, <1>4 DEF NoFiles
  <2> QED
    BY <1>1, <1>2, <1>3, <2>1, <2>2 DEF Types, Slot
<1>6. CallIs(call, disk)' /\ InCall' = {}
  BY <1>2 DEF CallIs, InCall, Idle
<1>7. Listed' = Listed /\ EntriesDiffer'
  BY <1>1, <1>2 DEF Listed, EntriesDiffer
<1>8. Files' \in SUBSET Files
  BY <1>3, <1>7 DEF Files
<1>9. Apart(Files', disk, free_map, {})
  <2>1. {} \in SUBSET InCall
    OBVIOUS
  <2> QED
    BY <1>1, <1>8, <2>1, ApartShrink
<1>10. Apart(Files, disk, free_map, InCall)'
  BY <1>2, <1>6, <1>9
<1>11. CopiesOK'
  BY <1>3 DEF CopiesOK
<1>12. CountsOK'
  <2>1. \A t \in Sector : lost'[t] = 0 /\ HeldIn(file_desc', t) = 0
    BY <1>2, HeldNone
  <2>2. \A t : Pending(call', t) = 0
    BY <1>2 DEF Pending, Idle
  <2>3. \A t : CountIn(open_inodes', t) = 0
    BY <1>3 DEF CountIn
  <2> QED
    BY <2>1, <2>2, <2>3 DEF CountsOK
<1> QED
  BY <1>5, <1>6, <1>7, <1>10, <1>11, <1>12 DEF FInv

LEMMA FInvInit == Init => FInv
<1> SUFFICES ASSUME Init PROVE FInv
  OBVIOUS
<1>1. DOMAIN open_inodes = {} /\ open_inodes = <<>>
  BY DEF Init
<1>2. <<>> \in Table
  BY Limits DEF Table
<1>3. Types
  <2>1. open_inodes \in [DOMAIN open_inodes ->
                           [open_cnt : Nat \ {0}, removed : BOOLEAN, data : Inode]]
    BY <1>1
  <2>2. file_desc \in [Process -> Table] /\ lost \in [Sector -> Nat]
    BY <1>2 DEF Init, NoFiles
  <2>3. disk \in [Sector -> Inode \cup {"data"}] /\ free_map \subseteq Sector
    BY DEF Init
  <2>4. entries \in [Slot -> [name : Name, sector : Sector] \cup {NULL}]
    BY DEF Init
  <2> QED
    BY <1>1, <2>1, <2>2, <2>3, <2>4 DEF Types
<1>4. CallIs(call, disk) /\ InCall = {}
  BY DEF Init, CallIs, InCall, Idle
<1>5. Listed = {} /\ EntriesDiffer
  BY DEF Init, Listed, EntriesDiffer
<1>6. Files = {}
  BY <1>1, <1>5 DEF Files
<1>7. Apart(Files, disk, free_map, InCall)
  BY <1>4, <1>6 DEF Apart
<1>8. CopiesOK
  BY <1>1 DEF CopiesOK
<1>9. CountsOK
  <2>1. \A t \in Sector : lost[t] = 0 /\ HeldIn(file_desc, t) = 0
    BY HeldNone DEF Init
  <2>2. \A t : Pending(call, t) = 0
    BY DEF Init, Pending, Idle
  <2>3. \A t : CountIn(open_inodes, t) = 0
    BY <1>1 DEF CountIn
  <2> QED
    BY <2>1, <2>2, <2>3 DEF CountsOK
<1> QED
  BY <1>3, <1>4, <1>5, <1>7, <1>8, <1>9 DEF FInv

LEMMA FInvNext ==
  FInv /\ [Next]_vars =>
    FInv' /\ (Leaked' \subseteq Leaked \/ Crash \/ (Created /\ AddFails))
<1> SUFFICES ASSUME FInv, [Next]_vars
             PROVE  FInv' /\ (Leaked' \subseteq Leaked \/ Crash \/ (Created /\ AddFails))
  OBVIOUS
<1>1. ASSUME NEW name \in Name \cup {Bad}, NEW n \in 0 .. MaxLength, Create(name, n)
      PROVE  FInv' /\ Leaked' \subseteq Leaked
  BY <1>1, CreateStep
<1>2. CASE AllocateData
  BY <1>2, AllocateStep
<1>3. CASE WriteInode
  BY <1>3, WriteInodeStep
<1>4. CASE WriteZeros
  BY <1>4, WriteZerosStep
<1>5. CASE DirAdd
  BY <1>5, DirAddStep
<1>6. CASE InodeClose
  BY <1>6, InodeCloseStep
<1>7. CASE ReleaseNext
  BY <1>7, ReleaseStep
<1>8. ASSUME NEW p \in Process, Open(p) \/ Write(p) \/ Close(p) \/ Exit(p)
      PROVE  FInv' /\ Leaked' \subseteq Leaked
  BY <1>8, OpenStep, WriteStep, CloseStep, ExitStep
<1>9. CASE RemoveFile
  BY <1>9, RemoveStep
<1>10. CASE Crash
  BY <1>10, CrashStep
<1>11. CASE UNCHANGED vars
  <2>1. UNCHANGED <<disk, entries, free_map, open_inodes, file_desc, lost, call>>
    BY <1>11 DEF vars, diskVars, fileVars
  <2>2. Files' = Files /\ EntriesDiffer' /\ CopiesOK'
    BY <2>1, FilesStay DEF FInv
  <2>3. CountsOK'
    BY <2>1 DEF FInv, CountsOK
  <2>4. InCall' = InCall /\ CallIs(call, disk)' /\ Types'
    BY <2>1 DEF FInv, InCall, Sectors, Extent, Types, Slot
  <2>5. Apart(Files, disk, free_map, InCall)' /\ Leaked' \subseteq Leaked
    BY <2>1, <2>2, <2>4, LeakedIs, LeakedIsNext DEF FInv
  <2> QED
    BY <2>2, <2>3, <2>4, <2>5 DEF FInv
<1> QED
  BY <1>1, <1>2, <1>3, <1>4, <1>5, <1>6, <1>7, <1>8, <1>9, <1>10, <1>11 DEF Next

-----------------------------------------------------------------------------
(* The theorems.                                                           *)

(* FInv is an invariant of create, open, write, remove and close, of the   *)
(* steps between their writes to the disk, and of a crash between them.    *)
THEOREM Invariance == Spec => []FInv
BY FInvInit, FInvNext, PTL DEF Spec

(* Whenever the machine stops, the directory names inodes that have been   *)
(* written, in sectors that the free map has as used, and no two entries   *)
(* share a name or a sector (filesys.c:46, directory.c:117, inode.c:57).   *)
THEOREM DiskStaysSound == Spec => []DiskIsSound
<1>1. FInv => DiskIsSound
  <2> SUFFICES ASSUME FInv, NEW k \in Slot, entries[k] # NULL
               PROVE  /\ disk[entries[k].sector] \in Inode
                      /\ Sectors(entries[k].sector, disk[entries[k].sector])
                           \subseteq free_map
                      /\ \A l \in Slot \ {k} : entries[l] # NULL =>
                           /\ entries[l].name # entries[k].name
                           /\ Sectors(entries[l].sector, disk[entries[l].sector])
                                \cap Sectors(entries[k].sector, disk[entries[k].sector])
                                = {}
    BY DEF DiskIsSound
  <2>1. Apart(Files, disk, free_map, InCall) /\ EntriesDiffer
    BY DEF FInv
  <2>2. \A l \in Slot : entries[l] # NULL => entries[l].sector \in Files
    BY DEF Files, Listed
  <2> QED
    BY <2>1, <2>2 DEF Apart, EntriesDiffer
<1> QED
  BY <1>1, Invariance, PTL

(* A file keeps its sectors as long as anybody has it open, also after it  *)
(* was removed; the inode in memory is the one on the disk; and open_cnt   *)
(* counts exactly those who will close it (inode.c:110, 158-184).          *)
THEOREM OpenFilesStaySound == Spec => []OpenFilesAreSound
<1>1. FInv => OpenFilesAreSound
  <2> SUFFICES ASSUME FInv PROVE OpenFilesAreSound
    OBVIOUS
  <2>1. Apart(Files, disk, free_map, InCall) /\ CopiesOK
    BY DEF FInv
  <2>2. OpenFilesKeepSectors
    <3>1. InCall \subseteq free_map
      BY <2>1 DEF Apart
    <3>2. ASSUME NEW s \in DOMAIN open_inodes
          PROVE  /\ disk[s] = open_inodes[s].data
                 /\ open_inodes[s].removed <=> s \notin Listed
                 /\ Sectors(s, disk[s]) \subseteq free_map
                 /\ Sectors(s, disk[s]) \cap InCall = {}
                 /\ \A t \in (DOMAIN open_inodes \cup Listed) \ {s} :
                      Sectors(t, disk[t]) \cap Sectors(s, disk[s]) = {}
      <4>1. s \in Files
        BY DEF Files
      <4>2. /\ Sectors(s, disk[s]) \subseteq free_map
            /\ Sectors(s, disk[s]) \cap InCall = {}
            /\ \A t \in Files \ {s} : Sectors(t, disk[t]) \cap Sectors(s, disk[s]) = {}
        BY <2>1, <4>1 DEF Apart
      <4> QED
        BY <2>1, <4>2 DEF CopiesOK, Files
    <3> QED
      BY <3>1, <3>2 DEF OpenFilesKeepSectors
  <2>3. CountsAreExact
    BY CountsAre DEF FInv
  <2> QED
    BY <2>2, <2>3 DEF OpenFilesAreSound
<1> QED
  BY <1>1, Invariance, PTL

(* Sectors become unreachable only in a crash and in any create whose      *)
(* dir_add() fails once the data is allocated (filesys.c:52-55), because   *)
(* the directory is full, the name exists or it is invalid: every other    *)
(* call, the last close of a removed file among them, gives back or keeps  *)
(* track of all it took.                                                   *)
THEOREM LeaksAreKnown == Spec => OnlyKnownLeaks
<1>1. FInv /\ [Next]_vars =>
        [Leaked' \subseteq Leaked \/ Crash \/ (Created /\ AddFails)]_vars
  BY FInvNext
<1> QED
  BY <1>1, Invariance, PTL DEF Spec, OnlyKnownLeaks
=============================================================================
