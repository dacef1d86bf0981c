-------------------------- MODULE StudyQueueProofs --------------------------
(***************************************************************************)
(* Proofs about StudyQueue, for any cards, settings, page sizes and grades.*)
(***************************************************************************)
EXTENDS StudyQueue, FiniteSetTheorems, TLAPS

(* The smaller and the larger of two numbers. *)
LEMMA TwoNumbers ==
    ASSUME NEW a \in Int, NEW b \in Int
    PROVE  /\ Least({a, b}) = IF a <= b THEN a ELSE b
           /\ Most({a, b}) = IF a <= b THEN b ELSE a
  BY DEF Least, Most

(* Positions are totally ordered. *)
Key == Int \X Int \X Int

LEMMA LessIs ==
    ASSUME NEW a \in Key, NEW b \in Key
    PROVE  Less(a, b) <=> \/ a[1] < b[1]
                          \/ a[1] = b[1] /\ a[2] < b[2]
                          \/ a[1] = b[1] /\ a[2] = b[2] /\ a[3] < b[3]
<1>1. 1 .. 3 = {1, 2, 3} /\ 1 .. 0 = {} /\ 1 .. 1 = {1} /\ 1 .. 2 = {1, 2}
  OBVIOUS
<1>2. 1 - 1 = 0 /\ 2 - 1 = 1 /\ 3 - 1 = 2
  OBVIOUS
<1> QED BY <1>1, <1>2 DEF Less

LEMMA LessOrder ==
    ASSUME NEW a \in Key, NEW b \in Key, NEW c \in Key
    PROVE  /\ ~ Less(a, a)
           /\ a = b \/ Less(a, b) \/ Less(b, a)
           /\ Less(a, b) /\ Less(b, c) => Less(a, c)
<1>1. a = <<a[1], a[2], a[3]>> /\ b = <<b[1], b[2], b[3]>>
  BY DEF Key
<1>2. a[1] \in Int /\ a[2] \in Int /\ a[3] \in Int /\ b[1] \in Int /\ b[2] \in Int
      /\ b[3] \in Int /\ c[1] \in Int /\ c[2] \in Int /\ c[3] \in Int
  BY DEF Key
<1> QED BY <1>1, <1>2, LessIs

(* Keys that tell the cards of a set apart. *)
Keyed(S, key) ==
    /\ IsFiniteSet(S)
    /\ \A c \in S : key[c] \in Key
    /\ \A c, d \in S : key[c] = key[d] => c = d

Rank(S, key, c) == Cardinality({d \in S : Less(key[d], key[c])})

(* The ranks of n cards are 0 .. n - 1, in the order of the keys. *)
LEMMA RankIs ==
    ASSUME NEW S, NEW key, Keyed(S, key)
    PROVE  /\ Cardinality(S) \in Nat
           /\ \A c \in S : Rank(S, key, c) \in 0 .. Cardinality(S) - 1
           /\ \A c, d \in S : Less(key[c], key[d]) <=> Rank(S, key, c) < Rank(S, key, d)
           /\ \A c, d \in S : Rank(S, key, c) = Rank(S, key, d) => c = d
           /\ \A i \in 0 .. Cardinality(S) - 1 : \E c \in S : Rank(S, key, c) = i
<1> DEFINE n == Cardinality(S)
           Below(c) == {d \in S : Less(key[d], key[c])}
<1>1. n \in Nat
  BY FS_CardinalityType DEF Keyed
<1>2. ASSUME NEW c \in S
      PROVE  IsFiniteSet(Below(c)) /\ Rank(S, key, c) \in 0 .. n - 1
  <2>1. Below(c) \subseteq S \ {c}
    BY LessOrder DEF Keyed
  <2>2. IsFiniteSet(S \ {c}) /\ Cardinality(S \ {c}) = n - 1
    BY FS_RemoveElement DEF Keyed
  <2>3. IsFiniteSet(Below(c)) /\ Cardinality(Below(c)) <= n - 1
    BY <2>1, <2>2, FS_Subset
  <2>4. Cardinality(Below(c)) \in Nat
    BY <2>3, FS_CardinalityType
  <2> QED BY <1>1, <2>3, <2>4 DEF Rank
<1>3. ASSUME NEW c \in S, NEW d \in S, Less(key[c], key[d])
      PROVE  Rank(S, key, c) < Rank(S, key, d)
  <2>1. Below(c) \subseteq Below(d) /\ c \in Below(d) /\ c \notin Below(c)
    BY <1>3, LessOrder DEF Keyed
  <2>2. Cardinality(Below(c)) <= Cardinality(Below(d)) /\ Cardinality(Below(c)) # Cardinality(Below(d))
    BY <1>2, <2>1, FS_Subset
  <2>3. Cardinality(Below(c)) \in Int /\ Cardinality(Below(d)) \in Int
    BY <1>2 DEF Rank
  <2> QED BY <2>2, <2>3 DEF Rank
<1>4. \A c, d \in S : c = d \/ Less(key[c], key[d]) \/ Less(key[d], key[c])
  BY LessOrder DEF Keyed
<1>5. ASSUME NEW c \in S PROVE Rank(S, key, c) \in Int
  <2>1. Rank(S, key, c) \in 0 .. n - 1
    BY <1>2
  <2> QED BY <1>1, <2>1
<1>6. \A c, d \in S : Rank(S, key, c) = Rank(S, key, d) => c = d
  BY <1>3, <1>4, <1>5
<1>7. \A c, d \in S : Less(key[c], key[d]) <=> Rank(S, key, c) < Rank(S, key, d)
  BY <1>3, <1>4, <1>5
<1>8. \A i \in 0 .. n - 1 : \E c \in S : Rank(S, key, c) = i
  <2> DEFINE f == [c \in S |-> Rank(S, key, c)]
             T == 0 .. n - 1
  <2>1. IsFiniteSet(T) /\ Cardinality(T) = n
    BY <1>1, FS_Interval
  <2>2. f \in Injection(S, T)
    <3>1. f \in [S -> T]
      BY <1>2
    <3>2. \A c, d \in S : f[c] = f[d] => c = d
      BY <1>6
    <3> QED BY <3>1, <3>2 DEF Injection, IsInjective
  <2>3. f \in Surjection(S, T)
    BY <2>1, <2>2, FS_Injection
  <2> QED BY <2>3 DEF Surjection
<1> QED BY <1>1, <1>2, <1>6, <1>7, <1>8

(* Ranked lists a set in the order of its keys. *)
LEMMA RankedIs ==
    ASSUME NEW S, NEW key, Keyed(S, key)
    PROVE  LET r == Ranked(S, key) IN
           /\ r \in [1 .. Cardinality(S) -> S]
           /\ \A c \in S : \E i \in 1 .. Cardinality(S) : r[i] = c
           /\ \A i, j \in 1 .. Cardinality(S) : i < j <=> Less(key[r[i]], key[r[j]])
<1> DEFINE n == Cardinality(S)
           r == Ranked(S, key)
<1>1. n \in Nat
  BY RankIs
<1>2. ASSUME NEW i \in 1 .. n PROVE r[i] \in S /\ Rank(S, key, r[i]) = i - 1
  <2>1. r[i] = CHOOSE c \in S : Rank(S, key, c) = i - 1
    BY DEF Ranked, Rank
  <2>2. i - 1 \in 0 .. n - 1
    BY <1>1
  <2>3. \E c \in S : Rank(S, key, c) = i - 1
    BY <2>2, RankIs
  <2> QED BY <2>1, <2>3
<1>3. r \in [1 .. n -> S]
  BY <1>2 DEF Ranked
<1>4. ASSUME NEW c \in S PROVE \E i \in 1 .. n : r[i] = c
  <2>1. Rank(S, key, c) \in 0 .. n - 1
    BY RankIs
  <2>2. Rank(S, key, c) + 1 \in 1 .. n /\ (Rank(S, key, c) + 1) - 1 = Rank(S, key, c)
    BY <1>1, <2>1
  <2>3. r[Rank(S, key, c) + 1] = c
    BY <1>2, <2>2, RankIs
  <2> QED BY <2>2, <2>3
<1>5. ASSUME NEW i \in 1 .. n, NEW j \in 1 .. n
      PROVE  i < j <=> Less(key[r[i]], key[r[j]])
  <2>1. Less(key[r[i]], key[r[j]]) <=> i - 1 < j - 1
    BY <1>2, RankIs
  <2> QED BY <1>1, <2>1
<1> QED BY <1>3, <1>4, <1>5

(* A set of integers in its order. *)
Place(i) == <<0, 0, i>>

LEMMA PlaceIs ==
    ASSUME NEW S, S \subseteq Int, IsFiniteSet(S)
    PROVE  /\ Keyed(S, [i \in S |-> Place(i)])
           /\ \A i, j \in S : Less([k \in S |-> Place(k)][i], [k \in S |-> Place(k)][j]) <=> i < j
<1>1. ASSUME NEW i \in S
      PROVE  Place(i) \in Key /\ Place(i)[1] = 0 /\ Place(i)[2] = 0 /\ Place(i)[3] = i
  BY DEF Place, Key
<1>2. \A i, j \in S : Less(Place(i), Place(j)) <=> i < j
  BY <1>1, LessIs
<1>3. \A i, j \in S : Place(i) = Place(j) => i = j
  BY DEF Place
<1> QED BY <1>1, <1>2, <1>3 DEF Keyed

(* A non-empty set of naturals has a least element. *)
LEMMA LeastIs ==
    ASSUME NEW S, S \subseteq Nat, S # {}
    PROVE  Least(S) \in S /\ \A y \in S : Least(S) <= y
<1>1. PICK x \in S : TRUE
  OBVIOUS
<1> DEFINE T == {y \in S : y <= x}
           key == [i \in T |-> Place(i)]
<1>2. IsFiniteSet(T) /\ T \subseteq Int /\ T # {}
  <2>1. x \in Nat /\ \A y \in T : y \in Nat /\ y <= x
    BY <1>1
  <2>2. x \in T /\ \A y \in T : y \in 0 .. x
    <3>1. x <= x /\ x \in S
      BY <1>1, <2>1
    <3>2. ASSUME NEW y \in T PROVE y \in 0 .. x
      <4>1. y \in Nat /\ y <= x /\ x \in Nat
        BY <2>1
      <4> QED BY <4>1
    <3> QED BY <3>1, <3>2
  <2>3. IsFiniteSet(0 .. x)
    BY <2>1, FS_Interval
  <2>4. IsFiniteSet(T)
    BY <2>2, <2>3, FS_Subset
  <2>5. T \subseteq Int
    <3> HIDE DEF T
    <3> QED BY <2>1
  <2> QED BY <2>2, <2>4, <2>5
<1>3. Keyed(T, key) /\ \A i, j \in T : Less(key[i], key[j]) <=> i < j
  BY <1>2, PlaceIs
<1> HIDE DEF key, T
<1>4. \E m \in T : Rank(T, key, m) = 0
  <2>1. Cardinality(T) \in Nat /\ Cardinality(T) # 0
    BY <1>2, FS_EmptySet, FS_CardinalityType
  <2>2. 0 \in 0 .. Cardinality(T) - 1
    BY <2>1
  <2>3. \A i \in 0 .. Cardinality(T) - 1 : \E m \in T : Rank(T, key, m) = i
    BY <1>3, RankIs
  <2> QED BY <2>2, <2>3
<1>5. PICK m \in T : Rank(T, key, m) = 0
  BY <1>4
<1>6. ASSUME NEW y \in T PROVE m <= y
  <2>1. Rank(T, key, y) >= 0
    <3>1. Rank(T, key, y) \in 0 .. Cardinality(T) - 1
      BY <1>3, RankIs
    <3> QED BY <3>1
  <2>2. ~ Less(key[y], key[m])
    BY <1>3, <1>5, <2>1, RankIs
  <2>3. m \in Int /\ y \in Int /\ (Less(key[y], key[m]) <=> y < m)
    BY <1>2, <1>3, <1>5
  <2> QED BY <2>2, <2>3
<1>7. m \in S /\ \A y \in S : m <= y
  <2>1. m \in S /\ m <= x
    BY <1>5 DEF T
  <2>2. ASSUME NEW y \in S PROVE m <= y
    <3>1. CASE y <= x
      BY <1>6, <3>1 DEF T
    <3>2. CASE ~ y <= x
      <4>1. m \in Nat /\ x \in Nat /\ y \in Nat
        BY <1>1, <2>1
      <4> QED BY <2>1, <3>2, <4>1
    <3> QED BY <3>1, <3>2
  <2> QED BY <2>1, <2>2
<1> QED BY <1>7 DEF Least

(* The first rows behind a position: a full page, or all there are; and a   *)
(* page leaves out only what is behind its last row.                       *)
RowsBehind(S, key, pos) == {c \in S : Less(pos, key[c])}

LEMMA BehindIs ==
    ASSUME NEW S, NEW key, Keyed(S, key), NEW pos \in Key, NEW limit \in Nat
    PROVE  LET T == RowsBehind(S, key, pos)
               rows == Behind(S, key, pos, limit)
           IN
           /\ rows \in Seq(T)
           /\ Len(rows) = IF Cardinality(T) <= limit THEN Cardinality(T) ELSE limit
           /\ \A i, j \in 1 .. Len(rows) : i < j <=> Less(key[rows[i]], key[rows[j]])
           /\ Len(rows) < limit => \A c \in T : \E i \in 1 .. Len(rows) : rows[i] = c
           /\ \A m \in 1 .. Len(rows), c \in T :
                 ~ Less(key[rows[m]], key[c]) => \E i \in 1 .. m : rows[i] = c
<1> DEFINE T == RowsBehind(S, key, pos)
           n == Cardinality(T)
           r == Ranked(T, key)
           rows == Behind(S, key, pos, limit)
           len == IF n <= limit THEN n ELSE limit
<1>1. Keyed(T, key)
  BY FS_Subset DEF Keyed, RowsBehind
<1>2. n \in Nat
  BY <1>1, RankIs
<1>3. /\ r \in [1 .. n -> T]
      /\ \A c \in T : \E i \in 1 .. n : r[i] = c
      /\ \A i, j \in 1 .. n : i < j <=> Less(key[r[i]], key[r[j]])
  BY <1>1, RankedIs
<1>4. r \in Seq(T) /\ Len(r) = n
  BY <1>2, <1>3
<1> HIDE DEF n, r, T
<1>5. rows = Upto(r, limit)
  BY DEF Behind, RowsBehind, r, T
<1> HIDE DEF rows
<1>6. len \in 0 .. n
  BY <1>2
<1>7. rows \in Seq(T) /\ Len(rows) = len /\ \A i \in 1 .. len : rows[i] = r[i]
  BY <1>2, <1>4, <1>5, <1>6 DEF Upto
<1>8. \A i, j \in 1 .. len : i < j <=> Less(key[rows[i]], key[rows[j]])
  BY <1>2, <1>3, <1>6, <1>7
<1>9. ASSUME NEW m \in 1 .. len, NEW c \in T, ~ Less(key[rows[m]], key[c])
      PROVE  \E i \in 1 .. m : rows[i] = c
  <2>1. PICK i \in 1 .. n : r[i] = c
    BY <1>3
  <2>2. m \in 1 .. n
    BY <1>2, <1>6
  <2>3. ~ m < i
    BY <1>3, <1>7, <1>9, <2>1, <2>2
  <2>4. i \in 1 .. m /\ i \in 1 .. len
    BY <1>2, <1>6, <2>2, <2>3
  <2> QED BY <1>7, <2>1, <2>4
<1>10. len < limit => \A c \in T : \E i \in 1 .. len : rows[i] = c
  BY <1>2, <1>3, <1>7
<1> QED BY <1>7, <1>8, <1>9, <1>10 DEF n, T, rows

LEMMA LastPage ==
    ASSUME NEW S, NEW key, Keyed(S, key), NEW pos \in Key, NEW limit \in Nat,
           Len(Behind(S, key, pos, limit)) < limit, NEW c \in S, Less(pos, key[c])
    PROVE  \E i \in 1 .. Len(Behind(S, key, pos, limit)) : Behind(S, key, pos, limit)[i] = c
<1>1. c \in RowsBehind(S, key, pos)
  BY DEF RowsBehind
<1> QED BY <1>1, BehindIs

(* The interleaving takes i rows in i steps, from each source no more than  *)
(* it has.                                                                 *)
LEMMA InterleaveIs ==
    ASSUME NEW R \in Nat, NEW N \in Nat, NEW limit \in Nat
    PROVE  LET f == interleave(R, N, limit)
               total == IF R + N <= limit THEN R + N ELSE limit
           IN
           /\ \A i \in 0 .. total : /\ f[i].rev \in 0 .. R /\ f[i].new \in 0 .. N
                                    /\ f[i].rev + f[i].new = i
           /\ \A i, j \in 0 .. total : i <= j => f[i].rev <= f[j].rev /\ f[i].new <= f[j].new
<1> DEFINE total == IF R + N <= limit THEN R + N ELSE limit
           Ahead(j) == {k \in 1 .. N : k * R < j * N}
           place(j) == j + Cardinality(Ahead(j))
           Taken(i) == {j \in 1 .. R : place(j) <= i}
           t(i) == Cardinality(Taken(i))
           f == interleave(R, N, limit)
<1>1. total \in Nat /\ Least({R + N, limit}) = total
  BY TwoNumbers
<1>2. \A i \in 0 .. total : f[i] = [rev |-> t(i), new |-> i - t(i)]
  BY <1>1 DEF interleave
<1>3. IsFiniteSet(1 .. N) /\ Cardinality(1 .. N) = N /\ IsFiniteSet(1 .. R) /\ Cardinality(1 .. R) = R
  BY FS_Interval
<1>4. ASSUME NEW j \in 1 .. R
      PROVE  IsFiniteSet(Ahead(j)) /\ Cardinality(Ahead(j)) \in 0 .. N
  <2>1. IsFiniteSet(Ahead(j)) /\ Cardinality(Ahead(j)) <= Cardinality(1 .. N)
    BY <1>3, FS_Subset
  <2> QED BY <1>3, <2>1, FS_CardinalityType
<1>5. ASSUME NEW j \in 1 .. R, NEW k \in 1 .. R, j < k
      PROVE  Cardinality(Ahead(j)) <= Cardinality(Ahead(k))
  <2>1. j * N <= k * N
    <3>1. j \in Nat /\ k \in Nat /\ k - j \in Nat
      BY <1>5
    <3>2. \A x, y \in Nat : (x + y) * N = x * N + y * N /\ y * N >= 0 /\ x * N \in Nat
      OBVIOUS
    <3>3. (j + (k - j)) * N = j * N + (k - j) * N /\ (k - j) * N >= 0 /\ j * N \in Nat
          /\ (k - j) * N \in Nat
      BY <3>1, <3>2
    <3>4. j + (k - j) = k
      BY <3>1
    <3> QED BY <3>3, <3>4
  <2>2. Ahead(j) \subseteq Ahead(k)
    BY <2>1
  <2> QED BY <1>4, <2>2, FS_Subset
<1> HIDE DEF Ahead
<1>6. \A j \in 1 .. R : place(j) \in j .. j + N
  BY <1>4
<1>7. \A j, k \in 1 .. R : j < k => place(j) < place(k)
  BY <1>4, <1>5
<1> HIDE DEF place
<1>8. ASSUME NEW i \in 0 .. total
      PROVE  IsFiniteSet(Taken(i)) /\ t(i) \in 0 .. R /\ t(i) <= i /\ i - t(i) <= N
  <2>1. IsFiniteSet(Taken(i)) /\ Cardinality(Taken(i)) <= Cardinality(1 .. R)
    BY <1>3, FS_Subset
  <2>2. t(i) \in Nat
    BY <2>1, FS_CardinalityType
  <2>3. t(i) <= i
    <3>1. Taken(i) \subseteq 1 .. i
      BY <1>1, <1>6
    <3>2. IsFiniteSet(1 .. i) /\ Cardinality(1 .. i) = i
      BY <1>1, FS_Interval
    <3> QED BY <3>1, <3>2, FS_Subset
  <2>4. i - t(i) <= N
    <3>1. CASE i <= N
      BY <1>1, <2>2, <3>1
    <3>2. CASE i > N
      <4>1. i - N \in Nat /\ i - N <= R
        BY <1>1, <3>2
      <4>2. 1 .. i - N \subseteq Taken(i)
        BY <1>1, <1>6, <4>1
      <4>3. Cardinality(1 .. i - N) = i - N
        BY <4>1, FS_Interval
      <4>4. Cardinality(1 .. i - N) <= t(i)
        BY <2>1, <4>2, FS_Subset
      <4> QED BY <1>1, <2>2, <4>1, <4>3, <4>4
    <3> QED BY <1>1, <3>1, <3>2
  <2> QED BY <1>3, <2>1, <2>2, <2>3, <2>4
<1>9. ASSUME NEW i \in 0 .. total, NEW j \in 0 .. total, i <= j
      PROVE  t(i) <= t(j) /\ t(j) - t(i) <= j - i
  <2> DEFINE D == Taken(j) \ Taken(i)
  <2>1. Taken(i) \subseteq Taken(j)
    BY <1>1, <1>6, <1>9
  <2>2. t(i) <= t(j)
    BY <1>8, <2>1, FS_Subset
  <2>3. IsFiniteSet(D) /\ Cardinality(D) = t(j) - t(i)
    <3>1. Taken(j) \cap Taken(i) = Taken(i)
      BY <2>1
    <3> QED BY <1>8, <3>1, FS_Difference
  <2>4. Cardinality(D) <= j - i
    <3> DEFINE g == [x \in D |-> place(x)]
               T == i + 1 .. j
    <3>1. IsFiniteSet(T) /\ Cardinality(T) = j - i
      <4>1. i + 1 \in Int /\ j \in Int /\ i \in Int
        BY <1>1
      <4>2. IsFiniteSet(T) /\ Cardinality(T) = IF i + 1 > j THEN 0 ELSE j - (i + 1) + 1
        BY <4>1, FS_Interval
      <4> QED BY <1>9, <4>1, <4>2
    <3>2. \A x \in D : x \in 1 .. R /\ place(x) \in T
      BY <1>1, <1>6
    <3>3. \A x, y \in D : place(x) = place(y) => x = y
      BY <1>6, <1>7, <3>2
    <3>4. g \in [D -> T]
      BY <3>2
    <3>5. g \in Injection(D, T)
      BY <3>3, <3>4 DEF Injection, IsInjective
    <3> QED BY <3>1, <3>5, FS_Injection
  <2> QED BY <2>2, <2>3, <2>4
<1> HIDE DEF Taken, f
<1>10. ASSUME NEW i \in 0 .. total PROVE f[i].rev = t(i) /\ f[i].new = i - t(i)
  <2>1. f[i] = [rev |-> t(i), new |-> i - t(i)]
    BY <1>2
  <2> HIDE DEF t
  <2> QED BY <2>1
<1> HIDE DEF total
<1>11. ASSUME NEW i \in 0 .. total
       PROVE  /\ f[i].rev \in 0 .. R /\ f[i].new \in 0 .. N
              /\ f[i].rev + f[i].new = i
  <2>1. i \in Nat /\ t(i) \in 0 .. R /\ t(i) <= i /\ i - t(i) <= N
    BY <1>1, <1>8
  <2> QED BY <1>10, <2>1
<1>12. ASSUME NEW i \in 0 .. total, NEW j \in 0 .. total, i <= j
       PROVE  f[i].rev <= f[j].rev /\ f[i].new <= f[j].new
  <2>1. i \in Nat /\ t(i) \in Nat /\ j \in Nat /\ t(j) \in Nat
    BY <1>1, <1>8
  <2>2. t(i) <= t(j) /\ t(j) - t(i) <= j - i
    BY <1>9, <1>12
  <2> QED BY <1>10, <2>1, <2>2
<1> QED BY <1>11, <1>12 DEF f, total

(* Each row of an interleaving is the next one of either page. *)
Orderly(taken, total) ==
    /\ \A i \in 0 .. total : /\ taken[i].rev \in Nat /\ taken[i].new \in Nat
                             /\ taken[i].rev + taken[i].new = i
    /\ \A i, j \in 0 .. total :
          i <= j => taken[i].rev <= taken[j].rev /\ taken[i].new <= taken[j].new
NextRow(revs, news, taken, total, i, c) ==
    \/ /\ taken[i].rev = taken[i - 1].rev + 1 /\ taken[i].new = taken[i - 1].new
       /\ c = revs[taken[i].rev] /\ taken[i].rev \in 1 .. taken[total].rev
    \/ /\ taken[i].rev = taken[i - 1].rev /\ taken[i].new = taken[i - 1].new + 1
       /\ c = news[taken[i].new] /\ taken[i].new \in 1 .. taken[total].new

LEMMA MixedStep ==
    ASSUME NEW revs, NEW news, NEW taken, NEW total \in Nat, Orderly(taken, total),
           NEW i \in 1 .. total
    PROVE  NextRow(revs, news, taken, total, i, Mixed(revs, news, taken, total)[i])
<1> DEFINE m == Mixed(revs, news, taken, total)
<1>1. i - 1 \in 0 .. total /\ i \in 0 .. total /\ total \in 0 .. total /\ i - 1 <= i /\ i <= total
  OBVIOUS
<1>2. /\ taken[i - 1].rev \in Nat /\ taken[i - 1].new \in Nat
      /\ taken[i].rev \in Nat /\ taken[i].new \in Nat
      /\ taken[total].rev \in Nat /\ taken[total].new \in Nat
      /\ taken[i - 1].rev + taken[i - 1].new = i - 1 /\ taken[i].rev + taken[i].new = i
  BY <1>1 DEF Orderly
<1>3. /\ taken[i - 1].rev <= taken[i].rev /\ taken[i - 1].new <= taken[i].new
      /\ taken[i].rev <= taken[total].rev /\ taken[i].new <= taken[total].new
  BY <1>1 DEF Orderly
<1>4. m[i] = IF taken[i].rev > taken[i - 1].rev THEN revs[taken[i].rev] ELSE news[taken[i].new]
  BY DEF Mixed
<1> HIDE DEF m
<1>5. NextRow(revs, news, taken, total, i, m[i])
  BY <1>1, <1>2, <1>3, <1>4 DEF NextRow
<1> QED BY <1>5 DEF m

(* The interleaved rows are the first rows of each page, as many as were taken from it.     *)
LEMMA MixedIs ==
    ASSUME NEW revs, NEW news, NEW taken, NEW total \in Nat,
           Orderly(taken, total)
    PROVE  LET m == Mixed(revs, news, taken, total) IN
           /\ \A i \in 1 .. total : \/ \E j \in 1 .. taken[total].rev : m[i] = revs[j]
                                   \/ \E k \in 1 .. taken[total].new : m[i] = news[k]
           /\ \A j \in 1 .. taken[total].rev : \E i \in 1 .. total : m[i] = revs[j]
           /\ \A k \in 1 .. taken[total].new : \E i \in 1 .. total : m[i] = news[k]
<1> USE DEF Orderly
<1> DEFINE m == Mixed(revs, news, taken, total)
<1>1. ASSUME NEW i \in 1 .. total
      PROVE  /\ i - 1 \in 0 .. total /\ i \in 0 .. total /\ total \in 0 .. total
             /\ \/ /\ taken[i].rev = taken[i - 1].rev + 1 /\ taken[i].new = taken[i - 1].new
                   /\ m[i] = revs[taken[i].rev] /\ taken[i].rev \in 1 .. taken[total].rev
                \/ /\ taken[i].rev = taken[i - 1].rev /\ taken[i].new = taken[i - 1].new + 1
                   /\ m[i] = news[taken[i].new] /\ taken[i].new \in 1 .. taken[total].new
  <2>1. i - 1 \in 0 .. total /\ i \in 0 .. total /\ total \in 0 .. total
    OBVIOUS
  <2>2. \/ /\ taken[i].rev = taken[i - 1].rev + 1 /\ taken[i].new = taken[i - 1].new
           /\ m[i] = revs[taken[i].rev] /\ taken[i].rev \in 1 .. taken[total].rev
        \/ /\ taken[i].rev = taken[i - 1].rev /\ taken[i].new = taken[i - 1].new + 1
           /\ m[i] = news[taken[i].new] /\ taken[i].new \in 1 .. taken[total].new
    <3>1. NextRow(revs, news, taken, total, i, m[i])
      BY MixedStep
    <3> HIDE DEF m
    <3> QED BY <3>1 DEF NextRow
  <2> HIDE DEF m
  <2> QED BY <2>1, <2>2
<1>2. taken[0].rev = 0 /\ taken[0].new = 0
  <2>1. 0 \in 0 .. total
    OBVIOUS
  <2> QED BY <2>1
<1> HIDE DEF m
<1>3. ASSUME NEW j \in 1 .. taken[total].rev PROVE \E i \in 1 .. total : m[i] = revs[j]
  <2> DEFINE S == {i \in 0 .. total : j <= taken[i].rev}
             i == Least(S)
  <2>1. total \in S /\ S \subseteq Nat
    OBVIOUS
  <2>2. i \in S /\ \A y \in S : i <= y
    BY <2>1, LeastIs
  <2> HIDE DEF i
  <2>3. i \in 1 .. total
    BY <1>2, <2>2
  <2>4. i - 1 \notin S
    BY <2>2, <2>3
  <2>5. taken[i].rev = j
    BY <1>1, <2>2, <2>3, <2>4
  <2>6. taken[i - 1].rev < taken[i].rev
    BY <1>1, <2>2, <2>3, <2>4
  <2>7. /\ taken[i].new \in Nat /\ taken[i].rev \in Nat
        /\ taken[i - 1].new \in Nat /\ taken[i - 1].rev \in Nat
    BY <1>1, <2>3
  <2>8. m[i] = revs[j]
    BY <1>1, <2>3, <2>5, <2>6, <2>7
  <2> QED BY <2>3, <2>8
<1>4. ASSUME NEW k \in 1 .. taken[total].new PROVE \E i \in 1 .. total : m[i] = news[k]
  <2> DEFINE S == {i \in 0 .. total : k <= taken[i].new}
             i == Least(S)
  <2>1. total \in S /\ S \subseteq Nat
    OBVIOUS
  <2>2. i \in S /\ \A y \in S : i <= y
    BY <2>1, LeastIs
  <2> HIDE DEF i
  <2>3. i \in 1 .. total
    BY <1>2, <2>2
  <2>4. i - 1 \notin S
    BY <2>2, <2>3
  <2>5. taken[i].new = k
    BY <1>1, <2>2, <2>3, <2>4
  <2>6. taken[i - 1].new < taken[i].new
    BY <1>1, <2>2, <2>3, <2>4
  <2>7. /\ taken[i].new \in Nat /\ taken[i].rev \in Nat
        /\ taken[i - 1].new \in Nat /\ taken[i - 1].rev \in Nat
    BY <1>1, <2>3
  <2>8. m[i] = news[k]
    BY <1>1, <2>3, <2>5, <2>6, <2>7
  <2> QED BY <2>3, <2>8
<1>5. ASSUME NEW i \in 1 .. total
      PROVE  \/ \E j \in 1 .. taken[total].rev : m[i] = revs[j]
             \/ \E k \in 1 .. taken[total].new : m[i] = news[k]
  BY <1>1
<1> QED BY <1>3, <1>4, <1>5 DEF m

(* No row is interleaved twice. *)
LEMMA MixedApart ==
    ASSUME NEW revs, NEW news, NEW taken, NEW total \in Nat,
           Orderly(taken, total),
           \A a, b \in 1 .. taken[total].rev : a < b => revs[a] # revs[b],
           \A a, b \in 1 .. taken[total].new : a < b => news[a] # news[b],
           \A a \in 1 .. taken[total].rev, b \in 1 .. taken[total].new : revs[a] # news[b]
    PROVE  \A i, j \in 1 .. total :
              i < j => Mixed(revs, news, taken, total)[i] # Mixed(revs, news, taken, total)[j]
<1> DEFINE m == Mixed(revs, news, taken, total)
<1>1. ASSUME NEW i \in 1 .. total
      PROVE  \/ /\ taken[i].rev = taken[i - 1].rev + 1
                /\ m[i] = revs[taken[i].rev] /\ taken[i].rev \in 1 .. taken[total].rev
             \/ /\ taken[i].new = taken[i - 1].new + 1
                /\ m[i] = news[taken[i].new] /\ taken[i].new \in 1 .. taken[total].new
  <2>1. NextRow(revs, news, taken, total, i, m[i])
    BY MixedStep
  <2> HIDE DEF m
  <2> QED BY <2>1 DEF NextRow
<1> HIDE DEF m
<1> SUFFICES ASSUME NEW i \in 1 .. total, NEW j \in 1 .. total, i < j PROVE m[i] # m[j]
  BY DEF m
<1>2. i \in 0 .. total /\ j - 1 \in 0 .. total /\ i <= j - 1
  OBVIOUS
<1>3. /\ taken[i].rev <= taken[j - 1].rev /\ taken[i].new <= taken[j - 1].new
      /\ taken[i].rev \in Nat /\ taken[i].new \in Nat
      /\ taken[j - 1].rev \in Nat /\ taken[j - 1].new \in Nat
  BY <1>2 DEF Orderly
<1> QED BY <1>1, <1>3

-----------------------------------------------------------------------------
(* The invariant.                                                          *)

Kinds == {"page", "study", "refill"}
Cursors == [mixed : BOOLEAN, pos : Key, rev : Key, new : Key]
Slots == [card : Card, done : BOOLEAN, repeat : BOOLEAN, kind : -1 .. 3, day : Int]
Grades == [card : Card, rating : Rating, at : Int, kind : -1 .. 3, served : Int]
Sessions == [open : BOOLEAN, deck : BOOLEAN, cursor : Cursors, exhausted : BOOLEAN,
             refilling : BOOLEAN, rounds : 0 .. MaxRounds, steady : BOOLEAN]

(* What a request knows of the settings when it builds its page.           *)
Readable(s) ==
    /\ s.newPerDay \in Nat /\ s.revPerDay \in Nat
    /\ s.priority \in {"due", "new", "mixed"}

FetchInv ==
    \/ fetch = Idle
    \/ /\ fetch.pc = "sent" /\ fetch.kind \in Kinds
       /\ fetch.cursor \in Cursors /\ fetch.rounds \in 0 .. MaxRounds
    \/ /\ fetch.pc = "counted" /\ fetch.kind \in Kinds
       /\ fetch.cursor \in Cursors /\ fetch.rounds \in Nat
       /\ fetch.at \in InitTick .. now /\ Readable(fetch.settings)
       /\ fetch.introduced \in Nat /\ fetch.reviewed \in Nat
    \/ /\ fetch.pc = "answered" /\ fetch.kind \in Kinds
       /\ fetch.cursor \in Cursors /\ fetch.exhausted \in BOOLEAN
       /\ fetch.slots \in Seq(Slots)
       /\ \A i \in DOMAIN fetch.slots : ~fetch.slots[i].done /\ ~fetch.slots[i].repeat

TypeInv ==
    /\ spent \in 0 .. MaxEvents /\ now \in InitTick .. InitTick + spent
    /\ row \in [Card -> Row \cup {NoRow}]
    /\ \A e \in log : e.card \in Card /\ e.before \in 0 .. 3 /\ e.day \in Int
    /\ queue \in Seq(Slots) /\ unsent \in Seq(Grades)
    /\ session \in Sessions
    /\ FetchInv

(* Grades are stored in the order in which they were given; a card answered *)
(* on a day has a row that says so.                                        *)
LogInv ==
    /\ \A e \in log : /\ row[e.card] # NoRow /\ e.day <= Day(row[e.card].last)
                       /\ e.day <= Day(now)
    /\ \A i \in DOMAIN unsent :
          /\ unsent[i].at \in InitTick .. now
          /\ \A e \in log : e.day <= Day(unsent[i].at)
          /\ \A j \in DOMAIN unsent : i <= j => unsent[i].at <= unsent[j].at

(* What the page is doing, and that a request asks from where the session   *)
(* stands.                                                                 *)
PageInv ==
    /\ ~session.open => /\ queue = <<>> /\ ~session.refilling /\ ~session.exhausted
                        /\ session.cursor = AtStart /\ session.rounds = 0
    /\ session.open /\ ~session.deck => session.exhausted
    /\ fetch.pc # "idle" => /\ ~session.exhausted
                            /\ fetch.kind = IF session.open THEN "refill"
                                            ELSE IF session.deck THEN "page" ELSE "study"
    /\ fetch.pc \in {"sent", "counted"} => fetch.cursor = session.cursor
    /\ fetch.pc = "sent" => fetch.rounds = session.rounds
    /\ fetch.pc = "counted" => fetch.rounds = parseExtraRounds(session.rounds)

CardsOf(slots) == {slots[i].card : i \in DOMAIN slots}

(* The cards a request with these counts may be given, over all its pages.  *)
TotalLeft(s, rounds, introduced, reviewed) ==
    RevRemaining(s.revPerDay * (1 + rounds), introduced + reviewed)
NewLeft(s, rounds, introduced, reviewed) ==
    IF TotalLeft(s, rounds, introduced, reviewed) = 0 THEN 0
    ELSE NewRemaining(s.newPerDay * (1 + rounds), introduced)
Offered(s, at, rounds, introduced, reviewed) ==
    newCutoff(s, NewLeft(s, rounds, introduced, reviewed), Start)
        \cup OfferedReviews(s, at, TotalLeft(s, rounds, introduced, reviewed))

(* A card is ahead of a cursor if its position, or its position in its own  *)
(* source when the sources are mixed, comes later.                         *)
Ahead(s, at, cur, c) ==
    IF s.priority # "mixed" THEN Less(cur.pos, SortKey(s, at, c))
    ELSE IF unseen(c) THEN Less(cur.new, NewKey(c))
    ELSE Less(cur.rev, RevKey(s.order, at, c))

Today == Settings(preset, Day(now))
OfferedToday(rounds) ==
    Offered(Today, now, parseExtraRounds(rounds),
            CountNewIntroducedToday(Day(now)), CountReviewedToday(Day(now)))
Answered(c) == ~unseen(c) /\ row[c].last >= DayStart(now)

(* With these cards served, the session may go on from this cursor: what is *)
(* offered and not ahead has been served, and, in the first round, what has *)
(* been served is not met again.  After the last page all has been served.  *)
CanGoOn(rounds, cur, cards) ==
    /\ \A c \in OfferedToday(rounds) : ~Ahead(Today, now, cur, c) => c \in cards
    /\ rounds = 0 => \A c \in cards : Answered(c) \/ ~Ahead(Today, now, cur, c)
Served(rounds, exhausted, cur, cards) ==
    IF exhausted THEN OfferedToday(rounds) \subseteq cards ELSE CanGoOn(rounds, cur, cards)

(* So it is with the session, and will be when the page that was answered is *)
(* swapped in, which in the first round brings a new card unless it is the   *)
(* last; and more than one slot is pending until a refill is asked for.      *)
GoesOn(q, sess, f) ==
    /\ Served(sess.rounds, sess.exhausted, sess.cursor, CardsOf(q))
    /\ f.pc = "answered" =>
          /\ Served(sess.rounds, f.exhausted, f.cursor, CardsOf(q) \cup CardsOf(f.slots))
          /\ ~f.exhausted /\ sess.rounds = 0 => ~(CardsOf(f.slots) \subseteq CardsOf(q))
    /\ sess.open /\ sess.rounds = 0 /\ ~sess.exhausted /\ ~sess.refilling =>
          \E i, j \in Pending(q) : i # j

(* A session to which nothing but grading has happened.                    *)
SteadyInv ==
    session.steady =>
        /\ \A i \in DOMAIN unsent : unsent[i].at = now /\ unsent[i].card \in CardsOf(queue)
        /\ fetch.pc = "counted" =>
              /\ fetch.settings = Today /\ fetch.at = now
              /\ fetch.introduced <= CountNewIntroducedToday(Day(now))
              /\ fetch.reviewed <= CountReviewedToday(Day(now))
        /\ session.deck => GoesOn(queue, session, fetch)
        /\ session.refilling => fetch.pc # "idle"

Inv == TypeInv /\ LogInv /\ PageInv /\ SteadyInv

-----------------------------------------------------------------------------
(* Settings, keys and counts.                                              *)

LEMMA TodayIsReadable ==
    ASSUME NEW p, NEW day
    PROVE  Readable(Settings(p, day))
  BY StudyAssumption DEF Readable, Settings, newPerDay, revPerDay, priority

LEMMA KeysAre ==
    ASSUME TypeInv, NEW s, NEW at \in InitTick .. now, NEW c \in Card
    PROVE  /\ NewKey(c) \in Key /\ NewKey(c)[1] = 0 /\ NewKey(c)[3] = c
           /\ ~unseen(c) => /\ RevKey(s.order, at, c) \in Key
                            /\ RevKey(s.order, at, c)[1] = 0 /\ RevKey(s.order, at, c)[3] = c
           /\ SortKey(s, at, c) \in Key /\ SortKey(s, at, c)[1] >= 0 /\ SortKey(s, at, c)[3] = c
<1>1. c \in Int /\ newCardKey(c) \in Int
  BY StudyAssumption DEF newCardKey, LastPosition
<1>2. ~unseen(c) => revKey(s.order, at, c) \in Int
  <2> SUFFICES ASSUME ~unseen(c) PROVE revKey(s.order, at, c) \in Int
    OBVIOUS
  <2>1. row[c].days \in Int /\ row[c].due \in Int /\ - row[c].days \in Int
    BY DEF TypeInv, unseen, Row
  <2>2. Shuffle(c, Day(at)) \in Int
    <3>1. /\ spent \in 0 .. MaxEvents /\ now \in InitTick .. InitTick + spent
          /\ InitTick \in Int /\ MaxEvents \in Nat
      BY StudyAssumption DEF TypeInv
    <3>2. at \in InitTick .. InitTick + MaxEvents
      BY <3>1
    <3> QED BY <3>2, StudyAssumption DEF Day
  <2> QED BY <2>1, <2>2 DEF revKey
<1>3. NewKey(c) \in Key /\ NewKey(c)[1] = 0 /\ NewKey(c)[3] = c
  BY <1>1 DEF NewKey, Key
<1>4. ~unseen(c) => /\ RevKey(s.order, at, c) \in Key
                    /\ RevKey(s.order, at, c)[1] = 0 /\ RevKey(s.order, at, c)[3] = c
  BY <1>1, <1>2 DEF RevKey, Key
<1>5. groupBit(s, c) \in 0 .. 1
  BY DEF groupBit
<1>6. (IF unseen(c) THEN newCardKey(c) ELSE revKey(s.order, at, c)) \in Int
  BY <1>1, <1>2
<1>7. SortKey(s, at, c) \in Key /\ SortKey(s, at, c)[1] >= 0 /\ SortKey(s, at, c)[3] = c
  BY <1>1, <1>5, <1>6 DEF SortKey, Key
<1> QED BY <1>3, <1>4, <1>7

LEMMA CardsAreKeyed ==
    ASSUME TypeInv, NEW s, NEW at \in InitTick .. now, NEW S \in SUBSET Card
    PROVE  /\ Keyed(S, [c \in S |-> NewKey(c)])
           /\ Keyed(S, [c \in S |-> SortKey(s, at, c)])
           /\ (\A c \in S : ~unseen(c)) => Keyed(S, [c \in S |-> RevKey(s.order, at, c)])
<1>1. IsFiniteSet(S)
  BY StudyAssumption, FS_Subset
<1>2. Keyed(S, [c \in S |-> NewKey(c)])
  <2>1. \A c \in S : NewKey(c) \in Key /\ NewKey(c)[3] = c
    BY KeysAre
  <2> QED BY <1>1, <2>1 DEF Keyed
<1>3. Keyed(S, [c \in S |-> SortKey(s, at, c)])
  <2>1. \A c \in S : SortKey(s, at, c) \in Key /\ SortKey(s, at, c)[3] = c
    BY KeysAre
  <2> QED BY <1>1, <2>1 DEF Keyed
<1>4. ASSUME \A c \in S : ~unseen(c) PROVE Keyed(S, [c \in S |-> RevKey(s.order, at, c)])
  <2>1. \A c \in S : RevKey(s.order, at, c) \in Key /\ RevKey(s.order, at, c)[3] = c
    BY <1>4, KeysAre
  <2> QED BY <1>1, <2>1 DEF Keyed
<1> QED BY <1>2, <1>3, <1>4

(* The start of a queue is before every card.                              *)
LEMMA StartIsFirst ==
    ASSUME TypeInv, NEW s, NEW at \in InitTick .. now, NEW c \in Card
    PROVE  AtStart \in Cursors /\ Ahead(s, at, AtStart, c)
<1>1. Start \in Key /\ Start[1] = -1
  BY DEF Start, Key, LastPosition
<1>2. AtStart \in Cursors /\ AtStart.pos = Start /\ AtStart.rev = Start /\ AtStart.new = Start
  BY <1>1 DEF AtStart, Cursors
<1>3. \A k \in Key : k[1] >= 0 => Less(Start, k)
  <2> TAKE k \in Key
  <2>1. k[1] \in Int
    BY DEF Key
  <2> QED BY <1>1, <2>1, LessIs
<1> QED BY <1>2, <1>3, KeysAre DEF Ahead

LEMMA SetsAre ==
    ASSUME NEW s, NEW at
    PROVE  /\ NewCards(s) \subseteq Card /\ IsFiniteSet(NewCards(s))
           /\ \A c \in NewCards(s) : unseen(c)
           /\ ReadyCards(s, at) \subseteq Card /\ IsFiniteSet(ReadyCards(s, at))
           /\ \A c \in ReadyCards(s, at) : ~unseen(c)
           /\ DueCards(s, at) \subseteq ReadyCards(s, at) /\ IsFiniteSet(DueCards(s, at))
           /\ \A n, pos : newCutoff(s, n, pos) \subseteq NewCards(s)
           /\ \A n, pos : newCutoff(s, n, pos) = newCutoff(s, n, Start)
           /\ \A n : OfferedReviews(s, at, n) \subseteq ReadyCards(s, at)
<1>1. /\ NewCards(s) \subseteq Card /\ ReadyCards(s, at) \subseteq Card
      /\ DueCards(s, at) \subseteq ReadyCards(s, at)
      /\ \A c \in NewCards(s) : unseen(c)
      /\ \A c \in ReadyCards(s, at) : ~unseen(c)
  BY DEF NewCards, ReadyCards, DueCards
<1>2. IsFiniteSet(NewCards(s)) /\ IsFiniteSet(ReadyCards(s, at)) /\ IsFiniteSet(DueCards(s, at))
  BY <1>1, StudyAssumption, FS_Subset
<1>3. \A n, pos : newCutoff(s, n, pos) \subseteq NewCards(s)
  BY DEF newCutoff
<1>4. \A n, pos : newCutoff(s, n, pos) = newCutoff(s, n, Start)
  BY DEF newCutoff
<1>5. \A n : OfferedReviews(s, at, n) \subseteq ReadyCards(s, at)
  BY <1>1 DEF OfferedReviews, revCutoff
<1> QED BY <1>1, <1>2, <1>3, <1>4, <1>5

LEMMA CountsAre ==
    ASSUME TypeInv, NEW day
    PROVE  CountNewIntroducedToday(day) \in Nat /\ CountReviewedToday(day) \in Nat
<1>1. ASSUME NEW b PROVE Cardinality({e.card : e \in {l \in log : l.before = b /\ l.day = day}}) \in Nat
  <2>1. {e.card : e \in {l \in log : l.before = b /\ l.day = day}} \subseteq Card
    BY DEF TypeInv
  <2> QED BY <2>1, StudyAssumption, FS_Subset, FS_CardinalityType
<1> QED BY <1>1 DEF CountNewIntroducedToday, CountReviewedToday

LEMMA LeftIs ==
    ASSUME NEW s, Readable(s), NEW rounds \in Nat, NEW i \in Nat, NEW r \in Nat
    PROVE  LET total == s.revPerDay * (1 + rounds) - (i + r)
               new == s.newPerDay * (1 + rounds) - i
           IN /\ TotalLeft(s, rounds, i, r) = IF total > 0 THEN total ELSE 0
              /\ TotalLeft(s, rounds, i, r) \in Nat
              /\ NewLeft(s, rounds, i, r) = IF total > 0 /\ new > 0 THEN new ELSE 0
              /\ NewLeft(s, rounds, i, r) \in Nat
<1>1. \A x, y \in Nat : x * (1 + y) \in Nat
  OBVIOUS
<1>2. s.revPerDay * (1 + rounds) - (i + r) \in Int /\ s.newPerDay * (1 + rounds) - i \in Int
  BY <1>1 DEF Readable
<1>3. \A d \in Int : Most({d, 0}) = IF d > 0 THEN d ELSE 0
  BY TwoNumbers
<1>4. TotalLeft(s, rounds, i, r) = IF s.revPerDay * (1 + rounds) - (i + r) > 0
                                   THEN s.revPerDay * (1 + rounds) - (i + r) ELSE 0
  BY <1>2, <1>3 DEF TotalLeft, RevRemaining
<1>5. NewRemaining(s.newPerDay * (1 + rounds), i)
         = IF s.newPerDay * (1 + rounds) - i > 0 THEN s.newPerDay * (1 + rounds) - i ELSE 0
  BY <1>2, <1>3 DEF NewRemaining
<1> QED BY <1>2, <1>4, <1>5 DEF NewLeft

-----------------------------------------------------------------------------
(* A page.                                                                 *)

(* From a cursor, a page serves cards that are offered and ahead, each one   *)
(* once.  The last                                                         *)
(* page serves all of them.  Any other serves some card, and its cursor has *)
(* passed what had been passed and what it serves, and of what is offered   *)
(* nothing else.                                                           *)
Progress(b, s, at, cur, O) ==
    /\ b.exhausted \in BOOLEAN /\ b.cursor \in Cursors /\ b.cards \in Seq(O)
    /\ \A i \in DOMAIN b.cards : Ahead(s, at, cur, b.cards[i])
    /\ \A i, j \in DOMAIN b.cards : b.cards[i] = b.cards[j] => i = j
    /\ IF b.exhausted
       THEN \A c \in O : Ahead(s, at, cur, c) => \E i \in DOMAIN b.cards : b.cards[i] = c
       ELSE /\ b.cards # <<>>
            /\ \A c \in Card : ~Ahead(s, at, cur, c) => ~Ahead(s, at, b.cursor, c)
            /\ \A i \in DOMAIN b.cards : ~Ahead(s, at, b.cursor, b.cards[i])
            /\ \A c \in O : Ahead(s, at, cur, c) /\ ~Ahead(s, at, b.cursor, c) =>
                             \E i \in DOMAIN b.cards : b.cards[i] = c

LEMMA SingleBatch ==
    ASSUME TypeInv, NEW s, s.priority # "mixed", NEW at \in InitTick .. now,
           NEW nr, NEW tr, NEW cur \in Cursors, NEW limit \in Nat \ {0}
    PROVE  Progress(buildSingleBatch(s, at, nr, tr, cur, limit), s, at, cur,
                    newCutoff(s, nr, Start) \cup OfferedReviews(s, at, tr))
<1> DEFINE O == newCutoff(s, nr, Start) \cup OfferedReviews(s, at, tr)
           key == [c \in O |-> SortKey(s, at, c)]
           rows == Behind(O, key, cur.pos, limit)
           T == RowsBehind(O, key, cur.pos)
           n == Len(rows)
           b == buildSingleBatch(s, at, nr, tr, cur, limit)
<1>1. O \subseteq Card /\ newCutoff(s, nr, cur.pos) = newCutoff(s, nr, Start)
  BY SetsAre
<1>2. ListDueCardsForStudy(s, at, nr, tr, cur.pos, limit) = rows
  BY <1>1 DEF ListDueCardsForStudy
<1>3. Keyed(O, key) /\ cur.pos \in Key
  BY <1>1, CardsAreKeyed DEF Cursors
<1>4. \A c \in O : key[c] = SortKey(s, at, c)
  OBVIOUS
<1> HIDE DEF O, key
<1>5. /\ rows \in Seq(T)
      /\ \A i, j \in 1 .. n : i < j <=> Less(key[rows[i]], key[rows[j]])
      /\ n < limit => \A c \in T : \E i \in 1 .. n : rows[i] = c
      /\ \A m \in 1 .. n, c \in T :
            ~ Less(key[rows[m]], key[c]) => \E i \in 1 .. m : rows[i] = c
  <2>1. limit \in Nat
    OBVIOUS
  <2>2. rows \in Seq(T)
    BY <1>3, <2>1, BehindIs
  <2>3. n < limit => \A c \in T : \E i \in 1 .. n : rows[i] = c
    BY <1>3, <2>1, BehindIs
  <2>4. ASSUME NEW i \in 1 .. n, NEW j \in 1 .. n PROVE i < j <=> Less(key[rows[i]], key[rows[j]])
    BY <1>3, <2>1, BehindIs
  <2>5. ASSUME NEW m \in 1 .. n, NEW c \in T, ~ Less(key[rows[m]], key[c]) PROVE \E i \in 1 .. m : rows[i] = c
    BY <1>3, <2>1, <2>5, BehindIs
  <2> HIDE DEF rows, T, n
  <2> QED BY <2>2, <2>3, <2>4, <2>5
<1>6. \A c \in O : c \in T <=> Ahead(s, at, cur, c)
  BY <1>4 DEF Ahead, RowsBehind
<1>7. /\ b.cards = rows /\ b.exhausted = (n < limit)
      /\ ~ n < limit => b.cursor = IF rows = <<>> THEN AtStart
                                   ELSE SingleCursor(SortKey(s, at, rows[n]))
      /\ n < limit => b.cursor = AtStart
  BY <1>2 DEF buildSingleBatch
<1>8. n \in Nat /\ DOMAIN rows = 1 .. n /\ \A i \in 1 .. n : rows[i] \in T /\ rows[i] \in O
  BY <1>5 DEF RowsBehind
<1> HIDE DEF rows, b, n
<1>9. /\ b.cards \in Seq(O) /\ \A i \in DOMAIN b.cards : Ahead(s, at, cur, b.cards[i])
      /\ \A i, j \in DOMAIN b.cards : b.cards[i] = b.cards[j] => i = j
  <2>1. ASSUME NEW i \in 1 .. n, NEW j \in 1 .. n, rows[i] = rows[j] PROVE i = j
    <3>1. key[rows[i]] \in Key
      BY <1>3, <1>8 DEF Keyed
    <3>2. ~ i < j /\ ~ j < i
      BY <1>5, <2>1, <3>1, LessOrder
    <3> QED BY <1>8, <3>2
  <2> QED BY <1>5, <1>6, <1>7, <1>8, <2>1
<1>10. ASSUME n < limit PROVE Progress(b, s, at, cur, O)
  <2>1. AtStart \in Cursors
    BY DEF AtStart, Cursors, Start, Key, LastPosition
  <2>2. \A c \in O : Ahead(s, at, cur, c) => \E i \in DOMAIN b.cards : b.cards[i] = c
    BY <1>5, <1>6, <1>7, <1>8, <1>10
  <2> QED BY <1>7, <1>9, <1>10, <2>1, <2>2 DEF Progress
<1>11. ASSUME ~ n < limit PROVE Progress(b, s, at, cur, O)
  <2> DEFINE last == SortKey(s, at, rows[n])
  <2>1. n \in 1 .. n /\ rows # <<>>
    <3>1. n >= 1
      BY <1>8, <1>11
    <3>2. n # 0
      BY <3>1, <1>8
    <3> QED BY <1>8, <3>1, <3>2 DEF n
  <2>2. rows[n] \in O /\ rows[n] \in Card /\ Less(cur.pos, last) /\ key[rows[n]] = last
    BY <1>1, <1>4, <1>8, <2>1 DEF RowsBehind
  <2>3. last \in Key
    BY <2>2, KeysAre
  <2>4. b.cursor = SingleCursor(last) /\ b.cursor.pos = last /\ b.cursor \in Cursors
    <3>1. Foreign \in Key
      BY DEF Foreign, Key, LastPosition
    <3>2. b.cursor = SingleCursor(last)
      BY <1>7, <1>11, <2>1
    <3> HIDE DEF last
    <3>3. SingleCursor(last).pos = last /\ SingleCursor(last) \in Cursors
      BY <2>3, <3>1 DEF SingleCursor, Cursors
    <3> QED BY <3>2, <3>3
  <2> HIDE DEF last
  <2>5. \A c \in Card : SortKey(s, at, c) \in Key
    BY KeysAre
  <2>6. \A c \in Card : ~Ahead(s, at, cur, c) => ~Ahead(s, at, b.cursor, c)
    BY <1>3, <2>2, <2>3, <2>4, <2>5, LessOrder DEF Ahead
  <2>7. \A i \in DOMAIN b.cards : ~Ahead(s, at, b.cursor, b.cards[i])
    <3> SUFFICES ASSUME NEW i \in 1 .. n PROVE ~ Less(last, SortKey(s, at, rows[i]))
      BY <1>7, <1>8, <2>4 DEF Ahead
    <3>1. ~ n < i
      BY <1>8
    <3>2. rows[i] \in O
      BY <1>8
    <3> QED BY <1>4, <1>5, <2>1, <2>2, <3>1, <3>2
  <2>8. ASSUME NEW c \in O, Ahead(s, at, cur, c), ~Ahead(s, at, b.cursor, c)
        PROVE  \E i \in DOMAIN b.cards : b.cards[i] = c
    <3>1. c \in T /\ ~ Less(key[rows[n]], key[c])
      BY <1>4, <1>6, <2>2, <2>4, <2>8 DEF Ahead
    <3> QED BY <1>5, <1>7, <1>8, <2>1, <3>1
  <2>9. b.exhausted = FALSE
    <3> DEFINE e == b.exhausted
               l == n < limit
    <3>1. e = l /\ ~l /\ l \in BOOLEAN
      BY <1>7, <1>11
    <3> HIDE DEF e, l
    <3>2. e = FALSE
      BY <3>1
    <3> QED BY <3>2 DEF e
  <2>10. b.cards # <<>>
    BY <1>7, <2>1
  <2> QED BY <2>10, <1>9, <2>4, <2>6, <2>7, <2>8, <2>9 DEF Progress
<1> QED BY <1>10, <1>11 DEF b, O

(* The position carried over after k rows of a page: it has passed what the *)
(* page began behind and these k rows, and of the source nothing else.     *)
LEMMA Carried ==
    ASSUME NEW S, NEW key, Keyed(S, key), NEW pos \in Key, NEW limit \in Nat,
           NEW k \in 0 .. Len(Behind(S, key, pos, limit))
    PROVE  LET rows == Behind(S, key, pos, limit)
               carry == IF k > 0 THEN key[rows[k]] ELSE pos
           IN
           /\ carry \in Key
           /\ \A x \in Key : ~ Less(pos, x) => ~ Less(carry, x)
           /\ \A i \in 1 .. k : rows[i] \in S /\ Less(pos, key[rows[i]]) /\ ~ Less(carry, key[rows[i]])
           /\ \A c \in S : Less(pos, key[c]) /\ ~ Less(carry, key[c]) => \E i \in 1 .. k : rows[i] = c
<1> DEFINE rows == Behind(S, key, pos, limit)
           T == RowsBehind(S, key, pos)
           carry == IF k > 0 THEN key[rows[k]] ELSE pos
<1>1. rows \in Seq(T)
  BY BehindIs
<1>2. ASSUME NEW i \in 1 .. Len(rows), NEW j \in 1 .. Len(rows)
      PROVE  i < j <=> Less(key[rows[i]], key[rows[j]])
  BY BehindIs
<1>3. ASSUME NEW m \in 1 .. Len(rows), NEW c \in T, ~ Less(key[rows[m]], key[c])
      PROVE  \E i \in 1 .. m : rows[i] = c
  BY <1>3, BehindIs
<1> HIDE DEF rows, T
<1>4. Len(rows) \in Nat /\ \A i \in 1 .. Len(rows) : rows[i] \in T
  BY <1>1
<1>5. \A c : c \in T <=> c \in S /\ Less(pos, key[c])
  BY DEF T, RowsBehind
<1>6. k \in 0 .. Len(rows)
  BY DEF rows
<1>7. \A c \in S : key[c] \in Key
  BY DEF Keyed
<1>8. CASE k = 0
  <2>1. carry = pos /\ 1 .. k = {}
    BY <1>8
  <2> QED BY <2>1 DEF rows
<1>9. CASE k # 0
  <2>1. k \in 1 .. Len(rows) /\ k > 0 /\ \A i \in 1 .. k : i \in 1 .. Len(rows) /\ ~ k < i
    BY <1>4, <1>6, <1>9
  <2>2. carry = key[rows[k]] /\ rows[k] \in S /\ Less(pos, carry) /\ carry \in Key
    BY <1>4, <1>5, <1>7, <2>1
  <2>3. \A x \in Key : ~ Less(pos, x) => ~ Less(carry, x)
    BY <2>2, LessOrder
  <2>4. ASSUME NEW i \in 1 .. k
        PROVE  rows[i] \in S /\ Less(pos, key[rows[i]]) /\ ~ Less(carry, key[rows[i]])
    BY <1>2, <1>4, <1>5, <2>1, <2>2
  <2>5. ASSUME NEW c \in S, Less(pos, key[c]), ~ Less(carry, key[c])
        PROVE  \E i \in 1 .. k : rows[i] = c
    BY <1>3, <1>5, <2>1, <2>2, <2>5
  <2> HIDE DEF carry
  <2> QED BY <2>2, <2>3, <2>4, <2>5 DEF rows, carry
<1> QED BY <1>8, <1>9

LEMMA MixedBatch ==
    ASSUME TypeInv, NEW s, s.priority = "mixed", NEW at \in InitTick .. now,
           NEW nr, NEW tr, NEW cur \in Cursors, NEW limit \in Nat \ {0}
    PROVE  Progress(buildMixedBatch(s, at, nr, tr, cur, limit), s, at, cur,
                    newCutoff(s, nr, Start) \cup OfferedReviews(s, at, tr))
<1> DEFINE R == OfferedReviews(s, at, tr)
           N == newCutoff(s, nr, Start)
           rkey == [c \in R |-> RevKey(s.order, at, c)]
           nkey == [c \in N |-> NewKey(c)]
           revs == Behind(R, rkey, cur.rev, limit)
           news == Behind(N, nkey, cur.new, limit)
           r == Len(revs)
           n == Len(news)
           total == IF r + n <= limit THEN r + n ELSE limit
           taken == interleave(r, n, limit)
           tr0 == taken[total].rev
           tn0 == taken[total].new
           rcar == IF tr0 > 0 THEN rkey[revs[tr0]] ELSE cur.rev
           ncar == IF tn0 > 0 THEN nkey[news[tn0]] ELSE cur.new
           b == buildMixedBatch(s, at, nr, tr, cur, limit)
<1>1. /\ R \subseteq Card /\ N \subseteq Card /\ newCutoff(s, nr, cur.new) = N
      /\ \A c \in R : ~ unseen(c)
      /\ \A c \in N : unseen(c)
  BY SetsAre
<1>2. Keyed(R, rkey) /\ Keyed(N, nkey) /\ cur.rev \in Key /\ cur.new \in Key
  BY <1>1, CardsAreKeyed DEF Cursors
<1>3. /\ ListReviewCardsForStudy(s, at, tr, cur.rev, limit) = revs
      /\ ListNewCardsForStudy(s, nr, cur.new, limit) = news
  BY <1>1 DEF ListReviewCardsForStudy, ListNewCardsForStudy
<1>4. /\ \A c \in R : rkey[c] = RevKey(s.order, at, c)
      /\ \A c \in N : nkey[c] = NewKey(c)
  OBVIOUS
<1> HIDE DEF R, N, rkey, nkey
<1>5. limit \in Nat /\ limit >= 1
  OBVIOUS
<1>6. /\ revs \in Seq(RowsBehind(R, rkey, cur.rev)) /\ news \in Seq(RowsBehind(N, nkey, cur.new))
      /\ r < limit => \A c \in R : Less(cur.rev, rkey[c]) => \E i \in 1 .. r : revs[i] = c
      /\ n < limit => \A c \in N : Less(cur.new, nkey[c]) => \E i \in 1 .. n : news[i] = c
  <2>1. revs \in Seq(RowsBehind(R, rkey, cur.rev))
    BY <1>2, <1>5, BehindIs
  <2>2. news \in Seq(RowsBehind(N, nkey, cur.new))
    BY <1>2, <1>5, BehindIs
  <2>3. r < limit => \A c \in R : Less(cur.rev, rkey[c]) => \E i \in 1 .. r : revs[i] = c
    BY <1>2, <1>5, LastPage
  <2>4. n < limit => \A c \in N : Less(cur.new, nkey[c]) => \E i \in 1 .. n : news[i] = c
    BY <1>2, <1>5, LastPage
  <2> HIDE DEF revs, news, r, n
  <2> QED BY <2>1, <2>2, <2>3, <2>4
<1>7. r \in Nat /\ n \in Nat /\ DOMAIN revs = 1 .. r /\ DOMAIN news = 1 .. n
  <2> HIDE DEF revs, news
  <2> QED BY <1>6
<1>20. /\ \A a, c \in 1 .. r : a < c => revs[a] # revs[c]
       /\ \A a, c \in 1 .. n : a < c => news[a] # news[c]
  <2>1. \A a, c \in 1 .. r : a < c <=> Less(rkey[revs[a]], rkey[revs[c]])
    BY <1>2, <1>5, BehindIs
  <2>2. \A a, c \in 1 .. n : a < c <=> Less(nkey[news[a]], nkey[news[c]])
    BY <1>2, <1>5, BehindIs
  <2> HIDE DEF revs, news, r, n
  <2>3. ASSUME NEW a \in 1 .. r, NEW c \in 1 .. r, a < c PROVE revs[a] # revs[c]
    <3>1. rkey[revs[a]] \in Key
      BY <1>2, <1>6, <1>7 DEF Keyed, RowsBehind
    <3> QED BY <2>1, <2>3, <3>1, LessOrder
  <2>4. ASSUME NEW a \in 1 .. n, NEW c \in 1 .. n, a < c PROVE news[a] # news[c]
    <3>1. nkey[news[a]] \in Key
      BY <1>2, <1>6, <1>7 DEF Keyed, RowsBehind
    <3> QED BY <2>2, <2>4, <3>1, LessOrder
  <2> QED BY <2>3, <2>4
<1>8. /\ \A i \in 0 .. total : /\ taken[i].rev \in 0 .. r /\ taken[i].new \in 0 .. n
                               /\ taken[i].rev + taken[i].new = i
      /\ \A i, j \in 0 .. total :
            i <= j => taken[i].rev <= taken[j].rev /\ taken[i].new <= taken[j].new
  <2> HIDE DEF r, n
  <2>1. ASSUME NEW i \in 0 .. total
        PROVE  /\ taken[i].rev \in 0 .. r /\ taken[i].new \in 0 .. n
               /\ taken[i].rev + taken[i].new = i
    BY <1>5, <1>7, InterleaveIs
  <2>2. ASSUME NEW i \in 0 .. total, NEW j \in 0 .. total, i <= j
        PROVE  taken[i].rev <= taken[j].rev /\ taken[i].new <= taken[j].new
    BY <1>5, <1>7, <2>2, InterleaveIs
  <2> HIDE DEF taken, total
  <2> QED BY <2>1, <2>2
<1>9. total \in Nat /\ Least({r + n, limit}) = total
  <2> HIDE DEF r, n
  <2>1. r + n \in Int /\ limit \in Int
    BY <1>5, <1>7
  <2> QED BY <1>5, <1>7, <2>1, TwoNumbers
<1>10. tr0 \in 0 .. r /\ tn0 \in 0 .. n /\ tr0 + tn0 = total
  <2>1. total \in 0 .. total
    BY <1>9
  <2> HIDE DEF total, taken, r, n
  <2> QED BY <1>8, <2>1
<1>11. /\ rcar \in Key
       /\ \A x \in Key : ~ Less(cur.rev, x) => ~ Less(rcar, x)
       /\ \A i \in 1 .. tr0 : revs[i] \in R /\ Less(cur.rev, rkey[revs[i]]) /\ ~ Less(rcar, rkey[revs[i]])
       /\ \A c \in R : Less(cur.rev, rkey[c]) /\ ~ Less(rcar, rkey[c]) => \E i \in 1 .. tr0 : revs[i] = c
  <2> HIDE DEF tr0
  <2> QED BY <1>2, <1>5, <1>10, Carried
<1>12. /\ ncar \in Key
       /\ \A x \in Key : ~ Less(cur.new, x) => ~ Less(ncar, x)
       /\ \A i \in 1 .. tn0 : news[i] \in N /\ Less(cur.new, nkey[news[i]]) /\ ~ Less(ncar, nkey[news[i]])
       /\ \A c \in N : Less(cur.new, nkey[c]) /\ ~ Less(ncar, nkey[c]) => \E i \in 1 .. tn0 : news[i] = c
  <2> HIDE DEF tn0
  <2> QED BY <1>2, <1>5, <1>10, Carried
<1> DEFINE full == r < limit /\ n < limit /\ r + n <= limit
<1>13. /\ b.cards = Mixed(revs, news, taken, total)
       /\ b.exhausted = full
       /\ full => b.cursor = AtStart
       /\ ~ full /\ total # 0 =>
             b.cursor = MixedCursor(
                          carryCursor([i \in DOMAIN revs |-> RevKey(s.order, at, revs[i])], tr0, cur.rev),
                          carryCursor([i \in DOMAIN news |-> NewKey(news[i])], tn0, cur.new))
  <2> HIDE DEF total, r, n, revs, news
  <2> USE <1>3, <1>9 DEF buildMixedBatch, mixedExhausted
  <2>1. r = Len(revs) /\ n = Len(news)
    BY DEF r, n
  <2>2. b.cards = Mixed(revs, news, taken, total)
    BY <2>1
  <2>3. b.exhausted = full
    BY <2>1
  <2>4. full => b.cursor = AtStart
    BY <2>1
  <2>5. ~ full /\ total # 0 =>
             b.cursor = MixedCursor(
                          carryCursor([i \in DOMAIN revs |-> RevKey(s.order, at, revs[i])], tr0, cur.rev),
                          carryCursor([i \in DOMAIN news |-> NewKey(news[i])], tn0, cur.new))
    BY <2>1
  <2> HIDE DEF b, full, tr0, tn0, taken
  <2> QED BY <2>2, <2>3, <2>4, <2>5
<1> HIDE DEF b
<1>14. /\ \A i \in 1 .. total : \/ \E j \in 1 .. tr0 : b.cards[i] = revs[j]
                                \/ \E k \in 1 .. tn0 : b.cards[i] = news[k]
       /\ \A j \in 1 .. tr0 : \E i \in 1 .. total : b.cards[i] = revs[j]
       /\ \A k \in 1 .. tn0 : \E i \in 1 .. total : b.cards[i] = news[k]
       /\ \A i, j \in 1 .. total : i < j => b.cards[i] # b.cards[j]
  <2>1. Orderly(taken, total)
    <3> HIDE DEF total, taken, r, n
    <3> QED BY <1>7, <1>8 DEF Orderly
  <2> HIDE DEF total, taken, r, n, revs, news
  <2>2. ASSUME NEW i \in 1 .. total
        PROVE  \/ \E j \in 1 .. tr0 : b.cards[i] = revs[j]
               \/ \E k \in 1 .. tn0 : b.cards[i] = news[k]
    <3> DEFINE m == Mixed(revs, news, taken, total)
    <3>1. \/ \E j \in 1 .. tr0 : m[i] = revs[j]
          \/ \E k \in 1 .. tn0 : m[i] = news[k]
      BY <1>9, <2>1, MixedIs
    <3>2. b.cards = m
      BY <1>13
    <3> HIDE DEF m, tr0, tn0
    <3> QED BY <3>1, <3>2
  <2>3. ASSUME NEW j \in 1 .. tr0 PROVE \E i \in 1 .. total : b.cards[i] = revs[j]
    BY <1>9, <1>13, <2>1, MixedIs
  <2>4. ASSUME NEW k \in 1 .. tn0 PROVE \E i \in 1 .. total : b.cards[i] = news[k]
    BY <1>9, <1>13, <2>1, MixedIs
  <2>5. \A i, j \in 1 .. total : i < j => b.cards[i] # b.cards[j]
    <3>1. /\ \A a, c \in 1 .. tr0 : a < c => revs[a] # revs[c]
          /\ \A a, c \in 1 .. tn0 : a < c => news[a] # news[c]
          /\ \A a \in 1 .. tr0, c \in 1 .. tn0 : revs[a] # news[c]
      <4>1. /\ \A a \in 1 .. tr0 : a \in 1 .. r /\ revs[a] \in R
            /\ \A c \in 1 .. tn0 : c \in 1 .. n /\ news[c] \in N
        <5> HIDE DEF tr0, tn0
        <5> QED BY <1>7, <1>10, <1>11, <1>12
      <4> HIDE DEF tr0, tn0
      <4> QED BY <1>1, <1>20, <4>1
    <3> QED BY <1>9, <1>13, <2>1, <3>1, MixedApart
  <2> HIDE DEF tr0, tn0
  <2> QED BY <2>2, <2>3, <2>4, <2>5
<1>15. DOMAIN b.cards = 1 .. total /\ Len(b.cards) = total
  <2> HIDE DEF total, taken, r, n, revs, news
  <2> QED BY <1>9, <1>13 DEF Mixed
<1>16. \A c \in R : Ahead(s, at, cur, c) <=> Less(cur.rev, rkey[c])
  BY <1>1, <1>4 DEF Ahead
<1>17. \A c \in N : Ahead(s, at, cur, c) <=> Less(cur.new, nkey[c])
  BY <1>1, <1>4 DEF Ahead
<1> DEFINE O == N \cup R
<1> HIDE DEF total, tr0, tn0, revs, news, r, n, taken, rcar, ncar
<1>21. b.cards \in Seq(O)
  <2>1. \A i \in 1 .. total : b.cards[i] \in O
    BY <1>11, <1>12, <1>14
  <2>2. b.cards = [i \in 1 .. total |-> b.cards[i]]
    BY <1>13, <1>15 DEF Mixed
  <2> HIDE DEF O
  <2> QED BY <1>9, <2>1, <2>2
<1>22. /\ \A i \in DOMAIN b.cards : Ahead(s, at, cur, b.cards[i])
       /\ \A i, j \in DOMAIN b.cards : b.cards[i] = b.cards[j] => i = j
  <2>1. \A i, j \in 1 .. total : i = j \/ i < j \/ j < i
    BY <1>9
  <2>2. \A i, j \in DOMAIN b.cards : b.cards[i] = b.cards[j] => i = j
    BY <1>14, <1>15, <2>1
  <2>3. \A i \in DOMAIN b.cards : Ahead(s, at, cur, b.cards[i])
    BY <1>11, <1>12, <1>14, <1>15, <1>16, <1>17
  <2> QED BY <2>2, <2>3
<1>23. ASSUME full PROVE Progress(b, s, at, cur, O)
  <2>1. AtStart \in Cursors
    BY DEF AtStart, Cursors, Start, Key, LastPosition
  <2>2. tr0 = r /\ tn0 = n
    <3>1. total = r + n
      BY <1>23 DEF total
    <3> QED BY <1>7, <1>10, <3>1
  <2>3. ASSUME NEW c \in O, Ahead(s, at, cur, c) PROVE \E i \in DOMAIN b.cards : b.cards[i] = c
    <3>1. CASE c \in R
      <4>1. Less(cur.rev, rkey[c])
        BY <1>16, <2>3, <3>1
      <4>2. PICK j \in 1 .. r : revs[j] = c
        BY <1>6, <1>23, <3>1, <4>1
      <4>3. j \in 1 .. tr0
        BY <2>2
      <4>4. \E i \in 1 .. total : b.cards[i] = revs[j]
        BY <1>14, <4>3
      <4> QED BY <1>15, <4>2, <4>4
    <3>2. CASE c \in N
      <4>1. Less(cur.new, nkey[c])
        BY <1>17, <2>3, <3>2
      <4>2. PICK j \in 1 .. n : news[j] = c
        BY <1>6, <1>23, <3>2, <4>1
      <4>3. j \in 1 .. tn0
        BY <2>2
      <4>4. \E i \in 1 .. total : b.cards[i] = news[j]
        BY <1>14, <4>3
      <4> QED BY <1>15, <4>2, <4>4
    <3> QED BY <3>1, <3>2
  <2>4. b.exhausted = TRUE /\ b.cursor = AtStart
    <3> DEFINE e == b.exhausted
    <3>1. e = full /\ full /\ full \in BOOLEAN
      BY <1>13, <1>23
    <3>2. b.cursor = AtStart
      BY <1>13, <1>23
    <3> HIDE DEF e, full
    <3>3. e = TRUE
      BY <3>1
    <3> QED BY <3>2, <3>3 DEF e
  <2> HIDE DEF O, full
  <2> QED BY <1>21, <1>22, <2>1, <2>3, <2>4 DEF Progress
<1>24. ASSUME ~ full PROVE Progress(b, s, at, cur, O)
  <2>1. total >= 1
    BY <1>5, <1>7, <1>24 DEF total
  <2>2. b.cards # <<>>
    BY <1>9, <1>15, <2>1
  <2>3. b.exhausted = FALSE
    <3> DEFINE e == b.exhausted
    <3>1. e = full /\ ~ full /\ full \in BOOLEAN
      BY <1>13, <1>24
    <3> HIDE DEF e, full
    <3>2. e = FALSE
      BY <3>1
    <3> QED BY <3>2 DEF e
  <2>4. b.cursor = MixedCursor(rcar, ncar)
    <3>1. carryCursor([i \in DOMAIN revs |-> RevKey(s.order, at, revs[i])], tr0, cur.rev) = rcar
      <4>1. CASE tr0 > 0
        <5>1. tr0 \in 1 .. tr0 /\ tr0 \in DOMAIN revs
          BY <1>7, <1>10, <4>1
        <5>2. rkey[revs[tr0]] = RevKey(s.order, at, revs[tr0])
          BY <1>4, <1>11, <5>1
        <5> QED BY <4>1, <5>1, <5>2 DEF carryCursor, rcar
      <4>2. CASE ~ tr0 > 0
        BY <4>2 DEF carryCursor, rcar
      <4> QED BY <4>1, <4>2
    <3>2. carryCursor([i \in DOMAIN news |-> NewKey(news[i])], tn0, cur.new) = ncar
      <4>1. CASE tn0 > 0
        <5>1. tn0 \in 1 .. tn0 /\ tn0 \in DOMAIN news
          BY <1>7, <1>10, <4>1
        <5>2. nkey[news[tn0]] = NewKey(news[tn0])
          BY <1>4, <1>12, <5>1
        <5> QED BY <4>1, <5>1, <5>2 DEF carryCursor, ncar
      <4>2. CASE ~ tn0 > 0
        BY <4>2 DEF carryCursor, ncar
      <4> QED BY <4>1, <4>2
    <3> HIDE DEF full
    <3>3. total # 0
      BY <1>9, <2>1
    <3> QED BY <1>13, <1>24, <3>1, <3>2, <3>3
  <2>5. b.cursor \in Cursors /\ b.cursor.rev = rcar /\ b.cursor.new = ncar
    <3>1. Foreign \in Key
      BY DEF Foreign, Key, LastPosition
    <3> QED BY <1>11, <1>12, <2>4, <3>1 DEF MixedCursor, Cursors
  <2>6. \A c \in R : Ahead(s, at, b.cursor, c) <=> Less(rcar, rkey[c])
    BY <1>1, <1>4, <2>5 DEF Ahead
  <2>7. \A c \in N : Ahead(s, at, b.cursor, c) <=> Less(ncar, nkey[c])
    BY <1>1, <1>4, <2>5 DEF Ahead
  <2>8. ASSUME NEW c \in Card, ~Ahead(s, at, cur, c) PROVE ~Ahead(s, at, b.cursor, c)
    <3>1. CASE unseen(c)
      <4>1. NewKey(c) \in Key
        BY KeysAre
      <4> QED BY <1>12, <2>5, <2>8, <3>1, <4>1 DEF Ahead
    <3>2. CASE ~ unseen(c)
      <4>1. RevKey(s.order, at, c) \in Key
        BY <3>2, KeysAre
      <4> QED BY <1>11, <2>5, <2>8, <3>2, <4>1 DEF Ahead
    <3> QED BY <3>1, <3>2
  <2>9. ASSUME NEW i \in DOMAIN b.cards PROVE ~Ahead(s, at, b.cursor, b.cards[i])
    BY <1>11, <1>12, <1>14, <1>15, <2>6, <2>7
  <2>10. ASSUME NEW c \in O, Ahead(s, at, cur, c), ~Ahead(s, at, b.cursor, c)
         PROVE  \E i \in DOMAIN b.cards : b.cards[i] = c
    <3>1. CASE c \in R
      <4>1. \E j \in 1 .. tr0 : revs[j] = c
        BY <1>11, <1>16, <2>6, <2>10, <3>1
      <4> QED BY <1>14, <1>15, <4>1
    <3>2. CASE c \in N
      <4>1. \E j \in 1 .. tn0 : news[j] = c
        BY <1>12, <1>17, <2>7, <2>10, <3>2
      <4> QED BY <1>14, <1>15, <4>1
    <3> QED BY <3>1, <3>2
  <2> HIDE DEF O, full
  <2> QED BY <1>21, <1>22, <2>2, <2>3, <2>5, <2>8, <2>9, <2>10 DEF Progress
<1> HIDE DEF full
<1> QED BY <1>23, <1>24 DEF b, N, R

LEMMA BatchIs ==
    ASSUME TypeInv, NEW s, Readable(s), NEW at \in InitTick .. now,
           NEW cur \in Cursors, NEW limit \in Nat \ {0},
           NEW rounds \in Nat, NEW i \in Nat, NEW r \in Nat
    PROVE  Progress(BuildBatch(s, at, cur, limit, rounds, i, r), s, at, cur,
                    Offered(s, at, rounds, i, r))
<1> DEFINE total == TotalLeft(s, rounds, i, r)
           new == NewLeft(s, rounds, i, r)
           size == effectiveLimit(limit, total)
           b == BuildBatch(s, at, cur, limit, rounds, i, r)
<1>1. total \in Nat /\ limit \in Nat /\ limit # 0
  BY LeftIs
<1>2. size \in Nat \ {0}
  <2> HIDE DEF total
  <2>1. total \in Int /\ limit \in Int
    BY <1>1
  <2>2. Least({limit, total}) = IF limit <= total THEN limit ELSE total
    BY <2>1, TwoNumbers
  <2> QED BY <1>1, <2>2 DEF effectiveLimit
<1>3. b = IF s.priority = "mixed" THEN buildMixedBatch(s, at, new, total, cur, size)
          ELSE buildSingleBatch(s, at, new, total, cur, size)
  BY DEF BuildBatch, NewLeft, TotalLeft
<1> HIDE DEF b, total, new, size
<1>4. CASE s.priority = "mixed"
  <2>1. Progress(buildMixedBatch(s, at, new, total, cur, size), s, at, cur,
                 newCutoff(s, new, Start) \cup OfferedReviews(s, at, total))
    BY <1>2, <1>4, MixedBatch
  <2> QED BY <1>3, <1>4, <2>1 DEF Offered, b, new, total
<1>5. CASE s.priority # "mixed"
  <2>1. Progress(buildSingleBatch(s, at, new, total, cur, size), s, at, cur,
                 newCutoff(s, new, Start) \cup OfferedReviews(s, at, total))
    BY <1>2, <1>5, SingleBatch
  <2> QED BY <1>3, <1>5, <2>1 DEF Offered, b, new, total
<1> QED BY <1>4, <1>5

-----------------------------------------------------------------------------
(* What a grade does to what is offered.                                   *)

(* Days and their first ticks. *)
LEMMA DaysAre ==
    ASSUME NEW x \in Int, NEW y \in Int
    PROVE  /\ Day(x) \in Int /\ DayStart(x) \in Int /\ DayStart(x) <= x
           /\ x <= y => Day(x) <= Day(y)
           /\ x < DayStart(y) <=> Day(x) < Day(y)
<1>1. TicksPerDay \in Nat /\ TicksPerDay > 0
  BY StudyAssumption
<1>2. \A t \in Int : /\ Day(t) \in Int /\ TicksPerDay * Day(t) <= t
                     /\ t < TicksPerDay * Day(t) + TicksPerDay
  BY <1>1 DEF Day
<1>3. \A a, b \in Int : a < b => TicksPerDay * a + TicksPerDay <= TicksPerDay * b
  <2> SUFFICES ASSUME NEW a \in Int, NEW b \in Int, a < b
               PROVE TicksPerDay * a + TicksPerDay <= TicksPerDay * b
    OBVIOUS
  <2>1. b - a - 1 \in Nat
    OBVIOUS
  <2>2. TicksPerDay * (b - a - 1) \in Nat
    BY <1>1, <2>1
  <2>3. TicksPerDay * (b - a - 1) = TicksPerDay * b - TicksPerDay * a - TicksPerDay
    BY <1>1
  <2> QED BY <1>1, <2>2, <2>3
<1>4. \A t \in Int : DayStart(t) = TicksPerDay * Day(t) /\ DayStart(t) \in Int
  BY <1>1, <1>2 DEF DayStart
<1> DEFINE dx == Day(x)
           dy == Day(y)
           sx == TicksPerDay * dx
           sy == TicksPerDay * dy
<1>5. dx \in Int /\ dy \in Int /\ sx \in Int /\ sy \in Int
  BY <1>2, <1>4
<1>6. sx <= x /\ x < sx + TicksPerDay /\ sy <= y /\ y < sy + TicksPerDay
  BY <1>2
<1>7. (dx < dy => sx + TicksPerDay <= sy) /\ (dy < dx => sy + TicksPerDay <= sx)
  BY <1>3, <1>5
<1>8. DayStart(x) = sx /\ DayStart(y) = sy
  BY <1>4
<1>9. dx = dy => sx = sy
  OBVIOUS
<1> HIDE DEF dx, dy, sx, sy
<1>10. (x <= y => dx <= dy) /\ (x < sy <=> dx < dy)
  BY <1>1, <1>5, <1>6, <1>7, <1>9
<1> QED BY <1>5, <1>6, <1>8, <1>10 DEF dx, dy

(* A smaller allowance, or the same one less what left the set, cuts off    *)
(* no less.                                                                *)
Cut(S, key, n) == {c \in S : Rank(S, key, c) < n}

LEMMA CutShrinks ==
    ASSUME NEW S, NEW T, IsFiniteSet(S), NEW key, NEW tkey, NEW x, T = S \ {x},
           \A c \in T : tkey[c] = key[c],
           NEW n \in Nat, NEW m \in Nat, m <= n, x \in S /\ m > 0 => m < n
    PROVE  Cut(T, tkey, m) \subseteq Cut(S, key, n)
<1> SUFFICES ASSUME NEW c \in T, Rank(T, tkey, c) < m PROVE Rank(S, key, c) < n
  BY DEF Cut
<1> DEFINE A == {d \in S : Less(key[d], key[c])}
           B == {d \in T : Less(tkey[d], tkey[c])}
<1>1. B = A \ {x}
  OBVIOUS
<1>2. IsFiniteSet(A) /\ IsFiniteSet(B) /\ Cardinality(A) \in Nat /\ Cardinality(B) \in Nat
  <2>1. IsFiniteSet(A)
    BY FS_Subset
  <2>2. IsFiniteSet(B)
    BY <1>1, <2>1, FS_Subset
  <2> QED BY <2>1, <2>2, FS_CardinalityType
<1>3. Cardinality(B) < m
  BY DEF Rank
<1> SUFFICES Cardinality(A) < n
  BY DEF Rank
<1>4. CASE x \in A
  <2>1. Cardinality(B) = Cardinality(A) - 1
    BY <1>1, <1>2, <1>4, FS_RemoveElement
  <2>2. x \in S
    BY <1>4
  <2> HIDE DEF A, B
  <2> QED BY <1>2, <1>3, <2>1, <2>2
<1>5. CASE x \notin A
  <2>1. A = B
    BY <1>1, <1>5
  <2> HIDE DEF A, B
  <2> QED BY <1>2, <1>3, <2>1
<1> QED BY <1>4, <1>5

(* The cutoffs keep the cards of the lowest ranks. *)
LEMMA CutoffsAre ==
    ASSUME NEW s, NEW at, NEW n
    PROVE  /\ newCutoff(s, n, Start) = Cut(NewCards(s), [c \in Card |-> NewKey(c)], n)
           /\ revCutoff(s, at, n) =
                 Cut(DueCards(s, at), [c \in Card |-> RevKey(s.order, at, c)], n)
<1>1. NewCards(s) \subseteq Card /\ DueCards(s, at) \subseteq Card
  BY SetsAre
<1> DEFINE nkey == [c \in Card |-> NewKey(c)]
           rkey == [c \in Card |-> RevKey(s.order, at, c)]
<1>2. /\ \A c \in NewCards(s) : nkey[c] = NewKey(c)
      /\ \A c \in DueCards(s, at) : rkey[c] = RevKey(s.order, at, c)
  BY <1>1
<1> HIDE DEF nkey, rkey
<1>3. ASSUME NEW c \in NewCards(s)
      PROVE  Rank(NewCards(s), nkey, c)
                = Cardinality({d \in NewCards(s) : Less(NewKey(d), NewKey(c))})
  <2>1. {d \in NewCards(s) : Less(nkey[d], nkey[c])}
          = {d \in NewCards(s) : Less(NewKey(d), NewKey(c))}
    BY <1>2
  <2> QED BY <2>1 DEF Rank
<1>4. ASSUME NEW c \in DueCards(s, at)
      PROVE  Rank(DueCards(s, at), rkey, c)
                = Cardinality({d \in DueCards(s, at) :
                                  Less(RevKey(s.order, at, d), RevKey(s.order, at, c))})
  <2>1. {d \in DueCards(s, at) : Less(rkey[d], rkey[c])}
          = {d \in DueCards(s, at) : Less(RevKey(s.order, at, d), RevKey(s.order, at, c))}
    BY <1>2
  <2> QED BY <2>1 DEF Rank
<1>5. newCutoff(s, n, Start) = Cut(NewCards(s), nkey, n)
  BY <1>3 DEF newCutoff, Cut
<1>6. revCutoff(s, at, n) = Cut(DueCards(s, at), rkey, n)
  BY <1>4 DEF revCutoff, Cut
<1> QED BY <1>5, <1>6 DEF nkey, rkey

LEMMA RoundsAre ==
    ASSUME NEW rounds \in Nat
    PROVE  parseExtraRounds(rounds) \in Nat
<1>1. maxExtraRounds \in Nat
  BY StudyAssumption
<1>2. Least({rounds, maxExtraRounds}) = IF rounds <= maxExtraRounds THEN rounds ELSE maxExtraRounds
  BY <1>1, TwoNumbers
<1> QED BY <1>1, <1>2 DEF parseExtraRounds

(* Cards answered meanwhile make room for no other.                        *)
LEMMA OfferedShrinks ==
    ASSUME NEW s, Readable(s), NEW at, NEW rounds \in Nat,
           NEW i \in Nat, NEW r \in Nat, NEW j \in Nat, NEW q \in Nat, i <= j, r <= q
    PROVE  Offered(s, at, rounds, j, q) \subseteq Offered(s, at, rounds, i, r)
<1> DEFINE nl == NewLeft(s, rounds, i, r)
           tl == TotalLeft(s, rounds, i, r)
           nl2 == NewLeft(s, rounds, j, q)
           tl2 == TotalLeft(s, rounds, j, q)
<1>1. s.revPerDay * (1 + rounds) \in Int /\ s.newPerDay * (1 + rounds) \in Int
  <2>1. \A x, y \in Nat : x * (1 + y) \in Int
    OBVIOUS
  <2> QED BY <2>1 DEF Readable
<1>2. nl \in Nat /\ tl \in Nat /\ nl2 \in Nat /\ tl2 \in Nat
  BY LeftIs
<1>3. nl2 <= nl /\ tl2 <= tl
  <2> DEFINE a == s.revPerDay * (1 + rounds)
             b == s.newPerDay * (1 + rounds)
  <2>1. /\ tl = IF a - (i + r) > 0 THEN a - (i + r) ELSE 0
        /\ nl = IF a - (i + r) > 0 /\ b - i > 0 THEN b - i ELSE 0
        /\ tl2 = IF a - (j + q) > 0 THEN a - (j + q) ELSE 0
        /\ nl2 = IF a - (j + q) > 0 /\ b - j > 0 THEN b - j ELSE 0
    BY LeftIs
  <2> HIDE DEF a, b, nl, nl2, tl, tl2
  <2>2. a \in Int /\ b \in Int
    BY <1>1 DEF a, b
  <2> QED BY <1>2, <2>1, <2>2
<1> HIDE DEF nl, nl2, tl, tl2
<1>4. \A S, key : Cut(S, key, nl2) \subseteq Cut(S, key, nl) \/ ~IsFiniteSet(S)
  <2> SUFFICES ASSUME NEW S, NEW key, IsFiniteSet(S), NEW c \in S, Rank(S, key, c) < nl2
               PROVE  Rank(S, key, c) < nl
    BY DEF Cut
  <2>1. Rank(S, key, c) \in Nat
    <3>1. IsFiniteSet({d \in S : Less(key[d], key[c])})
      BY FS_Subset
    <3> QED BY <3>1, FS_CardinalityType DEF Rank
  <2> QED BY <1>2, <1>3, <2>1
<1>5. \A S, key : Cut(S, key, tl2) \subseteq Cut(S, key, tl) \/ ~IsFiniteSet(S)
  <2> SUFFICES ASSUME NEW S, NEW key, IsFiniteSet(S), NEW c \in S, Rank(S, key, c) < tl2
               PROVE  Rank(S, key, c) < tl
    BY DEF Cut
  <2>1. Rank(S, key, c) \in Nat
    <3>1. IsFiniteSet({d \in S : Less(key[d], key[c])})
      BY FS_Subset
    <3> QED BY <3>1, FS_CardinalityType DEF Rank
  <2> QED BY <1>2, <1>3, <2>1
<1>6. newCutoff(s, nl2, Start) \subseteq newCutoff(s, nl, Start)
  <2> DEFINE key == [c \in Card |-> NewKey(c)]
  <2>1. newCutoff(s, nl2, Start) = Cut(NewCards(s), key, nl2)
    BY CutoffsAre
  <2>2. newCutoff(s, nl, Start) = Cut(NewCards(s), key, nl)
    BY CutoffsAre
  <2>3. IsFiniteSet(NewCards(s))
    BY SetsAre
  <2> HIDE DEF key
  <2> QED BY <1>4, <2>1, <2>2, <2>3
<1>7. revCutoff(s, at, tl2) \subseteq revCutoff(s, at, tl)
  <2> DEFINE key == [c \in Card |-> RevKey(s.order, at, c)]
  <2>1. revCutoff(s, at, tl2) = Cut(DueCards(s, at), key, tl2)
    BY CutoffsAre
  <2>2. revCutoff(s, at, tl) = Cut(DueCards(s, at), key, tl)
    BY CutoffsAre
  <2>3. IsFiniteSet(DueCards(s, at))
    BY SetsAre
  <2> HIDE DEF key
  <2> QED BY <1>5, <2>1, <2>2, <2>3
<1> QED BY <1>6, <1>7 DEF Offered, OfferedReviews, nl, nl2, tl, tl2

GradedCard == Head(unsent).card

(* Storing a grade takes its card out of what is offered, and puts none in. *)
LEMMA GradeShrinks ==
    ASSUME TypeInv, LogInv, GradeBatch, Head(unsent).at = now
    PROVE  /\ GradedCard \in Card /\ Today' = Today
           /\ \A c \in Card : c # GradedCard => row'[c] = row[c]
           /\ row'[GradedCard] # NoRow /\ row'[GradedCard].last = now
           /\ CountNewIntroducedToday(Day(now)) <= CountNewIntroducedToday(Day(now))'
           /\ CountReviewedToday(Day(now)) <= CountReviewedToday(Day(now))'
           /\ CountNewIntroducedToday(Day(now))' \in Nat /\ CountReviewedToday(Day(now))' \in Nat
           /\ OfferedToday(session.rounds)' \subseteq OfferedToday(session.rounds)
           /\ GradedCard \notin OfferedToday(session.rounds)'
<1> DEFINE g == Head(unsent)
           x == g.card
           old == row[x]
           before == IF old = NoRow THEN 0 ELSE old.state
           NS == NewCards(Today)
           DS == DueCards(Today, now)
           RS == ReadyCards(Today, now)
           NI == CountNewIntroducedToday(Day(now))
           RI == CountReviewedToday(Day(now))
<1>1. g \in Grades /\ x \in Card /\ now \in Int /\ g = unsent[1] /\ 1 \in DOMAIN unsent
  <2>1. unsent \in Seq(Grades) /\ unsent # <<>>
    BY DEF TypeInv, GradeBatch
  <2>2. now \in Int
    BY StudyAssumption DEF TypeInv
  <2>3. g \in Grades /\ g = unsent[1] /\ 1 \in DOMAIN unsent
    BY <2>1
  <2> QED BY <2>2, <2>3 DEF Grades
<1>2. /\ row' = [row EXCEPT ![x] = Scheduled(old, g)]
      /\ UNCHANGED <<now, preset, session>>
  BY DEF GradeBatch
<1>3. PICK e : log' = log \cup {e} /\ e.card = x /\ e.before = before /\ e.day = Day(now)
  <2> DEFINE f == g.served = Day(g.at) /\ g.kind = old.state /\ g.kind # 0
             ee == [card |-> x, before |-> before, day |-> Day(g.at), fair |-> f]
  <2>1. log' = log \cup {ee}
    BY DEF GradeBatch
  <2>2. ee.card = x /\ ee.before = before /\ ee.day = Day(now)
    OBVIOUS
  <2> QED BY <2>1, <2>2
<1>4. /\ row'[x] = Scheduled(old, g)
      /\ \A c \in Card : c # x => row'[c] = row[c]
  BY <1>1, <1>2 DEF TypeInv
<1>5. row'[x] # NoRow /\ row'[x].last = now
  BY <1>4 DEF Scheduled, NoRow
<1>6. Today' = Today
  BY <1>2 DEF Today
<1> HIDE DEF g
<1>7. NS' = NS \ {x} /\ RS' = RS \ {x} /\ DS' = DS \ {x}
  <2>1. NS' = NS \ {x}
    BY <1>4, <1>5, <1>6 DEF NewCards, unseen
  <2>2. RS' = RS \ {x}
    <3>1. ~ row'[x].last < DayStart(now)
      BY <1>1, <1>5, DaysAre
    <3>2. x \notin RS'
      BY <1>2, <3>1 DEF ReadyCards, Ready, Day, DayStart
    <3>3. \A c \in Card \ {x} : c \in RS' <=> c \in RS
      BY <1>2, <1>4, <1>6 DEF ReadyCards, Ready, Day, DayStart, unseen
    <3>4. RS \subseteq Card /\ RS' \subseteq Card
      BY DEF ReadyCards
    <3> QED BY <3>2, <3>3, <3>4
  <2>3. DS' = DS \ {x}
    <3>1. RS \subseteq Card
      BY DEF ReadyCards
    <3> HIDE DEF RS
    <3>2. DS' = {c \in RS' : row'[c].state = 2} /\ DS = {c \in RS : row[c].state = 2}
      BY <1>6 DEF DueCards, RS
    <3> HIDE DEF DS
    <3> QED BY <1>4, <2>2, <3>1, <3>2
  <2> QED BY <2>1, <2>2, <2>3
<1>8. NI \in Nat /\ RI \in Nat /\ NI' \in Nat /\ RI' \in Nat
      /\ NI <= NI' /\ RI <= RI' /\ (x \in NS => NI' = NI + 1) /\ (x \in DS => RI' = RI + 1)
  <2> DEFINE Of(L, b) == {d.card : d \in {l \in L : l.before = b /\ l.day = Day(now)}}
  <2>1. ASSUME NEW b
        PROVE  /\ Of(log', b) = IF before = b THEN Of(log, b) \cup {x} ELSE Of(log, b)
               /\ IsFiniteSet(Of(log, b)) /\ Cardinality(Of(log, b)) \in Nat
    <3>1. Of(log', b) = IF before = b THEN Of(log, b) \cup {x} ELSE Of(log, b)
      BY <1>3
    <3>2. Of(log, b) \subseteq Card
      BY DEF TypeInv
    <3>3. IsFiniteSet(Of(log, b))
      BY <3>2, StudyAssumption, FS_Subset
    <3> QED BY <3>1, <3>3, FS_CardinalityType
  <2>2. ASSUME NEW b, x \in Of(log, b)
        PROVE  old # NoRow /\ Day(now) <= Day(old.last)
    <3>1. PICK l \in log : l.card = x /\ l.day = Day(now)
      BY <2>2
    <3> QED BY <3>1 DEF LogInv
  <2>3. NI = Cardinality(Of(log, 0)) /\ RI = Cardinality(Of(log, 2))
    BY DEF CountNewIntroducedToday, CountReviewedToday
  <2>4. NI' = Cardinality(Of(log', 0)) /\ RI' = Cardinality(Of(log', 2))
    BY <1>2 DEF CountNewIntroducedToday, CountReviewedToday
  <2>5. x \in NS => before = 0 /\ x \notin Of(log, 0)
    BY <2>2 DEF NewCards, unseen
  <2>6. x \in DS => before = 2 /\ x \notin Of(log, 2)
    <3> SUFFICES ASSUME x \in DS PROVE before = 2 /\ x \notin Of(log, 2)
      OBVIOUS
    <3>1. old # NoRow /\ old.state = 2 /\ old.last < DayStart(now)
      BY DEF DueCards, ReadyCards, Ready, unseen
    <3>2. old.last \in Int
      BY <1>1, <3>1 DEF TypeInv, Row
    <3>3. Day(old.last) < Day(now) /\ Day(old.last) \in Int /\ Day(now) \in Int
      BY <1>1, <3>1, <3>2, DaysAre
    <3>4. before = 2
      BY <3>1
    <3> QED BY <2>2, <3>3, <3>4
  <2> HIDE DEF Of, before
  <2>7. ASSUME NEW b
        PROVE  /\ Cardinality(Of(log, b)) <= Cardinality(Of(log', b))
               /\ Cardinality(Of(log', b)) \in Nat
               /\ before = b /\ x \notin Of(log, b) =>
                      Cardinality(Of(log', b)) = Cardinality(Of(log, b)) + 1
    <3>1. IsFiniteSet(Of(log, b) \cup {x})
          /\ Cardinality(Of(log, b) \cup {x})
                = IF x \in Of(log, b) THEN Cardinality(Of(log, b)) ELSE Cardinality(Of(log, b)) + 1
      BY <2>1, FS_AddElement
    <3> QED BY <2>1, <3>1
  <2> QED BY <2>1, <2>3, <2>4, <2>5, <2>6, <2>7
<1> DEFINE rounds == parseExtraRounds(session.rounds)
           nl == NewLeft(Today, rounds, NI, RI)
           tl == TotalLeft(Today, rounds, NI, RI)
           nm == NewLeft(Today, rounds, NI', RI')
           tm == TotalLeft(Today, rounds, NI', RI')
<1>9. Readable(Today) /\ rounds \in Nat /\ rounds' = rounds
  <2>1. session.rounds \in Nat
    BY StudyAssumption DEF TypeInv, Sessions
  <2> QED BY <1>2, <2>1, TodayIsReadable, RoundsAre DEF Today
<1>10. /\ nl \in Nat /\ tl \in Nat /\ nm \in Nat /\ tm \in Nat
       /\ nm <= nl /\ (x \in NS /\ nm > 0 => nm < nl)
       /\ tm <= tl /\ (x \in DS /\ tm > 0 => tm < tl)
  <2> DEFINE a == Today.revPerDay * (1 + rounds)
             b == Today.newPerDay * (1 + rounds)
             nj == NI'
             rj == RI'
  <2>1. a \in Int /\ b \in Int
    <3>1. \A y, z \in Nat : y * (1 + z) \in Int
      OBVIOUS
    <3> HIDE DEF rounds
    <3> QED BY <1>9, <3>1 DEF Readable
  <2>2. nj \in Nat /\ rj \in Nat
    BY <1>8
  <2> HIDE DEF NI, RI, nj, rj, rounds
  <2>3. /\ tl = IF a - (NI + RI) > 0 THEN a - (NI + RI) ELSE 0
        /\ nl = IF a - (NI + RI) > 0 /\ b - NI > 0 THEN b - NI ELSE 0
        /\ TotalLeft(Today, rounds, nj, rj) = IF a - (nj + rj) > 0 THEN a - (nj + rj) ELSE 0
        /\ NewLeft(Today, rounds, nj, rj) = IF a - (nj + rj) > 0 /\ b - nj > 0 THEN b - nj ELSE 0
    BY <1>8, <1>9, <2>2, LeftIs
  <2>4. /\ tm = IF a - (nj + rj) > 0 THEN a - (nj + rj) ELSE 0
        /\ nm = IF a - (nj + rj) > 0 /\ b - nj > 0 THEN b - nj ELSE 0
    BY <2>3 DEF nj, rj
  <2>5. NI <= nj /\ RI <= rj /\ (x \in NS => nj = NI + 1) /\ (x \in DS => rj = RI + 1)
    BY <1>8 DEF nj, rj
  <2> HIDE DEF a, b, nl, tl, nm, tm
  <2> QED BY <1>8, <2>1, <2>2, <2>3, <2>4, <2>5
<1> DEFINE nkey == [c \in Card |-> NewKey(c)]
           rkey == [c \in Card |-> RevKey(Today.order, now, c)]
           N == newCutoff(Today, NewLeft(Today, rounds, NI, RI), Start)
           R == revCutoff(Today, now, TotalLeft(Today, rounds, NI, RI))
<1>11. /\ NewLeft(Today, rounds, NI, RI)' = nm
       /\ TotalLeft(Today, rounds, NI, RI)' = tm
  <2> HIDE DEF NI, RI, rounds
  <2> QED BY <1>6, <1>9 DEF NewLeft, TotalLeft, NewRemaining, RevRemaining
<1>12. \A c \in Card \ {x} : RevKey(Today.order, now, c)' = RevKey(Today.order, now, c)
  BY <1>2, <1>4, <1>6 DEF RevKey, revKey, Day
<1>13. \A c \in Card : NewKey(c)' = NewKey(c)
  BY DEF NewKey, newCardKey
<1>14. NS \subseteq Card /\ IsFiniteSet(NS) /\ DS \subseteq Card /\ IsFiniteSet(DS)
  BY SetsAre
<1> HIDE DEF NS, DS, RS, NI, RI, rounds, nl, tl, nm, tm, old, x
<1>15. N' \subseteq N
  <2>1. N = Cut(NS, nkey, nl)
    BY CutoffsAre DEF NS, nl
  <2>2. N' \subseteq Cut(NS', nkey, nm)
    <3> SUFFICES ASSUME NEW c \in NS',
                        Cardinality({d \in NS' : Less(NewKey(d)', NewKey(c)')}) < nm
                 PROVE  Rank(NS', nkey, c) < nm
      BY <1>11 DEF newCutoff, Cut, NS
    <3>1. \A d \in NS' : nkey[d] = NewKey(d)'
      BY <1>7, <1>13, <1>14
    <3> HIDE DEF nkey
    <3>2. {d \in NS' : Less(nkey[d], nkey[c])} = {d \in NS' : Less(NewKey(d)', NewKey(c)')}
      BY <3>1
    <3> QED BY <3>2 DEF Rank
  <2>3. Cut(NS', nkey, nm) \subseteq Cut(NS, nkey, nl)
    <3> HIDE DEF nkey
    <3> QED BY <1>7, <1>10, <1>14, CutShrinks
  <2> QED BY <2>1, <2>2, <2>3
<1>16. R' \subseteq R
  <2>1. R = Cut(DS, rkey, tl)
    BY CutoffsAre DEF DS, tl
  <2>2. R' \subseteq Cut(DS', rkey, tm)
    <3> SUFFICES ASSUME NEW c \in DS',
                        Cardinality({d \in DS' : Less(RevKey(Today.order, now, d)',
                                                      RevKey(Today.order, now, c)')}) < tm
                 PROVE  Rank(DS', rkey, c) < tm
      BY <1>11 DEF revCutoff, Cut, DS
    <3>1. \A d \in DS' : rkey[d] = RevKey(Today.order, now, d)'
      BY <1>7, <1>12, <1>14
    <3> HIDE DEF rkey
    <3>2. {d \in DS' : Less(rkey[d], rkey[c])}
             = {d \in DS' : Less(RevKey(Today.order, now, d)', RevKey(Today.order, now, c)')}
      BY <3>1
    <3> QED BY <3>2 DEF Rank
  <2>3. Cut(DS', rkey, tm) \subseteq Cut(DS, rkey, tl)
    <3> HIDE DEF rkey
    <3> QED BY <1>7, <1>10, <1>14, CutShrinks
  <2> QED BY <2>1, <2>2, <2>3
<1>17. /\ OfferedToday(session.rounds) = N \cup R \cup (RS \ DS)
       /\ OfferedToday(session.rounds)' = N' \cup R' \cup (RS' \ DS')
  BY DEF OfferedToday, Offered, OfferedReviews, NI, RI, RS, DS, rounds
<1>18. N' \subseteq NS' /\ R' \subseteq DS'
  BY DEF newCutoff, revCutoff, NS, DS
<1>19. RS' \ DS' \subseteq RS \ DS
  BY <1>7
<1> HIDE DEF N, R
<1>20. OfferedToday(session.rounds)' \subseteq OfferedToday(session.rounds)
  BY <1>15, <1>16, <1>17, <1>19
<1>21. x \notin OfferedToday(session.rounds)'
  BY <1>7, <1>17, <1>18
<1> QED BY <1>1, <1>4, <1>5, <1>6, <1>8, <1>20, <1>21 DEF GradedCard, NI, RI, x, g

(* A card answered today is not offered. *)
LEMMA AnsweredIsOut ==
    ASSUME TypeInv, NEW c \in Card, Answered(c), NEW s, NEW rounds, NEW i, NEW r
    PROVE  c \notin Offered(s, now, rounds, i, r)
<1>1. c \notin ReadyCards(s, now) /\ c \notin NewCards(s)
  <2>1. ~ unseen(c) /\ row[c].last >= DayStart(now)
    BY DEF Answered
  <2>2. row[c].last \in Int /\ now \in Int
    BY <2>1, StudyAssumption DEF TypeInv, Row, unseen
  <2>3. ~ row[c].last < DayStart(now)
    BY <2>1, <2>2, DaysAre
  <2> QED BY <2>1, <2>3 DEF ReadyCards, Ready, NewCards
<1> QED BY <1>1, SetsAre DEF Offered

-----------------------------------------------------------------------------
(* The queue of the session.                                               *)

(* Slots that come from different slots. *)
FromApart(r, I, q, J) ==
    \A i, j \in I : \E a, b \in J : r[i] = q[a] /\ r[j] = q[b] /\ (i # j => a # b)

LEMMA IndexBatchIs ==
    ASSUME queue \in Seq(Slots), NEW n \in Nat, NEW slots \in [1 .. n -> Slots],
           \A i \in 1 .. n : ~ slots[i].done
    PROVE  /\ indexBatch(slots) \in Seq(Slots)
           /\ CardsOf(indexBatch(slots)) = CardsOf(queue) \cup CardsOf(slots)
           /\ Pending(queue) \subseteq Pending(indexBatch(slots))
           /\ ~ (CardsOf(slots) \subseteq CardsOf(queue)) =>
                 \E i \in Pending(indexBatch(slots)) : i \notin DOMAIN queue
           /\ DOMAIN queue \subseteq DOMAIN indexBatch(slots)
           /\ \A i \in DOMAIN queue : indexBatch(slots)[i] = queue[i]
           /\ FromApart(indexBatch(slots), DOMAIN indexBatch(slots) \ DOMAIN queue,
                        slots, {a \in 1 .. n : slots[a].card \notin CardsOf(queue)})
<1> DEFINE fresh == {i \in DOMAIN slots : slots[i].card \notin CardsOf(queue)}
           order == Ranked(fresh, [i \in fresh |-> Place(i)])
           m == Cardinality(fresh)
           tail == [k \in DOMAIN order |-> slots[order[k]]]
           l == Len(queue)
           q == indexBatch(slots)
<1>1. DOMAIN slots = 1 .. n /\ IsFiniteSet(1 .. n)
  BY FS_Interval
<1>2. fresh \subseteq Int /\ IsFiniteSet(fresh) /\ m \in Nat
  BY <1>1, FS_Subset, FS_CardinalityType
<1>3. /\ order \in [1 .. m -> fresh] /\ \A c \in fresh : \E k \in 1 .. m : order[k] = c
      /\ \A k, k2 \in 1 .. m : k # k2 => order[k] # order[k2]
  <2> DEFINE key == [i \in fresh |-> Place(i)]
  <2>1. Keyed(fresh, key)
    BY <1>2, PlaceIs
  <2> HIDE DEF fresh, key
  <2>2. /\ order \in [1 .. m -> fresh] /\ \A c \in fresh : \E k \in 1 .. m : order[k] = c
        /\ \A k, k2 \in 1 .. m : k < k2 <=> Less(key[order[k]], key[order[k2]])
    <3>1. order = Ranked(fresh, key)
      BY DEF key
    <3> HIDE DEF order
    <3> QED BY <2>1, <3>1, RankedIs
  <2> HIDE DEF order, m
  <2>3. ASSUME NEW k \in 1 .. m, NEW k2 \in 1 .. m, order[k] = order[k2] PROVE k = k2
    <3>1. key[order[k]] \in Key
      BY <2>1, <2>2 DEF Keyed
    <3>2. ~ k < k2 /\ ~ k2 < k
      BY <2>2, <2>3, <3>1, LessOrder
    <3> QED BY <1>2, <3>2
  <2> QED BY <2>2, <2>3
<1>4. q = queue \o tail
  BY DEF indexBatch, Place, CardsOf
<1>5. \A i \in fresh : i \in 1 .. n /\ slots[i] \in Slots /\ ~ slots[i].done
                       /\ slots[i].card \notin CardsOf(queue)
  BY <1>1
<1>6. \A i \in 1 .. n : i \in fresh \/ slots[i].card \in CardsOf(queue)
  BY <1>1
<1> HIDE DEF fresh, order, m, q
<1>7. DOMAIN order = 1 .. m /\ \A k \in 1 .. m : order[k] \in fresh
  BY <1>3
<1>8. tail \in Seq(Slots) /\ Len(tail) = m /\ \A k \in 1 .. m : tail[k] = slots[order[k]]
  <2>1. tail = [k \in 1 .. m |-> slots[order[k]]]
    BY <1>7
  <2>2. \A k \in 1 .. m : slots[order[k]] \in Slots
    BY <1>5, <1>7
  <2> HIDE DEF tail
  <2>3. tail \in [1 .. m -> Slots]
    BY <2>1, <2>2
  <2> QED BY <1>2, <2>1, <2>3
<1> HIDE DEF tail
<1>9. /\ q \in Seq(Slots) /\ DOMAIN q = 1 .. l + m /\ l \in Nat /\ DOMAIN queue = 1 .. l
      /\ \A i \in 1 .. l : q[i] = queue[i]
      /\ \A k \in 1 .. m : q[l + k] = slots[order[k]]
  <2>1. queue \in Seq(Slots) /\ l \in Nat /\ DOMAIN queue = 1 .. l
    OBVIOUS
  <2>2. q \in Seq(Slots) /\ Len(q) = l + m
    <3>1. queue \in Seq(Slots) /\ tail \in Seq(Slots)
      BY <1>8
    <3>2. queue \o tail \in Seq(Slots) /\ Len(queue \o tail) = Len(queue) + Len(tail)
      BY <3>1
    <3> QED BY <1>4, <1>8, <3>2
  <2>3. \A i \in 1 .. l : q[i] = queue[i]
    BY <1>2, <1>4, <1>8, <2>1
  <2>4. ASSUME NEW k \in 1 .. m PROVE q[l + k] = slots[order[k]]
    <3>1. l + k \in 1 .. l + m /\ ~ l + k <= l /\ (l + k) - l = k
      BY <1>2, <2>1
    <3>2. q[l + k] = tail[k]
      BY <1>2, <1>4, <1>8, <2>1, <3>1
    <3> QED BY <1>8, <3>2
  <2> QED BY <1>2, <2>1, <2>2, <2>3, <2>4
<1> HIDE DEF l
<1>10. \A i \in 1 .. l : i \in DOMAIN q
  BY <1>2, <1>9
<1>11. \A k \in 1 .. m : l + k \in DOMAIN q /\ l + k \notin DOMAIN queue
  BY <1>2, <1>9
<1>12. \A i \in DOMAIN q : i \in 1 .. l \/ \E k \in 1 .. m : i = l + k
  <2> TAKE i \in DOMAIN q
  <2>1. CASE i \in 1 .. l
    BY <2>1
  <2>2. CASE i \notin 1 .. l
    <3>1. i - l \in 1 .. m /\ i = l + (i - l)
      BY <1>2, <1>9, <2>2
    <3> QED BY <3>1
  <2> QED BY <2>1, <2>2
<1>13. CardsOf(q) = CardsOf(queue) \cup CardsOf(slots)
  <2>1. ASSUME NEW i \in DOMAIN q PROVE q[i].card \in CardsOf(queue) \cup CardsOf(slots)
    BY <1>1, <1>5, <1>7, <1>9, <1>12 DEF CardsOf
  <2>2. ASSUME NEW i \in DOMAIN queue PROVE queue[i].card \in CardsOf(q)
    BY <1>9, <1>10 DEF CardsOf
  <2>3. ASSUME NEW i \in 1 .. n PROVE slots[i].card \in CardsOf(q)
    <3>1. CASE i \in fresh
      <4>1. PICK k \in 1 .. m : order[k] = i
        BY <1>3, <3>1
      <4>2. q[l + k].card = slots[i].card /\ l + k \in DOMAIN q
        BY <1>9, <1>11, <4>1
      <4> QED BY <4>2 DEF CardsOf
    <3>2. CASE slots[i].card \in CardsOf(queue)
      BY <2>2, <3>2 DEF CardsOf
    <3> QED BY <1>6, <3>1, <3>2
  <2> QED BY <1>1, <2>1, <2>2, <2>3 DEF CardsOf
<1>14. Pending(queue) \subseteq Pending(q)
  BY <1>9, <1>10 DEF Pending
<1>15. ASSUME ~ (CardsOf(slots) \subseteq CardsOf(queue))
       PROVE  \E i \in Pending(q) : i \notin DOMAIN queue
  <2>1. PICK i \in 1 .. n : slots[i].card \notin CardsOf(queue)
    BY <1>1, <1>15 DEF CardsOf
  <2>2. i \in fresh
    BY <1>6, <2>1
  <2>3. PICK k \in 1 .. m : order[k] = i
    BY <1>3, <2>2
  <2>4. l + k \in Pending(q) /\ l + k \notin DOMAIN queue
    BY <1>5, <1>9, <1>11, <2>2, <2>3 DEF Pending
  <2> QED BY <2>4
<1>16. ASSUME NEW i \in DOMAIN q \ DOMAIN queue, NEW j \in DOMAIN q \ DOMAIN queue
       PROVE  \E a, b \in 1 .. n : /\ q[i] = slots[a] /\ q[j] = slots[b]
                                   /\ slots[a].card \notin CardsOf(queue)
                                   /\ slots[b].card \notin CardsOf(queue)
                                   /\ i # j => a # b
  <2>1. PICK k \in 1 .. m : i = l + k
    BY <1>9, <1>12
  <2>2. PICK k2 \in 1 .. m : j = l + k2
    BY <1>9, <1>12
  <2>3. q[i] = slots[order[k]] /\ q[j] = slots[order[k2]]
    BY <1>9, <2>1, <2>2
  <2>4. /\ order[k] \in 1 .. n /\ order[k2] \in 1 .. n
        /\ slots[order[k]].card \notin CardsOf(queue)
        /\ slots[order[k2]].card \notin CardsOf(queue)
    BY <1>5, <1>7
  <2>5. i # j => order[k] # order[k2]
    BY <1>3, <2>1, <2>2
  <2> QED BY <2>3, <2>4, <2>5
<1>17. DOMAIN queue \subseteq DOMAIN q /\ \A i \in DOMAIN queue : q[i] = queue[i]
  BY <1>9, <1>10
<1>18. FromApart(q, DOMAIN q \ DOMAIN queue,
                 slots, {a \in 1 .. n : slots[a].card \notin CardsOf(queue)})
  BY <1>16 DEF FromApart
<1> QED BY <1>9, <1>13, <1>14, <1>15, <1>17, <1>18 DEF q

(* The requeued slot is put in somewhere. *)
PutIn(q, n, slot, r) ==
    /\ DOMAIN r = 1 .. Len(q) + 1
    /\ \A i \in 1 .. Len(q) + 1 :
          r[i] = IF i <= n THEN q[i] ELSE IF i = n + 1 THEN slot ELSE q[i - 1]

LEMMA RequeueRows ==
    ASSUME NEW q \in Seq(Slots), NEW current, NEW slot \in Slots, NEW ahead
    PROVE  LET r == maybeRequeue(q, current, slot, ahead)
               new == [slot EXCEPT !.done = FALSE, !.repeat = TRUE]
           IN
           /\ new \in Slots /\ new.card = slot.card /\ ~ new.done
           /\ r \in Seq(Slots) /\ \E n \in 0 .. Len(q) : PutIn(q, n, new, r)
<1> DEFINE later == {j \in Pending(q) : j > current}
           at == {j \in later : Cardinality({i \in later : i <= j}) = ahead}
           n == IF at = {} THEN Len(q) ELSE Least(at) - 1
           new == [slot EXCEPT !.done = FALSE, !.repeat = TRUE]
           r == maybeRequeue(q, current, slot, ahead)
           l == Len(q)
<1>1. l \in Nat /\ DOMAIN q = 1 .. l /\ \A i \in 1 .. l : q[i] \in Slots
  OBVIOUS
<1>2. n \in 0 .. l
  <2>1. at \subseteq 1 .. l /\ at \subseteq Nat
    BY <1>1 DEF Pending
  <2> HIDE DEF at
  <2>2. at # {} => Least(at) \in 1 .. l
    BY <2>1, LeastIs
  <2> QED BY <1>1, <2>2
<1>3. r = SubSeq(q, 1, n) \o <<new>> \o SubSeq(q, n + 1, l)
  BY DEF maybeRequeue
<1>4. new \in Slots /\ new.card = slot.card /\ ~ new.done
  BY DEF Slots
<1> HIDE DEF n, new, r, l
<1>5. /\ r \in Seq(Slots) /\ DOMAIN r = 1 .. l + 1
      /\ \A i \in 1 .. l + 1 : r[i] = IF i <= n THEN q[i] ELSE IF i = n + 1 THEN new ELSE q[i - 1]
  <2> DEFINE a == SubSeq(q, 1, n)
             b == SubSeq(q, n + 1, l)
  <2>1. a \in Seq(Slots) /\ Len(a) = n /\ \A i \in 1 .. n : a[i] = q[i]
    BY <1>1, <1>2
  <2>2. b \in Seq(Slots) /\ Len(b) = l - n /\ \A i \in 1 .. l - n : b[i] = q[n + i]
    BY <1>1, <1>2
  <2> HIDE DEF a, b
  <2>3. /\ a \o <<new>> \in Seq(Slots) /\ Len(a \o <<new>>) = n + 1
        /\ \A i \in 1 .. n + 1 : (a \o <<new>>)[i] = IF i <= n THEN q[i] ELSE new
    BY <1>2, <1>4, <2>1
  <2> DEFINE c == a \o <<new>>
  <2>4. r = c \o b
    BY <1>3 DEF a, b
  <2>5. c \in Seq(Slots) /\ Len(c) = n + 1
    BY <2>3
  <2>6. \A i \in 1 .. n + 1 : c[i] = IF i <= n THEN q[i] ELSE new
    BY <2>3
  <2> HIDE DEF c
  <2>7. r \in Seq(Slots) /\ Len(r) = l + 1
    BY <1>1, <1>2, <2>2, <2>4, <2>5
  <2>8. ASSUME NEW i \in 1 .. l + 1
        PROVE  r[i] = IF i <= n THEN q[i] ELSE IF i = n + 1 THEN new ELSE q[i - 1]
    <3>1. CASE i <= n + 1
      <4>1. i \in 1 .. n + 1 /\ r[i] = c[i]
        BY <1>1, <1>2, <2>2, <2>4, <2>5, <3>1
      <4> QED BY <1>1, <1>2, <2>6, <3>1, <4>1
    <3>2. CASE ~ i <= n + 1
      <4>1. i - (n + 1) \in 1 .. l - n /\ n + (i - (n + 1)) = i - 1 /\ i \in Int /\ n \in Int
        BY <1>1, <1>2, <3>2
      <4>2. r[i] = b[i - (n + 1)]
        BY <1>1, <1>2, <2>2, <2>4, <2>5, <3>2, <4>1
      <4> QED BY <2>2, <3>2, <4>1, <4>2
    <3> QED BY <3>1, <3>2
  <2> QED BY <1>1, <2>7, <2>8
<1> QED BY <1>2, <1>4, <1>5 DEF r, new, l, PutIn

(* The requeued slot is one of the queue, and pending. *)
LEMMA RequeueIs ==
    ASSUME NEW q \in Seq(Slots), NEW current, NEW slot \in Slots, NEW ahead
    PROVE  /\ maybeRequeue(q, current, slot, ahead) \in Seq(Slots)
           /\ CardsOf(maybeRequeue(q, current, slot, ahead)) = CardsOf(q) \cup {slot.card}
           /\ Pending(maybeRequeue(q, current, slot, ahead)) # {}
<1> DEFINE new == [slot EXCEPT !.done = FALSE, !.repeat = TRUE]
           r == maybeRequeue(q, current, slot, ahead)
           l == Len(q)
<1>1. l \in Nat /\ DOMAIN q = 1 .. l /\ \A i \in 1 .. l : q[i] \in Slots
  OBVIOUS
<1>4. new \in Slots /\ new.card = slot.card /\ ~ new.done
  BY RequeueRows
<1>2. PICK n \in 0 .. l : PutIn(q, n, new, r)
  BY RequeueRows
<1>3. r \in Seq(Slots)
  BY RequeueRows
<1>5. /\ r \in Seq(Slots) /\ DOMAIN r = 1 .. l + 1
      /\ \A i \in 1 .. l + 1 : r[i] = IF i <= n THEN q[i] ELSE IF i = n + 1 THEN new ELSE q[i - 1]
  <2> HIDE DEF new, r
  <2> QED BY <1>2, <1>3 DEF PutIn
<1> HIDE DEF new, r, l
<1>6. n + 1 \in DOMAIN r /\ r[n + 1] = new
  BY <1>1, <1>2, <1>5
<1>7. ASSUME NEW i \in DOMAIN r PROVE r[i].card \in CardsOf(q) \cup {slot.card}
  <2>1. CASE i <= n
    <3>1. i \in 1 .. l /\ r[i] = q[i]
      BY <1>1, <1>2, <1>5, <2>1
    <3> QED BY <1>1, <3>1 DEF CardsOf
  <2>2. CASE i = n + 1
    BY <1>4, <1>6, <2>2
  <2>3. CASE i > n + 1
    <3>1. i - 1 \in 1 .. l /\ r[i] = q[i - 1]
      BY <1>1, <1>2, <1>5, <2>3
    <3> QED BY <1>1, <3>1 DEF CardsOf
  <2> QED BY <1>2, <1>5, <2>1, <2>2, <2>3
<1>8. ASSUME NEW i \in DOMAIN q PROVE q[i].card \in CardsOf(r)
  <2>1. CASE i <= n
    <3>1. i \in DOMAIN r /\ r[i] = q[i]
      BY <1>1, <1>2, <1>5, <2>1
    <3> QED BY <3>1 DEF CardsOf
  <2>2. CASE ~ i <= n
    <3>1. i + 1 \in DOMAIN r /\ r[i + 1] = q[i]
      BY <1>1, <1>2, <1>5, <2>2
    <3> QED BY <3>1 DEF CardsOf
  <2> QED BY <2>1, <2>2
<1>9. CardsOf(r) = CardsOf(q) \cup {slot.card}
  BY <1>4, <1>6, <1>7, <1>8 DEF CardsOf
<1>10. n + 1 \in Pending(r)
  BY <1>4, <1>6 DEF Pending
<1> QED BY <1>5, <1>9, <1>10 DEF r

(* But for the requeued slot the queue is what it was. *)
LEMMA RequeueApart ==
    ASSUME NEW q \in Seq(Slots), NEW current, NEW slot \in Slots, NEW ahead
    PROVE  LET r == maybeRequeue(q, current, slot, ahead) IN
           \E p \in DOMAIN r :
              /\ r[p] = [slot EXCEPT !.done = FALSE, !.repeat = TRUE]
              /\ FromApart(r, DOMAIN r \ {p}, q, DOMAIN q)
<1> DEFINE new == [slot EXCEPT !.done = FALSE, !.repeat = TRUE]
           r == maybeRequeue(q, current, slot, ahead)
           l == Len(q)
<1>1. l \in Nat /\ DOMAIN q = 1 .. l /\ \A i \in 1 .. l : q[i] \in Slots
  OBVIOUS
<1>4. new \in Slots /\ new.card = slot.card /\ ~ new.done
  BY RequeueRows
<1>2. PICK n \in 0 .. l : PutIn(q, n, new, r)
  BY RequeueRows
<1>3. r \in Seq(Slots)
  BY RequeueRows
<1>5. /\ r \in Seq(Slots) /\ DOMAIN r = 1 .. l + 1
      /\ \A i \in 1 .. l + 1 : r[i] = IF i <= n THEN q[i] ELSE IF i = n + 1 THEN new ELSE q[i - 1]
  <2> HIDE DEF new, r
  <2> QED BY <1>2, <1>3 DEF PutIn
<1> HIDE DEF new, r, l
<1>6. n + 1 \in DOMAIN r /\ r[n + 1] = new
  BY <1>1, <1>2, <1>5
<1> DEFINE back(i) == IF i <= n THEN i ELSE i - 1
<1>11. \A i \in DOMAIN r \ {n + 1} : back(i) \in DOMAIN q /\ r[i] = q[back(i)]
  BY <1>1, <1>2, <1>5
<1>12. \A i, j \in DOMAIN r \ {n + 1} : i # j => back(i) # back(j)
  BY <1>1, <1>2, <1>5
<1> HIDE DEF back
<1>13. \E p \in DOMAIN r :
          /\ r[p] = new
          /\ FromApart(r, DOMAIN r \ {p}, q, DOMAIN q)
  BY <1>6, <1>11, <1>12 DEF FromApart
<1> QED BY <1>13 DEF r, new

(* Nothing is on screen, or more than one slot is pending, or a refill is    *)
(* asked for.                                                              *)
LEMMA ShowNextIs ==
    ASSUME NEW q \in Seq(Slots), NEW sess \in Sessions, NEW idle, showNext(q, sess, idle)
    PROVE  /\ queue' = q /\ session' \in Sessions
           /\ session'.open = sess.open /\ session'.deck = sess.deck
           /\ session'.cursor = sess.cursor /\ session'.exhausted = sess.exhausted
           /\ session'.rounds = sess.rounds /\ session'.steady = sess.steady
           /\ \/ fetch' = idle /\ session'.refilling = sess.refilling
              \/ /\ fetch' = Ask("refill", sess.cursor, sess.rounds)
                 /\ ~ sess.exhausted /\ session'.refilling
           /\ Pending(q) # {} /\ ~ sess.exhausted /\ ~ session'.refilling =>
                 \E i, j \in Pending(q) : i # j
<1> DEFINE left == {i \in Pending(q) : ~ q[i].repeat}
           refill == /\ Pending(q) # {} /\ ~ sess.exhausted /\ ~ sess.refilling
                     /\ Cardinality(left) < RefillThreshold
           sn == [sess EXCEPT !.refilling = @ \/ refill]
<1>1. /\ queue' = q /\ session' = sn
      /\ fetch' = IF refill THEN Ask("refill", sess.cursor, sess.rounds) ELSE idle
  BY DEF showNext
<1>2. refill \in BOOLEAN
  OBVIOUS
<1>3. /\ sn \in Sessions /\ sn.refilling = (sess.refilling \/ refill)
      /\ sn.open = sess.open /\ sn.deck = sess.deck /\ sn.cursor = sess.cursor
      /\ sn.exhausted = sess.exhausted /\ sn.rounds = sess.rounds /\ sn.steady = sess.steady
  <2> HIDE DEF refill
  <2> QED BY <1>2 DEF Sessions
<1>4. Pending(q) # {} /\ ~ sess.exhausted /\ ~ (sess.refilling \/ refill) =>
         \E i, j \in Pending(q) : i # j
  <2> SUFFICES ASSUME Cardinality(left) >= RefillThreshold PROVE \E i, j \in Pending(q) : i # j
    <3>1. IsFiniteSet(left)
      <4>1. left \subseteq 1 .. Len(q) /\ Len(q) \in Nat
        BY DEF Pending
      <4>2. IsFiniteSet(1 .. Len(q))
        BY <4>1, FS_Interval
      <4> HIDE DEF left
      <4> QED BY <4>1, <4>2, FS_Subset
    <3>2. Cardinality(left) \in Nat /\ RefillThreshold \in Nat
      BY <3>1, FS_CardinalityType, StudyAssumption
    <3> HIDE DEF left
    <3> QED BY <3>2
  <2>1. left # {} /\ \A i : left # {i}
    <3>1. RefillThreshold \in Nat /\ RefillThreshold >= 2
      BY StudyAssumption
    <3>2. Cardinality({}) = 0 /\ \A i : Cardinality({i}) = 1
      BY FS_EmptySet, FS_Singleton
    <3> DEFINE card == Cardinality(left)
    <3>3. card >= RefillThreshold
      OBVIOUS
    <3>4. (left = {} => card = 0) /\ \A i : left = {i} => card = 1
      BY <3>2
    <3> HIDE DEF left, card
    <3> QED BY <3>1, <3>3, <3>4
  <2>2. PICK i \in left : TRUE
    BY <2>1
  <2>3. \E j \in left : j # i
    <3> SUFFICES ASSUME \A j \in left : j = i PROVE FALSE
      OBVIOUS
    <3> HIDE DEF left
    <3>1. left = {i}
      BY <2>2
    <3> QED BY <2>1, <3>1
  <2> QED BY <2>2, <2>3
<1>5. refill \/ sn.refilling = sess.refilling
  <2> HIDE DEF sn
  <2>1. sess.refilling \in BOOLEAN
    BY DEF Sessions
  <2> HIDE DEF refill
  <2> QED BY <1>2, <1>3, <2>1
<1>6. refill => ~ sess.exhausted /\ sn.refilling
  <2> HIDE DEF sn
  <2> QED BY <1>3
<1> HIDE DEF refill, sn
<1> QED BY <1>1, <1>3, <1>4, <1>5, <1>6

-----------------------------------------------------------------------------
(* What steps keep.                                                        *)

(* What is offered and where the session stands depends on the rows, the log, *)
(* the settings and the clock.                                             *)
LEMMA Unmoved ==
    ASSUME UNCHANGED <<now, preset, row, log>>
    PROVE  /\ Today' = Today
           /\ CountNewIntroducedToday(Day(now))' = CountNewIntroducedToday(Day(now))
           /\ CountReviewedToday(Day(now))' = CountReviewedToday(Day(now))
           /\ GoesOn(queue, session, fetch)' <=> GoesOn(queue', session', fetch')
<1>1. Today' = Today
  BY DEF Today
<1>2. /\ CountNewIntroducedToday(Day(now))' = CountNewIntroducedToday(Day(now))
      /\ CountReviewedToday(Day(now))' = CountReviewedToday(Day(now))
  BY DEF CountNewIntroducedToday, CountReviewedToday
<1>3. GoesOn(queue, session, fetch)' <=> GoesOn(queue', session', fetch')
  BY DEF GoesOn, Served, CanGoOn, CardsOf, Answered, OfferedToday, Offered, Today, newCutoff,
         OfferedReviews, revCutoff, NewLeft, TotalLeft, RevRemaining, NewRemaining,
         CountNewIntroducedToday, CountReviewedToday, NewCards, DueCards, ReadyCards, Ready, unseen,
         RevKey, revKey, NewKey, newCardKey, Day, DayStart, Ahead, SortKey, groupBit
<1> QED BY <1>1, <1>2, <1>3

LEMMA NowIs ==
    ASSUME TypeInv
    PROVE  now \in Int /\ now \in InitTick .. now /\ spent \in Nat /\ InitTick \in Int
  BY StudyAssumption DEF TypeInv

(* Nothing is before the start of the queue. *)
LEMMA FreshStart ==
    ASSUME TypeInv, NEW rounds, NEW cards, rounds = 0 => cards = {}
    PROVE  AtStart \in Cursors /\ CanGoOn(rounds, AtStart, cards)
<1>1. AtStart \in Cursors
  BY DEF AtStart, Cursors, Start, Key, LastPosition
<1>2. OfferedToday(rounds) \subseteq Card
  BY SetsAre DEF OfferedToday, Offered
<1>3. \A c \in Card : Ahead(Today, now, AtStart, c)
  BY NowIs, StartIsFirst
<1> QED BY <1>1, <1>2, <1>3 DEF CanGoOn

(* No step but the storing of a grade answers a card or adds to the log. *)
LEMMA LogKeeps ==
    ASSUME TypeInv, LogInv, UNCHANGED <<log, unsent>>, now' \in Int, now <= now',
           \A c \in Card : row[c] # NoRow => row'[c] # NoRow /\ row'[c].last = row[c].last
    PROVE  LogInv'
<1>1. now \in Int /\ Day(now) \in Int /\ Day(now') \in Int /\ Day(now) <= Day(now') /\ InitTick \in Int
  BY NowIs, DaysAre
<1>2. ASSUME NEW e \in log
      PROVE  row'[e.card] # NoRow /\ e.day <= Day(row'[e.card].last) /\ e.day <= Day(now')
  <2>1. e.card \in Card /\ e.day \in Int /\ e.day <= Day(now) /\ row[e.card] # NoRow
        /\ e.day <= Day(row[e.card].last)
    BY DEF TypeInv, LogInv
  <2> QED BY <1>1, <2>1
<1>3. ASSUME NEW i \in DOMAIN unsent
      PROVE  /\ unsent[i].at \in InitTick .. now'
             /\ \A e \in log : e.day <= Day(unsent[i].at)
             /\ \A j \in DOMAIN unsent : i <= j => unsent[i].at <= unsent[j].at
  <2>1. unsent[i].at \in InitTick .. now
    BY DEF LogInv
  <2>2. unsent[i].at \in InitTick .. now'
    BY <1>1, <2>1
  <2> QED BY <2>2 DEF LogInv
<1> QED BY <1>2, <1>3 DEF LogInv, Day

LEMMA FetchKeeps ==
    ASSUME TypeInv, fetch' = fetch, now' \in Int, now <= now'
    PROVE  FetchInv'
<1>1. now \in Int /\ InitTick \in Int
  BY NowIs
<1>2. InitTick .. now \subseteq InitTick .. now'
  BY <1>1
<1> QED BY <1>2 DEF TypeInv, FetchInv, Readable, Idle

(* A request is sent for a kind of page. *)
LEMMA AskIs ==
    ASSUME NEW kind \in Kinds, NEW cursor \in Cursors, NEW rounds \in 0 .. MaxRounds,
           fetch' = Ask(kind, cursor, rounds)
    PROVE  /\ FetchInv'
           /\ fetch'.pc = "sent" /\ fetch'.kind = kind
           /\ fetch'.cursor = cursor /\ fetch'.rounds = rounds
  BY DEF Ask, FetchInv

LEMMA InitHolds == Init => Inv
<1> SUFFICES ASSUME Init PROVE Inv
  OBVIOUS
<1> USE DEF Init
<1>1. TypeInv
  <2>1. AtStart \in Cursors
    BY DEF AtStart, Cursors, Start, Key, LastPosition
  <2>2. session \in Sessions
    BY <2>1, StudyAssumption DEF Closed, Sessions
  <2>3. FetchInv
    BY DEF FetchInv
  <2> QED BY <2>2, <2>3, StudyAssumption DEF TypeInv
<1>2. LogInv
  BY DEF LogInv
<1>3. PageInv
  BY DEF PageInv, Closed, Idle
<1>4. SteadyInv
  <2>1. CardsOf(queue) = {}
    BY DEF CardsOf
  <2>2. CanGoOn(0, AtStart, {})
    BY <1>1, FreshStart
  <2>3. GoesOn(queue, session, fetch)
    BY <2>1, <2>2 DEF GoesOn, Served, Closed, Idle
  <2> QED BY <2>3 DEF SteadyInv, Closed, Idle
<1> QED BY <1>1, <1>2, <1>3, <1>4 DEF Inv

LEMMA OpenPageKeeps ==
    ASSUME Inv, NEW kind \in {"page", "study"}, OpenPage(kind)
    PROVE  Inv'
<1> USE DEF Inv
<1>1. /\ UNCHANGED <<now, preset, row, log, unsent>>
      /\ queue' = <<>> /\ spent < MaxEvents /\ spent' = spent + 1
      /\ fetch' = Ask(kind, AtStart, 0)
      /\ session' = [Closed EXCEPT !.deck = kind = "page", !.steady = unsent = <<>>]
  BY DEF OpenPage
<1>2. now \in Int /\ spent \in Nat /\ InitTick \in Int /\ MaxEvents \in Nat /\ 0 \in 0 .. MaxRounds
  BY NowIs, StudyAssumption
<1>3. AtStart \in Cursors /\ CanGoOn(0, AtStart, {})
  BY FreshStart
<1>4. /\ FetchInv' /\ fetch'.pc = "sent" /\ fetch'.kind = kind
      /\ fetch'.cursor = AtStart /\ fetch'.rounds = 0
  BY <1>1, <1>2, <1>3, AskIs DEF Kinds
<1>5. /\ session' \in Sessions /\ session'.deck = (kind = "page") /\ session'.steady = (unsent = <<>>)
      /\ ~ session'.open /\ session'.cursor = AtStart /\ session'.rounds = 0
      /\ session'.exhausted = FALSE /\ session'.refilling = FALSE
  BY <1>1, <1>2, <1>3 DEF Closed, Sessions
<1>6. TypeInv'
  <2>1. spent' \in 0 .. MaxEvents /\ now' \in InitTick .. InitTick + spent'
    BY <1>1, <1>2 DEF TypeInv
  <2> QED BY <1>1, <1>4, <1>5, <2>1 DEF TypeInv
<1>7. LogInv'
  <2>1. now' \in Int /\ now <= now' /\ row' = row
    BY <1>1, <1>2
  <2> QED BY <1>1, <2>1, LogKeeps
<1>8. PageInv'
  BY <1>1, <1>4, <1>5 DEF PageInv
<1>9. SteadyInv'
  <2>1. CardsOf(queue') = {}
    BY <1>1 DEF CardsOf
  <2>2. GoesOn(queue', session', fetch')
    BY <1>3, <1>4, <1>5, <2>1 DEF GoesOn, Served
  <2>3. session'.steady => unsent' = <<>>
    BY <1>1, <1>5
  <2>4. GoesOn(queue, session, fetch)'
    BY <1>1, <2>2, Unmoved
  <2> QED BY <1>4, <1>5, <2>3, <2>4 DEF SteadyInv
<1> QED BY <1>6, <1>7, <1>8, <1>9

LEMMA ReadCountsKeeps ==
    ASSUME Inv, ReadCounts
    PROVE  Inv'
<1> USE DEF Inv
<1> DEFINE rounds == parseExtraRounds(fetch.rounds)
           NI == CountNewIntroducedToday(Day(now))
           RI == CountReviewedToday(Day(now))
           f == [pc |-> "counted", kind |-> fetch.kind, cursor |-> fetch.cursor,
                 rounds |-> rounds, settings |-> Today, at |-> now,
                 introduced |-> NI, reviewed |-> RI]
<1>1. /\ UNCHANGED <<now, preset, row, log, queue, session, unsent, spent>>
      /\ fetch.pc = "sent" /\ fetch' = f
  BY DEF ReadCounts, Today
<1>2. now \in Int /\ now \in InitTick .. now
  BY NowIs
<1>3. fetch.kind \in Kinds /\ fetch.cursor \in Cursors /\ fetch.rounds \in Nat
  BY <1>1, StudyAssumption DEF TypeInv, FetchInv, Idle
<1>4. rounds \in Nat /\ Readable(Today) /\ NI \in Nat /\ RI \in Nat
  BY <1>3, RoundsAre, TodayIsReadable, CountsAre DEF Today
<1> HIDE DEF rounds, NI, RI
<1>5. /\ fetch'.pc = "counted" /\ fetch'.kind = fetch.kind /\ fetch'.cursor = fetch.cursor
      /\ fetch'.rounds = rounds /\ fetch'.settings = Today /\ fetch'.at = now
      /\ fetch'.introduced = NI /\ fetch'.reviewed = RI
  BY <1>1
<1>6. TypeInv'
  <2>1. FetchInv'
    BY <1>1, <1>2, <1>3, <1>4, <1>5 DEF FetchInv, Readable
  <2> QED BY <1>1, <2>1 DEF TypeInv
<1>7. LogInv'
  <2>1. now' \in Int /\ now <= now' /\ row' = row
    BY <1>1, <1>2
  <2> QED BY <1>1, <2>1, LogKeeps
<1>8. PageInv'
  BY <1>1, <1>5 DEF PageInv, rounds
<1>9. SteadyInv'
  <2>1. /\ Today' = Today /\ CountNewIntroducedToday(Day(now))' = NI
        /\ CountReviewedToday(Day(now))' = RI
        /\ GoesOn(queue, session, fetch)' <=> GoesOn(queue', session', fetch')
    BY <1>1, Unmoved DEF NI, RI
  <2>2. session.steady /\ session.deck => GoesOn(queue, session, fetch)'
    BY <1>1, <1>5, <2>1 DEF SteadyInv, GoesOn
  <2>3. NI <= NI /\ RI <= RI
    BY <1>4
  <2>4. CardsOf(queue)' = CardsOf(queue)
    BY <1>1 DEF CardsOf
  <2> QED BY <1>1, <1>5, <2>1, <2>2, <2>3, <2>4 DEF SteadyInv
<1> QED BY <1>6, <1>7, <1>8, <1>9

(* The page that is listed takes the session on from where it stands. *)
LEMMA ListCardsKeeps ==
    ASSUME Inv, ListCards
    PROVE  Inv'
<1> USE DEF Inv
<1> DEFINE s == fetch.settings
           O == Offered(s, fetch.at, fetch.rounds, fetch.introduced, fetch.reviewed)
           b == BuildBatch(s, fetch.at, fetch.cursor, Page, fetch.rounds,
                           fetch.introduced, fetch.reviewed)
           slots == [i \in DOMAIN b.cards |-> cardToSlot(b.cards[i])]
           f == [pc |-> "answered", kind |-> fetch.kind,
                 exhausted |-> b.exhausted, cursor |-> b.cursor, slots |-> slots]
<1>1. /\ UNCHANGED <<now, preset, row, log, queue, session, unsent, today, spent>>
      /\ fetch.pc = "counted" /\ fetch' = f
  BY DEF ListCards
<1>2. now \in Int /\ now \in InitTick .. now
  BY NowIs
<1>3. /\ fetch.kind \in Kinds /\ fetch.cursor \in Cursors /\ fetch.rounds \in Nat
      /\ fetch.at \in InitTick .. now /\ Readable(s)
      /\ fetch.introduced \in Nat /\ fetch.reviewed \in Nat
  BY <1>1 DEF TypeInv, FetchInv, Idle
<1>4. Page \in Nat \ {0}
  BY StudyAssumption
<1>5. Progress(b, s, fetch.at, fetch.cursor, O)
  BY <1>3, <1>4, BatchIs
<1>6. O \subseteq Card
  BY SetsAre DEF Offered
<1> HIDE DEF b, O
<1>7. b.exhausted \in BOOLEAN /\ b.cursor \in Cursors /\ b.cards \in Seq(O)
  BY <1>5 DEF Progress
<1>8. \A i \in DOMAIN b.cards : b.cards[i] \in Card
  BY <1>6, <1>7
<1>9. /\ slots \in Seq(Slots) /\ DOMAIN slots = DOMAIN b.cards
      /\ \A i \in DOMAIN slots : slots[i].card = b.cards[i] /\ ~ slots[i].done /\ ~ slots[i].repeat
  <2>1. Day(fetch.at) \in Int
    <3>1. fetch.at \in Int
      BY <1>2, <1>3, NowIs
    <3> QED BY <3>1, DaysAre
  <2>2. \A c \in Card : row[c].state \in -1 .. 3
    BY DEF TypeInv, Row, NoRow
  <2>3. \A c \in Card : cardToSlot(c) \in Slots /\ cardToSlot(c).card = c
                        /\ ~ cardToSlot(c).done /\ ~ cardToSlot(c).repeat
    BY <2>1, <2>2 DEF cardToSlot, Slots
  <2> DEFINE n == Len(b.cards)
  <2>4. n \in Nat /\ DOMAIN b.cards = 1 .. n
    BY <1>7
  <2> HIDE DEF n
  <2>5. \A i \in 1 .. n : cardToSlot(b.cards[i]) \in Slots
    BY <1>8, <2>3, <2>4
  <2>6. slots = [i \in 1 .. n |-> cardToSlot(b.cards[i])]
    BY <2>4
  <2>7. slots \in Seq(Slots)
    BY <2>4, <2>5, <2>6
  <2>8. \A i \in DOMAIN b.cards : /\ slots[i].card = b.cards[i]
                                  /\ ~ slots[i].done /\ ~ slots[i].repeat
    BY <1>8, <2>3
  <2> QED BY <2>7, <2>8
<1> HIDE DEF slots
<1>10. /\ fetch'.pc = "answered" /\ fetch'.kind = fetch.kind /\ fetch'.exhausted = b.exhausted
       /\ fetch'.cursor = b.cursor /\ fetch'.slots = slots
  BY <1>1
<1>11. TypeInv'
  <2>1. FetchInv'
    BY <1>3, <1>7, <1>9, <1>10 DEF FetchInv
  <2> QED BY <1>1, <2>1 DEF TypeInv
<1>12. LogInv'
  <2>1. now' \in Int /\ now <= now' /\ row' = row
    BY <1>1, <1>2
  <2> QED BY <1>1, <2>1, LogKeeps
<1>13. PageInv'
  BY <1>1, <1>10 DEF PageInv
<1>14. ASSUME session.steady, session.deck PROVE GoesOn(queue, session, fetch')
  <2> DEFINE cards == CardsOf(queue)
             new == CardsOf(slots)
  <2>1. /\ s = Today /\ fetch.at = now
        /\ fetch.introduced <= CountNewIntroducedToday(Day(now))
        /\ fetch.reviewed <= CountReviewedToday(Day(now))
        /\ GoesOn(queue, session, fetch)
    BY <1>1, <1>14 DEF SteadyInv
  <2>2. /\ ~ session.exhausted /\ fetch.cursor = session.cursor
        /\ fetch.rounds = parseExtraRounds(session.rounds)
    BY <1>1 DEF PageInv
  <2>3. CanGoOn(session.rounds, session.cursor, cards)
    BY <2>1, <2>2 DEF GoesOn, Served
  <2>4. OfferedToday(session.rounds) \subseteq O
    <3>1. CountNewIntroducedToday(Day(now)) \in Nat /\ CountReviewedToday(Day(now)) \in Nat
      BY CountsAre
    <3> QED BY <1>3, <2>1, <2>2, <3>1, OfferedShrinks DEF OfferedToday, O
  <2>5. Progress(b, Today, now, session.cursor, O)
    BY <1>5, <2>1, <2>2
  <2>6. new = {b.cards[i] : i \in DOMAIN b.cards}
    BY <1>9 DEF CardsOf
  <2> HIDE DEF cards, new
  <2>7. \A c : c \in new <=> \E i \in DOMAIN b.cards : b.cards[i] = c
    BY <2>6
  <2>8. OfferedToday(session.rounds) \subseteq Card
    BY SetsAre DEF OfferedToday, Offered
  <2>9. ASSUME b.exhausted PROVE OfferedToday(session.rounds) \subseteq cards \cup new
    <3> SUFFICES ASSUME NEW c \in OfferedToday(session.rounds), c \notin cards PROVE c \in new
      OBVIOUS
    <3>1. Ahead(Today, now, session.cursor, c)
      BY <2>3 DEF CanGoOn
    <3> QED BY <2>4, <2>5, <2>7, <2>9, <3>1 DEF Progress
  <2>10. ASSUME ~ b.exhausted PROVE CanGoOn(session.rounds, b.cursor, cards \cup new)
    <3>1. ASSUME NEW c \in OfferedToday(session.rounds), ~ Ahead(Today, now, b.cursor, c)
          PROVE  c \in cards \cup new
      <4>1. CASE Ahead(Today, now, session.cursor, c)
        BY <2>4, <2>5, <2>7, <2>10, <3>1, <4>1 DEF Progress
      <4>2. CASE ~ Ahead(Today, now, session.cursor, c)
        BY <2>3, <4>2 DEF CanGoOn
      <4> QED BY <4>1, <4>2
    <3>2. ASSUME session.rounds = 0, NEW c \in cards \cup new
          PROVE  Answered(c) \/ ~ Ahead(Today, now, b.cursor, c)
      <4>1. CASE c \in new
        BY <2>5, <2>7, <2>10, <4>1 DEF Progress
      <4>2. CASE c \in cards
        <5>1. c \in Card
          <6>1. PICK i \in DOMAIN queue : c = queue[i].card
            BY <4>2 DEF CardsOf, cards
          <6>2. queue[i] \in Slots
            BY DEF TypeInv
          <6> QED BY <6>1, <6>2 DEF Slots
        <5>2. Answered(c) \/ ~ Ahead(Today, now, session.cursor, c)
          BY <2>3, <3>2, <4>2 DEF CanGoOn
        <5> QED BY <2>5, <2>10, <5>1, <5>2 DEF Progress
      <4> QED BY <3>2, <4>1, <4>2
    <3> QED BY <3>1, <3>2 DEF CanGoOn
  <2>11. ASSUME ~ b.exhausted, session.rounds = 0 PROVE ~ (new \subseteq cards)
    <3>1. b.cards # <<>>
      BY <2>5, <2>11 DEF Progress
    <3>2. 1 \in DOMAIN b.cards
      BY <1>7, <3>1
    <3>3. b.cards[1] \in new /\ b.cards[1] \in O /\ Ahead(Today, now, session.cursor, b.cards[1])
      BY <1>7, <2>5, <2>7, <3>2 DEF Progress
    <3>4. ~ Answered(b.cards[1])
      BY <1>6, <2>1, <3>3, AnsweredIsOut DEF O
    <3>5. b.cards[1] \notin cards
      BY <2>3, <2>11, <3>3, <3>4 DEF CanGoOn
    <3> QED BY <3>3, <3>5
  <2> HIDE DEF b
  <2>12. Served(session.rounds, b.exhausted, b.cursor, cards \cup new)
    BY <2>9, <2>10 DEF Served
  <2> QED BY <1>10, <2>1, <2>11, <2>12 DEF GoesOn, cards, new
<1>15. SteadyInv'
  <2>1. GoesOn(queue, session, fetch)' <=> GoesOn(queue', session', fetch')
    BY <1>1, Unmoved
  <2>2. session.steady /\ session.deck => GoesOn(queue, session, fetch)'
    BY <1>1, <1>14, <2>1
  <2>3. CardsOf(queue)' = CardsOf(queue)
    BY <1>1 DEF CardsOf
  <2> QED BY <1>1, <1>10, <2>2, <2>3 DEF SteadyInv
<1> QED BY <1>11, <1>12, <1>13, <1>15

(* The slots of a page that was answered. *)
LEMMA AnswerIs ==
    ASSUME Inv, fetch.pc = "answered"
    PROVE  /\ fetch.cursor \in Cursors /\ fetch.exhausted \in BOOLEAN
           /\ Len(fetch.slots) \in Nat /\ fetch.slots \in [1 .. Len(fetch.slots) -> Slots]
           /\ \A i \in 1 .. Len(fetch.slots) : ~ fetch.slots[i].done
           /\ ~ session.exhausted
           /\ (fetch.kind = "refill") <=> session.open
           /\ fetch.kind = "study" => ~ session.deck
  BY DEF Inv, TypeInv, FetchInv, PageInv, Idle

(* After a page is swapped in, the session stands where the page ended. *)
LEMMA SwapGoesOn ==
    ASSUME Inv, fetch.pc = "answered", session.steady, session.deck, GoesOn(queue, session, fetch),
           NEW q, CardsOf(q) = CardsOf(queue) \cup CardsOf(fetch.slots),
           NEW sess, sess.rounds = session.rounds, sess.exhausted = fetch.exhausted,
           sess.cursor = fetch.cursor, NEW f, f.pc # "answered",
           sess.rounds = 0 /\ ~ sess.exhausted /\ ~ sess.refilling => \E i, j \in Pending(q) : i # j
    PROVE  GoesOn(q, sess, f)
  BY DEF GoesOn, Served

LEMMA RespondReviewKeeps ==
    ASSUME Inv, RespondReview
    PROVE  Inv'
<1> USE DEF Inv
<1> DEFINE q == indexBatch(fetch.slots)
           sess == [session EXCEPT !.open = TRUE, !.exhausted = fetch.exhausted, !.cursor = fetch.cursor]
<1>1. /\ UNCHANGED <<now, preset, row, log, unsent, today, spent>>
      /\ fetch.pc = "answered" /\ fetch.kind = "page" /\ showNext(q, sess, Idle)
  BY DEF RespondReview
<1>2. now \in Int
  BY NowIs
<1>3. /\ fetch.cursor \in Cursors /\ fetch.exhausted \in BOOLEAN
      /\ Len(fetch.slots) \in Nat /\ fetch.slots \in [1 .. Len(fetch.slots) -> Slots]
      /\ \A i \in 1 .. Len(fetch.slots) : ~ fetch.slots[i].done
      /\ ~ session.exhausted /\ ~ session.open
  BY <1>1, AnswerIs
<1>4. queue \in Seq(Slots) /\ session \in Sessions
  BY DEF TypeInv
<1>5. /\ q \in Seq(Slots) /\ CardsOf(q) = CardsOf(queue) \cup CardsOf(fetch.slots)
      /\ Pending(queue) \subseteq Pending(q)
      /\ ~ (CardsOf(fetch.slots) \subseteq CardsOf(queue)) => \E i \in Pending(q) : i \notin DOMAIN queue
  BY <1>3, <1>4, IndexBatchIs
<1> HIDE DEF q
<1>6. /\ sess \in Sessions /\ sess.open /\ sess.deck = session.deck /\ sess.cursor = fetch.cursor
      /\ sess.exhausted = fetch.exhausted /\ sess.rounds = session.rounds
      /\ sess.steady = session.steady /\ sess.refilling = session.refilling
  BY <1>3, <1>4 DEF Sessions
<1> HIDE DEF sess
<1>7. /\ queue' = q /\ session' \in Sessions
      /\ session'.open = sess.open /\ session'.deck = sess.deck
      /\ session'.cursor = sess.cursor /\ session'.exhausted = sess.exhausted
      /\ session'.rounds = sess.rounds /\ session'.steady = sess.steady
      /\ \/ fetch' = Idle /\ session'.refilling = sess.refilling
         \/ /\ fetch' = Ask("refill", sess.cursor, sess.rounds)
            /\ ~ sess.exhausted /\ session'.refilling
      /\ Pending(q) # {} /\ ~ sess.exhausted /\ ~ session'.refilling =>
            \E i, j \in Pending(q) : i # j
  BY <1>1, <1>5, <1>6, ShowNextIs
<1>8. /\ ~ session.refilling /\ session.rounds = 0 /\ session.deck /\ queue = <<>>
  BY <1>1, <1>3, <1>4 DEF PageInv, Sessions
<1>9. /\ FetchInv'
      /\ \/ fetch'.pc = "idle" /\ ~ session'.refilling
         \/ /\ fetch'.pc = "sent" /\ fetch'.kind = "refill" /\ fetch'.cursor = sess.cursor
            /\ fetch'.rounds = sess.rounds /\ ~ sess.exhausted /\ session'.refilling
  <2>1. CASE fetch' = Idle /\ session'.refilling = sess.refilling
    BY <1>6, <1>8, <2>1 DEF FetchInv, Idle
  <2>2. CASE /\ fetch' = Ask("refill", sess.cursor, sess.rounds)
             /\ ~ sess.exhausted /\ session'.refilling
    <3>1. "refill" \in Kinds /\ sess.cursor \in Cursors /\ sess.rounds \in 0 .. MaxRounds
      BY <1>3, <1>4, <1>6 DEF Kinds, Sessions
    <3> QED BY <2>2, <3>1, AskIs
  <2> QED BY <1>7, <2>1, <2>2
<1>10. TypeInv'
  BY <1>1, <1>5, <1>7, <1>9 DEF TypeInv
<1>11. LogInv'
  <2>1. now' \in Int /\ now <= now' /\ row' = row
    BY <1>1, <1>2
  <2> QED BY <1>1, <2>1, LogKeeps
<1>12. PageInv'
  BY <1>3, <1>6, <1>7, <1>8, <1>9 DEF PageInv
<1>13. ASSUME session.steady PROVE GoesOn(queue', session', fetch')
  <2>1. GoesOn(queue, session, fetch)
    BY <1>8, <1>13 DEF SteadyInv
  <2>2. ~ session'.exhausted => Pending(q) # {}
    BY <1>1, <1>5, <1>6, <1>7, <1>8, <2>1 DEF GoesOn
  <2>3. ~ session'.exhausted /\ ~ session'.refilling => \E i, j \in Pending(q) : i # j
    BY <1>7, <2>2
  <2>4. /\ CardsOf(queue') = CardsOf(queue) \cup CardsOf(fetch.slots)
        /\ session'.rounds = session.rounds /\ session'.exhausted = fetch.exhausted
        /\ session'.cursor = fetch.cursor /\ fetch'.pc # "answered"
    BY <1>5, <1>6, <1>7, <1>9
  <2> QED BY <1>1, <1>7, <1>8, <1>13, <2>1, <2>3, <2>4, SwapGoesOn
<1>14. SteadyInv'
  <2>1. GoesOn(queue, session, fetch)' <=> GoesOn(queue', session', fetch')
    BY <1>1, Unmoved
  <2>2. session'.steady => GoesOn(queue, session, fetch)'
    BY <1>6, <1>7, <1>13, <2>1
  <2>3. session.steady => \A i \in DOMAIN unsent : unsent[i].at = now /\ unsent[i].card \in CardsOf(q)
    BY <1>5 DEF SteadyInv
  <2>4. CardsOf(queue)' = CardsOf(q)
    BY <1>7 DEF CardsOf
  <2> QED BY <1>1, <1>6, <1>7, <1>9, <2>2, <2>3, <2>4 DEF SteadyInv
<1> QED BY <1>10, <1>11, <1>12, <1>14

LEMMA RespondStudyKeeps ==
    ASSUME Inv, RespondStudy
    PROVE  Inv'
<1> USE DEF Inv
<1> DEFINE slots == fetch.slots
           n == Len(slots)
           sess == [session EXCEPT !.open = TRUE, !.exhausted = TRUE]
<1>1. PICK shuffled \in [DOMAIN slots -> {slots[i] : i \in DOMAIN slots}] :
           showNext(indexBatch(shuffled), sess, Idle)
  BY DEF RespondStudy
<1>2. /\ UNCHANGED <<now, preset, row, log, unsent, today, spent>>
      /\ fetch.pc = "answered" /\ fetch.kind = "study"
  BY DEF RespondStudy
<1>3. now \in Int
  BY NowIs
<1>4. /\ n \in Nat /\ slots \in [1 .. n -> Slots]
      /\ \A i \in 1 .. n : ~ slots[i].done
      /\ ~ session.deck
  BY <1>2, AnswerIs
<1>5. queue \in Seq(Slots) /\ session \in Sessions
  BY DEF TypeInv
<1> DEFINE q == indexBatch(shuffled)
<1>6. q \in Seq(Slots) /\ CardsOf(queue) \subseteq CardsOf(q)
  <2>1. shuffled \in [1 .. n -> Slots] /\ \A i \in 1 .. n : ~ shuffled[i].done
    BY <1>4
  <2> QED BY <1>4, <1>5, <2>1, IndexBatchIs
<1> HIDE DEF q
<1>7. /\ sess \in Sessions /\ sess.open /\ sess.deck = session.deck /\ sess.exhausted = TRUE
      /\ sess.steady = session.steady /\ sess.refilling = session.refilling
  BY <1>5 DEF Sessions
<1> HIDE DEF sess
<1>8. /\ queue' = q /\ session' \in Sessions /\ session'.open /\ session'.deck = session.deck
      /\ session'.exhausted = TRUE /\ session'.steady = session.steady
      /\ fetch' = Idle /\ session'.refilling = session.refilling
  <2>1. showNext(q, sess, Idle)
    BY <1>1 DEF q, sess
  <2> QED BY <1>6, <1>7, <2>1, ShowNextIs
<1>9. ~ session.refilling
  <2>1. ~ session.open
    BY <1>2, <1>5, AnswerIs DEF Sessions
  <2> QED BY <2>1 DEF PageInv
<1>10. TypeInv'
  BY <1>2, <1>6, <1>8 DEF TypeInv, FetchInv
<1>11. LogInv'
  <2>1. now' \in Int /\ now <= now' /\ row' = row
    BY <1>2, <1>3
  <2> QED BY <1>2, <2>1, LogKeeps
<1>12. PageInv'
  BY <1>8 DEF PageInv, Idle
<1>13. SteadyInv'
  <2>1. CardsOf(queue)' = CardsOf(q)
    BY <1>8 DEF CardsOf
  <2> QED BY <1>2, <1>4, <1>6, <1>8, <1>9, <2>1 DEF SteadyInv, Idle
<1> QED BY <1>10, <1>11, <1>12, <1>13

LEMMA AfterSwapKeeps ==
    ASSUME Inv, onAfterSwap
    PROVE  Inv'
<1> USE DEF Inv
<1> DEFINE q == indexBatch(fetch.slots)
           sess == [session EXCEPT !.exhausted = fetch.exhausted, !.cursor = fetch.cursor,
                                   !.refilling = FALSE]
<1>1. /\ UNCHANGED <<now, preset, row, log, unsent, today, spent>>
      /\ fetch.pc = "answered" /\ fetch.kind = "refill"
      /\ \/ Pending(queue) = {} /\ showNext(q, sess, Idle)
         \/ Pending(queue) # {} /\ queue' = q /\ session' = sess /\ fetch' = Idle
  BY DEF onAfterSwap
<1>2. now \in Int
  BY NowIs
<1>3. /\ fetch.cursor \in Cursors /\ fetch.exhausted \in BOOLEAN
      /\ Len(fetch.slots) \in Nat /\ fetch.slots \in [1 .. Len(fetch.slots) -> Slots]
      /\ \A i \in 1 .. Len(fetch.slots) : ~ fetch.slots[i].done
      /\ ~ session.exhausted /\ session.open
  BY <1>1, AnswerIs
<1>4. queue \in Seq(Slots) /\ session \in Sessions
  BY DEF TypeInv
<1>5. /\ q \in Seq(Slots) /\ CardsOf(q) = CardsOf(queue) \cup CardsOf(fetch.slots)
      /\ Pending(queue) \subseteq Pending(q)
      /\ ~ (CardsOf(fetch.slots) \subseteq CardsOf(queue)) => \E i \in Pending(q) : i \notin DOMAIN queue
  BY <1>3, <1>4, IndexBatchIs
<1> HIDE DEF q
<1>6. /\ sess \in Sessions /\ sess.open /\ sess.deck = session.deck /\ sess.cursor = fetch.cursor
      /\ sess.exhausted = fetch.exhausted /\ sess.rounds = session.rounds
      /\ sess.steady = session.steady /\ ~ sess.refilling
  BY <1>3, <1>4 DEF Sessions
<1> HIDE DEF sess
<1>7. /\ queue' = q /\ session' \in Sessions
      /\ session'.open = sess.open /\ session'.deck = sess.deck
      /\ session'.cursor = sess.cursor /\ session'.exhausted = sess.exhausted
      /\ session'.rounds = sess.rounds /\ session'.steady = sess.steady
      /\ \/ fetch' = Idle /\ ~ session'.refilling
         \/ /\ fetch' = Ask("refill", sess.cursor, sess.rounds)
            /\ ~ sess.exhausted /\ session'.refilling
      /\ Pending(q) # {} /\ ~ sess.exhausted /\ ~ session'.refilling =>
            Pending(queue) # {} \/ \E i, j \in Pending(q) : i # j
  <2>1. CASE Pending(queue) = {} /\ showNext(q, sess, Idle)
    BY <1>5, <1>6, <2>1, ShowNextIs
  <2>2. CASE Pending(queue) # {} /\ queue' = q /\ session' = sess /\ fetch' = Idle
    BY <1>5, <1>6, <2>2
  <2> QED BY <1>1, <2>1, <2>2
<1>8. session.deck
  BY <1>3 DEF PageInv
<1>9. /\ FetchInv'
      /\ \/ fetch'.pc = "idle" /\ ~ session'.refilling
         \/ /\ fetch'.pc = "sent" /\ fetch'.kind = "refill" /\ fetch'.cursor = sess.cursor
            /\ fetch'.rounds = sess.rounds /\ ~ sess.exhausted /\ session'.refilling
  <2>1. CASE fetch' = Idle /\ ~ session'.refilling
    BY <2>1 DEF FetchInv, Idle
  <2>2. CASE /\ fetch' = Ask("refill", sess.cursor, sess.rounds)
             /\ ~ sess.exhausted /\ session'.refilling
    <3>1. "refill" \in Kinds /\ sess.cursor \in Cursors /\ sess.rounds \in 0 .. MaxRounds
      BY <1>3, <1>4, <1>6 DEF Kinds, Sessions
    <3> QED BY <2>2, <3>1, AskIs
  <2> QED BY <1>7, <2>1, <2>2
<1>10. TypeInv'
  BY <1>1, <1>5, <1>7, <1>9 DEF TypeInv
<1>11. LogInv'
  <2>1. now' \in Int /\ now <= now' /\ row' = row
    BY <1>1, <1>2
  <2> QED BY <1>1, <2>1, LogKeeps
<1>12. PageInv'
  BY <1>3, <1>6, <1>7, <1>8, <1>9 DEF PageInv
<1>13. ASSUME session.steady PROVE GoesOn(queue', session', fetch')
  <2>1. GoesOn(queue, session, fetch)
    BY <1>8, <1>13 DEF SteadyInv
  <2>2. ASSUME session'.rounds = 0, ~ session'.exhausted, ~ session'.refilling
        PROVE  \E i, j \in Pending(q) : i # j
    <3>1. ~ (CardsOf(fetch.slots) \subseteq CardsOf(queue))
      BY <1>1, <1>6, <1>7, <2>1, <2>2 DEF GoesOn
    <3>2. PICK i \in Pending(q) : i \notin DOMAIN queue
      BY <1>5, <3>1
    <3>3. CASE Pending(queue) # {}
      <4>1. PICK j \in Pending(queue) : TRUE
        BY <3>3
      <4>2. j \in Pending(q) /\ j \in DOMAIN queue
        BY <1>5, <4>1 DEF Pending
      <4> QED BY <3>2, <4>2
    <3>4. CASE Pending(queue) = {}
      BY <1>7, <2>2, <3>2, <3>4
    <3> QED BY <3>3, <3>4
  <2>3. /\ CardsOf(queue') = CardsOf(queue) \cup CardsOf(fetch.slots)
        /\ session'.rounds = session.rounds /\ session'.exhausted = fetch.exhausted
        /\ session'.cursor = fetch.cursor /\ fetch'.pc # "answered"
    BY <1>5, <1>6, <1>7, <1>9
  <2> QED BY <1>1, <1>7, <1>8, <1>13, <2>1, <2>2, <2>3, SwapGoesOn
<1>14. SteadyInv'
  <2>1. GoesOn(queue, session, fetch)' <=> GoesOn(queue', session', fetch')
    BY <1>1, Unmoved
  <2>2. session'.steady => GoesOn(queue, session, fetch)'
    BY <1>6, <1>7, <1>13, <2>1
  <2>3. session.steady => \A i \in DOMAIN unsent : unsent[i].at = now /\ unsent[i].card \in CardsOf(q)
    BY <1>5 DEF SteadyInv
  <2>4. CardsOf(queue)' = CardsOf(q)
    BY <1>7 DEF CardsOf
  <2> QED BY <1>1, <1>6, <1>7, <1>9, <2>2, <2>3, <2>4 DEF SteadyInv
<1> QED BY <1>10, <1>11, <1>12, <1>14

(* A refill is lost: the session is no longer undisturbed. *)
LEMMA LoseRefillKeeps ==
    ASSUME Inv, LoseRefill
    PROVE  Inv'
<1> USE DEF Inv
<1>1. /\ UNCHANGED <<now, preset, row, log, queue, unsent, today>>
      /\ fetch' = Idle /\ session' = [session EXCEPT !.steady = FALSE]
      /\ spent' = spent \/ (spent < MaxEvents /\ spent' = spent + 1)
  <2>1. /\ UNCHANGED <<now, preset, row, log, queue, unsent, today>>
        /\ fetch' = Idle /\ session' = [session EXCEPT !.steady = FALSE]
    BY DEF LoseRefill
  <2>2. CASE fetch.pc = "answered" \/ Decodable(fetch.cursor)
    <3>1. spent < MaxEvents /\ spent' = spent + 1
      BY <2>2 DEF LoseRefill
    <3> QED BY <2>1, <3>1
  <2>3. CASE ~ (fetch.pc = "answered" \/ Decodable(fetch.cursor))
    <3>1. spent' = spent
      BY <2>3 DEF LoseRefill
    <3> QED BY <2>1, <3>1
  <2> QED BY <2>2, <2>3
<1>2. now \in Int /\ spent \in Nat /\ InitTick \in Int /\ MaxEvents \in Nat
  BY NowIs, StudyAssumption
<1>3. session \in Sessions
  BY DEF TypeInv
<1>4. /\ session' \in Sessions /\ ~ session'.steady /\ session'.open = session.open
      /\ session'.deck = session.deck /\ session'.cursor = session.cursor
      /\ session'.exhausted = session.exhausted /\ session'.rounds = session.rounds
      /\ session'.refilling = session.refilling
  BY <1>1, <1>3 DEF Sessions
<1>5. spent' \in 0 .. MaxEvents /\ now' \in InitTick .. InitTick + spent'
  BY <1>1, <1>2 DEF TypeInv
<1>6. TypeInv'
  BY <1>1, <1>4, <1>5 DEF TypeInv, FetchInv
<1>7. LogInv'
  <2>1. now' \in Int /\ now <= now' /\ row' = row
    BY <1>1, <1>2
  <2> QED BY <1>1, <2>1, LogKeeps
<1>8. PageInv'
  BY <1>1, <1>4 DEF PageInv, Idle
<1>9. SteadyInv'
  BY <1>4 DEF SteadyInv
<1> QED BY <1>6, <1>7, <1>8, <1>9

(* A slot that has been answered, or passed over. *)
LEMMA DoneIs ==
    ASSUME queue \in Seq(Slots), NEW current \in Pending(queue)
    PROVE  LET answered == [queue EXCEPT ![current].done = TRUE] IN
           /\ answered \in Seq(Slots) /\ CardsOf(answered) = CardsOf(queue)
           /\ Pending(answered) = Pending(queue) \ {current}
           /\ queue[current] \in Slots /\ queue[current].card \in CardsOf(queue)
           /\ DOMAIN answered = DOMAIN queue
           /\ \A i \in DOMAIN queue :
                 /\ answered[i].card = queue[i].card /\ answered[i].repeat = queue[i].repeat
                 /\ answered[i].kind = queue[i].kind /\ answered[i].day = queue[i].day
<1> DEFINE n == Len(queue)
           answered == [queue EXCEPT ![current].done = TRUE]
<1>1. n \in Nat /\ DOMAIN queue = 1 .. n /\ queue \in [1 .. n -> Slots] /\ current \in 1 .. n
  BY DEF Pending
<1> HIDE DEF n
<1>2. [queue[current] EXCEPT !.done = TRUE] \in Slots
  BY <1>1 DEF Slots
<1>3. /\ answered \in [1 .. n -> Slots] /\ DOMAIN answered = 1 .. n
      /\ \A i \in 1 .. n : /\ answered[i].card = queue[i].card /\ answered[i].repeat = queue[i].repeat
                           /\ answered[i].kind = queue[i].kind /\ answered[i].day = queue[i].day
                           /\ answered[i].done = IF i = current THEN TRUE ELSE queue[i].done
  <2>1. answered = [queue EXCEPT ![current] = [queue[current] EXCEPT !.done = TRUE]]
    OBVIOUS
  <2>2. ASSUME NEW i \in 1 .. n
        PROVE  /\ answered[i] = IF i = current THEN [queue[current] EXCEPT !.done = TRUE] ELSE queue[i]
               /\ queue[i] \in Slots
    BY <1>1, <2>1
  <2>3. answered \in [1 .. n -> Slots] /\ DOMAIN answered = 1 .. n
    BY <1>1, <1>2, <2>1
  <2> HIDE DEF answered
  <2>4. ASSUME NEW i \in 1 .. n
        PROVE  /\ answered[i].card = queue[i].card /\ answered[i].repeat = queue[i].repeat
               /\ answered[i].kind = queue[i].kind /\ answered[i].day = queue[i].day
               /\ answered[i].done = IF i = current THEN TRUE ELSE queue[i].done
    <3>1. CASE i = current
      <4>1. answered[i] = [queue[i] EXCEPT !.done = TRUE] /\ queue[i] \in Slots
        BY <2>2, <3>1
      <4> QED BY <3>1, <4>1 DEF Slots
    <3>2. CASE i # current
      BY <2>2, <3>2
    <3> QED BY <3>1, <3>2
  <2> QED BY <2>3, <2>4
<1> HIDE DEF answered
<1>4. answered \in Seq(Slots)
  BY <1>1, <1>3
<1>5. CardsOf(answered) = CardsOf(queue)
  BY <1>1, <1>3 DEF CardsOf
<1>6. Pending(answered) = Pending(queue) \ {current}
  BY <1>1, <1>3 DEF Pending
<1>7. queue[current] \in Slots /\ queue[current].card \in CardsOf(queue)
  BY <1>1 DEF CardsOf
<1> QED BY <1>1, <1>3, <1>4, <1>5, <1>6, <1>7 DEF answered

LEMMA FirstPending ==
    ASSUME queue \in Seq(Slots), Pending(queue) # {}
    PROVE  Least(Pending(queue)) \in Pending(queue)
<1>1. Pending(queue) \subseteq Nat
  BY DEF Pending
<1> QED BY <1>1, LeastIs

LEMMA SameCardsGoOn ==
    ASSUME GoesOn(queue, session, fetch),
           NEW q, CardsOf(q) = CardsOf(queue),
           NEW sess, sess.rounds = session.rounds, sess.exhausted = session.exhausted,
           sess.cursor = session.cursor, NEW f, f = fetch \/ f.pc # "answered",
           sess.rounds = 0 /\ ~ sess.exhausted /\ ~ sess.refilling => \E i, j \in Pending(q) : i # j
    PROVE  GoesOn(q, sess, f)
<1>1. Served(sess.rounds, sess.exhausted, sess.cursor, CardsOf(q))
  BY DEF GoesOn
<1>2. ASSUME f.pc = "answered"
      PROVE  /\ Served(sess.rounds, f.exhausted, f.cursor, CardsOf(q) \cup CardsOf(f.slots))
             /\ ~f.exhausted /\ sess.rounds = 0 => ~(CardsOf(f.slots) \subseteq CardsOf(q))
  <2>1. f = fetch
    BY <1>2
  <2> QED BY <1>2, <2>1 DEF GoesOn
<1> QED BY <1>1, <1>2 DEF GoesOn

LEMMA GradeKeeps ==
    ASSUME Inv, NEW rating \in Rating, NEW ahead \in 3 .. MaxSlots, grade(rating, ahead)
    PROVE  Inv'
<1> USE DEF Inv
<1> DEFINE current == Least(Pending(queue))
           slot == queue[current]
           answered == [queue EXCEPT ![current].done = TRUE]
           requeue == shouldRequeue(rating, Outcome(slot.kind, rating))
           q == IF requeue THEN maybeRequeue(answered, current, slot, ahead) ELSE answered
           g == [card |-> slot.card, rating |-> rating, at |-> now,
                 kind |-> slot.kind, served |-> slot.day]
<1>1. /\ UNCHANGED <<now, preset, row, log, today, spent>>
      /\ session.open /\ Pending(queue) # {}
      /\ unsent' = Append(unsent, g) /\ showNext(q, session, fetch)
  BY DEF grade
<1>2. now \in Int /\ now \in InitTick .. now /\ InitTick \in Int
  BY NowIs
<1>3. queue \in Seq(Slots) /\ session \in Sessions /\ unsent \in Seq(Grades)
  BY DEF TypeInv
<1>4. current \in Pending(queue)
  BY <1>1, <1>3, FirstPending
<1>5. /\ answered \in Seq(Slots) /\ CardsOf(answered) = CardsOf(queue)
      /\ Pending(answered) = Pending(queue) \ {current}
      /\ slot \in Slots /\ slot.card \in CardsOf(queue)
  <2> HIDE DEF current
  <2> QED BY <1>3, <1>4, DoneIs
<1> HIDE DEF current, slot, answered, requeue
<1>6. /\ q \in Seq(Slots) /\ CardsOf(q) = CardsOf(queue)
      /\ (\E i, j \in Pending(queue) : i # j) => Pending(q) # {}
  <2>1. CASE requeue
    <3>1. q = maybeRequeue(answered, current, slot, ahead)
      BY <2>1
    <3> HIDE DEF q
    <3>2. slot \in Slots /\ answered \in Seq(Slots)
      BY <1>5
    <3>3. /\ q \in Seq(Slots) /\ CardsOf(q) = CardsOf(answered) \cup {slot.card}
          /\ Pending(q) # {}
      BY <3>1, <3>2, RequeueIs
    <3> QED BY <1>5, <3>3
  <2>2. CASE ~ requeue
    <3>1. q = answered
      BY <2>2
    <3> QED BY <1>5, <3>1
  <2> QED BY <2>1, <2>2
<1> HIDE DEF q
<1>7. /\ queue' = q /\ session' \in Sessions
      /\ session'.open = session.open /\ session'.deck = session.deck
      /\ session'.cursor = session.cursor /\ session'.exhausted = session.exhausted
      /\ session'.rounds = session.rounds /\ session'.steady = session.steady
      /\ \/ fetch' = fetch /\ session'.refilling = session.refilling
         \/ /\ fetch' = Ask("refill", session.cursor, session.rounds)
            /\ ~ session.exhausted /\ session'.refilling
      /\ Pending(q) # {} /\ ~ session.exhausted /\ ~ session'.refilling =>
            \E i, j \in Pending(q) : i # j
  BY <1>1, <1>3, <1>6, ShowNextIs
<1>8. /\ FetchInv'
      /\ \/ fetch' = fetch /\ session'.refilling = session.refilling
         \/ /\ fetch'.pc = "sent" /\ fetch'.kind = "refill" /\ fetch'.cursor = session.cursor
            /\ fetch'.rounds = session.rounds /\ ~ session.exhausted /\ session'.refilling
  <2>1. CASE fetch' = fetch /\ session'.refilling = session.refilling
    <3>1. now' \in Int /\ now <= now'
      BY <1>1, <1>2
    <3> QED BY <2>1, <3>1, FetchKeeps
  <2>2. CASE /\ fetch' = Ask("refill", session.cursor, session.rounds)
             /\ ~ session.exhausted /\ session'.refilling
    <3>1. "refill" \in Kinds /\ session.cursor \in Cursors /\ session.rounds \in 0 .. MaxRounds
      BY <1>3 DEF Kinds, Sessions
    <3> QED BY <2>2, <3>1, AskIs
  <2> QED BY <1>7, <2>1, <2>2
<1>9. g \in Grades /\ g.at = now /\ g.card \in CardsOf(queue)
  BY <1>2, <1>5 DEF Grades, Slots
<1> HIDE DEF g
<1> DEFINE n == Len(unsent)
<1>10. /\ n \in Nat /\ DOMAIN unsent = 1 .. n /\ unsent' \in Seq(Grades) /\ DOMAIN unsent' = 1 .. n + 1
       /\ \A i \in 1 .. n : unsent'[i] = unsent[i]
       /\ unsent'[n + 1] = g
  BY <1>1, <1>3, <1>9
<1> HIDE DEF n
<1>11. \A i \in DOMAIN unsent' :
           (i \in DOMAIN unsent /\ unsent'[i] = unsent[i]) \/ (i = n + 1 /\ unsent'[i] = g)
  <2> TAKE i \in DOMAIN unsent'
  <2>1. i \in 1 .. n + 1
    BY <1>10
  <2>2. i \in 1 .. n \/ i = n + 1
    BY <1>10, <2>1
  <2> QED BY <1>10, <2>2
<1>12. TypeInv'
  BY <1>1, <1>6, <1>7, <1>8, <1>10 DEF TypeInv
<1>13. LogInv'
  <2>1. ASSUME NEW i \in DOMAIN unsent'
        PROVE  /\ unsent'[i].at \in InitTick .. now
               /\ \A e \in log : e.day <= Day(unsent'[i].at)
    BY <1>2, <1>9, <1>11 DEF LogInv
  <2>2. ASSUME NEW i \in DOMAIN unsent', NEW j \in DOMAIN unsent', i <= j
        PROVE  unsent'[i].at <= unsent'[j].at
    <3>1. CASE j \in DOMAIN unsent /\ unsent'[j] = unsent[j]
      <4>1. i \in DOMAIN unsent /\ unsent'[i] = unsent[i]
        BY <1>10, <2>2, <3>1
      <4> QED BY <2>2, <3>1, <4>1 DEF LogInv
    <3>2. CASE unsent'[j] = g
      <4>1. unsent'[i].at \in InitTick .. now
        BY <2>1
      <4> QED BY <1>2, <1>9, <3>2, <4>1
    <3> QED BY <1>11, <3>1, <3>2
  <2> QED BY <1>1, <2>1, <2>2 DEF LogInv, Day
<1>14. PageInv'
  BY <1>1, <1>7, <1>8 DEF PageInv
<1>15. ASSUME session.steady, session.deck PROVE GoesOn(queue', session', fetch')
  <2>1. GoesOn(queue, session, fetch)
    BY <1>15 DEF SteadyInv
  <2>2. session'.rounds = 0 /\ ~ session'.exhausted /\ ~ session'.refilling =>
           \E i, j \in Pending(q) : i # j
    BY <1>1, <1>6, <1>7, <2>1 DEF GoesOn
  <2>3. fetch' = fetch \/ fetch'.pc # "answered"
    BY <1>8
  <2> QED BY <1>6, <1>7, <2>1, <2>2, <2>3, SameCardsGoOn
<1>16. SteadyInv'
  <2>1. /\ GoesOn(queue, session, fetch)' <=> GoesOn(queue', session', fetch')
        /\ Today' = Today
        /\ CountNewIntroducedToday(Day(now))' = CountNewIntroducedToday(Day(now))
        /\ CountReviewedToday(Day(now))' = CountReviewedToday(Day(now))
    BY <1>1, Unmoved
  <2>2. session'.steady /\ session'.deck => GoesOn(queue, session, fetch)'
    BY <1>7, <1>15, <2>1
  <2>3. session.steady =>
           \A i \in DOMAIN unsent' : unsent'[i].at = now /\ unsent'[i].card \in CardsOf(q)
    BY <1>6, <1>9, <1>11 DEF SteadyInv
  <2>4. CardsOf(queue)' = CardsOf(q)
    BY <1>7 DEF CardsOf
  <2>5. session.steady /\ session'.refilling => fetch'.pc # "idle"
    BY <1>8 DEF SteadyInv
  <2>6. session.steady /\ fetch'.pc = "counted" =>
              /\ fetch'.settings = Today /\ fetch'.at = now
              /\ fetch'.introduced <= CountNewIntroducedToday(Day(now))
              /\ fetch'.reviewed <= CountReviewedToday(Day(now))
    BY <1>8 DEF SteadyInv
  <2> QED BY <1>1, <1>7, <2>1, <2>2, <2>3, <2>4, <2>5, <2>6 DEF SteadyInv
<1> QED BY <1>12, <1>13, <1>14, <1>16

(* A row that is given settings keeps when its card was answered. *)
LEMMA SettingsRowIs ==
    ASSUME now \in Int, NEW r \in Row \cup {NoRow}
    PROVE  /\ settingsRow(r) \in Row /\ settingsRow(r) # NoRow
           /\ r # NoRow => settingsRow(r) = r
<1>1. \A x \in Row : x # NoRow
  BY DEF Row, NoRow
<1>2. settingsRow(r) \in Row
  BY DEF settingsRow, Row, Never
<1> QED BY <1>1, <1>2 DEF settingsRow

LEMMA CardStateRowIs ==
    ASSUME TypeInv, NEW c \in Card, NEW what
    PROVE  LET r == UpsertUserCardStateSettings(c, what) IN
           r \in Row /\ r # NoRow /\ (row[c] # NoRow => r.last = row[c].last)
<1> DEFINE old == settingsRow(row[c])
           r == UpsertUserCardStateSettings(c, what)
<1>1. old \in Row /\ (row[c] # NoRow => old = row[c])
  <2>1. row[c] \in Row \cup {NoRow}
    BY DEF TypeInv
  <2> QED BY <2>1, NowIs, SettingsRowIs
<1>2. Day(now) + 1 \in Int
  BY NowIs, DaysAre
<1>3. r \in {[old EXCEPT !.suspended = TRUE], [old EXCEPT !.buried = Day(now) + 1], old}
  BY DEF UpsertUserCardStateSettings
<1> HIDE DEF old, r
<1>4. r \in Row /\ r.last = old.last
  BY <1>1, <1>2, <1>3 DEF Row
<1> QED BY <1>1, <1>4 DEF r, Row, NoRow

LEMMA SendCardStateKeeps ==
    ASSUME Inv, NEW what, sendCardState(what)
    PROVE  Inv'
<1> USE DEF Inv
<1> DEFINE current == Least(Pending(queue))
           c == queue[current].card
           answered == [queue EXCEPT ![current].done = TRUE]
           sess == [session EXCEPT !.steady = FALSE]
           r == UpsertUserCardStateSettings(c, what)
<1>1. /\ UNCHANGED <<now, preset, log, unsent>>
      /\ session.open /\ session.deck /\ Pending(queue) # {}
      /\ spent < MaxEvents /\ spent' = spent + 1
      /\ row' = [row EXCEPT ![c] = r] /\ showNext(answered, sess, fetch)
  BY DEF sendCardState
<1>2. now \in Int /\ spent \in Nat /\ InitTick \in Int /\ MaxEvents \in Nat
  BY NowIs, StudyAssumption
<1>3. queue \in Seq(Slots) /\ session \in Sessions /\ row \in [Card -> Row \cup {NoRow}]
  BY DEF TypeInv
<1>4. current \in Pending(queue)
  BY <1>1, <1>3, FirstPending
<1>5. answered \in Seq(Slots) /\ c \in Card
  <2> HIDE DEF current
  <2>1. answered \in Seq(Slots) /\ queue[current] \in Slots
    BY <1>3, <1>4, DoneIs
  <2> QED BY <2>1 DEF Slots
<1> HIDE DEF c, answered
<1>6. r \in Row /\ r # NoRow /\ (row[c] # NoRow => r.last = row[c].last)
  BY <1>5, CardStateRowIs
<1> HIDE DEF r
<1>7. /\ sess \in Sessions /\ sess.open = session.open /\ sess.deck = session.deck
      /\ sess.cursor = session.cursor /\ sess.exhausted = session.exhausted
      /\ sess.rounds = session.rounds /\ ~ sess.steady /\ sess.refilling = session.refilling
  BY <1>3 DEF Sessions
<1> HIDE DEF sess
<1>8. /\ queue' = answered /\ session' \in Sessions
      /\ session'.open = session.open /\ session'.deck = session.deck
      /\ session'.cursor = session.cursor /\ session'.exhausted = session.exhausted
      /\ session'.rounds = session.rounds /\ ~ session'.steady
      /\ \/ fetch' = fetch
         \/ fetch' = Ask("refill", session.cursor, session.rounds) /\ ~ session.exhausted
  BY <1>1, <1>5, <1>7, ShowNextIs
<1>9. /\ FetchInv'
      /\ \/ fetch' = fetch
         \/ /\ fetch'.pc = "sent" /\ fetch'.kind = "refill" /\ fetch'.cursor = session.cursor
            /\ fetch'.rounds = session.rounds /\ ~ session.exhausted
  <2>1. CASE fetch' = fetch
    <3>1. now' \in Int /\ now <= now'
      BY <1>1, <1>2
    <3> QED BY <2>1, <3>1, FetchKeeps
  <2>2. CASE fetch' = Ask("refill", session.cursor, session.rounds) /\ ~ session.exhausted
    <3>1. "refill" \in Kinds /\ session.cursor \in Cursors /\ session.rounds \in 0 .. MaxRounds
      BY <1>3 DEF Kinds, Sessions
    <3> QED BY <2>2, <3>1, AskIs
  <2> QED BY <1>8, <2>1, <2>2
<1>10. TypeInv'
  <2>1. spent' \in 0 .. MaxEvents /\ now' \in InitTick .. InitTick + spent'
    BY <1>1, <1>2 DEF TypeInv
  <2>2. row' \in [Card -> Row \cup {NoRow}]
    BY <1>1, <1>3, <1>6
  <2> QED BY <1>1, <1>5, <1>8, <1>9, <2>1, <2>2 DEF TypeInv
<1>11. LogInv'
  <2>1. \A d \in Card : row[d] # NoRow => row'[d] # NoRow /\ row'[d].last = row[d].last
    BY <1>1, <1>3, <1>5, <1>6
  <2>2. now' \in Int /\ now <= now'
    BY <1>1, <1>2
  <2> QED BY <1>1, <2>1, <2>2, LogKeeps
<1>12. PageInv'
  BY <1>1, <1>8, <1>9 DEF PageInv
<1>13. SteadyInv'
  BY <1>8 DEF SteadyInv
<1> QED BY <1>10, <1>11, <1>12, <1>13

(* A change from elsewhere leaves the page as it is, no longer undisturbed. *)
LEMMA DisturbedKeeps ==
    ASSUME Inv, UNCHANGED <<log, queue, fetch, unsent>>,
           session' = [session EXCEPT !.steady = FALSE],
           spent < MaxEvents, spent' = spent + 1, now' = now \/ now' = now + 1,
           row' \in [Card -> Row \cup {NoRow}],
           \A c \in Card : row[c] # NoRow => row'[c] # NoRow /\ row'[c].last = row[c].last
    PROVE  Inv'
<1> USE DEF Inv
<1>1. now \in Int /\ spent \in Nat /\ InitTick \in Int /\ MaxEvents \in Nat /\ now' \in Int /\ now <= now'
  BY NowIs, StudyAssumption
<1>2. session \in Sessions
  BY DEF TypeInv
<1>3. /\ session' \in Sessions /\ ~ session'.steady /\ session'.open = session.open
      /\ session'.deck = session.deck /\ session'.cursor = session.cursor
      /\ session'.exhausted = session.exhausted /\ session'.rounds = session.rounds
      /\ session'.refilling = session.refilling
  BY <1>2 DEF Sessions
<1>4. spent' \in 0 .. MaxEvents /\ now' \in InitTick .. InitTick + spent'
  BY <1>1 DEF TypeInv
<1>5. TypeInv'
  BY <1>1, <1>3, <1>4, FetchKeeps DEF TypeInv
<1>6. LogInv'
  BY <1>1, LogKeeps
<1>7. PageInv'
  BY <1>3 DEF PageInv
<1>8. SteadyInv'
  BY <1>3 DEF SteadyInv
<1> QED BY <1>5, <1>6, <1>7, <1>8

LEMMA ToggleKeeps ==
    ASSUME Inv, NEW note \in Notes, ToggleSuspendCardsForNote(note)
    PROVE  Inv'
<1> DEFINE all == \A c \in note : ~unseen(c) /\ row[c].suspended
<1>1. row' = [c \in Card |-> IF c \notin note THEN row[c]
                            ELSE [settingsRow(row[c]) EXCEPT !.suspended = ~all]]
  BY DEF ToggleSuspendCardsForNote
<1>2. ASSUME NEW c \in Card
      PROVE  /\ row'[c] \in Row \cup {NoRow}
             /\ row[c] # NoRow => row'[c] # NoRow /\ row'[c].last = row[c].last
  <2> DEFINE old == settingsRow(row[c])
             new == [old EXCEPT !.suspended = ~all]
  <2>1. row[c] \in Row \cup {NoRow}
    BY DEF Inv, TypeInv
  <2>2. old \in Row /\ (row[c] # NoRow => old = row[c])
    BY <2>1, NowIs, SettingsRowIs DEF Inv
  <2> HIDE DEF old, all
  <2>3. (~all) = TRUE \/ (~all) = FALSE
    <3>1. CASE all
      BY <3>1
    <3>2. CASE ~all
      BY <3>2
    <3> QED BY <3>1, <3>2
  <2>4. new \in Row /\ new.last = old.last
    BY <2>2, <2>3 DEF Row
  <2>5. row'[c] = IF c \notin note THEN row[c] ELSE new
    BY <1>1 DEF old
  <2> HIDE DEF new
  <2>6. new # NoRow
    BY <2>4 DEF Row, NoRow
  <2> QED BY <2>1, <2>2, <2>4, <2>5, <2>6
<1>3. row' \in [Card -> Row \cup {NoRow}]
  <2> HIDE DEF all
  <2>1. DOMAIN row' = Card /\ row' = [c \in Card |-> row'[c]]
    BY <1>1
  <2> QED BY <1>2, <2>1
<1>4. /\ UNCHANGED <<now, log, queue, fetch, unsent>>
      /\ session' = [session EXCEPT !.steady = FALSE]
      /\ spent < MaxEvents /\ spent' = spent + 1
  BY DEF ToggleSuspendCardsForNote
<1> QED BY <1>2, <1>3, <1>4, DisturbedKeeps

LEMMA EditKeeps ==
    ASSUME Inv, NEW e, PostDeckEdit(e)
    PROVE  Inv'
<1>1. /\ UNCHANGED <<now, row, log, queue, fetch, unsent>>
      /\ session' = [session EXCEPT !.steady = FALSE]
      /\ spent < MaxEvents /\ spent' = spent + 1
  BY DEF PostDeckEdit
<1>2. row' \in [Card -> Row \cup {NoRow}]
  BY <1>1 DEF Inv, TypeInv
<1> QED BY <1>1, <1>2, DisturbedKeeps

LEMMA TickKeeps ==
    ASSUME Inv, Tick
    PROVE  Inv'
<1>1. /\ UNCHANGED <<row, log, queue, fetch, unsent>> /\ now' = now + 1
      /\ session' = [session EXCEPT !.steady = FALSE]
      /\ spent < MaxEvents /\ spent' = spent + 1
  BY DEF Tick
<1>2. row' \in [Card -> Row \cup {NoRow}]
  BY <1>1 DEF Inv, TypeInv
<1> QED BY <1>1, <1>2, DisturbedKeeps

LEMMA StudyMoreKeeps ==
    ASSUME Inv, onStudyMoreClick
    PROVE  Inv'
<1> USE DEF Inv
<1> DEFINE more == session.rounds + 1
           sess == [session EXCEPT !.rounds = @ + 1, !.exhausted = FALSE, !.cursor = AtStart,
                                   !.refilling = TRUE]
<1>1. /\ UNCHANGED <<now, preset, row, log, queue, unsent, today, spent>>
      /\ session.open /\ session.deck /\ session.rounds < MaxRounds
      /\ session' = sess /\ fetch' = Ask("refill", AtStart, more)
  BY DEF onStudyMoreClick, Done
<1>2. now \in Int
  BY NowIs
<1>3. session \in Sessions /\ session.rounds \in 0 .. MaxRounds /\ MaxRounds \in Nat
  BY StudyAssumption DEF TypeInv, Sessions
<1>4. more \in 0 .. MaxRounds /\ more # 0
  BY <1>1, <1>3
<1>5. AtStart \in Cursors /\ CanGoOn(more, AtStart, CardsOf(queue))
  BY <1>4, FreshStart
<1>6. /\ session' \in Sessions /\ session'.open /\ session'.deck /\ session'.cursor = AtStart
      /\ session'.exhausted = FALSE /\ session'.rounds = more /\ session'.refilling
      /\ session'.steady = session.steady
  <2>1. sess \in Sessions /\ sess.open = session.open /\ sess.deck = session.deck
        /\ sess.cursor = AtStart /\ sess.exhausted = FALSE /\ sess.rounds = more /\ sess.refilling
        /\ sess.steady = session.steady
    BY <1>3, <1>4, <1>5 DEF Sessions
  <2> QED BY <1>1, <2>1
<1> HIDE DEF sess, more
<1>7. /\ FetchInv' /\ fetch'.pc = "sent" /\ fetch'.kind = "refill"
      /\ fetch'.cursor = AtStart /\ fetch'.rounds = more
  BY <1>1, <1>4, <1>5, AskIs DEF Kinds
<1>8. TypeInv'
  BY <1>1, <1>6, <1>7 DEF TypeInv
<1>9. LogInv'
  <2>1. now' \in Int /\ now <= now' /\ row' = row
    BY <1>1, <1>2
  <2> QED BY <1>1, <2>1, LogKeeps
<1>10. PageInv'
  BY <1>6, <1>7 DEF PageInv
<1>11. SteadyInv'
  <2>1. GoesOn(queue', session', fetch')
    BY <1>1, <1>5, <1>6, <1>7 DEF GoesOn, Served
  <2>2. GoesOn(queue, session, fetch)'
    BY <1>1, <2>1, Unmoved
  <2>3. CardsOf(queue)' = CardsOf(queue)
    BY <1>1 DEF CardsOf
  <2> QED BY <1>1, <1>6, <1>7, <2>2, <2>3 DEF SteadyInv
<1> QED BY <1>8, <1>9, <1>10, <1>11

(* What FSRS leaves of a row. *)
LEMMA ScheduledIs ==
    ASSUME NEW old \in Row \cup {NoRow}, NEW g \in Grades
    PROVE  Scheduled(old, g) \in Row /\ Scheduled(old, g) # NoRow /\ Scheduled(old, g).last = g.at
<1> DEFINE state == Outcome(old.state, g.rating)
           days == IF state # 2 THEN 0 ELSE IF old.state = 2 THEN 2 ELSE 1
           kept == IF old = NoRow THEN [suspended |-> FALSE, buried |-> Never] ELSE old
           r == Scheduled(old, g)
<1>1. state \in 0 .. 3
  BY DEF Outcome
<1>2. kept.suspended \in BOOLEAN /\ kept.buried \in Int
  <2>1. CASE old = NoRow
    BY <2>1 DEF Never
  <2>2. CASE old # NoRow
    <3>1. old \in Row /\ kept = old
      BY <2>2
    <3> QED BY <3>1 DEF Row
  <2> QED BY <2>1, <2>2
<1>3. days \in {0, 1, 2}
  OBVIOUS
<1>4. g.at \in Int /\ TicksPerDay \in Int
  BY StudyAssumption DEF Grades
<1>5. r = [state |-> state, due |-> g.at + days * TicksPerDay, last |-> g.at, days |-> days,
           suspended |-> kept.suspended, buried |-> kept.buried]
  BY DEF Scheduled
<1> HIDE DEF state, days, kept, r
<1>6. g.at + days * TicksPerDay \in Int
  BY <1>3, <1>4
<1>7. r \in Row /\ r.last = g.at
  BY <1>1, <1>2, <1>3, <1>4, <1>5, <1>6 DEF Row
<1> QED BY <1>7 DEF r, Row, NoRow

LEMMA GradeBatchKeeps ==
    ASSUME Inv, GradeBatch
    PROVE  Inv'
<1> USE DEF Inv
<1> DEFINE g == Head(unsent)
           x == g.card
           n == Len(unsent)
           row1 == Scheduled(row[x], g)
<1>1. /\ UNCHANGED <<now, preset, queue, session, fetch, spent>>
      /\ unsent # <<>> /\ unsent' = Tail(unsent)
      /\ row' = [row EXCEPT ![x] = row1]
  BY DEF GradeBatch
<1>2. PICK e : /\ log' = log \cup {e} /\ e.card = x /\ e.before \in 0 .. 3 /\ e.day = Day(g.at)
  <2> DEFINE old == row[x]
             before == IF old = NoRow THEN 0 ELSE old.state
             fair == g.served = Day(g.at) /\ g.kind = old.state /\ g.kind # 0
             ee == [card |-> x, before |-> before, day |-> Day(g.at), fair |-> fair]
  <2>1. log' = log \cup {ee}
    BY DEF GradeBatch
  <2>2. x \in Card
    <3>1. unsent \in Seq(Grades) /\ unsent # <<>>
      BY <1>1 DEF TypeInv
    <3>2. g \in Grades
      BY <3>1
    <3> QED BY <3>2 DEF Grades
  <2>3. before \in 0 .. 3
    BY <2>2 DEF TypeInv, Row
  <2>4. ee.card = x /\ ee.before = before /\ ee.day = Day(g.at)
    OBVIOUS
  <2> QED BY <2>1, <2>3, <2>4
<1>3. now \in Int /\ InitTick \in Int
  BY NowIs
<1>4. /\ unsent \in Seq(Grades) /\ n \in Nat /\ DOMAIN unsent = 1 .. n /\ 1 \in DOMAIN unsent
      /\ g = unsent[1] /\ g \in Grades
      /\ unsent' \in Seq(Grades) /\ DOMAIN unsent' = 1 .. n - 1
      /\ \A i \in 1 .. n - 1 : unsent'[i] = unsent[i + 1]
  <2>1. unsent \in Seq(Grades) /\ unsent # <<>>
    BY <1>1 DEF TypeInv
  <2> QED BY <1>1, <2>1
<1> HIDE DEF g, n
<1>5. x \in Card /\ row \in [Card -> Row \cup {NoRow}]
  BY <1>4 DEF TypeInv, Grades
<1>6. row1 \in Row /\ row1 # NoRow /\ row1.last = g.at
  BY <1>4, <1>5, ScheduledIs
<1> HIDE DEF x, row1
<1>7. row' \in [Card -> Row \cup {NoRow}] /\ row'[x] = row1 /\ \A c \in Card : c # x => row'[c] = row[c]
  BY <1>1, <1>5, <1>6
<1>8. g.at \in InitTick .. now /\ Day(g.at) \in Int /\ Day(now) \in Int /\ Day(g.at) <= Day(now)
  <2>1. g.at \in InitTick .. now
    BY <1>4 DEF LogInv
  <2> QED BY <1>3, <2>1, DaysAre
<1>9. TypeInv'
  <2>1. FetchInv'
    <3>1. fetch' = fetch /\ now' \in Int /\ now <= now'
      BY <1>1, <1>3
    <3> QED BY <3>1, FetchKeeps
  <2>2. \A l \in log' : l.card \in Card /\ l.before \in 0 .. 3 /\ l.day \in Int
    BY <1>2, <1>5, <1>8 DEF TypeInv
  <2> QED BY <1>1, <1>4, <1>7, <2>1, <2>2 DEF TypeInv
<1>10. \A i \in DOMAIN unsent' : /\ i \in DOMAIN unsent /\ i + 1 \in DOMAIN unsent
                                 /\ unsent'[i] = unsent[i + 1]
  BY <1>4
<1>11. LogInv'
  <2>1. ASSUME NEW l \in log'
        PROVE  row'[l.card] # NoRow /\ l.day <= Day(row'[l.card].last) /\ l.day <= Day(now)
    <3>1. CASE l = e
      BY <1>2, <1>6, <1>7, <1>8, <3>1
    <3>2. CASE l \in log /\ l.card = x
      BY <1>4, <1>6, <1>7, <3>2 DEF LogInv
    <3>3. CASE l \in log /\ l.card # x
      <4>1. l.card \in Card
        BY <3>3 DEF TypeInv
      <4> QED BY <1>7, <3>3, <4>1 DEF LogInv
    <3> QED BY <1>2, <3>1, <3>2, <3>3
  <2>2. ASSUME NEW i \in DOMAIN unsent'
        PROVE  /\ unsent'[i].at \in InitTick .. now
               /\ \A l \in log' : l.day <= Day(unsent'[i].at)
    <3>1. unsent'[i].at \in InitTick .. now /\ unsent'[i].at \in Int
      BY <1>3, <1>10 DEF LogInv
    <3>2. g.at <= unsent'[i].at
      <4>1. 1 <= i + 1
        BY <1>4
      <4> QED BY <1>4, <1>10, <4>1 DEF LogInv
    <3>3. Day(g.at) <= Day(unsent'[i].at)
      BY <1>3, <1>8, <3>1, <3>2, DaysAre
    <3>4. \A l \in log : l.day <= Day(unsent'[i].at)
      BY <1>10 DEF LogInv
    <3> QED BY <1>2, <3>1, <3>3, <3>4
  <2>3. ASSUME NEW i \in DOMAIN unsent', NEW j \in DOMAIN unsent', i <= j
        PROVE  unsent'[i].at <= unsent'[j].at
    <3>1. i + 1 <= j + 1
      BY <1>4, <2>3
    <3> QED BY <1>10, <3>1 DEF LogInv
  <2> QED BY <1>1, <2>1, <2>2, <2>3 DEF LogInv, Day
<1>12. PageInv'
  BY <1>1 DEF PageInv
<1>13. SteadyInv'
  <2> SUFFICES ASSUME session.steady PROVE SteadyInv'
    BY <1>1 DEF SteadyInv
  <2> DEFINE cards == CardsOf(queue)
             new == CardsOf(fetch.slots)
             R == session.rounds
  <2>1. g.at = now /\ x \in cards
    BY <1>4 DEF SteadyInv, x
  <2>2. /\ Today' = Today
        /\ CountNewIntroducedToday(Day(now)) <= CountNewIntroducedToday(Day(now))'
        /\ CountReviewedToday(Day(now)) <= CountReviewedToday(Day(now))'
        /\ CountNewIntroducedToday(Day(now))' \in Nat /\ CountReviewedToday(Day(now))' \in Nat
        /\ OfferedToday(session.rounds)' \subseteq OfferedToday(session.rounds)
        /\ x \notin OfferedToday(session.rounds)'
    BY <2>1, GradeShrinks DEF GradedCard, x, g
  <2>3. OfferedToday(session.rounds) \subseteq Card
    BY SetsAre DEF OfferedToday, Offered
  <2>4. \A c \in Card \ {x} : /\ unseen(c)' <=> unseen(c)
                              /\ SortKey(Today, now, c)' = SortKey(Today, now, c)
                              /\ NewKey(c)' = NewKey(c)
                              /\ RevKey(Today.order, now, c)' = RevKey(Today.order, now, c)
    BY <1>1, <1>7, <2>2 DEF unseen, SortKey, groupBit, NewKey, newCardKey, RevKey, revKey, Day
  <2>5. \A c \in Card \ {x} :
           Ahead(Today, now, session.cursor, c)' <=> Ahead(Today, now, session.cursor, c)
    BY <1>1, <2>2, <2>4 DEF Ahead
  <2>6. \A c \in Card \ {x} :
           Ahead(Today, now, fetch.cursor, c)' <=> Ahead(Today, now, fetch.cursor, c)
    BY <1>1, <2>2, <2>4 DEF Ahead
  <2>7. \A c \in Card : c = x => Answered(c)'
    <3>1. row'[x] # NoRow /\ row'[x].last >= DayStart(now)
      BY <1>3, <1>6, <1>7, <2>1, DaysAre
    <3> QED BY <1>1, <3>1 DEF Answered, unseen, DayStart, Day
  <2>8. \A c \in Card : Answered(c) => Answered(c)'
    <3>1. ASSUME NEW c \in Card, c # x, Answered(c)
          PROVE  Answered(c)'
      <4>1. row'[c] = row[c]
        BY <1>7, <3>1
      <4> QED BY <1>1, <3>1, <4>1 DEF Answered, unseen, DayStart, Day
    <3> QED BY <2>7, <3>1
  <2>9. cards \subseteq Card /\ (fetch.pc = "answered" => new \subseteq Card)
    <3>1. \A i \in DOMAIN queue : queue[i] \in Slots
      BY DEF TypeInv
    <3>2. fetch.pc = "answered" => \A i \in DOMAIN fetch.slots : fetch.slots[i] \in Slots
      BY DEF TypeInv, FetchInv, Idle
    <3> QED BY <3>1, <3>2 DEF CardsOf, Slots
  <2>10. cards' = cards /\ new' = new
    BY <1>1 DEF CardsOf
  <2> HIDE DEF cards, new
  <2>11. Served(session.rounds, session.exhausted, session.cursor, cards)
            => Served(session.rounds, session.exhausted, session.cursor, cards)'
    <3>1. ASSUME OfferedToday(session.rounds) \subseteq cards
          PROVE  OfferedToday(session.rounds)' \subseteq cards'
      BY <2>2, <2>10, <3>1
    <3>2. ASSUME CanGoOn(session.rounds, session.cursor, cards)
          PROVE  CanGoOn(session.rounds, session.cursor, cards)'
      <4>1. ASSUME NEW c \in OfferedToday(session.rounds)',
                   ~Ahead(Today, now, session.cursor, c)'
            PROVE  c \in cards'
        BY <2>2, <2>3, <2>5, <2>10, <3>2, <4>1 DEF CanGoOn
      <4>2. ASSUME session'.rounds = 0, NEW c \in cards'
            PROVE  Answered(c)' \/ ~Ahead(Today, now, session.cursor, c)'
        <5>1. CASE c = x
          BY <2>7, <2>9, <2>10, <4>2, <5>1
        <5>2. CASE c # x
          <6>1. c \in Card \ {x} /\ c \in cards
            BY <2>9, <2>10, <4>2, <5>2
          <6>2. Answered(c) \/ ~Ahead(Today, now, session.cursor, c)
            BY <1>1, <3>2, <4>2, <6>1 DEF CanGoOn
          <6> QED BY <2>5, <2>8, <6>1, <6>2
        <5> QED BY <5>1, <5>2
      <4> QED BY <4>1, <4>2 DEF CanGoOn
    <3> QED BY <1>1, <3>1, <3>2 DEF Served
  <2>12. ASSUME fetch.pc = "answered"
         PROVE  Served(session.rounds, fetch.exhausted, fetch.cursor, cards \cup new)
                   => Served(session.rounds, fetch.exhausted, fetch.cursor, cards \cup new)'
    <3>1. ASSUME OfferedToday(session.rounds) \subseteq cards \cup new
          PROVE  OfferedToday(session.rounds)' \subseteq cards' \cup new'
      BY <2>2, <2>10, <3>1
    <3>2. ASSUME CanGoOn(session.rounds, fetch.cursor, cards \cup new)
          PROVE  CanGoOn(session.rounds, fetch.cursor, cards \cup new)'
      <4>1. ASSUME NEW c \in OfferedToday(session.rounds)',
                   ~Ahead(Today, now, fetch.cursor, c)'
            PROVE  c \in cards' \cup new'
        BY <2>2, <2>3, <2>6, <2>10, <3>2, <4>1 DEF CanGoOn
      <4>2. ASSUME session'.rounds = 0, NEW c \in cards' \cup new'
            PROVE  Answered(c)' \/ ~Ahead(Today, now, fetch.cursor, c)'
        <5>1. CASE c = x
          BY <2>7, <2>9, <2>10, <2>12, <4>2, <5>1
        <5>2. CASE c # x
          <6>1. c \in Card \ {x} /\ c \in cards \cup new
            BY <2>9, <2>10, <2>12, <4>2, <5>2
          <6>2. Answered(c) \/ ~Ahead(Today, now, fetch.cursor, c)
            BY <1>1, <3>2, <4>2, <6>1 DEF CanGoOn
          <6> QED BY <2>6, <2>8, <6>1, <6>2
        <5> QED BY <5>1, <5>2
      <4> QED BY <4>1, <4>2 DEF CanGoOn
    <3> QED BY <1>1, <3>1, <3>2 DEF Served
  <2>13. session.deck => GoesOn(queue, session, fetch)'
    <3> SUFFICES ASSUME GoesOn(queue, session, fetch) PROVE GoesOn(queue, session, fetch)'
      BY DEF SteadyInv
    <3>1. Served(session.rounds, session.exhausted, session.cursor, cards)'
      BY <2>11 DEF GoesOn, cards
    <3>2. fetch.pc = "answered" =>
             Served(session.rounds, fetch.exhausted, fetch.cursor, cards \cup new)'
      BY <2>12 DEF GoesOn, cards, new
    <3>3. fetch.pc = "answered" /\ ~fetch.exhausted /\ session.rounds = 0 => ~(new' \subseteq cards')
      BY <2>10 DEF GoesOn, cards, new
    <3>4. session.open /\ session.rounds = 0 /\ ~session.exhausted /\ ~session.refilling =>
             \E i, j \in Pending(queue) : i # j
      BY DEF GoesOn
    <3>5. Pending(queue)' = Pending(queue)
      BY <1>1 DEF Pending
    <3> QED BY <1>1, <3>1, <3>2, <3>3, <3>4, <3>5 DEF GoesOn, cards, new
  <2>14. \A i \in DOMAIN unsent' : unsent'[i].at = now /\ unsent'[i].card \in cards
    BY <1>10 DEF SteadyInv, cards
  <2>15. fetch.pc = "counted" =>
              /\ fetch.settings = Today /\ fetch.at = now
              /\ fetch.introduced <= CountNewIntroducedToday(Day(now))'
              /\ fetch.reviewed <= CountReviewedToday(Day(now))'
    <3>1. CountNewIntroducedToday(Day(now)) \in Nat /\ CountReviewedToday(Day(now)) \in Nat
      BY CountsAre
    <3>2. fetch.pc = "counted" => fetch.introduced \in Nat /\ fetch.reviewed \in Nat
      BY DEF TypeInv, FetchInv, Idle
    <3> QED BY <2>2, <3>1, <3>2 DEF SteadyInv
  <2>16. CardsOf(queue)' = cards
    BY <2>10 DEF cards
  <2>17. session.refilling => fetch.pc # "idle"
    BY DEF SteadyInv
  <2> QED BY <1>1, <2>2, <2>13, <2>14, <2>15, <2>16, <2>17 DEF SteadyInv
<1> QED BY <1>9, <1>11, <1>12, <1>13

LEMMA NextKeeps ==
    ASSUME Inv, [Next]_vars
    PROVE  Inv'
<1>1. CASE GetReview
  BY <1>1, OpenPageKeeps DEF GetReview
<1>2. CASE GetStudy
  BY <1>2, OpenPageKeeps DEF GetStudy
<1>3. CASE ReadCounts
  BY <1>3, ReadCountsKeeps
<1>4. CASE ListCards
  BY <1>4, ListCardsKeeps
<1>5. CASE RespondReview
  BY <1>5, RespondReviewKeeps
<1>6. CASE RespondStudy
  BY <1>6, RespondStudyKeeps
<1>7. CASE onAfterSwap
  BY <1>7, AfterSwapKeeps
<1>8. CASE LoseRefill
  BY <1>8, LoseRefillKeeps
<1>9. CASE GradeBatch
  BY <1>9, GradeBatchKeeps
<1>10. CASE onStudyMoreClick
  BY <1>10, StudyMoreKeeps
<1>11. CASE Tick
  BY <1>11, TickKeeps
<1>12. CASE \E rating \in Rating, ahead \in 3 .. MaxSlots : grade(rating, ahead)
  BY <1>12, GradeKeeps
<1>13. CASE \E what \in {"suspend", "bury", "flag"} : sendCardState(what)
  BY <1>13, SendCardStateKeeps
<1>14. CASE \E note \in Notes : ToggleSuspendCardsForNote(note)
  BY <1>14, ToggleKeeps
<1>15. CASE \E e \in Edit : PostDeckEdit(e)
  BY <1>15, EditKeeps
<1>16. CASE UNCHANGED vars
  <2> USE <1>16 DEF Inv, vars
  <2>1. now \in Int
    BY NowIs
  <2>2. FetchInv'
    BY <2>1, FetchKeeps
  <2>3. TypeInv'
    BY <2>2 DEF TypeInv
  <2>4. LogInv'
    BY <2>1, LogKeeps
  <2>5. PageInv'
    BY DEF PageInv
  <2>6. SteadyInv'
    <3>1. GoesOn(queue, session, fetch)' <=> GoesOn(queue, session, fetch)
      BY Unmoved
    <3>2. CardsOf(queue)' = CardsOf(queue)
      BY DEF CardsOf
    <3> QED BY <3>1, <3>2, Unmoved DEF SteadyInv
  <2> QED BY <2>3, <2>4, <2>5, <2>6
<1> QED BY <1>1, <1>2, <1>3, <1>4, <1>5, <1>6, <1>7, <1>8, <1>9, <1>10, <1>11, <1>12, <1>13,
           <1>14, <1>15, <1>16 DEF Next

-----------------------------------------------------------------------------
(* The theorems.                                                           *)

\* Rows, slots, grades, requests and the page's state are of their types, a
\* card answered has a row that is no older than its log row, and a session to
\* which nothing but grading happens can always be gone on with from its
\* cursor (StudyHandlers.GetReview, BuildBatch, review.js).
THEOREM InvHolds == Spec => []Inv
<1>1. Init => Inv
  BY InitHolds
<1>2. Inv /\ [Next]_vars => Inv'
  BY NextKeeps
<1> QED BY <1>1, <1>2, PTL DEF Spec

\* Rows, slots, log rows and the clock are of their types, whatever pages,
\* grades, settings and marked cards come together.
THEOREM TypesHold == Spec => []TypeOK
<1>1. Inv => TypeOK
  <2> SUFFICES ASSUME Inv PROVE TypeOK
    OBVIOUS
  <2> USE DEF Inv, TypeInv
  <2>1. now \in InitTick .. InitTick + MaxEvents
    BY StudyAssumption
  <2>2. \A c \in Card : row[c] = NoRow \/ row[c].state \in 0 .. 3
    BY DEF Row
  <2>3. \A i \in DOMAIN queue : queue[i].card \in Card /\ queue[i].done \in BOOLEAN
    <3>1. \A i \in DOMAIN queue : queue[i] \in Slots
      OBVIOUS
    <3> QED BY <3>1 DEF Slots
  <2>4. \A e \in log : e.card \in Card /\ e.before \in 0 .. 3
    OBVIOUS
  <2>5. session.rounds \in 0 .. MaxRounds
    BY DEF Sessions
  <2>6. fetch.pc \in {"idle", "sent", "counted", "answered"}
    BY DEF FetchInv, Idle
  <2> QED BY <2>1, <2>2, <2>3, <2>4, <2>5, <2>6 DEF TypeOK
<1>2. Spec => []Inv
  BY InvHolds
<1> QED BY <1>1, <1>2, PTL

\* A session that pages through its deck in the first round never stands with
\* nothing on screen and no refill on its way (review.js, maybeRefill and
\* onAfterSwap): a page that is not the last brings a card that is not queued,
\* and the refill is asked for before the last slot is answered.
THEOREM SessionsGoOn == Spec => []NeverStranded
<1>1. Inv => NeverStranded
  <2> SUFFICES ASSUME Inv, Blank, session.steady, session.rounds = 0 PROVE fetch.pc # "idle"
    BY DEF NeverStranded
  <2> USE DEF Inv
  <2>1. session.open /\ Pending(queue) = {} /\ ~session.exhausted
    BY DEF Blank
  <2>2. session.deck
    BY <2>1 DEF PageInv
  <2>3. GoesOn(queue, session, fetch)
    BY <2>2 DEF SteadyInv
  <2>4. session.refilling
    BY <2>1, <2>3 DEF GoesOn
  <2> QED BY <2>4 DEF SteadyInv
<1>2. Spec => []Inv
  BY InvHolds
<1> QED BY <1>1, <1>2, PTL

\* When the page says that the session is done, every card the server would
\* still offer under the same limits has been in it (BuildBatch and its
\* cursors, study.go; indexBatch, review.js), in any round: the cards are read
\* by position in an order that the session's own grades keep changing.
THEOREM DoneMeansServed == Spec => []NothingSkipped
<1>1. Inv => NothingSkipped
  <2> SUFFICES ASSUME Inv, Done, session.deck, session.steady,
                      NEW k \in DOMAIN OfferedNow(parseExtraRounds(session.rounds))
               PROVE  OfferedNow(parseExtraRounds(session.rounds))[k]
                         \in {queue[i].card : i \in DOMAIN queue}
    BY DEF NothingSkipped
  <2> USE DEF Inv
  <2> DEFINE R == parseExtraRounds(session.rounds)
             intro == CountNewIntroducedToday(Day(now))
             reviewed == CountReviewedToday(Day(now))
             limit == Cardinality(Card) + 1
             b == BuildBatch(Today, now, AtStart, limit, R, intro, reviewed)
  <2>1. session.open /\ session.exhausted
    BY DEF Done
  <2>2. OfferedToday(session.rounds) \subseteq CardsOf(queue)
    BY <2>1 DEF SteadyInv, GoesOn, Served
  <2>3. R \in Nat
    <3>1. session.rounds \in Nat
      BY StudyAssumption DEF TypeInv, Sessions
    <3> QED BY <3>1, RoundsAre
  <2>4. intro \in Nat /\ reviewed \in Nat
    BY CountsAre
  <2>5. limit \in Nat \ {0}
    <3>1. Cardinality(Card) \in Nat
      BY StudyAssumption, FS_CardinalityType
    <3> QED BY <3>1
  <2>6. Readable(Today) /\ now \in InitTick .. now
    BY TodayIsReadable, NowIs DEF Today
  <2>7. AtStart \in Cursors
    BY DEF AtStart, Cursors, Start, Key, LastPosition
  <2>8. OfferedNow(R) = b.cards
    BY DEF OfferedNow, Today
  <2> HIDE DEF R, intro, reviewed, limit
  <2>9. b.cards \in Seq(Offered(Today, now, R, intro, reviewed))
    BY <2>3, <2>4, <2>5, <2>6, <2>7, BatchIs DEF Progress
  <2>10. Offered(Today, now, R, intro, reviewed) = OfferedToday(session.rounds)
    BY DEF OfferedToday, R, intro, reviewed
  <2> HIDE DEF b
  <2>11. OfferedNow(R)[k] \in OfferedToday(session.rounds)
    <3>1. k \in DOMAIN OfferedNow(R)
      BY DEF R
    <3> QED BY <2>8, <2>9, <2>10, <3>1
  <2> QED BY <2>2, <2>11 DEF CardsOf, R
<1>2. Spec => []Inv
  BY InvHolds
<1> QED BY <1>1, <1>2, PTL

-----------------------------------------------------------------------------
(* A fresh page and the numbers of the deck pages.                         *)

(* How many cards a cutoff keeps. *)
LEMMA CutSize ==
    ASSUME NEW S, NEW key, Keyed(S, key), NEW n \in Nat
    PROVE  /\ IsFiniteSet(Cut(S, key, n)) /\ Cardinality(Cut(S, key, n)) \in Nat
           /\ Cardinality(Cut(S, key, n)) <= n
           /\ Cardinality(Cut(S, key, n)) <= Cardinality(S)
           /\ Cut(S, key, n) = {} <=> n = 0 \/ S = {}
<1> DEFINE T == Cut(S, key, n)
           I == 0 .. n - 1
<1>1. IsFiniteSet(S) /\ Cardinality(S) \in Nat
  BY RankIs DEF Keyed
<1>2. T \subseteq S
  BY DEF Cut
<1>3. IsFiniteSet(T) /\ Cardinality(T) <= Cardinality(S) /\ Cardinality(T) \in Nat
  BY <1>1, <1>2, FS_Subset, FS_CardinalityType
<1>4. \A c \in S : Rank(S, key, c) \in Nat
  <2> TAKE c \in S
  <2>1. Rank(S, key, c) \in 0 .. Cardinality(S) - 1
    BY RankIs
  <2> QED BY <1>1, <2>1
<1>5. Cardinality(T) <= n
  <2> DEFINE f == [c \in T |-> Rank(S, key, c)]
  <2>1. IsFiniteSet(I) /\ Cardinality(I) = n
    BY FS_Interval
  <2>2. f \in [T -> I]
    BY <1>2, <1>4 DEF Cut
  <2>3. \A c, d \in T : f[c] = f[d] => c = d
    BY <1>2, RankIs
  <2>4. f \in Injection(T, I)
    BY <2>2, <2>3 DEF Injection, IsInjective
  <2> QED BY <2>1, <2>4, FS_Injection
<1>6. ASSUME n # 0, S # {} PROVE T # {}
  <2>1. Cardinality(S) # 0
    BY <1>1, <1>6, FS_EmptySet
  <2>2. 0 \in 0 .. Cardinality(S) - 1
    BY <1>1, <2>1
  <2>3. PICK c \in S : Rank(S, key, c) = 0
    BY <2>2, RankIs
  <2> QED BY <1>6, <2>3 DEF Cut
<1>7. n = 0 => T = {}
  BY <1>4 DEF Cut
<1> QED BY <1>2, <1>3, <1>5, <1>6, <1>7

LEMMA CutoffSizes ==
    ASSUME TypeInv, NEW s, NEW at \in InitTick .. now, NEW n \in Nat
    PROVE  /\ IsFiniteSet(newCutoff(s, n, Start)) /\ Cardinality(newCutoff(s, n, Start)) \in Nat
           /\ Cardinality(newCutoff(s, n, Start)) <= n
           /\ Cardinality(newCutoff(s, n, Start)) <= Cardinality(NewCards(s))
           /\ newCutoff(s, n, Start) = {} <=> n = 0 \/ NewCards(s) = {}
           /\ IsFiniteSet(revCutoff(s, at, n)) /\ Cardinality(revCutoff(s, at, n)) \in Nat
           /\ Cardinality(revCutoff(s, at, n)) <= n
           /\ Cardinality(revCutoff(s, at, n)) <= Cardinality(DueCards(s, at))
           /\ revCutoff(s, at, n) = {} <=> n = 0 \/ DueCards(s, at) = {}
<1> DEFINE nkey == [c \in Card |-> NewKey(c)]
           rkey == [c \in Card |-> RevKey(s.order, at, c)]
<1>1. /\ newCutoff(s, n, Start) = Cut(NewCards(s), nkey, n)
      /\ revCutoff(s, at, n) = Cut(DueCards(s, at), rkey, n)
  BY CutoffsAre
<1>2. /\ NewCards(s) \subseteq Card /\ DueCards(s, at) \subseteq Card
      /\ IsFiniteSet(NewCards(s)) /\ IsFiniteSet(DueCards(s, at))
      /\ \A c \in DueCards(s, at) : ~unseen(c)
  BY SetsAre
<1>3. \A c \in NewCards(s) : nkey[c] \in Key /\ nkey[c][3] = c
  BY <1>2, KeysAre
<1>4. \A c \in DueCards(s, at) : rkey[c] \in Key /\ rkey[c][3] = c
  BY <1>2, KeysAre
<1> HIDE DEF nkey, rkey
<1>5. Keyed(NewCards(s), nkey)
  BY <1>2, <1>3 DEF Keyed
<1>6. Keyed(DueCards(s, at), rkey)
  BY <1>2, <1>4 DEF Keyed
<1>7. /\ IsFiniteSet(newCutoff(s, n, Start)) /\ Cardinality(newCutoff(s, n, Start)) \in Nat
      /\ Cardinality(newCutoff(s, n, Start)) <= n
      /\ Cardinality(newCutoff(s, n, Start)) <= Cardinality(NewCards(s))
      /\ newCutoff(s, n, Start) = {} <=> n = 0 \/ NewCards(s) = {}
  BY <1>1, <1>5, CutSize
<1>8. /\ IsFiniteSet(revCutoff(s, at, n)) /\ Cardinality(revCutoff(s, at, n)) \in Nat
      /\ Cardinality(revCutoff(s, at, n)) <= n
      /\ Cardinality(revCutoff(s, at, n)) <= Cardinality(DueCards(s, at))
      /\ revCutoff(s, at, n) = {} <=> n = 0 \/ DueCards(s, at) = {}
  BY <1>1, <1>6, CutSize
<1> QED BY <1>7, <1>8

(* Rows read behind a position are no more than there are. *)
LEMMA BehindSize ==
    ASSUME NEW S, NEW key, Keyed(S, key), NEW pos \in Key, NEW limit \in Nat
    PROVE  /\ Len(Behind(S, key, pos, limit)) \in Nat
           /\ Len(Behind(S, key, pos, limit)) <= limit
           /\ Len(Behind(S, key, pos, limit)) <= Cardinality(S)
<1> DEFINE T == RowsBehind(S, key, pos)
<1>1. IsFiniteSet(S) /\ Cardinality(S) \in Nat
  BY RankIs DEF Keyed
<1>2. T \in SUBSET S
  BY DEF RowsBehind
<1>3. Cardinality(T) <= Cardinality(S) /\ Cardinality(T) \in Nat
  BY <1>1, <1>2, FS_Subset, FS_CardinalityType
<1>4. Len(Behind(S, key, pos, limit)) = IF Cardinality(T) <= limit THEN Cardinality(T) ELSE limit
  BY BehindIs
<1> QED BY <1>1, <1>3, <1>4

(* A page is no larger than its size, nor than what may be offered. *)
LEMMA PageSize ==
    ASSUME TypeInv, NEW s, Readable(s), NEW at \in InitTick .. now,
           NEW n \in Nat, NEW t \in Nat, NEW limit \in Nat
    PROVE  LET room == Cardinality(newCutoff(s, n, Start)) + Cardinality(OfferedReviews(s, at, t))
               single == buildSingleBatch(s, at, n, t, AtStart, limit).cards
               mixed == buildMixedBatch(s, at, n, t, AtStart, limit).cards
           IN /\ Len(single) <= limit /\ Len(single) <= room
              /\ Len(mixed) <= limit /\ Len(mixed) <= room
<1> DEFINE N == newCutoff(s, n, Start)
           R == OfferedReviews(s, at, t)
           O == N \cup R
           nkey == [c \in N |-> NewKey(c)]
           rkey == [c \in R |-> RevKey(s.order, at, c)]
           okey == [c \in O |-> SortKey(s, at, c)]
           single == buildSingleBatch(s, at, n, t, AtStart, limit).cards
           mixed == buildMixedBatch(s, at, n, t, AtStart, limit).cards
           rows == Behind(O, okey, Start, limit)
           revs == Behind(R, rkey, Start, limit)
           news == Behind(N, nkey, Start, limit)
<1>1. N \subseteq Card /\ R \subseteq Card /\ O \subseteq Card /\ \A c \in R : ~unseen(c)
  BY SetsAre
<1>2. Start \in Key /\ AtStart.pos = Start /\ AtStart.rev = Start /\ AtStart.new = Start
  BY DEF Start, Key, LastPosition, AtStart
<1>3. Keyed(N, nkey) /\ Keyed(R, rkey) /\ Keyed(O, okey)
  BY <1>1, CardsAreKeyed
<1>4. IsFiniteSet(N) /\ IsFiniteSet(R)
  BY <1>1, StudyAssumption, FS_Subset
<1>5. single = rows
  BY <1>2 DEF buildSingleBatch, ListDueCardsForStudy
<1>6. mixed = Mixed(revs, news, interleave(Len(revs), Len(news), limit),
                    Least({Len(revs) + Len(news), limit}))
  BY <1>2 DEF buildMixedBatch, ListReviewCardsForStudy, ListNewCardsForStudy
<1> HIDE DEF O, nkey, rkey, okey, single, mixed
<1>7. /\ Len(rows) \in Nat /\ Len(rows) <= limit /\ Len(rows) <= Cardinality(O)
      /\ Len(revs) \in Nat /\ Len(revs) <= Cardinality(R)
      /\ Len(news) \in Nat /\ Len(news) <= Cardinality(N)
  <2> HIDE DEF rows, revs, news, N, R
  <2>1. Len(rows) \in Nat /\ Len(rows) <= limit /\ Len(rows) <= Cardinality(O)
    BY <1>2, <1>3, BehindSize DEF rows
  <2>2. Len(revs) \in Nat /\ Len(revs) <= Cardinality(R)
    BY <1>2, <1>3, BehindSize DEF revs
  <2>3. Len(news) \in Nat /\ Len(news) <= Cardinality(N)
    BY <1>2, <1>3, BehindSize DEF news
  <2> QED BY <2>1, <2>2, <2>3
<1> HIDE DEF rows, revs, news, N, R
<1>8. /\ Cardinality(N) \in Nat /\ Cardinality(R) \in Nat /\ Cardinality(O) \in Nat
      /\ Cardinality(O) <= Cardinality(N) + Cardinality(R)
  <2>1. IsFiniteSet(N \cap R)
    BY <1>4, FS_Subset
  <2>2. Cardinality(N) \in Nat /\ Cardinality(R) \in Nat /\ Cardinality(N \cap R) \in Nat
    BY <1>4, <2>1, FS_CardinalityType
  <2>3. /\ IsFiniteSet(N \cup R)
        /\ Cardinality(N \cup R) = Cardinality(N) + Cardinality(R) - Cardinality(N \cap R)
    BY <1>4, FS_Union
  <2>4. Cardinality(N \cup R) \in Nat
    BY <2>3, FS_CardinalityType
  <2> QED BY <2>2, <2>3, <2>4 DEF O
<1>9. Len(single) <= limit /\ Len(single) <= Cardinality(N) + Cardinality(R)
  BY <1>5, <1>7, <1>8
<1>10. Len(mixed) <= limit /\ Len(mixed) <= Cardinality(N) + Cardinality(R)
  <2> DEFINE total == Least({Len(revs) + Len(news), limit})
  <2>1. /\ total = IF Len(revs) + Len(news) <= limit THEN Len(revs) + Len(news) ELSE limit
    BY <1>7, TwoNumbers
  <2>2. total \in Nat /\ total <= limit /\ total <= Len(revs) + Len(news)
    BY <1>7, <2>1
  <2> HIDE DEF total
  <2>3. Len(mixed) = total
    BY <1>6, <2>2 DEF Mixed, total
  <2> QED BY <1>7, <1>8, <2>2, <2>3
<1> QED BY <1>9, <1>10 DEF N, R, single, mixed

(* Whichever source goes first, the two together are given what there is of *)
(* each within its own limit, up to the total.                             *)
LEMMA AllocationIs ==
    ASSUME NEW s, NEW ceiling \in Nat, NEW total \in Nat,
           NEW n \in Nat, NEW l \in Nat, NEW d \in Nat
    PROVE  LET x == IF ceiling <= n THEN ceiling ELSE n
               y == IF total <= d THEN total ELSE d
           IN LeftToStudy(s, ceiling, total, [new |-> n, learning |-> l, due |-> d])
                 = (IF x + y <= total THEN x + y ELSE total) + l
<1> DEFINE count == [new |-> n, learning |-> l, due |-> d]
           x == IF ceiling <= n THEN ceiling ELSE n
           y == IF total <= d THEN total ELSE d
           nf == IF x <= total THEN x ELSE total
           a == PriorityAllocate(s, ceiling, total, count)
<1>1. \A i, j, k \in Nat :
         Least({i, j, k}) = IF i <= j THEN IF i <= k THEN i ELSE k ELSE IF j <= k THEN j ELSE k
  BY DEF Least
<1>2. x \in Nat /\ y \in Nat /\ nf \in Nat /\ nf <= total /\ y <= total
  OBVIOUS
<1>3. Least({ceiling, n, total}) = nf /\ Least({total, d}) = y /\ Least({ceiling, n}) = x
  BY <1>1, TwoNumbers
<1>4. Least({total - nf, d}) = IF total - nf <= d THEN total - nf ELSE d
  BY <1>2, TwoNumbers
<1>5. Least({ceiling, total - y, n}) = IF x <= total - y THEN x ELSE total - y
  BY <1>1, <1>2
<1>6. /\ s.priority = "new" =>
            a.new = nf /\ a.due = IF total - nf <= d THEN total - nf ELSE d
      /\ s.priority = "due" =>
            a.new = (IF x <= total - y THEN x ELSE total - y) /\ a.due = y
      /\ s.priority \notin {"new", "due"} => a.new = x /\ a.due = y
  BY <1>3, <1>4, <1>5 DEF PriorityAllocate
<1> HIDE DEF a
<1>7. a.new \in Nat /\ a.due \in Nat
  BY <1>2, <1>6
<1>8. IF a.new + a.due <= total THEN a.new + a.due = IF x + y <= total THEN x + y ELSE total
      ELSE total = IF x + y <= total THEN x + y ELSE total
  BY <1>2, <1>6
<1>9. Least({a.new + a.due, total}) = IF a.new + a.due <= total THEN a.new + a.due ELSE total
  BY <1>7, TwoNumbers
<1>10. LeftToStudy(s, ceiling, total, count) = Least({a.new + a.due, total}) + l
  BY DEF LeftToStudy, a
<1> QED BY <1>8, <1>9, <1>10

(* What the deck page says is left, and the deck list with it. *)
LEMMA LeftOnPages ==
    ASSUME TypeInv
    PROVE  LET i == CountNewIntroducedToday(Day(now))
               t == TotalLeft(Today, 0, i, CountReviewedToday(Day(now)))
               c == NewRemaining(Today.newPerDay, i)
               count == CountQueueForDeck(Today, now)
               x == IF c <= count.new THEN c ELSE count.new
               y == IF t <= count.due THEN t ELSE count.due
           IN /\ c \in Nat /\ t \in Nat /\ NewLeft(Today, 0, i, CountReviewedToday(Day(now))) = IF t = 0 THEN 0 ELSE c
              /\ count.new \in Nat /\ count.learning \in Nat /\ count.due \in Nat
              /\ DeckPageLeft(Today, now) = (IF x + y <= t THEN x + y ELSE t) + count.learning
              /\ DeckListLeft(Today, now) = DeckPageLeft(Today, now)
<1> DEFINE s == Today
           i == CountNewIntroducedToday(Day(now))
           r == CountReviewedToday(Day(now))
           t == TotalLeft(s, 0, i, r)
           c == NewRemaining(s.newPerDay, i)
           count == CountQueueForDeck(s, now)
           x == IF c <= count.new THEN c ELSE count.new
           y == IF t <= count.due THEN t ELSE count.due
           left == (IF x + y <= t THEN x + y ELSE t) + count.learning
<1>1. i \in Nat /\ r \in Nat
  BY CountsAre
<1>2. Readable(s)
  BY TodayIsReadable DEF Today
<1>3. s.newPerDay \in Nat /\ s.revPerDay \in Nat /\ s.newPerDay * (1 + 0) = s.newPerDay
      /\ s.revPerDay * (1 + 0) = s.revPerDay
  BY <1>2 DEF Readable
<1>4. t = RevRemaining(s.revPerDay, i + r) /\ t \in Nat
  BY <1>1, <1>2, <1>3, LeftIs DEF TotalLeft
<1>5. c \in Nat
  <2>1. s.newPerDay - i \in Int
    BY <1>1, <1>3
  <2>2. \A d \in Int : Most({d, 0}) = IF d > 0 THEN d ELSE 0
    BY TwoNumbers
  <2>3. Most({s.newPerDay - i, 0}) \in Nat
    BY <2>1, <2>2
  <2> QED BY <2>3 DEF NewRemaining
<1>6. NewLeft(s, 0, i, r) = IF t = 0 THEN 0 ELSE c
  BY <1>3 DEF NewLeft
<1>7. /\ count.new = Cardinality(NewCards(s)) /\ count.due = Cardinality(DueCards(s, now))
      /\ count.learning = Cardinality({k \in ReadyCards(s, now) : row[k].state \in {1, 3}})
      /\ count = [new |-> count.new, learning |-> count.learning, due |-> count.due]
  BY DEF CountQueueForDeck
<1>8. count.new \in Nat /\ count.learning \in Nat /\ count.due \in Nat
  <2>1. IsFiniteSet({k \in ReadyCards(s, now) : row[k].state \in {1, 3}})
    BY SetsAre, FS_Subset
  <2> QED BY <1>7, <2>1, SetsAre, FS_CardinalityType
<1> HIDE DEF s, i, r, t, c, count
<1>9. LeftToStudy(s, c, t, count) = left
  BY <1>4, <1>5, <1>7, <1>8, AllocationIs
<1>10. DeckPageLeft(s, now) = left
  BY <1>4, <1>9 DEF DeckPageLeft, i, r, c, count
<1>11. DeckListLeft(s, now) = left
  <2> DEFINE lefts == {LeftToStudy(s, c, t, k) : k \in CountQueueForUser(s, now)}
  <2>1. DeckListLeft(s, now) = IF lefts = {} THEN 0 ELSE Least(lefts)
    BY <1>4 DEF DeckListLeft, i, r, c
  <2>2. left \in Nat
    BY <1>4, <1>5, <1>8
  <2> HIDE DEF left
  <2>3. CASE NewCards(s) \cup ReadyCards(s, now) = {}
    <3>1. lefts = {}
      BY <2>3 DEF CountQueueForUser
    <3>2. count.new = 0 /\ count.due = 0 /\ count.learning = 0
      <4>1. NewCards(s) = {} /\ DueCards(s, now) = {}
            /\ {k \in ReadyCards(s, now) : row[k].state \in {1, 3}} = {}
        BY <2>3 DEF DueCards
      <4> QED BY <1>7, <4>1, FS_EmptySet
    <3>3. left = 0
      BY <1>4, <1>5, <3>2 DEF left
    <3> QED BY <2>1, <3>1, <3>3
  <2>4. CASE NewCards(s) \cup ReadyCards(s, now) # {}
    <3>1. lefts = {left}
      BY <1>9, <2>4 DEF CountQueueForUser, count
    <3>2. Least({left}) = left
      BY <2>2 DEF Least
    <3> QED BY <2>1, <3>1, <3>2
  <2> QED BY <2>3, <2>4
<1> QED BY <1>4, <1>5, <1>6, <1>8, <1>10, <1>11 DEF s, i, r, t, c, count

(* A fresh page is empty when nothing is offered, and only then. *)
LEMMA EmptyPage ==
    ASSUME TypeInv, NEW s, Readable(s), NEW at \in InitTick .. now, NEW limit \in Nat \ {0},
           NEW rounds \in Nat, NEW i \in Nat, NEW r \in Nat
    PROVE  BuildBatch(s, at, AtStart, limit, rounds, i, r).cards = <<>>
              <=> Offered(s, at, rounds, i, r) = {}
<1> DEFINE b == BuildBatch(s, at, AtStart, limit, rounds, i, r)
           O == Offered(s, at, rounds, i, r)
<1>1. AtStart \in Cursors
  BY DEF AtStart, Cursors, Start, Key, LastPosition
<1>2. Progress(b, s, at, AtStart, O)
  BY <1>1, BatchIs
<1>3. O \subseteq Card
  BY SetsAre DEF Offered
<1>4. \A c \in O : Ahead(s, at, AtStart, c)
  BY <1>3, StartIsFirst
<1> HIDE DEF b, O
<1>5. ASSUME O = {} PROVE b.cards = <<>>
  <2>1. b.cards \in Seq({})
    BY <1>2, <1>5 DEF Progress
  <2> QED BY <2>1
<1>6. ASSUME b.cards = <<>> PROVE O = {}
  <2>1. b.exhausted
    BY <1>2, <1>6 DEF Progress
  <2>2. \A c \in O : \E j \in DOMAIN b.cards : b.cards[j] = c
    BY <1>2, <1>4, <2>1 DEF Progress
  <2> QED BY <1>6, <2>2
<1> QED BY <1>5, <1>6 DEF b, O

\* A fresh page is empty exactly when the deck page and the deck list count
\* nothing left, and never larger than they count, in every priority mode
\* (BuildBatch and its queries' cutoffs by rank; PriorityAllocate and
\* LeftToStudy, preset.go, by arithmetic over CountQueueForDeck).
THEOREM NumbersAgree == Spec => []PagesAgree
<1>1. Inv => PagesAgree
  <2> DEFINE s == Today
             i == CountNewIntroducedToday(Day(now))
             r == CountReviewedToday(Day(now))
             t == TotalLeft(s, 0, i, r)
             n == NewLeft(s, 0, i, r)
             c == NewRemaining(s.newPerDay, i)
             count == CountQueueForDeck(s, now)
             x == IF c <= count.new THEN c ELSE count.new
             y == IF t <= count.due THEN t ELSE count.due
             left == DeckPageLeft(s, now)
             size == effectiveLimit(Page, t)
             learning == ReadyCards(s, now) \ DueCards(s, now)
             page == BuildBatch(s, now, AtStart, Page, 0, i, r).cards
  <2> SUFFICES ASSUME Inv, \A k \in ReadyCards(s, now) : row[k].state # 0
               PROVE  /\ left = DeckListLeft(s, now)
                      /\ Len(page) <= left
                      /\ (page = <<>>) <=> (left = 0)
    BY DEF PagesAgree, Today
  <2> USE DEF Inv
  <2>1. now \in InitTick .. now /\ Readable(s) /\ i \in Nat /\ r \in Nat
    BY NowIs, CountsAre, TodayIsReadable DEF Today
  <2>2. /\ c \in Nat /\ t \in Nat /\ n = (IF t = 0 THEN 0 ELSE c)
        /\ count.new \in Nat /\ count.learning \in Nat /\ count.due \in Nat
        /\ left = (IF x + y <= t THEN x + y ELSE t) + count.learning
        /\ DeckListLeft(s, now) = left
    BY LeftOnPages
  <2>3. /\ count.new = Cardinality(NewCards(s)) /\ count.due = Cardinality(DueCards(s, now))
        /\ count.learning = Cardinality(learning)
    <3>1. \A k \in ReadyCards(s, now) : row[k].state \in 1 .. 3
      <4> TAKE k \in ReadyCards(s, now)
      <4>1. k \in Card /\ row[k] # NoRow
        BY SetsAre DEF unseen
      <4>2. row[k] \in Row
        BY <4>1 DEF TypeInv
      <4>3. row[k].state \in 0 .. 3 /\ row[k].state # 0
        BY <4>2 DEF Row
      <4> QED BY <4>3
    <3>2. {k \in ReadyCards(s, now) : row[k].state \in {1, 3}} = learning
      BY <3>1 DEF DueCards
    <3> QED BY <3>2 DEF CountQueueForDeck
  <2>4. /\ page = IF s.priority = "mixed" THEN buildMixedBatch(s, now, n, t, AtStart, size).cards
                  ELSE buildSingleBatch(s, now, n, t, AtStart, size).cards
    BY DEF BuildBatch, NewLeft, TotalLeft
  <2>5. size = (IF t = 0 \/ Page <= t THEN Page ELSE t) /\ Page \in Nat \ {0}
    <3> HIDE DEF t
    <3>1. Page \in Nat \ {0}
      BY StudyAssumption
    <3>2. Least({Page, t}) = IF Page <= t THEN Page ELSE t
      BY <2>2, <3>1, TwoNumbers
    <3> QED BY <3>1, <3>2 DEF effectiveLimit
  <2> DEFINE N == newCutoff(s, n, Start)
             D == revCutoff(s, now, t)
             O == Offered(s, now, 0, i, r)
  <2>6. O = N \cup D \cup learning
    BY DEF Offered, OfferedReviews
  <2>7. IsFiniteSet(learning)
    BY SetsAre, FS_Subset
  <2> HIDE DEF s, i, r, t, n, c, count, left, size, page, learning
  <2>8. n \in Nat /\ size \in Nat
    BY <2>2, <2>5
  <2>9. /\ Cardinality(N) \in Nat /\ Cardinality(N) <= n /\ Cardinality(N) <= count.new
        /\ N = {} <=> n = 0 \/ count.new = 0
        /\ IsFiniteSet(D) /\ Cardinality(D) \in Nat /\ Cardinality(D) <= t
        /\ Cardinality(D) <= count.due
        /\ D = {} <=> t = 0 \/ count.due = 0
    <3>1. /\ NewCards(s) = {} <=> count.new = 0
          /\ DueCards(s, now) = {} <=> count.due = 0
      BY <2>3, SetsAre, FS_EmptySet
    <3> QED BY <2>1, <2>2, <2>3, <2>8, <3>1, CutoffSizes
  <2>10. Cardinality(OfferedReviews(s, now, t)) <= Cardinality(D) + count.learning
         /\ Cardinality(OfferedReviews(s, now, t)) \in Nat
    <3>1. OfferedReviews(s, now, t) = D \cup learning
      BY DEF OfferedReviews, learning
    <3>2. IsFiniteSet(D \cap learning)
      BY <2>7, FS_Subset
    <3>3. Cardinality(D \cap learning) \in Nat
      BY <3>2, FS_CardinalityType
    <3>4. /\ IsFiniteSet(D \cup learning)
          /\ Cardinality(D \cup learning)
                = Cardinality(D) + Cardinality(learning) - Cardinality(D \cap learning)
      BY <2>7, <2>9, FS_Union
    <3>5. Cardinality(D \cup learning) \in Nat
      BY <3>4, FS_CardinalityType
    <3> QED BY <2>2, <2>3, <2>9, <3>1, <3>3, <3>4, <3>5
  <2>11. Len(page) <= size /\ Len(page) <= Cardinality(N) + Cardinality(OfferedReviews(s, now, t))
    BY <2>1, <2>2, <2>4, <2>8, PageSize
  <2>12. Len(page) \in Nat
    <3>1. AtStart \in Cursors
      BY DEF AtStart, Cursors, Start, Key, LastPosition
    <3>2. page \in Seq(O)
      BY <2>1, <2>5, <3>1, BatchIs DEF Progress, page
    <3> QED BY <3>2
  <2>13. page = <<>> <=> O = {}
    BY <2>1, <2>5, EmptyPage DEF page
  <2>14. learning = {} <=> count.learning = 0
    BY <2>3, <2>7, FS_EmptySet
  <2> HIDE DEF N, D, O
  <2>15. Len(page) <= left
    <3> DEFINE lp == Len(page)
               cn == Cardinality(N)
               cd == Cardinality(D)
               co == Cardinality(OfferedReviews(s, now, t))
               k == count.learning
               new == count.new
               due == count.due
    <3>1. /\ lp \in Nat /\ cn \in Nat /\ cd \in Nat /\ co \in Nat /\ k \in Nat
          /\ new \in Nat /\ due \in Nat /\ t \in Nat /\ c \in Nat
      BY <2>2, <2>9, <2>10, <2>12
    <3>2. lp <= cn + co /\ co <= cd + k /\ cn <= n /\ cn <= new /\ cd <= t /\ cd <= due
      BY <2>9, <2>10, <2>11
    <3>3. t # 0 => lp <= t
      BY <2>2, <2>5, <2>11, <2>12
    <3>4. left = (IF x + y <= t THEN x + y ELSE t) + k /\ n = (IF t = 0 THEN 0 ELSE c)
      BY <2>2
    <3> HIDE DEF lp, cn, cd, co, k, new, due
    <3>5. x = (IF c <= new THEN c ELSE new) /\ y = (IF t <= due THEN t ELSE due)
      BY DEF new, due
    <3> HIDE DEF x, y
    <3>6. CASE t = 0
      BY <3>1, <3>2, <3>4, <3>5, <3>6 DEF lp
    <3>7. CASE t # 0
      <4>1. cn <= x /\ cd <= y /\ x \in Nat /\ y \in Nat
        BY <3>1, <3>2, <3>4, <3>5, <3>7
      <4>2. lp <= x + y + k /\ lp <= t
        BY <3>1, <3>2, <3>3, <3>7, <4>1
      <4> QED BY <3>1, <3>4, <4>1, <4>2 DEF lp
    <3> QED BY <3>6, <3>7
  <2>16. O = {} <=> left = 0
    <3> DEFINE k == count.learning
               new == count.new
               due == count.due
    <3>1. k \in Nat /\ new \in Nat /\ due \in Nat /\ t \in Nat /\ c \in Nat
      BY <2>2
    <3>2. left = (IF x + y <= t THEN x + y ELSE t) + k /\ n = (IF t = 0 THEN 0 ELSE c)
      BY <2>2
    <3>3. /\ N = {} <=> n = 0 \/ new = 0
          /\ D = {} <=> t = 0 \/ due = 0
          /\ learning = {} <=> k = 0
      BY <2>9, <2>14
    <3> HIDE DEF k, new, due
    <3>4. x = (IF c <= new THEN c ELSE new) /\ y = (IF t <= due THEN t ELSE due)
      BY DEF new, due
    <3> HIDE DEF x, y
    <3>5. left = 0 <=> k = 0 /\ (t = 0 \/ (x = 0 /\ y = 0))
      BY <3>1, <3>2, <3>4
    <3>6. left = 0 <=> k = 0 /\ (n = 0 \/ new = 0) /\ (t = 0 \/ due = 0)
      BY <3>1, <3>2, <3>4, <3>5
    <3>7. O = {} <=> N = {} /\ D = {} /\ learning = {}
      BY <2>6
    <3> QED BY <3>3, <3>6, <3>7
  <2> QED BY <2>2, <2>13, <2>15, <2>16
<1>2. Spec => []Inv
  BY InvHolds
<1> QED BY <1>1, <1>2, PTL

-----------------------------------------------------------------------------
(* The limits of a study day.                                              *)

(* The cards on their way to the log that were served on a day as what they *)
(* were then: graded and not yet stored, queued, or on a page under way.   *)
UnsentOn(d, k, u) == {u[i].card : i \in {j \in DOMAIN u : u[j].kind = k /\ u[j].served = d}}
QueuedOn(d, k, q) == {q[i].card : i \in {j \in Pending(q) : q[j].kind = k /\ q[j].day = d}}
ListedOn(d, k, f, q) ==
    IF f.pc = "answered"
    THEN {f.slots[i].card : i \in {j \in DOMAIN f.slots : f.slots[j].kind = k /\ f.slots[j].day = d}}
             \ CardsOf(q)
    ELSE {}
HeldOn(d, k, u, q, f) == UnsentOn(d, k, u) \cup QueuedOn(d, k, q) \cup ListedOn(d, k, f, q)
Held(k) == HeldOn(Day(now), k, unsent, queue, fetch)

LoggedOn(d, b) == {e.card : e \in {l \in log : l.before = b /\ l.day = d}}
Logged(b) == LoggedOn(Day(now), b)

(* What is booked is within the cap, and what is owed, all of it in the pool, *)
(* ranks within what the cap leaves.                                        *)
Kept(pool, key, owed, booked, cap) ==
    /\ Cardinality(booked) <= cap
    /\ owed \subseteq pool
    /\ \A c \in owed : Rank(pool, key, c) < cap - Cardinality(booked)

NewBooked == Fair(0) \ today.slipped
NewOwed == {c \in Held(-1) : unseen(c)} \ today.slipped
NewPool == NewCards(Today) \ today.slipped
NewOrder == [c \in Card |-> NewKey(c)]
NewKept == Kept(NewPool, NewOrder, NewOwed, NewBooked, today.newCap)

(* A due card that was answered may be booked once more with a slot it has   *)
(* still in the queue.                                                      *)
DueBooked == (Fair(2) \cup (Logged(2) \cap Held(2))) \ today.slipped
DueOwed == Held(2) \ (Logged(2) \cup today.slipped)
DuePool == DueCards(Today, now) \ today.slipped
DueOrder == [c \in Card |-> RevKey(Today.order, now, c)]
DueKept == Kept(DuePool, DueOrder, DueOwed, DueBooked, today.revCap)

(* The counts of a request cover what has been stored, but for what slipped *)
(* in after them; and its limits count towards the caps.                   *)
CountInv ==
    fetch.pc = "counted" /\ Day(fetch.at) = Day(now) =>
        /\ fetch.settings.newPerDay * (1 + fetch.rounds) <= today.newCap
        /\ fetch.settings.revPerDay * (1 + fetch.rounds) <= today.revCap
        /\ "edit" \notin today.shifted => fetch.settings = Today
        /\ today.shifted = {} => fetch.at = now
        /\ Cardinality(Logged(0) \ today.slipped) <= fetch.introduced
        /\ Cardinality(Logged(2) \ today.slipped) <= fetch.reviewed

(* A card that is in the queue twice is pending only as a repetition.      *)
Single(q) == \A i \in DOMAIN q, j \in Pending(q) : i # j /\ q[i].card = q[j].card => q[j].repeat
Repeated(d, q) == {q[i].card : i \in {j \in Pending(q) : q[j].repeat /\ q[j].kind = 2 /\ q[j].day = d}}
SlotInv ==
    /\ \A i \in DOMAIN queue : queue[i].day <= Day(now)
    /\ \A i \in DOMAIN unsent : unsent[i].served <= Day(now)
    /\ fetch.pc = "answered" =>
          \A i, j \in DOMAIN fetch.slots :
             /\ fetch.slots[i].day <= Day(now)
             /\ fetch.slots[i].card = fetch.slots[j].card => i = j
    /\ Single(queue)

(* A repetition of a due card follows its first answer.                    *)
RepeatInv ==
    Repeated(Day(now), queue) \subseteq UnsentOn(Day(now), 2, unsent) \cup Logged(2) \cup today.slipped

HistoryInv ==
    today \in [newCap : Nat, revCap : Nat, slipped : SUBSET Card,
               shifted : SUBSET {"edit", "toggle", "tick"}]

CapInv ==
    /\ HistoryInv /\ CountInv /\ SlotInv
    /\ "edit" \notin today.shifted => NewKept
    /\ today.shifted = {} => DueKept /\ RepeatInv

(* What leaves the pool unbooked makes room. *)
LEMMA KeptShrinks ==
    ASSUME NEW pool, NEW key, NEW owed, NEW booked, NEW cap \in Nat,
           IsFiniteSet(pool), IsFiniteSet(booked), Kept(pool, key, owed, booked, cap),
           NEW pool1, NEW key1, NEW owed1, NEW booked1, NEW cap1 \in Nat, cap <= cap1,
           pool1 \subseteq pool, \A c \in pool1 : key1[c] = key[c],
           owed1 \subseteq owed, owed1 \subseteq pool1, booked1 \subseteq booked
    PROVE  Kept(pool1, key1, owed1, booked1, cap1)
<1>1. IsFiniteSet(booked1) /\ Cardinality(booked1) <= Cardinality(booked)
      /\ Cardinality(booked1) \in Nat /\ Cardinality(booked) \in Nat
  BY FS_Subset, FS_CardinalityType
<1>2. ASSUME NEW c \in owed1 PROVE Rank(pool1, key1, c) < cap1 - Cardinality(booked1)
  <2> DEFINE A == {d \in pool : Less(key[d], key[c])}
             B == {d \in pool1 : Less(key1[d], key1[c])}
  <2>1. B \subseteq A
    OBVIOUS
  <2>2. IsFiniteSet(A)
    BY FS_Subset
  <2> HIDE DEF A, B
  <2>3. Cardinality(B) <= Cardinality(A) /\ Cardinality(A) \in Nat /\ Cardinality(B) \in Nat
    BY <2>1, <2>2, FS_Subset, FS_CardinalityType
  <2>4. Cardinality(A) < cap - Cardinality(booked)
    BY DEF Kept, Rank, A
  <2>5. Rank(pool1, key1, c) = Cardinality(B)
    BY DEF Rank, B
  <2> QED BY <1>1, <2>3, <2>4, <2>5
<1>3. Cardinality(booked) <= cap
  BY DEF Kept
<1>4. Cardinality(booked1) <= cap1
  BY <1>1, <1>3
<1> QED BY <1>2, <1>4 DEF Kept

(* A card that was owed may be booked when it leaves the pool. *)
LEMMA KeptBooks ==
    ASSUME NEW pool, NEW key, NEW owed, NEW booked, NEW cap \in Nat,
           Keyed(pool, key), IsFiniteSet(booked), Kept(pool, key, owed, booked, cap),
           NEW x \in owed, NEW key1, NEW owed1, NEW booked1,
           \A c \in pool \ {x} : key1[c] = key[c],
           owed1 \subseteq owed \ {x}, booked1 \subseteq booked \cup {x}
    PROVE  Kept(pool \ {x}, key1, owed1, booked1, cap)
<1>1. Cardinality(booked) \in Nat
  BY FS_CardinalityType
<1>2. /\ IsFiniteSet(booked1) /\ Cardinality(booked1) \in Nat
      /\ Cardinality(booked1) <= Cardinality(booked) + 1
  <2>1. IsFiniteSet(booked \cup {x}) /\ Cardinality(booked \cup {x}) \in Nat
        /\ Cardinality(booked \cup {x}) <= Cardinality(booked) + 1
    <3>1. /\ IsFiniteSet(booked \cup {x})
          /\ \/ Cardinality(booked \cup {x}) = Cardinality(booked)
             \/ Cardinality(booked \cup {x}) = Cardinality(booked) + 1
      BY FS_AddElement
    <3> QED BY <1>1, <3>1, FS_CardinalityType
  <2>2. /\ IsFiniteSet(booked1) /\ Cardinality(booked1) \in Nat
        /\ Cardinality(booked1) <= Cardinality(booked \cup {x})
    BY <2>1, FS_Subset, FS_CardinalityType
  <2> QED BY <1>1, <2>1, <2>2
<1>3. x \in pool /\ owed1 \subseteq pool \ {x} /\ IsFiniteSet(pool)
  BY DEF Kept, Keyed
<1>4. /\ Rank(pool, key, x) \in Nat
      /\ Rank(pool, key, x) < cap - Cardinality(booked)
  <2>1. Rank(pool, key, x) \in 0 .. Cardinality(pool) - 1
    BY <1>3, RankIs
  <2> QED BY <2>1 DEF Kept
<1>5. ASSUME NEW c \in owed1 PROVE Rank(pool \ {x}, key1, c) < cap - Cardinality(booked1)
  <2> DEFINE A == {d \in pool : Less(key[d], key[c])}
             B == {d \in pool \ {x} : Less(key1[d], key1[c])}
  <2>1. c \in pool /\ c # x /\ c \in owed
    BY <1>3
  <2>2. B = A \ {x}
    BY <2>1
  <2>3. IsFiniteSet(A) /\ IsFiniteSet(B)
    <3>1. IsFiniteSet(A)
      BY <1>3, FS_Subset
    <3> HIDE DEF A, B
    <3> QED BY <2>2, <3>1, FS_Subset
  <2>4. x \in A <=> Rank(pool, key, x) < Rank(pool, key, c)
    BY <1>3, <2>1, RankIs
  <2>5. Rank(pool, key, x) # Rank(pool, key, c)
    BY <1>3, <2>1, RankIs
  <2>6. Rank(pool, key, c) = Cardinality(A) /\ Rank(pool \ {x}, key1, c) = Cardinality(B)
    BY DEF Rank
  <2>7. Cardinality(A) < cap - Cardinality(booked)
    BY <2>1, <2>6 DEF Kept
  <2> HIDE DEF A, B
  <2>8. Cardinality(B) = IF x \in A THEN Cardinality(A) - 1 ELSE Cardinality(A)
    BY <2>2, <2>3, FS_RemoveElement
  <2>9. Cardinality(A) \in Nat /\ Cardinality(B) \in Nat
    BY <2>3, FS_CardinalityType
  <2> QED BY <1>1, <1>2, <1>4, <2>4, <2>5, <2>6, <2>7, <2>8, <2>9
<1>6. Cardinality(booked1) <= cap
  BY <1>1, <1>2, <1>4
<1> QED BY <1>3, <1>5, <1>6 DEF Kept

(* The sets of the invariant are finite, and their cards told apart. *)
LEMMA PoolsAre ==
    ASSUME TypeInv, HistoryInv
    PROVE  /\ Keyed(NewPool, NewOrder) /\ Keyed(DuePool, DueOrder)
           /\ IsFiniteSet(NewPool) /\ IsFiniteSet(DuePool)
           /\ \A d, b : LoggedOn(d, b) \subseteq Card /\ IsFiniteSet(LoggedOn(d, b))
           /\ \A b : Fair(b) \subseteq Logged(b)
           /\ IsFiniteSet(NewBooked) /\ IsFiniteSet(DueBooked)
           /\ IsFiniteSet(today.slipped)
           /\ CountNewIntroducedToday(Day(now)) = Cardinality(Logged(0))
           /\ CountReviewedToday(Day(now)) = Cardinality(Logged(2))
<1>1. /\ NewPool \subseteq Card /\ DuePool \subseteq Card
      /\ \A c \in DuePool : ~ unseen(c)
  BY SetsAre DEF NewPool, DuePool
<1>2. IsFiniteSet(NewPool) /\ IsFiniteSet(DuePool)
  BY <1>1, StudyAssumption, FS_Subset
<1>3. Keyed(NewPool, NewOrder)
  <2>1. \A c \in NewPool : NewOrder[c] = NewKey(c)
    BY <1>1 DEF NewOrder
  <2>2. \A c \in NewPool : NewKey(c) \in Key /\ NewKey(c)[3] = c
    BY <1>1, NowIs, KeysAre
  <2> QED BY <1>2, <2>1, <2>2 DEF Keyed
<1>4. Keyed(DuePool, DueOrder)
  <2>1. \A c \in DuePool : DueOrder[c] = RevKey(Today.order, now, c)
    BY <1>1 DEF DueOrder
  <2>2. \A c \in DuePool : /\ RevKey(Today.order, now, c) \in Key
                           /\ RevKey(Today.order, now, c)[3] = c
    BY <1>1, NowIs, KeysAre
  <2> QED BY <1>2, <2>1, <2>2 DEF Keyed
<1>5. \A d, b : LoggedOn(d, b) \subseteq Card
  BY DEF LoggedOn, TypeInv
<1>6. \A d, b : IsFiniteSet(LoggedOn(d, b))
  BY <1>5, StudyAssumption, FS_Subset
<1>7. \A b : Fair(b) \subseteq Logged(b)
  BY DEF Fair, Logged, LoggedOn
<1>8. IsFiniteSet(NewBooked) /\ IsFiniteSet(DueBooked)
  <2>1. NewBooked \subseteq Card /\ DueBooked \subseteq Card
    BY <1>5, <1>7 DEF NewBooked, DueBooked, Logged
  <2> QED BY <2>1, StudyAssumption, FS_Subset
<1>9. IsFiniteSet(today.slipped)
  BY StudyAssumption, FS_Subset DEF HistoryInv
<1>10. /\ CountNewIntroducedToday(Day(now)) = Cardinality(Logged(0))
       /\ CountReviewedToday(Day(now)) = Cardinality(Logged(2))
  BY DEF CountNewIntroducedToday, CountReviewedToday, Logged, LoggedOn
<1> QED BY <1>2, <1>3, <1>4, <1>5, <1>6, <1>7, <1>8, <1>9, <1>10


(* What is kept of either limit stays kept if nothing is added. *)
LEMMA NewStays ==
    ASSUME TypeInv, HistoryInv, NewKept, TypeInv', HistoryInv', today.newCap <= today'.newCap,
           NewPool' \subseteq NewPool, NewBooked' \subseteq NewBooked,
           NewOwed' \subseteq NewOwed, NewOwed' \subseteq NewPool'
    PROVE  NewKept'
<1>1. IsFiniteSet(NewPool) /\ IsFiniteSet(NewBooked)
  BY PoolsAre
<1>2. today.newCap \in Nat /\ today'.newCap \in Nat
  BY DEF HistoryInv
<1>3. Kept(NewPool, NewOrder, NewOwed, NewBooked, today.newCap)
  BY DEF NewKept
<1>4. NewOrder' = NewOrder
  BY DEF NewOrder, NewKey, newCardKey
<1>5. \A c \in NewPool' : NewOrder'[c] = NewOrder[c]
  BY <1>4
<1> DEFINE pool == NewPool
           owed == NewOwed
           booked == NewBooked
<1>6. Kept(NewPool', NewOrder', NewOwed', NewBooked', today'.newCap)
  BY <1>1, <1>2, <1>3, <1>5, KeptShrinks
<1> QED BY <1>6 DEF NewKept

LEMMA DueStays ==
    ASSUME TypeInv, HistoryInv, DueKept, TypeInv', HistoryInv', today.revCap <= today'.revCap,
           DuePool' \subseteq DuePool, DueBooked' \subseteq DueBooked,
           \A c \in DuePool' : DueOrder'[c] = DueOrder[c],
           DueOwed' \subseteq DueOwed, DueOwed' \subseteq DuePool'
    PROVE  DueKept'
<1>1. IsFiniteSet(DuePool) /\ IsFiniteSet(DueBooked)
  BY PoolsAre
<1>2. today.revCap \in Nat /\ today'.revCap \in Nat
  BY DEF HistoryInv
<1>3. Kept(DuePool, DueOrder, DueOwed, DueBooked, today.revCap)
  BY DEF DueKept
<1>4. Kept(DuePool', DueOrder', DueOwed', DueBooked', today'.revCap)
  BY <1>1, <1>2, <1>3, KeptShrinks
<1> QED BY <1>4 DEF DueKept

(* A step of the page alone: nothing is stored, and nothing served.        *)
Quiet ==
    /\ UNCHANGED <<now, preset, row, log>>
    /\ HistoryInv'
    /\ today'.slipped = today.slipped /\ today'.shifted = today.shifted
    /\ today.newCap <= today'.newCap /\ today.revCap <= today'.revCap

LEMMA QuietSets ==
    ASSUME Quiet
    PROVE  /\ Today' = Today /\ Day(now)' = Day(now)
           /\ \A b : Logged(b)' = Logged(b) /\ Fair(b)' = Fair(b)
           /\ NewPool' = NewPool /\ DuePool' = DuePool
           /\ NewBooked' = NewBooked /\ DueOrder' = DueOrder
           /\ \A c : unseen(c)' <=> unseen(c)
<1>1. Today' = Today /\ Day(now)' = Day(now)
  BY DEF Quiet, Today
<1>2. \A b : Logged(b)' = Logged(b)
  BY DEF Quiet, Logged, LoggedOn
<1>3. \A b : Fair(b)' = Fair(b)
  BY DEF Quiet, Fair
<1>4. \A c : unseen(c)' <=> unseen(c)
  BY DEF Quiet, unseen
<1>5. NewPool' = NewPool
  BY <1>1, <1>4 DEF Quiet, NewPool, NewCards
<1>6. DuePool' = DuePool
  BY <1>1, <1>4 DEF Quiet, DuePool, DueCards, ReadyCards, Ready
<1>7. NewBooked' = NewBooked
  BY <1>3 DEF Quiet, NewBooked
<1>8. DueOrder' = DueOrder
  BY <1>1 DEF Quiet, DueOrder, RevKey, revKey
<1> QED BY <1>1, <1>2, <1>3, <1>4, <1>5, <1>6, <1>7, <1>8

LEMMA QuietKeeps ==
    ASSUME TypeInv, CapInv, TypeInv', Quiet,
           Held(-1)' \subseteq Held(-1), Held(2)' \subseteq Held(2)
    PROVE  /\ HistoryInv'
           /\ "edit" \notin today'.shifted => NewKept'
           /\ today'.shifted = {} => DueKept'
<1>1. HistoryInv /\ HistoryInv'
  BY DEF CapInv, Quiet
<1>2. ASSUME "edit" \notin today'.shifted PROVE NewKept'
  <2>1. NewKept
    BY <1>2 DEF CapInv, Quiet
  <2>2. NewOwed' \subseteq NewOwed
    BY QuietSets DEF Quiet, NewOwed
  <2>3. NewOwed \subseteq NewPool
    BY <2>1 DEF NewKept, Kept
  <2>4. today.newCap <= today'.newCap
    BY DEF Quiet
  <2>5. NewPool' \subseteq NewPool /\ NewBooked' \subseteq NewBooked /\ NewOwed' \subseteq NewPool'
    BY <2>2, <2>3, QuietSets
  <2> QED BY <1>1, <2>1, <2>2, <2>4, <2>5, NewStays
<1>3. ASSUME today'.shifted = {} PROVE DueKept'
  <2>1. DueKept
    BY <1>3 DEF CapInv, Quiet
  <2>2. DueOwed' \subseteq DueOwed
    BY QuietSets DEF Quiet, DueOwed
  <2>3. DueBooked' \subseteq DueBooked
    BY QuietSets DEF Quiet, DueBooked
  <2>4. DueOwed \subseteq DuePool
    BY <2>1 DEF DueKept, Kept
  <2>5. today.revCap <= today'.revCap
    BY DEF Quiet
  <2>6. /\ DuePool' \subseteq DuePool /\ DueOwed' \subseteq DuePool'
        /\ \A c \in DuePool' : DueOrder'[c] = DueOrder[c]
    BY <2>2, <2>4, QuietSets
  <2> QED BY <1>1, <2>1, <2>2, <2>3, <2>5, <2>6, DueStays
<1> QED BY <1>1, <1>2, <1>3


(* Slots and grades, as a page takes them up and lets go of them.          *)
LEMMA UnsentGrows ==
    ASSUME NEW u \in Seq(Grades), NEW g \in Grades, NEW d, NEW k
    PROVE  UnsentOn(d, k, Append(u, g)) =
              UnsentOn(d, k, u) \cup (IF g.kind = k /\ g.served = d THEN {g.card} ELSE {})
<1> DEFINE v == Append(u, g)
           n == Len(u)
<1>1. /\ DOMAIN u = 1 .. n /\ DOMAIN v = 1 .. n + 1 /\ n \in Nat
      /\ v[n + 1] = g /\ \A i \in 1 .. n : v[i] = u[i]
  OBVIOUS
<1> HIDE DEF v, n
<1>2. ASSUME NEW x \in UnsentOn(d, k, v)
      PROVE  x \in UnsentOn(d, k, u) \cup (IF g.kind = k /\ g.served = d THEN {g.card} ELSE {})
  <2>1. PICK i \in 1 .. n + 1 : v[i].kind = k /\ v[i].served = d /\ x = v[i].card
    BY <1>1 DEF UnsentOn
  <2>2. i \in 1 .. n \/ i = n + 1
    BY <1>1
  <2> QED BY <1>1, <2>1, <2>2 DEF UnsentOn
<1>3. UnsentOn(d, k, u) \subseteq UnsentOn(d, k, v)
  BY <1>1 DEF UnsentOn
<1>4. g.kind = k /\ g.served = d => g.card \in UnsentOn(d, k, v)
  <2>1. n + 1 \in DOMAIN v
    BY <1>1
  <2> QED BY <1>1, <2>1 DEF UnsentOn
<1>5. UnsentOn(d, k, v) = UnsentOn(d, k, u) \cup (IF g.kind = k /\ g.served = d THEN {g.card} ELSE {})
  BY <1>2, <1>3, <1>4
<1> QED BY <1>5 DEF v

LEMMA UnsentShrinks ==
    ASSUME NEW u \in Seq(Grades), u # <<>>, NEW d, NEW k
    PROVE  /\ UnsentOn(d, k, Tail(u)) \subseteq UnsentOn(d, k, u)
           /\ UnsentOn(d, k, u) \subseteq UnsentOn(d, k, Tail(u)) \cup
                 (IF Head(u).kind = k /\ Head(u).served = d THEN {Head(u).card} ELSE {})
           /\ Head(u).kind = k /\ Head(u).served = d => Head(u).card \in UnsentOn(d, k, u)
<1> DEFINE t == Tail(u)
           n == Len(u)
<1>1. /\ DOMAIN u = 1 .. n /\ DOMAIN t = 1 .. n - 1 /\ n \in Nat \ {0}
      /\ Head(u) = u[1] /\ \A i \in 1 .. n - 1 : t[i] = u[i + 1]
  OBVIOUS
<1> HIDE DEF t, n
<1>2. ASSUME NEW x \in UnsentOn(d, k, t)
      PROVE  x \in UnsentOn(d, k, u)
  <2>1. PICK i \in 1 .. n - 1 : t[i].kind = k /\ t[i].served = d /\ x = t[i].card
    BY <1>1 DEF UnsentOn
  <2>2. i + 1 \in DOMAIN u
    BY <1>1
  <2> QED BY <1>1, <2>1, <2>2 DEF UnsentOn
<1>3. ASSUME NEW x \in UnsentOn(d, k, u)
      PROVE  x \in UnsentOn(d, k, t) \cup
                (IF Head(u).kind = k /\ Head(u).served = d THEN {Head(u).card} ELSE {})
  <2>1. PICK i \in 1 .. n : u[i].kind = k /\ u[i].served = d /\ x = u[i].card
    BY <1>1 DEF UnsentOn
  <2>2. CASE i = 1
    BY <1>1, <2>1, <2>2
  <2>3. CASE i # 1
    <3>1. i - 1 \in DOMAIN t /\ t[i - 1] = u[(i - 1) + 1] /\ (i - 1) + 1 = i
      BY <1>1, <2>3
    <3> QED BY <2>1, <3>1 DEF UnsentOn
  <2> QED BY <2>2, <2>3
<1>4. Head(u).kind = k /\ Head(u).served = d => Head(u).card \in UnsentOn(d, k, u)
  <2>1. 1 \in DOMAIN u
    BY <1>1
  <2> QED BY <1>1, <2>1 DEF UnsentOn
<1> QED BY <1>2, <1>3, <1>4 DEF t

(* The slots of a page that is swapped in, in any order. *)
Reordered(n, slots) ==
    /\ slots \in [1 .. n -> Slots]
    /\ \A a \in 1 .. n : \E b \in DOMAIN fetch.slots : slots[a] = fetch.slots[b]
    /\ \A a, b \in 1 .. n : slots[a].card = slots[b].card => a = b

LEMMA SwapSlots ==
    ASSUME TypeInv, SlotInv, fetch.pc = "answered",
           NEW n \in Nat, NEW slots, Reordered(n, slots)
    PROVE  LET q == indexBatch(slots) IN
           /\ \A d, k : QueuedOn(d, k, q) \subseteq QueuedOn(d, k, queue) \cup ListedOn(d, k, fetch, queue)
           /\ \A i \in DOMAIN q : q[i].day <= Day(now)
           /\ Single(q) /\ \A d : Repeated(d, q) \subseteq Repeated(d, queue)
<1> DEFINE q == indexBatch(slots)
           New(i) == \E b \in DOMAIN fetch.slots :
                        q[i] = fetch.slots[b] /\ q[i].card \notin CardsOf(queue)
<1>1. \A b \in DOMAIN fetch.slots : ~ fetch.slots[b].done /\ ~ fetch.slots[b].repeat
  BY DEF TypeInv, FetchInv, Idle
<1>2. \A a \in 1 .. n : ~ slots[a].done
  BY <1>1 DEF Reordered
<1>3. /\ DOMAIN queue \subseteq DOMAIN q
      /\ \A i \in DOMAIN queue : q[i] = queue[i]
      /\ FromApart(q, DOMAIN q \ DOMAIN queue,
                   slots, {a \in 1 .. n : slots[a].card \notin CardsOf(queue)})
  BY <1>2, IndexBatchIs DEF TypeInv, Reordered
<1> HIDE DEF q
<1>4. \A i \in DOMAIN q \ DOMAIN queue : New(i)
  BY <1>3 DEF Reordered, FromApart
<1>5. \A i, j \in DOMAIN q \ DOMAIN queue : q[i].card = q[j].card => i = j
  BY <1>3 DEF Reordered, FromApart
<1>6. \A i \in DOMAIN queue : queue[i].card \in CardsOf(queue)
  BY DEF CardsOf
<1>7. ASSUME NEW d, NEW k, NEW x \in QueuedOn(d, k, q)
      PROVE  x \in QueuedOn(d, k, queue) \cup ListedOn(d, k, fetch, queue)
  <2>1. PICK i \in Pending(q) : q[i].kind = k /\ q[i].day = d /\ x = q[i].card
    BY DEF QueuedOn
  <2>2. CASE i \in DOMAIN queue
    BY <1>3, <2>1, <2>2 DEF QueuedOn, Pending
  <2>3. CASE i \notin DOMAIN queue
    <3>1. New(i)
      BY <1>4, <2>3 DEF Pending
    <3> QED BY <2>1, <3>1 DEF ListedOn
  <2> QED BY <2>2, <2>3
<1>8. ASSUME NEW i \in DOMAIN q PROVE q[i].day <= Day(now)
  <2>1. CASE i \in DOMAIN queue
    BY <1>3, <2>1 DEF SlotInv
  <2>2. CASE i \notin DOMAIN queue
    BY <1>4, <2>2 DEF SlotInv
  <2> QED BY <2>1, <2>2
<1>9. ASSUME NEW i \in DOMAIN q, NEW j \in Pending(q), i # j, q[i].card = q[j].card
      PROVE  q[j].repeat
  <2>1. j \in DOMAIN q
    BY DEF Pending
  <2>2. CASE i \in DOMAIN queue /\ j \in DOMAIN queue
    <3>1. j \in Pending(queue) /\ q[i] = queue[i] /\ q[j] = queue[j]
      BY <1>3, <2>2 DEF Pending
    <3> QED BY <1>9, <2>2, <3>1 DEF SlotInv, Single
  <2>3. CASE i \in DOMAIN queue /\ j \notin DOMAIN queue
    BY <1>3, <1>4, <1>6, <1>9, <2>1, <2>3
  <2>4. CASE i \notin DOMAIN queue /\ j \in DOMAIN queue
    BY <1>3, <1>4, <1>6, <1>9, <2>1, <2>4
  <2>5. CASE i \notin DOMAIN queue /\ j \notin DOMAIN queue
    BY <1>5, <1>9, <2>1, <2>5
  <2> QED BY <2>2, <2>3, <2>4, <2>5
<1>10. ASSUME NEW d, NEW x \in Repeated(d, q) PROVE x \in Repeated(d, queue)
  <2>1. PICK i \in Pending(q) : q[i].repeat /\ q[i].kind = 2 /\ q[i].day = d /\ x = q[i].card
    BY DEF Repeated
  <2>2. i \in DOMAIN queue
    BY <1>1, <1>4, <2>1 DEF Pending
  <2> QED BY <1>3, <2>1, <2>2 DEF Repeated, Pending
<1>11. Single(q)
  BY <1>9 DEF Single
<1> QED BY <1>7, <1>8, <1>10, <1>11 DEF q

(* The slot that was answered, or passed over. *)
LEMMA DoneSlots ==
    ASSUME queue \in Seq(Slots), Single(queue), NEW current \in Pending(queue)
    PROVE  LET q == [queue EXCEPT ![current].done = TRUE] IN
           /\ Single(q)
           /\ \A d, k : QueuedOn(d, k, q) \subseteq QueuedOn(d, k, queue)
           /\ \A d : Repeated(d, q) \subseteq Repeated(d, queue)
           /\ \A d, k, f : ListedOn(d, k, f, q) = ListedOn(d, k, f, queue)
           /\ \A d : queue[current].card \in QueuedOn(d, 2, q) =>
                       queue[current].card \in Repeated(d, q)
<1> DEFINE q == [queue EXCEPT ![current].done = TRUE]
<1>1. /\ Pending(q) = Pending(queue) \ {current} /\ DOMAIN q = DOMAIN queue
      /\ CardsOf(q) = CardsOf(queue)
      /\ \A i \in DOMAIN queue :
            /\ q[i].card = queue[i].card /\ q[i].repeat = queue[i].repeat
            /\ q[i].kind = queue[i].kind /\ q[i].day = queue[i].day
  BY DoneIs
<1> HIDE DEF q
<1>2. \A i \in Pending(q) : i \in DOMAIN queue /\ i \in Pending(queue) /\ i # current
  BY <1>1 DEF Pending
<1>3. \A d, k : QueuedOn(d, k, q) \subseteq QueuedOn(d, k, queue)
  BY <1>1, <1>2 DEF QueuedOn
<1>4. \A d : Repeated(d, q) \subseteq Repeated(d, queue)
  BY <1>1, <1>2 DEF Repeated
<1>5. Single(q)
  BY <1>1, <1>2 DEF Single
<1>6. \A d, k, f : ListedOn(d, k, f, q) = ListedOn(d, k, f, queue)
  BY <1>1 DEF ListedOn
<1>7. ASSUME NEW d, queue[current].card \in QueuedOn(d, 2, q)
      PROVE  queue[current].card \in Repeated(d, q)
  <2>1. PICK j \in Pending(q) : q[j].kind = 2 /\ q[j].day = d /\ q[j].card = queue[current].card
    BY <1>7 DEF QueuedOn
  <2>2. queue[j].repeat
    BY <1>1, <1>2, <2>1 DEF Single, Pending
  <2>3. q[j].repeat
    BY <1>1, <1>2, <2>1, <2>2
  <2> QED BY <2>1, <2>3 DEF Repeated
<1> QED BY <1>3, <1>4, <1>5, <1>6, <1>7 DEF q

(* The slot that was answered and put back in. *)
AnsweredAt(current) == [queue EXCEPT ![current].done = TRUE]
RequeuedAt(current, ahead) ==
    maybeRequeue(AnsweredAt(current), current, queue[current], ahead)

LEMMA RequeueSlots ==
    ASSUME queue \in Seq(Slots), Single(queue), NEW current \in Pending(queue), NEW ahead
    PROVE  LET slot == queue[current]
               q == RequeuedAt(current, ahead)
           IN
           /\ Single(q)
           /\ \A d, k : QueuedOn(d, k, q) \subseteq QueuedOn(d, k, queue)
           /\ \A d : Repeated(d, q) \subseteq Repeated(d, queue) \cup
                        (IF slot.kind = 2 /\ slot.day = d THEN {slot.card} ELSE {})
           /\ \A d, k, f : ListedOn(d, k, f, q) = ListedOn(d, k, f, queue)
           /\ \A i \in DOMAIN q : \E j \in DOMAIN queue : q[i].day = queue[j].day
<1> DEFINE slot == queue[current]
           answered == AnsweredAt(current)
           q == RequeuedAt(current, ahead)
           back == [slot EXCEPT !.done = FALSE, !.repeat = TRUE]
<1>1. /\ answered \in Seq(Slots) /\ slot \in Slots /\ slot.card \in CardsOf(queue)
      /\ Pending(answered) = Pending(queue) \ {current} /\ DOMAIN answered = DOMAIN queue
      /\ CardsOf(answered) = CardsOf(queue)
      /\ \A i \in DOMAIN queue :
            /\ answered[i].card = queue[i].card /\ answered[i].repeat = queue[i].repeat
            /\ answered[i].kind = queue[i].kind /\ answered[i].day = queue[i].day
  BY DoneIs DEF AnsweredAt
<1>2. current \in DOMAIN queue /\ ~ slot.done
  BY DEF Pending
<1>3. /\ back.card = slot.card /\ back.kind = slot.kind /\ back.day = slot.day
      /\ back.repeat /\ ~ back.done
  BY <1>1 DEF Slots
<1>4. PICK p \in DOMAIN q : q[p] = back /\ FromApart(q, DOMAIN q \ {p}, answered, DOMAIN answered)
  <2> HIDE DEF answered
  <2> QED BY <1>1, RequeueApart DEF RequeuedAt, answered
<1>5. CardsOf(q) = CardsOf(queue)
  <2>1. CardsOf(q) = CardsOf(answered) \cup {slot.card}
    BY <1>1, RequeueIs DEF RequeuedAt
  <2> QED BY <1>1, <2>1
<1> HIDE DEF q, back, slot, answered
<1>6. \A i \in DOMAIN q \ {p} : \E a \in DOMAIN answered : q[i] = answered[a]
  BY <1>4 DEF FromApart
<1>7. ASSUME NEW i \in Pending(q), i # p
      PROVE  \E a \in Pending(queue) : /\ q[i].card = queue[a].card /\ q[i].repeat = queue[a].repeat
                                       /\ q[i].kind = queue[a].kind /\ q[i].day = queue[a].day
  <2>1. i \in DOMAIN q \ {p} /\ ~ q[i].done
    BY <1>7 DEF Pending
  <2>2. PICK a \in DOMAIN answered : q[i] = answered[a]
    BY <1>6, <2>1
  <2>3. a \in Pending(answered)
    BY <2>1, <2>2 DEF Pending
  <2> QED BY <1>1, <2>2, <2>3
<1>8. ASSUME NEW d, NEW k, NEW x \in QueuedOn(d, k, q) PROVE x \in QueuedOn(d, k, queue)
  <2>1. PICK i \in Pending(q) : q[i].kind = k /\ q[i].day = d /\ x = q[i].card
    BY DEF QueuedOn
  <2>2. CASE i = p
    <3>1. slot.kind = k /\ slot.day = d /\ x = slot.card
      BY <1>3, <1>4, <2>1, <2>2
    <3> QED BY <3>1 DEF QueuedOn, slot
  <2>3. CASE i # p
    BY <1>7, <2>1, <2>3 DEF QueuedOn
  <2> QED BY <2>2, <2>3
<1>9. ASSUME NEW d, NEW x \in Repeated(d, q)
      PROVE  x \in Repeated(d, queue) \cup (IF slot.kind = 2 /\ slot.day = d THEN {slot.card} ELSE {})
  <2>1. PICK i \in Pending(q) : q[i].repeat /\ q[i].kind = 2 /\ q[i].day = d /\ x = q[i].card
    BY DEF Repeated
  <2>2. CASE i = p
    BY <1>3, <1>4, <2>1, <2>2
  <2>3. CASE i # p
    BY <1>7, <2>1, <2>3 DEF Repeated
  <2> QED BY <2>2, <2>3
<1>10. ASSUME NEW i \in DOMAIN q, NEW j \in Pending(q), i # j, q[i].card = q[j].card
       PROVE  q[j].repeat
  <2>1. j \in DOMAIN q /\ ~ q[j].done
    BY DEF Pending
  <2>2. CASE j = p
    BY <1>3, <1>4, <2>2
  <2>3. CASE j # p /\ i # p
    <3>1. PICK a \in DOMAIN answered, b \in DOMAIN answered :
             q[i] = answered[a] /\ q[j] = answered[b] /\ a # b
      BY <1>4, <1>10, <2>1, <2>3 DEF FromApart
    <3>2. b \in Pending(answered)
      BY <2>1, <3>1 DEF Pending
    <3>3. b \in Pending(queue) /\ queue[a].card = queue[b].card
      BY <1>1, <1>10, <3>1, <3>2
    <3>4. queue[b].repeat
      BY <1>1, <3>1, <3>3 DEF Single
    <3> QED BY <1>1, <3>1, <3>4
  <2>4. CASE j # p /\ i = p
    <3>1. PICK b \in DOMAIN answered : q[j] = answered[b]
      BY <1>6, <2>1, <2>4
    <3>2. b \in Pending(answered)
      BY <2>1, <3>1 DEF Pending
    <3>3. b \in Pending(queue) /\ b # current /\ slot.card = queue[b].card
      BY <1>1, <1>3, <1>4, <1>10, <2>4, <3>1, <3>2
    <3>4. queue[b].repeat
      BY <1>2, <3>3 DEF Single, slot
    <3> QED BY <1>1, <3>1, <3>4
  <2> QED BY <2>2, <2>3, <2>4
<1>11. ASSUME NEW i \in DOMAIN q PROVE \E j \in DOMAIN queue : q[i].day = queue[j].day
  <2>1. CASE i = p
    BY <1>2, <1>3, <1>4, <2>1 DEF slot
  <2>2. CASE i # p
    BY <1>1, <1>6, <2>2
  <2> QED BY <2>1, <2>2
<1>12. \A d, k, f : ListedOn(d, k, f, q) = ListedOn(d, k, f, queue)
  BY <1>5 DEF ListedOn
<1>13. Single(q)
  BY <1>10 DEF Single
<1> QED BY <1>8, <1>9, <1>11, <1>12, <1>13 DEF q, slot, answered


(* The page takes up slots, lets go of them, and asks for more.            *)
LEMMA PageStepKeepsCaps ==
    ASSUME Inv, CapInv, TypeInv', UNCHANGED <<now, preset, row, log, today>>,
           fetch' = fetch \/ fetch'.pc \notin {"counted", "answered"},
           \A k : HeldOn(Day(now), k, unsent', queue', fetch') \subseteq Held(k),
           \A i \in DOMAIN unsent' : unsent'[i].served <= Day(now),
           \A i \in DOMAIN queue' : queue'[i].day <= Day(now),
           Single(queue'),
           Repeated(Day(now), queue') \subseteq
              Repeated(Day(now), queue) \cup UnsentOn(Day(now), 2, unsent'),
           UnsentOn(Day(now), 2, unsent) \subseteq UnsentOn(Day(now), 2, unsent')
    PROVE  CapInv'
<1>1. TypeInv /\ HistoryInv
  BY DEF Inv, CapInv
<1>2. HistoryInv'
  BY <1>1 DEF HistoryInv
<1>3. Quiet
  <2>1. today.newCap <= today.newCap /\ today.revCap <= today.revCap
    BY <1>1 DEF HistoryInv
  <2> QED BY <1>2, <2>1 DEF Quiet
<1>4. \A k : Held(k)' = HeldOn(Day(now), k, unsent', queue', fetch')
  BY DEF Held, HeldOn, UnsentOn, QueuedOn, ListedOn, Pending, CardsOf, Day
<1>5. Held(-1)' \subseteq Held(-1) /\ Held(2)' \subseteq Held(2)
  BY <1>4
<1>6. /\ "edit" \notin today'.shifted => NewKept'
      /\ today'.shifted = {} => DueKept'
  BY <1>1, <1>3, <1>5, QuietKeeps
<1>7. CountInv'
  <2>1. CASE fetch' = fetch
    <3>1. Today' = Today /\ Logged(0)' = Logged(0) /\ Logged(2)' = Logged(2)
      BY <1>3, QuietSets
    <3>2. CountInv
      BY DEF CapInv
    <3> QED BY <2>1, <3>1, <3>2 DEF CountInv
  <2>2. CASE fetch'.pc \notin {"counted", "answered"}
    BY <2>2 DEF CountInv
  <2> QED BY <2>1, <2>2
<1>8. SlotInv'
  <2>1. fetch'.pc = "answered" =>
           \A i, j \in DOMAIN fetch'.slots :
              /\ fetch'.slots[i].day <= Day(now)
              /\ fetch'.slots[i].card = fetch'.slots[j].card => i = j
    BY DEF CapInv, SlotInv
  <2>2. Day(now)' = Day(now) /\ (Single(queue)' <=> Single(queue'))
    BY DEF Single, Pending
  <2> QED BY <2>1, <2>2 DEF SlotInv
<1>9. today'.shifted = {} => RepeatInv'
  <2>1. Logged(2)' = Logged(2) /\ Day(now)' = Day(now)
    BY <1>3, QuietSets
  <2>2. /\ Repeated(Day(now), queue)' = Repeated(Day(now), queue')
        /\ UnsentOn(Day(now), 2, unsent)' = UnsentOn(Day(now), 2, unsent')
    BY DEF Repeated, UnsentOn, Pending
  <2>3. today.shifted = {} => RepeatInv
    BY DEF CapInv
  <2> QED BY <2>1, <2>2, <2>3 DEF RepeatInv
<1> QED BY <1>2, <1>6, <1>7, <1>8, <1>9 DEF CapInv

LEMMA RequestIs ==
    ASSUME NEW kind, NEW cursor, NEW rounds
    PROVE  /\ Ask(kind, cursor, rounds).pc \notin {"counted", "answered"}
           /\ Idle.pc \notin {"counted", "answered"}
  BY DEF Ask, Idle

(* Nothing is pending in an empty queue, and a request under way has listed *)
(* nothing.                                                                *)
LEMMA NothingHeld ==
    /\ \A d, k : QueuedOn(d, k, <<>>) = {} /\ Repeated(d, <<>>) = {}
    /\ Single(<<>>) /\ DOMAIN (<<>>) = {}
    /\ \A d, k, f, q : f.pc # "answered" => ListedOn(d, k, f, q) = {}
<1>1. DOMAIN (<<>>) = {}
  OBVIOUS
<1> QED BY <1>1 DEF QueuedOn, Repeated, Single, Pending, ListedOn

LEMMA OpenPageKeepsCaps ==
    ASSUME Inv, Inv', CapInv, NEW kind, OpenPage(kind)
    PROVE  CapInv'
<1>1. /\ queue' = <<>> /\ fetch' = Ask(kind, AtStart, 0)
      /\ UNCHANGED <<now, preset, row, log, unsent, today>>
  BY DEF OpenPage
<1>2. fetch'.pc \notin {"counted", "answered"}
  BY <1>1, RequestIs
<1>3. \A k : HeldOn(Day(now), k, unsent', queue', fetch') \subseteq Held(k)
  BY <1>1, <1>2, NothingHeld DEF Held, HeldOn
<1>4. \A i \in DOMAIN unsent' : unsent'[i].served <= Day(now)
  BY <1>1 DEF CapInv, SlotInv
<1>5. /\ \A i \in DOMAIN queue' : queue'[i].day <= Day(now)
      /\ Single(queue') /\ Repeated(Day(now), queue') = {}
  BY <1>1, NothingHeld
<1>6. TypeInv'
  BY DEF Inv
<1> QED BY <1>1, <1>2, <1>3, <1>4, <1>5, <1>6, PageStepKeepsCaps

LEMMA SameSlotsKeepCaps ==
    ASSUME Inv, Inv', CapInv, UNCHANGED <<now, preset, row, log, queue, unsent, today>>,
           fetch' = fetch \/ fetch'.pc \notin {"counted", "answered"}
    PROVE  CapInv'
<1>1. \A d, k : ListedOn(d, k, fetch', queue) \subseteq ListedOn(d, k, fetch, queue)
  BY DEF ListedOn
<1>2. \A k : HeldOn(Day(now), k, unsent', queue', fetch') \subseteq Held(k)
  BY <1>1 DEF Held, HeldOn
<1>3. /\ \A i \in DOMAIN unsent' : unsent'[i].served <= Day(now)
      /\ \A i \in DOMAIN queue' : queue'[i].day <= Day(now)
      /\ Single(queue')
  BY DEF CapInv, SlotInv
<1>4. TypeInv'
  BY DEF Inv
<1> QED BY <1>2, <1>3, <1>4, PageStepKeepsCaps

(* A page that is swapped in brings what it listed. *)
LEMMA SwapKeepsCaps ==
    ASSUME Inv, Inv', CapInv, UNCHANGED <<now, preset, row, log, unsent, today>>,
           fetch.pc = "answered", fetch'.pc \notin {"counted", "answered"},
           NEW n \in Nat, NEW slots, Reordered(n, slots), queue' = indexBatch(slots)
    PROVE  CapInv'
<1> DEFINE q == indexBatch(slots)
<1>1. /\ \A d, k : QueuedOn(d, k, q) \subseteq QueuedOn(d, k, queue) \cup ListedOn(d, k, fetch, queue)
      /\ \A i \in DOMAIN q : q[i].day <= Day(now)
      /\ Single(q) /\ \A d : Repeated(d, q) \subseteq Repeated(d, queue)
  BY SwapSlots DEF Inv, CapInv
<1> HIDE DEF q
<1>2. queue' = q
  BY DEF q
<1>3. \A k : HeldOn(Day(now), k, unsent', queue', fetch') \subseteq Held(k)
  BY <1>1, <1>2, NothingHeld DEF Held, HeldOn
<1>4. \A i \in DOMAIN unsent' : unsent'[i].served <= Day(now)
  BY DEF CapInv, SlotInv
<1>5. TypeInv'
  BY DEF Inv
<1> QED BY <1>1, <1>2, <1>3, <1>4, <1>5, PageStepKeepsCaps

LEMMA ListedApart ==
    ASSUME Inv, CapInv, fetch.pc = "answered"
    PROVE  /\ Len(fetch.slots) \in Nat /\ DOMAIN fetch.slots = 1 .. Len(fetch.slots)
           /\ Reordered(Len(fetch.slots), fetch.slots)
<1>1. Len(fetch.slots) \in Nat /\ fetch.slots \in [1 .. Len(fetch.slots) -> Slots]
  BY AnswerIs
<1>2. \A i, j \in DOMAIN fetch.slots : fetch.slots[i].card = fetch.slots[j].card => i = j
  BY DEF CapInv, SlotInv
<1> QED BY <1>1, <1>2 DEF Reordered

LEMMA RespondKeepsCaps ==
    ASSUME Inv, Inv', CapInv, RespondReview \/ RespondStudy \/ onAfterSwap
    PROVE  CapInv'
<1>1. /\ fetch.pc = "answered"
      /\ UNCHANGED <<now, preset, row, log, unsent, today>>
  BY DEF RespondReview, RespondStudy, onAfterSwap
<1>2. /\ Len(fetch.slots) \in Nat /\ DOMAIN fetch.slots = 1 .. Len(fetch.slots)
      /\ Reordered(Len(fetch.slots), fetch.slots)
  BY <1>1, ListedApart
<1>3. ASSUME NEW q, NEW sess, showNext(q, sess, Idle)
      PROVE  queue' = q /\ fetch'.pc \notin {"counted", "answered"}
  BY <1>3, RequestIs DEF showNext
<1>4. CASE RespondReview
  <2>1. queue' = indexBatch(fetch.slots) /\ fetch'.pc \notin {"counted", "answered"}
    BY <1>3, <1>4 DEF RespondReview
  <2> QED BY <1>1, <1>2, <2>1, SwapKeepsCaps
<1>5. CASE RespondStudy
  <2> DEFINE slots == fetch.slots
  <2>1. PICK shuffled \in [DOMAIN slots -> {slots[i] : i \in DOMAIN slots}] :
           /\ \A i, j \in DOMAIN shuffled : shuffled[i] = shuffled[j] => i = j
           /\ showNext(indexBatch(shuffled),
                       [session EXCEPT !.open = TRUE, !.exhausted = TRUE], Idle)
    BY <1>5 DEF RespondStudy
  <2>8. queue' = indexBatch(shuffled) /\ fetch'.pc \notin {"counted", "answered"}
    BY <1>3, <2>1
  <2>2. /\ slots \in [1 .. Len(slots) -> Slots]
        /\ \A i, j \in 1 .. Len(slots) : slots[i].card = slots[j].card => i = j
    BY <1>2 DEF Reordered
  <2>3. DOMAIN shuffled = 1 .. Len(slots)
    BY <1>2, <2>1
  <2>4. \A a \in 1 .. Len(slots) : \E b \in 1 .. Len(slots) : shuffled[a] = slots[b]
    BY <1>2, <2>1
  <2>5. shuffled \in [1 .. Len(slots) -> Slots]
    <3>1. shuffled = [i \in 1 .. Len(slots) |-> shuffled[i]]
      BY <2>1, <2>3
    <3>2. \A i \in 1 .. Len(slots) : shuffled[i] \in Slots
      BY <2>2, <2>4
    <3> QED BY <3>1, <3>2
  <2>6. \A a, b \in 1 .. Len(slots) : shuffled[a].card = shuffled[b].card => a = b
    <3> SUFFICES ASSUME NEW a \in 1 .. Len(slots), NEW b \in 1 .. Len(slots),
                        shuffled[a].card = shuffled[b].card
                 PROVE  a = b
      OBVIOUS
    <3>1. PICK c \in 1 .. Len(slots) : shuffled[a] = slots[c]
      BY <2>4
    <3>2. PICK d \in 1 .. Len(slots) : shuffled[b] = slots[d]
      BY <2>4
    <3>3. c = d
      BY <2>2, <3>1, <3>2
    <3>4. shuffled[a] = shuffled[b]
      BY <3>1, <3>2, <3>3
    <3> QED BY <2>1, <2>3, <3>4
  <2>7. Reordered(Len(slots), shuffled)
    BY <1>2, <2>4, <2>5, <2>6 DEF Reordered
  <2> QED BY <1>1, <1>2, <2>7, <2>8, SwapKeepsCaps
<1>6. CASE onAfterSwap
  <2>1. queue' = indexBatch(fetch.slots) /\ fetch'.pc \notin {"counted", "answered"}
    BY <1>3, <1>6, RequestIs DEF onAfterSwap
  <2> QED BY <1>1, <1>2, <2>1, SwapKeepsCaps
<1> QED BY <1>4, <1>5, <1>6

LEMMA GradeKeepsCaps ==
    ASSUME Inv, Inv', CapInv, NEW rating \in Rating, NEW ahead \in 3 .. MaxSlots,
           grade(rating, ahead)
    PROVE  CapInv'
<1> DEFINE current == Least(Pending(queue))
           slot == queue[current]
           answered == [queue EXCEPT ![current].done = TRUE]
           again == RequeuedAt(current, ahead)
           g == [card |-> slot.card, rating |-> rating, at |-> now,
                 kind |-> slot.kind, served |-> slot.day]
           d == Day(now)
<1>1. /\ unsent' = Append(unsent, g)
      /\ showNext(answered, session, fetch) \/ showNext(again, session, fetch)
      /\ UNCHANGED <<now, preset, row, log, today>>
  BY DEF grade, RequeuedAt, AnsweredAt
<1>2. current \in Pending(queue)
  BY FirstPending DEF grade, Inv, TypeInv
<1>3. /\ queue \in Seq(Slots) /\ unsent \in Seq(Grades) /\ slot \in Slots /\ TypeInv'
      /\ Single(queue)
  BY <1>2, DoneIs DEF Inv, TypeInv, CapInv, SlotInv
<1>4. fetch' = fetch \/ fetch'.pc \notin {"counted", "answered"}
  BY <1>1, RequestIs DEF showNext
<1>5. queue' = answered \/ queue' = again
  BY <1>1 DEF showNext
<1>6. g \in Grades
  BY <1>3, NowIs DEF Slots, Grades, Inv
<1>7. g.kind = slot.kind /\ g.served = slot.day /\ g.card = slot.card
  OBVIOUS
<1> HIDE DEF g
<1>8. \A k : UnsentOn(d, k, unsent') =
               UnsentOn(d, k, unsent) \cup
                  (IF slot.kind = k /\ slot.day = d THEN {slot.card} ELSE {})
  BY <1>1, <1>3, <1>6, <1>7, UnsentGrows
<1>9. \A k : slot.kind = k /\ slot.day = d => slot.card \in QueuedOn(d, k, queue)
  BY <1>2 DEF QueuedOn
<1>10. /\ Single(queue') /\ \A k : QueuedOn(d, k, queue') \subseteq QueuedOn(d, k, queue)
       /\ Repeated(d, queue') \subseteq Repeated(d, queue) \cup
             (IF slot.kind = 2 /\ slot.day = d THEN {slot.card} ELSE {})
       /\ \A k, f : ListedOn(d, k, f, queue') = ListedOn(d, k, f, queue)
  <2>1. CASE queue' = answered
    BY <1>2, <1>3, <2>1, DoneSlots
  <2>2. CASE queue' = again
    <3> HIDE DEF current
    <3>1. /\ Single(again) /\ \A k : QueuedOn(d, k, again) \subseteq QueuedOn(d, k, queue)
          /\ Repeated(d, again) \subseteq Repeated(d, queue) \cup
                (IF slot.kind = 2 /\ slot.day = d THEN {slot.card} ELSE {})
          /\ \A k, f : ListedOn(d, k, f, again) = ListedOn(d, k, f, queue)
      BY <1>2, <1>3, RequeueSlots
    <3> HIDE DEF again
    <3> QED BY <2>2, <3>1
  <2> QED BY <1>5, <2>1, <2>2
<1>11. \A i \in DOMAIN queue' : \E j \in DOMAIN queue : queue'[i].day = queue[j].day
  <2>1. CASE queue' = answered
    BY <1>2, <1>3, <2>1, DoneIs
  <2>2. CASE queue' = again
    <3> HIDE DEF current
    <3>1. \A i \in DOMAIN again : \E j \in DOMAIN queue : again[i].day = queue[j].day
      BY <1>2, <1>3, RequeueSlots
    <3> HIDE DEF again
    <3> QED BY <2>2, <3>1
  <2> QED BY <1>5, <2>1, <2>2
<1> HIDE DEF answered, again
<1>12. \A i \in DOMAIN queue' : queue'[i].day <= d
  BY <1>11 DEF CapInv, SlotInv
<1>13. \A k : ListedOn(d, k, fetch', queue') \subseteq ListedOn(d, k, fetch, queue)
  BY <1>4, <1>10, NothingHeld
<1>14. \A k : HeldOn(d, k, unsent', queue', fetch') \subseteq Held(k)
  BY <1>8, <1>9, <1>10, <1>13 DEF Held, HeldOn
<1>15. \A i \in DOMAIN unsent' : unsent'[i].served <= d
  <2>1. slot.day <= d
    BY <1>2 DEF CapInv, SlotInv, Pending
  <2>2. \A i \in DOMAIN unsent : unsent[i].served <= d
    BY DEF CapInv, SlotInv
  <2>3. \A i \in DOMAIN unsent' : unsent'[i] = g \/ (i \in DOMAIN unsent /\ unsent'[i] = unsent[i])
    <3>1. /\ DOMAIN unsent' = 1 .. Len(unsent) + 1 /\ DOMAIN unsent = 1 .. Len(unsent)
          /\ Len(unsent) \in Nat /\ unsent'[Len(unsent) + 1] = g
          /\ \A i \in 1 .. Len(unsent) : unsent'[i] = unsent[i]
      BY <1>1, <1>3, <1>6
    <3> SUFFICES ASSUME NEW i \in DOMAIN unsent'
                 PROVE  unsent'[i] = g \/ (i \in DOMAIN unsent /\ unsent'[i] = unsent[i])
      OBVIOUS
    <3>2. i \in 1 .. Len(unsent) \/ i = Len(unsent) + 1
      BY <3>1
    <3> QED BY <3>1, <3>2
  <2> QED BY <1>7, <2>1, <2>2, <2>3
<1>16. Repeated(d, queue') \subseteq Repeated(d, queue) \cup UnsentOn(d, 2, unsent')
  BY <1>8, <1>10
<1>17. UnsentOn(d, 2, unsent) \subseteq UnsentOn(d, 2, unsent')
  BY <1>8
<1> HIDE DEF slot, current
<1> QED BY <1>1, <1>3, <1>4, <1>10, <1>12, <1>14, <1>15, <1>16, <1>17, PageStepKeepsCaps

(* The counts are read as they are stored.                                 *)
LEMMA ReadCountsKeepsCaps ==
    ASSUME Inv, Inv', CapInv, ReadCounts
    PROVE  CapInv'
<1> DEFINE s == Today
           rounds == parseExtraRounds(fetch.rounds)
           new == s.newPerDay * (1 + rounds)
           rev == s.revPerDay * (1 + rounds)
<1>1. /\ fetch' = [pc |-> "counted", kind |-> fetch.kind, cursor |-> fetch.cursor,
                   rounds |-> rounds, settings |-> s, at |-> now,
                   introduced |-> CountNewIntroducedToday(Day(now)),
                   reviewed |-> CountReviewedToday(Day(now))]
      /\ today' = [today EXCEPT !.newCap = Most({@, new}), !.revCap = Most({@, rev})]
      /\ UNCHANGED <<now, preset, row, log, queue, unsent>>
  BY DEF ReadCounts, Today
<1>2. TypeInv /\ HistoryInv /\ TypeInv'
  BY DEF Inv, CapInv
<1>3. new \in Nat /\ rev \in Nat
  <2>1. fetch.rounds \in 0 .. MaxRounds
    BY <1>2 DEF TypeInv, FetchInv, ReadCounts, Idle
  <2>2. rounds \in Nat
    <3>1. fetch.rounds \in Nat
      BY <2>1, StudyAssumption
    <3> QED BY <3>1, RoundsAre
  <2>3. s.newPerDay \in Nat /\ s.revPerDay \in Nat
    BY TodayIsReadable DEF Readable, Today
  <2> HIDE DEF s, rounds
  <2> QED BY <2>2, <2>3
<1> HIDE DEF new, rev
<1>4. /\ Most({today.newCap, new}) \in Nat /\ Most({today.revCap, rev}) \in Nat
      /\ today.newCap <= Most({today.newCap, new}) /\ new <= Most({today.newCap, new})
      /\ today.revCap <= Most({today.revCap, rev}) /\ rev <= Most({today.revCap, rev})
  <2>1. today.newCap \in Nat /\ today.revCap \in Nat
    BY <1>2 DEF HistoryInv
  <2>2. \A a, b \in Nat : Most({a, b}) \in Nat /\ a <= Most({a, b}) /\ b <= Most({a, b})
    BY TwoNumbers
  <2> QED BY <1>3, <2>1, <2>2
<1>5. /\ today'.newCap = Most({today.newCap, new}) /\ today'.revCap = Most({today.revCap, rev})
      /\ today'.slipped = today.slipped /\ today'.shifted = today.shifted
      /\ HistoryInv'
  BY <1>1, <1>2, <1>4 DEF HistoryInv
<1>6. Quiet
  BY <1>1, <1>4, <1>5 DEF Quiet
<1>7. /\ fetch'.pc = "counted" /\ fetch'.at = now /\ fetch'.settings = s /\ fetch'.rounds = rounds
      /\ fetch'.introduced = CountNewIntroducedToday(Day(now))
      /\ fetch'.reviewed = CountReviewedToday(Day(now))
  BY <1>1
<1>8. \A k : Held(k)' \subseteq Held(k)
  <2>1. \A d, k : ListedOn(d, k, fetch', queue) = {}
    BY <1>7, NothingHeld
  <2>2. \A k : Held(k)' = HeldOn(Day(now), k, unsent, queue, fetch')
    BY <1>1 DEF Held, HeldOn, UnsentOn, QueuedOn, ListedOn, Pending, CardsOf, Day
  <2> QED BY <2>1, <2>2 DEF Held, HeldOn
<1>9. /\ "edit" \notin today'.shifted => NewKept'
      /\ today'.shifted = {} => DueKept'
  BY <1>2, <1>6, <1>8, QuietKeeps
<1>10. CountInv'
  <2>1. Logged(0)' = Logged(0) /\ Logged(2)' = Logged(2) /\ Today' = Today
    BY <1>6, QuietSets
  <2>2. /\ IsFiniteSet(Logged(0)) /\ IsFiniteSet(Logged(2))
        /\ CountNewIntroducedToday(Day(now)) = Cardinality(Logged(0))
        /\ CountReviewedToday(Day(now)) = Cardinality(Logged(2))
    BY <1>2, PoolsAre DEF Logged
  <2>3. /\ Cardinality(Logged(0) \ today.slipped) <= Cardinality(Logged(0))
        /\ Cardinality(Logged(2) \ today.slipped) <= Cardinality(Logged(2))
    BY <2>2, FS_Subset
  <2>4. new <= today'.newCap /\ rev <= today'.revCap
    BY <1>4, <1>5
  <2>5. /\ fetch'.settings.newPerDay * (1 + fetch'.rounds) = new
        /\ fetch'.settings.revPerDay * (1 + fetch'.rounds) = rev
    BY <1>7 DEF new, rev
  <2>6. /\ Cardinality(Logged(0)' \ today'.slipped) <= fetch'.introduced
        /\ Cardinality(Logged(2)' \ today'.slipped) <= fetch'.reviewed
    BY <1>5, <1>7, <2>1, <2>2, <2>3
  <2>7. fetch'.at = now' /\ fetch'.settings = Today'
    BY <1>1, <1>7, <2>1
  <2> QED BY <2>4, <2>5, <2>6, <2>7 DEF CountInv
<1>11. SlotInv'
  <2>1. SlotInv
    BY DEF CapInv
  <2> QED BY <1>1, <1>7, <2>1 DEF SlotInv, Single, Pending
<1>12. today'.shifted = {} => RepeatInv'
  <2>1. today.shifted = {} => RepeatInv
    BY DEF CapInv
  <2>2. Logged(2)' = Logged(2) /\ Day(now)' = Day(now)
    BY <1>6, QuietSets
  <2> QED BY <1>1, <1>5, <2>1, <2>2 DEF RepeatInv, Repeated, UnsentOn, Pending
<1> QED BY <1>5, <1>9, <1>10, <1>11, <1>12 DEF CapInv


(* A request lists new cards and reviews within what the caps leave.       *)
LEMMA RankOfPart ==
    ASSUME NEW S, IsFiniteSet(S), NEW T, T \subseteq S, NEW key, NEW c
    PROVE  /\ Rank(S, key, c) \in Nat /\ Rank(T, key, c) \in Nat
           /\ Rank(T, key, c) <= Rank(S, key, c)
<1> DEFINE A == {d \in S : Less(key[d], key[c])}
           B == {d \in T : Less(key[d], key[c])}
<1>1. B \subseteq A
  OBVIOUS
<1>2. IsFiniteSet(A)
  BY FS_Subset
<1> HIDE DEF A, B
<1>3. Cardinality(B) <= Cardinality(A) /\ Cardinality(A) \in Nat /\ Cardinality(B) \in Nat
  BY <1>1, <1>2, FS_Subset, FS_CardinalityType
<1> QED BY <1>3 DEF Rank, A, B

LEMMA ListedNew ==
    ASSUME TypeInv, HistoryInv, NEW at, NEW rounds \in Nat, NEW i \in Nat, NEW r \in Nat,
           Today.newPerDay * (1 + rounds) <= today.newCap,
           Cardinality(Logged(0) \ today.slipped) <= i,
           NEW c \in Offered(Today, at, rounds, i, r), unseen(c), c \notin today.slipped
    PROVE  c \in NewPool /\ Rank(NewPool, NewOrder, c) < today.newCap - Cardinality(NewBooked)
<1> DEFINE n == NewLeft(Today, rounds, i, r)
           per == Today.newPerDay * (1 + rounds)
<1>1. Readable(Today)
  BY TodayIsReadable DEF Today
<1>2. c \in newCutoff(Today, n, Start)
  <2>1. c \notin OfferedReviews(Today, at, TotalLeft(Today, rounds, i, r))
    BY SetsAre
  <2> QED BY <2>1 DEF Offered
<1>3. c \in Cut(NewCards(Today), NewOrder, n)
  BY <1>2, CutoffsAre DEF NewOrder
<1>4. c \in NewCards(Today) /\ Rank(NewCards(Today), NewOrder, c) < n
  BY <1>3 DEF Cut
<1>5. c \in NewPool
  BY <1>4 DEF NewPool
<1>6. per \in Nat
  <2>1. Today.newPerDay \in Nat
    BY <1>1 DEF Readable
  <2> DEFINE x == Today.newPerDay
  <2> HIDE DEF x
  <2> QED BY <2>1 DEF x
<1>7. n \in Nat /\ (n > 0 => n = per - i)
  BY <1>1, <1>6, LeftIs
<1> HIDE DEF n, per
<1>8. /\ Rank(NewPool, NewOrder, c) \in Nat /\ Rank(NewCards(Today), NewOrder, c) \in Nat
      /\ Rank(NewPool, NewOrder, c) <= Rank(NewCards(Today), NewOrder, c)
  BY SetsAre, RankOfPart DEF NewPool
<1>9. Cardinality(NewBooked) \in Nat /\ Cardinality(NewBooked) <= i
  <2>1. IsFiniteSet(Logged(0) \ today.slipped) /\ NewBooked \subseteq Logged(0) \ today.slipped
    <3>1. IsFiniteSet(Logged(0)) /\ Fair(0) \subseteq Logged(0)
      BY PoolsAre DEF Logged
    <3> QED BY <3>1, FS_Subset DEF NewBooked
  <2>2. Cardinality(NewBooked) <= Cardinality(Logged(0) \ today.slipped)
    BY <2>1, FS_Subset
  <2>3. Cardinality(NewBooked) \in Nat /\ Cardinality(Logged(0) \ today.slipped) \in Nat
    BY <2>1, FS_Subset, FS_CardinalityType
  <2> QED BY <2>2, <2>3
<1>10. today.newCap \in Nat /\ per <= today.newCap
  BY DEF HistoryInv, per
<1> QED BY <1>4, <1>5, <1>6, <1>7, <1>8, <1>9, <1>10

LEMMA ListedDue ==
    ASSUME TypeInv, LogInv, HistoryInv, NEW rounds \in Nat, NEW i \in Nat, NEW r \in Nat,
           Today.revPerDay * (1 + rounds) <= today.revCap,
           Cardinality(Logged(2) \ today.slipped) <= r,
           NEW c \in Offered(Today, now, rounds, i, r), row[c].state = 2
    PROVE  /\ c \notin Logged(2)
           /\ c \notin today.slipped =>
                 c \in DuePool /\ Rank(DuePool, DueOrder, c) < today.revCap - Cardinality(DueBooked)
<1> DEFINE n == TotalLeft(Today, rounds, i, r)
           per == Today.revPerDay * (1 + rounds)
<1>1. Readable(Today)
  BY TodayIsReadable DEF Today
<1>2. ~ unseen(c)
  BY DEF unseen, NoRow
<1>3. c \in OfferedReviews(Today, now, n)
  BY <1>2, SetsAre DEF Offered
<1>4. c \in ReadyCards(Today, now) /\ c \in Card
  BY <1>3, SetsAre
<1>5. c \in DueCards(Today, now)
  BY <1>4 DEF DueCards
<1>6. c \in revCutoff(Today, now, n)
  BY <1>3, <1>5 DEF OfferedReviews
<1>7. c \in Cut(DueCards(Today, now), DueOrder, n)
  BY <1>6, CutoffsAre DEF DueOrder
<1>8. Rank(DueCards(Today, now), DueOrder, c) < n
  BY <1>7 DEF Cut
<1>9. c \notin Logged(2)
  <2> SUFFICES ASSUME NEW e \in log, e.card = c, e.day = Day(now) PROVE FALSE
    BY DEF Logged, LoggedOn
  <2>1. row[c] # NoRow /\ Day(now) <= Day(row[c].last)
    BY DEF LogInv
  <2>2. row[c].last < DayStart(now)
    BY <1>4 DEF ReadyCards, Ready
  <2>3. row[c].last \in Int /\ now \in Int
    <3>1. row[c] \in Row
      BY <1>4, <2>1 DEF TypeInv
    <3> QED BY <3>1, NowIs DEF Row
  <2>4. Day(row[c].last) < Day(now) /\ Day(row[c].last) \in Int /\ Day(now) \in Int
    BY <2>2, <2>3, DaysAre
  <2> QED BY <2>1, <2>4
<1>10. per \in Nat
  <2>1. Today.revPerDay \in Nat
    BY <1>1 DEF Readable
  <2> DEFINE x == Today.revPerDay
  <2> HIDE DEF x
  <2> QED BY <2>1 DEF x
<1>11. n \in Nat /\ (n > 0 => n = per - (i + r))
  BY <1>1, <1>10, LeftIs
<1> HIDE DEF n, per
<1>12. /\ Rank(DuePool, DueOrder, c) \in Nat /\ Rank(DueCards(Today, now), DueOrder, c) \in Nat
       /\ Rank(DuePool, DueOrder, c) <= Rank(DueCards(Today, now), DueOrder, c)
  BY SetsAre, RankOfPart DEF DuePool
<1>13. Cardinality(DueBooked) \in Nat /\ Cardinality(DueBooked) <= r
  <2>1. IsFiniteSet(Logged(2) \ today.slipped) /\ DueBooked \subseteq Logged(2) \ today.slipped
    <3>1. IsFiniteSet(Logged(2)) /\ Fair(2) \subseteq Logged(2)
      BY PoolsAre DEF Logged
    <3> QED BY <3>1, FS_Subset DEF DueBooked
  <2>2. Cardinality(DueBooked) <= Cardinality(Logged(2) \ today.slipped)
    BY <2>1, FS_Subset
  <2>3. Cardinality(DueBooked) \in Nat /\ Cardinality(Logged(2) \ today.slipped) \in Nat
    BY <2>1, FS_Subset, FS_CardinalityType
  <2> QED BY <2>2, <2>3
<1>14. today.revCap \in Nat /\ per <= today.revCap
  BY DEF HistoryInv, per
<1>15. c \notin today.slipped => c \in DuePool
  BY <1>5 DEF DuePool
<1> QED BY <1>8, <1>9, <1>10, <1>11, <1>12, <1>13, <1>14, <1>15

(* The counts of a request go on covering what they covered.               *)
LEMMA CountsStay ==
    ASSUME TypeInv, HistoryInv, CountInv, Day(now)' = Day(now),
           fetch' = fetch \/ fetch'.pc \notin {"counted", "answered"},
           today'.newCap = today.newCap, today'.revCap = today.revCap,
           "edit" \notin today'.shifted => "edit" \notin today.shifted /\ Today' = Today,
           today'.shifted = {} => today.shifted = {} /\ now' = now,
           fetch.pc = "counted" =>
              /\ Logged(0)' \ today'.slipped \subseteq Logged(0) \ today.slipped
              /\ Logged(2)' \ today'.slipped \subseteq Logged(2) \ today.slipped
    PROVE  CountInv'
<1>1. CASE fetch'.pc \notin {"counted", "answered"}
  BY <1>1 DEF CountInv
<1>2. CASE fetch' = fetch
  <2> SUFFICES ASSUME fetch.pc = "counted", Day(fetch.at) = Day(now) PROVE CountInv'
    BY <1>2 DEF CountInv, Day
  <2> DEFINE new == fetch.settings.newPerDay * (1 + fetch.rounds)
             rev == fetch.settings.revPerDay * (1 + fetch.rounds)
  <2>1. /\ new <= today.newCap /\ rev <= today.revCap
        /\ "edit" \notin today.shifted => fetch.settings = Today
        /\ today.shifted = {} => fetch.at = now
        /\ Cardinality(Logged(0) \ today.slipped) <= fetch.introduced
        /\ Cardinality(Logged(2) \ today.slipped) <= fetch.reviewed
    BY DEF CountInv
  <2>2. new' = new /\ rev' = rev
    BY <1>2
  <2>3. fetch.introduced \in Nat /\ fetch.reviewed \in Nat
    BY DEF TypeInv, FetchInv, Idle
  <2>4. ASSUME NEW A, NEW b, A \subseteq Logged(b) \ today.slipped
        PROVE  /\ Cardinality(A) <= Cardinality(Logged(b) \ today.slipped)
               /\ Cardinality(A) \in Nat /\ Cardinality(Logged(b) \ today.slipped) \in Nat
    <3>1. IsFiniteSet(Logged(b) \ today.slipped)
      <4>1. IsFiniteSet(Logged(b))
        BY PoolsAre DEF Logged
      <4> QED BY <4>1, FS_Subset
    <3> QED BY <2>4, <3>1, FS_Subset, FS_CardinalityType
  <2>5. /\ Cardinality(Logged(0)' \ today'.slipped) <= fetch.introduced
        /\ Cardinality(Logged(2)' \ today'.slipped) <= fetch.reviewed
    <3>1. /\ Cardinality(Logged(0)' \ today'.slipped) <= Cardinality(Logged(0) \ today.slipped)
          /\ Cardinality(Logged(0)' \ today'.slipped) \in Nat
          /\ Cardinality(Logged(0) \ today.slipped) \in Nat
      BY <2>4
    <3>2. /\ Cardinality(Logged(2)' \ today'.slipped) <= Cardinality(Logged(2) \ today.slipped)
          /\ Cardinality(Logged(2)' \ today'.slipped) \in Nat
          /\ Cardinality(Logged(2) \ today.slipped) \in Nat
      BY <2>4
    <3> QED BY <2>1, <2>3, <3>1, <3>2
  <2>6. new' <= today'.newCap /\ rev' <= today'.revCap
    BY <2>1, <2>2
  <2> HIDE DEF new, rev
  <2>7. /\ "edit" \notin today'.shifted => fetch'.settings = Today'
        /\ today'.shifted = {} => fetch'.at = now'
        /\ Cardinality(Logged(0)' \ today'.slipped) <= fetch'.introduced
        /\ Cardinality(Logged(2)' \ today'.slipped) <= fetch'.reviewed
    BY <1>2, <2>1, <2>5
  <2> QED BY <2>6, <2>7 DEF CountInv, new, rev
<1> QED BY <1>1, <1>2

(* A request that has counted. *)
LEMMA CountedIs ==
    ASSUME FetchInv, fetch.pc = "counted"
    PROVE  /\ fetch.cursor \in Cursors /\ fetch.rounds \in Nat
           /\ fetch.at \in InitTick .. now /\ Readable(fetch.settings)
           /\ fetch.introduced \in Nat /\ fetch.reviewed \in Nat
  BY DEF FetchInv, Idle

LEMMA ListCardsKeepsCaps ==
    ASSUME Inv, Inv', CapInv, ListCards
    PROVE  CapInv'
<1> DEFINE s == fetch.settings
           O == Offered(s, fetch.at, fetch.rounds, fetch.introduced, fetch.reviewed)
           b == BuildBatch(s, fetch.at, fetch.cursor, Page, fetch.rounds,
                           fetch.introduced, fetch.reviewed)
           slots == [i \in DOMAIN b.cards |-> cardToSlot(b.cards[i])]
           d == Day(now)
<1>1. /\ UNCHANGED <<now, preset, row, log, queue, unsent, today>>
      /\ fetch.pc = "counted" /\ fetch'.pc = "answered" /\ fetch'.slots = slots
  BY DEF ListCards
<1>2. /\ fetch.cursor \in Cursors /\ fetch.rounds \in Nat
      /\ fetch.at \in InitTick .. now /\ Readable(s)
      /\ fetch.introduced \in Nat /\ fetch.reviewed \in Nat
  <2> HIDE DEF b, O, slots
  <2>1. FetchInv
    BY DEF Inv, TypeInv
  <2> QED BY <1>1, <2>1, CountedIs
<1>3. Progress(b, s, fetch.at, fetch.cursor, O)
  BY <1>2, StudyAssumption, BatchIs DEF Inv
<1>4. O \subseteq Card
  BY SetsAre DEF Offered
<1> HIDE DEF b, O
<1>5. /\ \A i \in DOMAIN b.cards : b.cards[i] \in O
      /\ \A i, j \in DOMAIN b.cards : b.cards[i] = b.cards[j] => i = j
  BY <1>3 DEF Progress
<1>6. /\ DOMAIN slots = DOMAIN b.cards
      /\ \A i \in DOMAIN slots : /\ slots[i].card = b.cards[i] /\ slots[i].day = Day(fetch.at)
                                 /\ slots[i].kind = row[b.cards[i]].state
  BY DEF cardToSlot
<1> HIDE DEF slots
<1>7. Day(fetch.at) <= d
  <2>1. fetch.at \in Int /\ now \in Int /\ fetch.at <= now
    BY <1>2, NowIs DEF Inv
  <2> QED BY <2>1, DaysAre
<1>8. SlotInv'
  <2>1. \A i, j \in DOMAIN slots :
           slots[i].day <= d /\ (slots[i].card = slots[j].card => i = j)
    BY <1>5, <1>6, <1>7
  <2>2. SlotInv
    BY DEF CapInv
  <2> QED BY <1>1, <2>1, <2>2 DEF SlotInv, Single, Pending
<1>9. TypeInv /\ LogInv /\ TypeInv' /\ HistoryInv /\ CountInv
  BY DEF Inv, CapInv
<1>10. HistoryInv' /\ Quiet
  <2>1. HistoryInv'
    BY <1>1, <1>9 DEF HistoryInv
  <2>2. today.newCap <= today.newCap /\ today.revCap <= today.revCap
    BY <1>9 DEF HistoryInv
  <2> QED BY <1>1, <2>1, <2>2 DEF Quiet
<1>11. CountInv'
  BY <1>1 DEF CountInv
<1>12. today'.shifted = {} => RepeatInv'
  <2>1. today.shifted = {} => RepeatInv
    BY DEF CapInv
  <2>2. Logged(2)' = Logged(2) /\ Day(now)' = Day(now)
    BY <1>10, QuietSets
  <2> QED BY <1>1, <2>1, <2>2 DEF RepeatInv, Repeated, UnsentOn, Pending
<1>13. ASSUME NEW k, NEW c, c \in Held(k)', c \notin Held(k)
       PROVE  c \in O /\ row[c].state = k /\ Day(fetch.at) = d
  <2>1. Held(k)' = HeldOn(d, k, unsent, queue, fetch')
    BY <1>1 DEF Held, HeldOn, UnsentOn, QueuedOn, ListedOn, Pending, CardsOf, Day
  <2>2. c \in ListedOn(d, k, fetch', queue)
    BY <1>13, <2>1 DEF Held, HeldOn
  <2>3. PICK i \in DOMAIN slots : slots[i].kind = k /\ slots[i].day = d /\ c = slots[i].card
    BY <1>1, <2>2 DEF ListedOn
  <2> QED BY <1>5, <1>6, <2>3
<1>14. ASSUME "edit" \notin today'.shifted PROVE NewKept'
  <2>1. Kept(NewPool, NewOrder, NewOwed, NewBooked, today.newCap)
    BY <1>1, <1>14 DEF CapInv, NewKept
  <2>2. ASSUME NEW c \in NewOwed', c \notin NewOwed
        PROVE  c \in NewPool /\ Rank(NewPool, NewOrder, c) < today.newCap - Cardinality(NewBooked)
    <3>1. unseen(c) /\ c \in Held(-1)' /\ c \notin Held(-1) /\ c \notin today.slipped
      BY <1>1, <1>10, <2>2, QuietSets DEF NewOwed
    <3>2. c \in O /\ Day(fetch.at) = d
      BY <1>13, <3>1
    <3>3. /\ s = Today /\ s.newPerDay * (1 + fetch.rounds) <= today.newCap
          /\ Cardinality(Logged(0) \ today.slipped) <= fetch.introduced
      BY <1>1, <1>9, <1>14, <3>2 DEF CountInv
    <3>4. c \in Offered(Today, fetch.at, fetch.rounds, fetch.introduced, fetch.reviewed)
      BY <3>2, <3>3 DEF O
    <3>5. Today.newPerDay * (1 + fetch.rounds) <= today.newCap
      BY <3>3
    <3> QED BY <1>2, <1>9, <3>1, <3>3, <3>4, <3>5, ListedNew
  <2>3. Kept(NewPool, NewOrder, NewOwed', NewBooked, today.newCap)
    BY <2>1, <2>2 DEF Kept
  <2>4. NewPool' = NewPool /\ NewBooked' = NewBooked
    BY <1>10, QuietSets
  <2>5. NewOrder' = NewOrder
    BY DEF NewOrder, NewKey, newCardKey
  <2> QED BY <1>1, <2>3, <2>4, <2>5 DEF NewKept
<1>15. ASSUME today'.shifted = {} PROVE DueKept'
  <2>1. Kept(DuePool, DueOrder, DueOwed, DueBooked, today.revCap)
    BY <1>1, <1>15 DEF CapInv, DueKept
  <2>2. ASSUME NEW c, c \in Held(2)', c \notin Held(2)
        PROVE  /\ c \notin Logged(2)
               /\ c \notin today.slipped =>
                     c \in DuePool /\ Rank(DuePool, DueOrder, c) < today.revCap - Cardinality(DueBooked)
    <3>1. c \in O /\ row[c].state = 2 /\ Day(fetch.at) = d
      BY <1>13, <2>2
    <3>2. /\ s = Today /\ s.revPerDay * (1 + fetch.rounds) <= today.revCap /\ fetch.at = now
          /\ Cardinality(Logged(2) \ today.slipped) <= fetch.reviewed
      BY <1>1, <1>9, <1>15, <3>1 DEF CountInv
    <3>3. c \in Offered(Today, now, fetch.rounds, fetch.introduced, fetch.reviewed)
      BY <3>1, <3>2 DEF O
    <3>4. Today.revPerDay * (1 + fetch.rounds) <= today.revCap
      BY <3>2
    <3> QED BY <1>2, <1>9, <3>1, <3>2, <3>3, <3>4, ListedDue
  <2>3. DueBooked' = DueBooked
    <3>1. Held(2) \subseteq Held(2)'
      <4>1. Held(2)' = HeldOn(d, 2, unsent, queue, fetch')
        BY <1>1 DEF Held, HeldOn, UnsentOn, QueuedOn, ListedOn, Pending, CardsOf, Day
      <4>2. ListedOn(d, 2, fetch, queue) = {}
        BY <1>1, NothingHeld
      <4> QED BY <4>1, <4>2 DEF Held, HeldOn
    <3> QED BY <1>1, <1>10, <2>2, <3>1, QuietSets DEF DueBooked
  <2>4. Kept(DuePool, DueOrder, DueOwed', DueBooked, today.revCap)
    <3>1. \A c \in DueOwed' : c \in DueOwed \/ (c \in Held(2)' /\ c \notin Held(2) /\ c \notin today.slipped)
      BY <1>1, <1>10, QuietSets DEF DueOwed
    <3> QED BY <2>1, <2>2, <3>1 DEF Kept
  <2>5. DuePool' = DuePool /\ DueOrder' = DueOrder
    BY <1>10, QuietSets
  <2> QED BY <1>1, <2>3, <2>4, <2>5 DEF DueKept
<1> QED BY <1>8, <1>10, <1>11, <1>12, <1>14, <1>15 DEF CapInv


(* What else changes the queue.                                            *)

LEMMA HeldAreCards ==
    ASSUME TypeInv
    PROVE  \A d, k : HeldOn(d, k, unsent, queue, fetch) \subseteq Card
<1>1. \A i \in DOMAIN unsent : unsent[i] \in Grades
  BY DEF TypeInv
<1>2. \A i \in DOMAIN queue : queue[i] \in Slots
  BY DEF TypeInv
<1>3. fetch.pc = "answered" => \A i \in DOMAIN fetch.slots : fetch.slots[i] \in Slots
  <2> SUFFICES ASSUME fetch.pc = "answered" PROVE fetch.slots \in Seq(Slots)
    OBVIOUS
  <2> QED BY DEF TypeInv, FetchInv, Idle
<1>4. (\A g \in Grades : g.card \in Card) /\ \A r \in Slots : r.card \in Card
  BY DEF Grades, Slots
<1>5. \A d, k : UnsentOn(d, k, unsent) \subseteq Card
  BY <1>1, <1>4 DEF UnsentOn
<1>6. \A d, k : QueuedOn(d, k, queue) \subseteq Card
  BY <1>2, <1>4 DEF QueuedOn, Pending
<1>7. \A d, k : ListedOn(d, k, fetch, queue) \subseteq Card
  BY <1>3, <1>4 DEF ListedOn
<1> QED BY <1>5, <1>6, <1>7 DEF HeldOn

(* A card whose row is made or changed otherwise than by an answer.        *)
LEMMA SendCardStateKeepsCaps ==
    ASSUME Inv, Inv', CapInv, NEW what \in {"suspend", "bury", "flag"}, sendCardState(what)
    PROVE  CapInv'
<1> DEFINE current == Least(Pending(queue))
           x == queue[current].card
           r == UpsertUserCardStateSettings(x, what)
           q == [queue EXCEPT ![current].done = TRUE]
           d == Day(now)
           sent == {unsent[i].card : i \in DOMAIN unsent}
<1>1. /\ row' = [row EXCEPT ![x] = r]
      /\ today' = [today EXCEPT !.slipped = @ \cup ({x} \cap sent)]
      /\ showNext(q, [session EXCEPT !.steady = FALSE], fetch)
      /\ UNCHANGED <<now, preset, log, unsent>>
      /\ Pending(queue) # {}
  BY DEF sendCardState
<1>2. TypeInv /\ TypeInv' /\ HistoryInv /\ queue \in Seq(Slots) /\ Single(queue)
  BY DEF Inv, TypeInv, CapInv, SlotInv
<1>3. current \in Pending(queue)
  BY <1>1, <1>2, FirstPending
<1>4. /\ x \in Card /\ x \in CardsOf(queue) /\ DOMAIN q = DOMAIN queue
      /\ CardsOf(q) = CardsOf(queue) /\ Pending(q) = Pending(queue) \ {current}
      /\ \A i \in DOMAIN queue : q[i].day = queue[i].day
  BY <1>2, <1>3, DoneIs DEF Slots
<1>5. /\ Single(q) /\ \A k : QueuedOn(d, k, q) \subseteq QueuedOn(d, k, queue)
      /\ Repeated(d, q) \subseteq Repeated(d, queue)
      /\ \A k, f : ListedOn(d, k, f, q) = ListedOn(d, k, f, queue)
      /\ x \in QueuedOn(d, 2, q) => x \in Repeated(d, q)
  BY <1>2, <1>3, DoneSlots
<1>6. queue' = q /\ (fetch' = fetch \/ fetch'.pc \notin {"counted", "answered"})
  BY <1>1, RequestIs DEF showNext
<1>7. /\ r # NoRow
      /\ row[x] = NoRow => r.state = 0
      /\ row[x] # NoRow => /\ r.state = row[x].state /\ r.due = row[x].due
                           /\ r.days = row[x].days /\ r.last = row[x].last
  <2>1. row[x] \in Row \cup {NoRow} /\ now \in Int
    BY <1>2, <1>4, NowIs DEF TypeInv
  <2>2. settingsRow(row[x]) \in Row /\ (row[x] # NoRow => settingsRow(row[x]) = row[x])
    BY <2>1, SettingsRowIs
  <2>3. row[x] = NoRow => settingsRow(row[x]).state = 0
    BY DEF settingsRow
  <2>4. r \in Row /\ r # NoRow
    BY <1>2, <1>4, CardStateRowIs
  <2> DEFINE y == settingsRow(row[x])
  <2>5. r.state = y.state /\ r.due = y.due /\ r.days = y.days /\ r.last = y.last
    BY <2>2 DEF UpsertUserCardStateSettings, Row
  <2> QED BY <2>2, <2>3, <2>4, <2>5
<1>8. /\ \A c \in Card : c # x => row'[c] = row[c]
      /\ row'[x] = r
  BY <1>1, <1>2, <1>4 DEF TypeInv
<1> HIDE DEF q, r, x, current
<1>9. /\ today'.newCap = today.newCap /\ today'.revCap = today.revCap
      /\ today'.shifted = today.shifted /\ today'.slipped = today.slipped \cup ({x} \cap sent)
      /\ HistoryInv'
  BY <1>1, <1>2, <1>4 DEF HistoryInv
<1>10. /\ today.newCap <= today'.newCap /\ today.revCap <= today'.revCap
       /\ today.slipped \subseteq today'.slipped
  BY <1>2, <1>9 DEF HistoryInv
<1>11. Today' = Today /\ Day(now)' = d
  BY <1>1 DEF Today
<1>12. /\ \A b : Logged(b)' = Logged(b) /\ Fair(b)' = Fair(b)
       /\ UnsentOn(d, 2, unsent)' = UnsentOn(d, 2, unsent)
  BY <1>1 DEF Logged, LoggedOn, Fair, UnsentOn
<1>13. \A k : Held(k)' = HeldOn(d, k, unsent, q, fetch')
  BY <1>1, <1>6 DEF Held, HeldOn, UnsentOn, QueuedOn, ListedOn, Pending, CardsOf, Day
<1>14. \A k : ListedOn(d, k, fetch', q) \subseteq ListedOn(d, k, fetch, queue)
  BY <1>5, <1>6, NothingHeld
<1>15. \A k : Held(k)' \subseteq Held(k)
  BY <1>5, <1>13, <1>14 DEF Held, HeldOn
<1>16. \A c \in Card : unseen(c)' => unseen(c) /\ c # x
  BY <1>7, <1>8 DEF unseen
<1>17. ASSUME "edit" \notin today'.shifted PROVE NewKept'
  <2>1. NewKept
    BY <1>9, <1>17 DEF CapInv
  <2>2. NewPool' \subseteq NewPool
    BY <1>10, <1>11, <1>16 DEF NewPool, NewCards
  <2>3. NewBooked' \subseteq NewBooked
    BY <1>10, <1>12 DEF NewBooked
  <2>4. NewOwed \subseteq NewPool
    BY <2>1 DEF NewKept, Kept
  <2>5. NewPool \subseteq Card
    BY SetsAre DEF NewPool
  <2>6. \A c \in NewOwed' : c \in Held(-1)' /\ unseen(c)' /\ c \notin today'.slipped
    BY DEF NewOwed
  <2>7. ASSUME NEW c \in NewOwed' PROVE c \in NewOwed /\ c \in NewPool'
    <3>1. c \in Held(-1) /\ c \notin today.slipped /\ unseen(c)'
      BY <1>10, <1>15, <2>6
    <3>2. c \in Card
      BY <1>2, <3>1, HeldAreCards DEF Held
    <3>3. c \in NewOwed
      BY <1>16, <3>1, <3>2 DEF NewOwed
    <3>4. c \in NewCards(Today) /\ c \notin today'.slipped
      BY <2>4, <2>6, <3>3 DEF NewPool
    <3>5. c \in NewPool'
      BY <1>11, <3>1, <3>4 DEF NewPool, NewCards
    <3> QED BY <3>3, <3>5
  <2> QED BY <1>2, <1>9, <1>10, <2>1, <2>2, <2>3, <2>7, NewStays
<1>18. ASSUME today'.shifted = {} PROVE DueKept'
  <2>1. DueKept /\ RepeatInv
    BY <1>9, <1>18 DEF CapInv
  <2>2. \A c \in Card : (~unseen(c))' /\ row'[c].state = 2 => ~unseen(c) /\ row[c].state = 2
    BY <1>7, <1>8 DEF unseen
  <2>3. ASSUME NEW c \in DueCards(Today, now)'
        PROVE  /\ c \in DueCards(Today, now)
               /\ row'[c].due = row[c].due /\ row'[c].days = row[c].days
    <3>1. /\ c \in Card /\ (~unseen(c))' /\ row'[c].state = 2 /\ ~row'[c].suspended
          /\ row'[c].buried <= d /\ row'[c].due <= now + Today.ahead /\ row'[c].last < DayStart(now)
      BY <1>1, <1>11 DEF DueCards, ReadyCards, Ready
    <3>2. ~unseen(c) /\ row[c].state = 2
      BY <2>2, <3>1
    <3>3. row'[c].due = row[c].due /\ row'[c].days = row[c].days /\ row'[c].last = row[c].last
      BY <1>7, <1>8, <3>1, <3>2 DEF unseen
    <3>4. ~row[c].suspended /\ row[c].buried <= d
      <4>1. CASE c # x
        BY <1>8, <3>1, <4>1
      <4>2. CASE c = x
        <5>1. row[x] \in Row /\ settingsRow(row[x]) = row[x] /\ now \in Int
          BY <1>2, <1>4, <3>2, <4>2, SettingsRowIs, NowIs DEF TypeInv, unseen
        <5>2. d \in Int
          BY <5>1, DaysAre
        <5>3. ~r.suspended /\ r.buried <= d
          BY <1>8, <3>1, <4>2
        <5>4. what = "bury" => r.buried = d + 1
          BY <5>1 DEF r, UpsertUserCardStateSettings, Row
        <5>5. what = "suspend" => r.suspended
          BY <5>1 DEF r, UpsertUserCardStateSettings, Row
        <5>6. what = "flag" => r = row[x]
          BY <5>1 DEF r, UpsertUserCardStateSettings
        <5> HIDE DEF d
        <5> QED BY <4>2, <5>2, <5>3, <5>4, <5>5, <5>6
      <4> QED BY <4>1, <4>2
    <3> QED BY <3>1, <3>2, <3>3, <3>4 DEF DueCards, ReadyCards, Ready
  <2>4. DuePool' \subseteq DuePool
    BY <1>10, <2>3 DEF DuePool
  <2>5. DueBooked' \subseteq DueBooked /\ DueOwed' \subseteq DueOwed
    BY <1>10, <1>12, <1>15 DEF DueBooked, DueOwed
  <2>6. DueOwed \subseteq DuePool
    BY <2>1 DEF DueKept, Kept
  <2>7. \A c \in DuePool' : DueOrder'[c] = DueOrder[c]
    <3> SUFFICES ASSUME NEW c \in DuePool' PROVE DueOrder'[c] = DueOrder[c]
      OBVIOUS
    <3>1. c \in Card /\ row'[c].due = row[c].due /\ row'[c].days = row[c].days
      <4>1. c \in DueCards(Today, now)'
        BY DEF DuePool
      <4> QED BY <2>3, <4>1 DEF DueCards, ReadyCards
    <3>2. RevKey(Today.order, now, c)' = RevKey(Today.order, now, c)
      BY <1>1, <1>11, <3>1 DEF RevKey, revKey
    <3> QED BY <3>1, <3>2 DEF DueOrder
  <2>8. x \notin DueOwed'
    <3> SUFFICES ASSUME x \in Held(2)', x \notin Logged(2), x \notin today'.slipped PROVE FALSE
      BY <1>12 DEF DueOwed
    <3>1. x \notin sent /\ x \notin today.slipped
      BY <1>9
    <3>2. x \notin UnsentOn(d, 2, unsent)
      BY <3>1 DEF UnsentOn
    <3>3. x \notin ListedOn(d, 2, fetch', q)
      BY <1>4 DEF ListedOn
    <3>4. x \in Repeated(d, queue)
      BY <1>5, <1>13, <3>2, <3>3 DEF HeldOn
    <3> QED BY <2>1, <3>1, <3>2, <3>4 DEF RepeatInv
  <2>9. DueOwed' \subseteq DuePool'
    <3> SUFFICES ASSUME NEW c \in DueOwed' PROVE c \in DuePool'
      OBVIOUS
    <3>1. c \in DueCards(Today, now) /\ c # x /\ c \notin today'.slipped
      BY <2>5, <2>6, <2>8 DEF DuePool, DueOwed
    <3>2. c \in Card /\ row'[c] = row[c]
      BY <1>8, <3>1 DEF DueCards, ReadyCards
    <3>3. c \in DueCards(Today, now)'
      BY <1>1, <1>11, <3>1, <3>2 DEF DueCards, ReadyCards, Ready, unseen
    <3> QED BY <3>1, <3>3 DEF DuePool
  <2> QED BY <1>2, <1>9, <1>10, <2>1, <2>4, <2>5, <2>7, <2>9, DueStays
<1>19. CountInv'
  <2>1. CountInv
    BY DEF CapInv
  <2>2. \A b : Logged(b)' \ today'.slipped \subseteq Logged(b) \ today.slipped
    BY <1>10, <1>12
  <2> QED BY <1>1, <1>2, <1>6, <1>9, <1>11, <2>1, <2>2, CountsStay
<1>20. SlotInv'
  <2>1. SlotInv
    BY DEF CapInv
  <2>2. fetch'.pc = "answered" =>
           \A i, j \in DOMAIN fetch'.slots :
              /\ fetch'.slots[i].day <= d
              /\ fetch'.slots[i].card = fetch'.slots[j].card => i = j
    BY <1>6, <2>1 DEF SlotInv
  <2>3. \A i \in DOMAIN queue' : queue'[i].day <= d
    BY <1>4, <1>6, <2>1 DEF SlotInv
  <2>4. Single(queue)'
    BY <1>5, <1>6 DEF Single, Pending
  <2> QED BY <1>1, <1>11, <2>1, <2>2, <2>3, <2>4 DEF SlotInv
<1>21. today'.shifted = {} => RepeatInv'
  <2>1. today.shifted = {} => RepeatInv
    BY DEF CapInv
  <2>2. Repeated(d, queue)' \subseteq Repeated(d, queue)
    <3>1. Repeated(d, queue)' = Repeated(d, q)
      BY <1>1, <1>6 DEF Repeated, Pending
    <3> QED BY <1>5, <3>1
  <2> QED BY <1>1, <1>9, <1>10, <1>11, <1>12, <2>1, <2>2 DEF RepeatInv
<1> QED BY <1>9, <1>17, <1>18, <1>19, <1>20, <1>21 DEF CapInv


(* What disturbs the day makes no card new, unless it changes the settings. *)
LEMMA DisturbedKeepsCaps ==
    ASSUME Inv, Inv', CapInv, UNCHANGED <<log, queue, fetch, unsent>>, Day(now)' = Day(now),
           today'.newCap = today.newCap, today'.revCap = today.revCap,
           today'.slipped = today.slipped, HistoryInv', today'.shifted # {},
           "edit" \notin today'.shifted =>
              /\ "edit" \notin today.shifted /\ Today' = Today
              /\ \A c \in Card : unseen(c)' => unseen(c)
    PROVE  CapInv'
<1>1. TypeInv /\ TypeInv' /\ HistoryInv
  BY DEF Inv, CapInv
<1>2. \A b : Logged(b)' = Logged(b) /\ Fair(b)' = Fair(b)
  BY DEF Logged, LoggedOn, Fair
<1>3. \A k : Held(k)' = Held(k)
  BY DEF Held, HeldOn, UnsentOn, QueuedOn, ListedOn, Pending, CardsOf
<1>4. ASSUME "edit" \notin today'.shifted PROVE NewKept'
  <2>1. /\ NewKept /\ Today' = Today /\ \A c \in Card : unseen(c)' => unseen(c)
    BY <1>4 DEF CapInv
  <2>2. NewPool' \subseteq NewPool
    BY <2>1 DEF NewPool, NewCards
  <2>3. NewBooked' \subseteq NewBooked
    BY <1>2 DEF NewBooked
  <2>4. NewOwed \subseteq NewPool
    BY <2>1 DEF NewKept, Kept
  <2>5. ASSUME NEW c \in NewOwed' PROVE c \in NewOwed /\ c \in NewPool'
    <3>1. c \in Held(-1) /\ c \notin today.slipped /\ unseen(c)'
      BY <1>3 DEF NewOwed
    <3>2. c \in Card
      BY <1>1, <3>1, HeldAreCards DEF Held
    <3>3. c \in NewOwed
      BY <2>1, <3>1, <3>2 DEF NewOwed
    <3>4. c \in NewCards(Today)
      BY <2>4, <3>3 DEF NewPool
    <3> QED BY <2>1, <3>1, <3>3, <3>4 DEF NewPool, NewCards
  <2>6. today.newCap <= today'.newCap
    BY <1>1 DEF HistoryInv
  <2> QED BY <1>1, <2>1, <2>2, <2>3, <2>5, <2>6, NewStays
<1>5. CountInv'
  <2>1. CountInv
    BY DEF CapInv
  <2> QED BY <1>1, <1>2, <2>1, CountsStay
<1>6. SlotInv'
  <2>1. SlotInv
    BY DEF CapInv
  <2> QED BY <2>1 DEF SlotInv, Single, Pending
<1> QED BY <1>4, <1>5, <1>6 DEF CapInv

LEMMA ToggleKeepsCaps ==
    ASSUME Inv, Inv', CapInv, NEW note \in Notes, ToggleSuspendCardsForNote(note)
    PROVE  CapInv'
<1>1. /\ UNCHANGED <<now, preset, log, queue, fetch, unsent>>
      /\ today' = [today EXCEPT !.shifted = @ \cup {"toggle"}]
  BY DEF ToggleSuspendCardsForNote
<1>2. HistoryInv
  BY DEF CapInv
<1>3. /\ today'.newCap = today.newCap /\ today'.revCap = today.revCap
      /\ today'.slipped = today.slipped /\ today'.shifted = today.shifted \cup {"toggle"}
      /\ HistoryInv'
  BY <1>1, <1>2 DEF HistoryInv
<1>4. Day(now)' = Day(now) /\ Today' = Today
  BY <1>1 DEF Today
<1>5. \A c \in Card : unseen(c)' => unseen(c)
  <2> DEFINE all == \A c \in note : ~unseen(c) /\ row[c].suspended
  <2>1. \A c \in Card : row'[c] = IF c \notin note THEN row[c]
                                  ELSE [settingsRow(row[c]) EXCEPT !.suspended = ~all]
    BY DEF ToggleSuspendCardsForNote
  <2> HIDE DEF all
  <2>2. ASSUME NEW c \in Card PROVE row[c] # NoRow => row'[c] # NoRow
    <3>1. CASE c \notin note
      BY <2>1, <3>1
    <3>2. CASE c \in note /\ row[c] # NoRow
      <4> DEFINE r == [row[c] EXCEPT !.suspended = ~all]
      <4>1. settingsRow(row[c]) = row[c]
        BY <3>2 DEF settingsRow
      <4>2. row'[c] = r
        BY <2>1, <3>2, <4>1
      <4>3. row[c] \in Row
        BY <3>2 DEF Inv, TypeInv
      <4>4. r.state = row[c].state /\ row[c].state \in 0 .. 3
        BY <4>3 DEF Row
      <4> HIDE DEF r
      <4> QED BY <4>2, <4>4 DEF NoRow
    <3> QED BY <3>1, <3>2
  <2> QED BY <2>2 DEF unseen
<1>6. today'.shifted # {} /\ ("edit" \notin today'.shifted => "edit" \notin today.shifted)
  BY <1>3
<1> QED BY <1>1, <1>3, <1>4, <1>5, <1>6, DisturbedKeepsCaps

LEMMA EditKeepsCaps ==
    ASSUME Inv, Inv', CapInv, NEW e, PostDeckEdit(e)
    PROVE  CapInv'
<1>1. /\ UNCHANGED <<now, row, log, queue, fetch, unsent>>
      /\ today' = [today EXCEPT !.shifted = @ \cup {"edit"}]
  BY DEF PostDeckEdit
<1>2. HistoryInv
  BY DEF CapInv
<1>3. /\ today'.newCap = today.newCap /\ today'.revCap = today.revCap
      /\ today'.slipped = today.slipped /\ today'.shifted = today.shifted \cup {"edit"}
      /\ HistoryInv'
  BY <1>1, <1>2 DEF HistoryInv
<1>4. Day(now)' = Day(now)
  BY <1>1
<1>5. today'.shifted # {} /\ "edit" \in today'.shifted
  BY <1>3
<1> QED BY <1>1, <1>3, <1>4, <1>5, DisturbedKeepsCaps

(* A new day starts with nothing served, and nothing booked.               *)
LEMMA TickKeepsCaps ==
    ASSUME Inv, Inv', CapInv, Tick
    PROVE  CapInv'
<1>1. /\ UNCHANGED <<preset, row, log, queue, fetch, unsent>> /\ now' = now + 1
      /\ today' = IF Day(now') = Day(now) THEN [today EXCEPT !.shifted = @ \cup {"tick"}]
                  ELSE Undisturbed
  BY DEF Tick
<1>2. HistoryInv /\ TypeInv /\ TypeInv' /\ LogInv /\ SlotInv /\ now \in Int
  BY NowIs DEF CapInv, Inv
<1>3. CASE Day(now') = Day(now)
  <2>1. /\ today'.newCap = today.newCap /\ today'.revCap = today.revCap
        /\ today'.slipped = today.slipped /\ today'.shifted = today.shifted \cup {"tick"}
        /\ HistoryInv'
    BY <1>1, <1>2, <1>3 DEF HistoryInv
  <2>2. Day(now)' = Day(now) /\ Today' = Today
    BY <1>1, <1>3 DEF Today, Day
  <2>3. \A c \in Card : unseen(c)' => unseen(c)
    BY <1>1 DEF unseen
  <2>4. today'.shifted # {} /\ ("edit" \notin today'.shifted => "edit" \notin today.shifted)
    BY <2>1
  <2> QED BY <1>1, <2>1, <2>2, <2>3, <2>4, DisturbedKeepsCaps
<1>4. CASE Day(now') # Day(now)
  <2>1. Day(now) < Day(now') /\ Day(now) \in Int /\ Day(now') \in Int /\ Day(now)' = Day(now')
    <3>1. now' \in Int /\ now <= now'
      BY <1>1, <1>2
    <3>2. Day(now) <= Day(now') /\ Day(now) \in Int /\ Day(now') \in Int
      BY <1>2, <3>1, DaysAre
    <3> QED BY <1>4, <3>2 DEF Day
  <2>2. /\ today'.newCap = 0 /\ today'.revCap = 0 /\ today'.slipped = {} /\ today'.shifted = {}
        /\ HistoryInv'
    BY <1>1, <1>4 DEF Undisturbed, HistoryInv
  <2> DEFINE d == Day(now')
  <2>3. \A b : LoggedOn(d, b) = {}
    <3> SUFFICES ASSUME NEW e \in log, e.day = d PROVE FALSE
      BY DEF LoggedOn
    <3>1. e.day <= Day(now) /\ e.day \in Int
      BY <1>2 DEF LogInv, TypeInv
    <3> QED BY <2>1, <3>1
  <2>4. \A i \in DOMAIN queue : queue[i].day \in Int /\ queue[i].day <= Day(now)
    <3>1. \A i \in DOMAIN queue : queue[i] \in Slots
      BY <1>2 DEF TypeInv
    <3> QED BY <1>2, <3>1 DEF SlotInv, Slots
  <2>5. \A i \in DOMAIN unsent : unsent[i].served \in Int /\ unsent[i].served <= Day(now)
    <3>1. \A i \in DOMAIN unsent : unsent[i] \in Grades
      BY <1>2 DEF TypeInv
    <3> QED BY <1>2, <3>1 DEF SlotInv, Grades
  <2>6. fetch.pc = "answered" =>
           \A i \in DOMAIN fetch.slots : fetch.slots[i].day \in Int /\ fetch.slots[i].day <= Day(now)
    <3> SUFFICES ASSUME fetch.pc = "answered"
                 PROVE  \A i \in DOMAIN fetch.slots : fetch.slots[i].day \in Int /\ fetch.slots[i].day <= Day(now)
      OBVIOUS
    <3>1. fetch.slots \in Seq(Slots)
      BY <1>2 DEF TypeInv, FetchInv, Idle
    <3>2. \A i \in DOMAIN fetch.slots : fetch.slots[i] \in Slots
      BY <3>1
    <3> QED BY <1>2, <3>2 DEF SlotInv, Slots
  <2>7. \A k : UnsentOn(d, k, unsent) = {} /\ QueuedOn(d, k, queue) = {}
    BY <2>1, <2>4, <2>5 DEF UnsentOn, QueuedOn, Pending
  <2>8. \A k : ListedOn(d, k, fetch, queue) = {}
    BY <2>1, <2>6 DEF ListedOn
  <2>9. Repeated(d, queue) = {}
    BY <2>1, <2>4 DEF Repeated, Pending
  <2>10. \A k : Held(k)' = {}
    <3>1. \A k : Held(k)' = HeldOn(d, k, unsent, queue, fetch)
      BY <1>1 DEF Held, HeldOn, UnsentOn, QueuedOn, ListedOn, Pending, CardsOf, Day
    <3> QED BY <2>7, <2>8, <3>1 DEF HeldOn
  <2>11. \A b : Logged(b)' = {} /\ Fair(b)' = {}
    <3>1. \A b : Logged(b)' = LoggedOn(d, b)
      BY <1>1 DEF Logged, LoggedOn, Day
    <3>2. \A b : Fair(b)' \subseteq Logged(b)'
      BY DEF Fair, Logged, LoggedOn
    <3> QED BY <2>3, <3>1, <3>2
  <2>12. \A pool, key : Kept(pool, key, {}, {}, 0)
    <3>1. Cardinality({}) = 0
      BY FS_EmptySet
    <3> QED BY <3>1 DEF Kept
  <2>13. NewKept' /\ DueKept'
    <3>1. NewOwed' = {} /\ NewBooked' = {} /\ DueOwed' = {} /\ DueBooked' = {}
      BY <2>10, <2>11 DEF NewOwed, NewBooked, DueOwed, DueBooked
    <3> QED BY <2>2, <2>12, <3>1 DEF NewKept, DueKept
  <2>14. CountInv'
    <3> SUFFICES ASSUME fetch.pc = "counted" PROVE Day(fetch.at) # d
      BY <1>1 DEF CountInv, Day
    <3>1. fetch.at \in Int /\ fetch.at <= now
      <4>1. fetch.at \in InitTick .. now
        BY <1>2 DEF TypeInv, FetchInv, Idle
      <4> QED BY <1>2, <4>1, NowIs
    <3>2. Day(fetch.at) <= Day(now) /\ Day(fetch.at) \in Int
      BY <1>2, <3>1, DaysAre
    <3> QED BY <2>1, <3>2
  <2>15. SlotInv'
    <3>1. /\ \A i \in DOMAIN queue : queue[i].day <= d
          /\ \A i \in DOMAIN unsent : unsent[i].served <= d
          /\ fetch.pc = "answered" => \A i \in DOMAIN fetch.slots : fetch.slots[i].day <= d
      BY <2>1, <2>4, <2>5, <2>6
    <3> HIDE DEF d
    <3>2. Day(now)' = d
      BY <2>1 DEF d
    <3> QED BY <1>1, <1>2, <3>1, <3>2 DEF SlotInv, Single, Pending
  <2>16. RepeatInv'
    <3>1. Repeated(Day(now), queue)' = Repeated(d, queue)
      BY <1>1 DEF Repeated, Pending, Day
    <3> QED BY <2>9, <3>1 DEF RepeatInv
  <2> QED BY <2>2, <2>13, <2>14, <2>15, <2>16 DEF CapInv
<1> QED BY <1>3, <1>4


(* Storing a grade: what was owed is booked, or slips.                     *)
LEMMA GradeBatchKeepsCaps ==
    ASSUME Inv, Inv', CapInv, GradeBatch
    PROVE  CapInv'
<1> DEFINE g == Head(unsent)
           x == g.card
           old == row[x]
           before == IF old = NoRow THEN 0 ELSE old.state
           fair == g.served = Day(g.at) /\ g.kind = old.state /\ g.kind # 0
           entry == [card |-> x, before |-> before, day |-> Day(g.at), fair |-> fair]
           slips == fetch.pc = "counted" \/ Day(g.at) # Day(now)
           d == Day(now)
<1>1. /\ unsent # <<>> /\ unsent' = Tail(unsent)
      /\ row' = [row EXCEPT ![x] = Scheduled(old, g)]
      /\ log' = log \cup {entry}
      /\ today' = IF slips THEN [today EXCEPT !.slipped = @ \cup {x}] ELSE today
      /\ UNCHANGED <<now, preset, queue, session, fetch, spent>>
  BY DEF GradeBatch
<1>2. TypeInv /\ TypeInv' /\ LogInv /\ HistoryInv /\ CountInv /\ SlotInv /\ unsent \in Seq(Grades)
  BY DEF Inv, TypeInv, CapInv
<1>3. g \in Grades /\ x \in Card /\ g.at \in Int
  <2>1. g \in Grades
    BY <1>1, <1>2
  <2> HIDE DEF g
  <2> QED BY <2>1 DEF Grades
<1>4. old \in Row \cup {NoRow}
  BY <1>2, <1>3 DEF TypeInv
<1>5. row'[x] # NoRow /\ row'[x].last = g.at /\ \A c \in Card : c # x => row'[c] = row[c]
  <2>1. Scheduled(old, g) # NoRow /\ Scheduled(old, g).last = g.at
    BY <1>3, <1>4, ScheduledIs
  <2> HIDE DEF old, g
  <2> QED BY <1>1, <1>2, <1>3, <2>1 DEF TypeInv
<1>6. /\ entry.card = x /\ entry.before = before /\ entry.day = Day(g.at) /\ entry.fair = fair
  OBVIOUS
<1>7. \A k : /\ UnsentOn(d, k, unsent') \subseteq UnsentOn(d, k, unsent)
             /\ UnsentOn(d, k, unsent) \subseteq UnsentOn(d, k, unsent') \cup
                   (IF g.kind = k /\ g.served = d THEN {x} ELSE {})
             /\ g.kind = k /\ g.served = d => x \in UnsentOn(d, k, unsent)
  BY <1>1, <1>2, UnsentShrinks
<1> HIDE DEF g, x, old, before, fair, entry
<1>8. \A b : /\ Logged(b) \subseteq Logged(b)' /\ Logged(b)' \subseteq Logged(b) \cup {x}
             /\ before = b /\ Day(g.at) = d => x \in Logged(b)'
             /\ Fair(b)' \subseteq Fair(b) \cup {x}
             /\ x \in Fair(b)' /\ x \notin Fair(b) => before = b /\ Day(g.at) = d /\ fair
  <2> SUFFICES ASSUME NEW b
               PROVE  /\ Logged(b) \subseteq Logged(b)' /\ Logged(b)' \subseteq Logged(b) \cup {x}
                      /\ before = b /\ Day(g.at) = d => x \in Logged(b)'
                      /\ Fair(b)' \subseteq Fair(b) \cup {x}
                      /\ x \in Fair(b)' /\ x \notin Fair(b) => before = b /\ Day(g.at) = d /\ fair
    OBVIOUS
  <2>1. Day(now)' = d
    BY <1>1
  <2>2. \A c : c \in Logged(b) <=> \E e \in log : e.before = b /\ e.day = d /\ e.card = c
    BY DEF Logged, LoggedOn
  <2>3. \A c : c \in Logged(b)' <=> \E e \in log' : e.before = b /\ e.day = d /\ e.card = c
    BY <2>1 DEF Logged, LoggedOn
  <2>4. \A c : c \in Fair(b) <=> \E e \in log : e.before = b /\ e.day = d /\ e.fair /\ e.card = c
    BY DEF Fair
  <2>5. \A c : c \in Fair(b)' <=> \E e \in log' : e.before = b /\ e.day = d /\ e.fair /\ e.card = c
    BY <2>1 DEF Fair
  <2> QED BY <1>1, <1>6, <2>2, <2>3, <2>4, <2>5
<1>9. Today' = Today /\ Day(now)' = d
  BY <1>1 DEF Today
<1>10. \A k : Held(k)' \subseteq Held(k)
  <2>1. \A k : Held(k)' = HeldOn(d, k, unsent', queue, fetch)
    BY <1>1 DEF Held, HeldOn, UnsentOn, QueuedOn, ListedOn, Pending, CardsOf, Day
  <2> QED BY <1>7, <2>1 DEF Held, HeldOn
<1>11. /\ today'.newCap = today.newCap /\ today'.revCap = today.revCap
       /\ today'.shifted = today.shifted
       /\ today'.slipped = IF slips THEN today.slipped \cup {x} ELSE today.slipped
       /\ HistoryInv'
  BY <1>1, <1>2, <1>3 DEF HistoryInv
<1>12. /\ today.newCap <= today'.newCap /\ today.revCap <= today'.revCap
       /\ today.newCap \in Nat /\ today.revCap \in Nat
  BY <1>2, <1>11 DEF HistoryInv
<1>13. ~ slips => Day(g.at) = d /\ fetch.pc # "counted"
  OBVIOUS
<1> HIDE DEF slips
<1>14. /\ \A c \in Card : c # x => (unseen(c)' <=> unseen(c))
       /\ \A c \in Card : unseen(c)' => c # x
  BY <1>5 DEF unseen
<1>15. NewCards(Today)' = NewCards(Today) \ {x}
  BY <1>9, <1>14 DEF NewCards
<1>16. \A c \in Card : c # x => /\ c \in DueCards(Today, now)' <=> c \in DueCards(Today, now)
                                /\ DueOrder'[c] = DueOrder[c]
  <2> SUFFICES ASSUME NEW c \in Card, c # x
               PROVE  /\ c \in DueCards(Today, now)' <=> c \in DueCards(Today, now)
                      /\ DueOrder'[c] = DueOrder[c]
    OBVIOUS
  <2>1. row'[c] = row[c] /\ now' = now
    BY <1>1, <1>5
  <2>2. c \in DueCards(Today, now)' <=> c \in DueCards(Today, now)
    BY <1>9, <2>1 DEF DueCards, ReadyCards, Ready, unseen
  <2>3. RevKey(Today.order, now, c)' = RevKey(Today.order, now, c)
    BY <1>9, <2>1 DEF RevKey, revKey
  <2> QED BY <2>2, <2>3 DEF DueOrder
<1>17. \A c \in DueCards(Today, now)' : c \in Card
  BY DEF DueCards, ReadyCards
<1>18. Day(g.at) = d => x \notin DueCards(Today, now)'
  <2> SUFFICES ASSUME Day(g.at) = d, x \in DueCards(Today, now)' PROVE FALSE
    OBVIOUS
  <2>1. row'[x].last < DayStart(now)
    BY <1>1, <1>9 DEF DueCards, ReadyCards, Ready
  <2>2. Day(g.at) < d /\ Day(g.at) \in Int
    BY <1>2, <1>3, <1>5, <2>1, NowIs, DaysAre
  <2> QED BY <2>2
<1>19. NewPool \subseteq Card /\ DuePool \subseteq Card /\ NewOrder' = NewOrder
  BY SetsAre DEF NewPool, DuePool, NewOrder, NewKey, newCardKey
<1>20. \A k : Held(k) \subseteq Card
  BY <1>2, HeldAreCards DEF Held
<1>21. ASSUME "edit" \notin today'.shifted, x \in today'.slipped PROVE NewKept'
  <2>1. NewKept
    BY <1>11, <1>21 DEF CapInv
  <2>2. \A c : c \notin today'.slipped => c # x /\ c \notin today.slipped
    BY <1>11, <1>21
  <2>3. NewPool' \subseteq NewPool
    BY <1>15, <2>2 DEF NewPool
  <2>4. NewBooked' \subseteq NewBooked
    BY <1>8, <2>2 DEF NewBooked
  <2>5. NewOwed' \subseteq NewOwed
    BY <1>10, <1>14, <1>20, <2>2 DEF NewOwed
  <2>6. NewOwed' \subseteq NewPool'
    <3>1. \A c \in NewOwed' : c \in NewPool /\ c \notin today'.slipped
      BY <2>1, <2>5 DEF NewKept, Kept, NewOwed
    <3> QED BY <1>15, <2>2, <3>1 DEF NewPool
  <2> QED BY <1>2, <1>11, <1>12, <2>1, <2>3, <2>4, <2>5, <2>6, NewStays
<1>22. ASSUME "edit" \notin today'.shifted, x \notin today'.slipped PROVE NewKept'
  <2>1. Kept(NewPool, NewOrder, NewOwed, NewBooked, today.newCap)
    BY <1>11, <1>22 DEF CapInv, NewKept
  <2>2. ~ slips /\ today'.slipped = today.slipped /\ x \notin today.slipped
    BY <1>11, <1>22
  <2>3. NewPool' = NewPool \ {x}
    BY <1>15, <2>2 DEF NewPool
  <2>4. NewOwed' \subseteq NewOwed \ {x}
    BY <1>10, <1>14, <1>20, <2>2 DEF NewOwed
  <2>5. NewBooked' \subseteq NewBooked \cup {x}
    BY <1>8, <2>2 DEF NewBooked
  <2>6. CASE x \in NewBooked' /\ x \notin NewBooked
    <3>1. before = 0 /\ fair /\ Day(g.at) = d
      BY <1>8, <2>2, <2>6 DEF NewBooked
    <3>2. g.served = d /\ g.kind = old.state /\ g.kind # 0
      BY <3>1 DEF fair
    <3>3. old = NoRow
      BY <1>4, <3>1, <3>2 DEF before, Row
    <3>4. g.kind = -1
      BY <3>2, <3>3 DEF NoRow
    <3>5. unseen(x)
      BY <3>3 DEF unseen, old
    <3>6. x \in Held(-1)
      BY <1>7, <3>2, <3>4 DEF Held, HeldOn
    <3>7. x \in NewOwed
      BY <2>2, <3>5, <3>6 DEF NewOwed
    <3>8. Keyed(NewPool, NewOrder) /\ IsFiniteSet(NewBooked)
      BY <1>2, PoolsAre
    <3>9. \A c \in NewPool \ {x} : NewOrder'[c] = NewOrder[c]
      BY <1>19
    <3>10. Kept(NewPool \ {x}, NewOrder', NewOwed', NewBooked', today.newCap)
      BY <1>12, <2>1, <2>4, <2>5, <3>7, <3>8, <3>9, KeptBooks
    <3> QED BY <1>11, <2>3, <3>10 DEF NewKept
  <2>7. CASE ~ (x \in NewBooked' /\ x \notin NewBooked)
    <3>1. NewBooked' \subseteq NewBooked
      BY <2>5, <2>7
    <3>2. NewOwed' \subseteq NewPool'
      BY <2>1, <2>3, <2>4 DEF Kept
    <3>3. NewKept
      BY <2>1 DEF NewKept
    <3>4. NewPool' \subseteq NewPool /\ NewOwed' \subseteq NewOwed
      BY <2>3, <2>4
    <3> QED BY <1>2, <1>11, <1>12, <3>1, <3>2, <3>3, <3>4, NewStays
  <2> QED BY <2>6, <2>7
<1>23. ASSUME today'.shifted = {}, x \in today'.slipped PROVE DueKept'
  <2>1. DueKept
    BY <1>11, <1>23 DEF CapInv
  <2>2. \A c : c \notin today'.slipped => c # x /\ c \notin today.slipped
    BY <1>11, <1>23
  <2>3. DuePool' \subseteq DuePool
    BY <1>16, <1>17, <2>2 DEF DuePool
  <2>4. DueBooked' \subseteq DueBooked
    BY <1>8, <1>10, <2>2 DEF DueBooked
  <2>5. DueOwed' \subseteq DueOwed
    BY <1>8, <1>10, <2>2 DEF DueOwed
  <2>6. DueOwed' \subseteq DuePool'
    <3>1. \A c \in DueOwed' : c \in DuePool /\ c \notin today'.slipped
      BY <2>1, <2>5 DEF DueKept, Kept, DueOwed
    <3> QED BY <1>16, <1>19, <2>2, <3>1 DEF DuePool
  <2>7. \A c \in DuePool' : DueOrder'[c] = DueOrder[c]
    BY <1>16, <1>17, <2>2 DEF DuePool
  <2> QED BY <1>2, <1>11, <1>12, <2>1, <2>3, <2>4, <2>5, <2>6, <2>7, DueStays
<1>24. ASSUME today'.shifted = {}, x \in Held(2), x \notin Logged(2), x \notin today'.slipped
       PROVE  x \in DueOwed /\ x \in Logged(2)'
  <2>1. DueKept
    BY <1>11, <1>24 DEF CapInv
  <2>2. ~ slips /\ today'.slipped = today.slipped
    BY <1>11, <1>24
  <2>3. x \in DueOwed
    BY <1>24, <2>2 DEF DueOwed
  <2>4. x \in DueCards(Today, now)
    BY <2>1, <2>3 DEF DueKept, Kept, DuePool
  <2>5. old # NoRow /\ old.state = 2
    BY <2>4 DEF DueCards, ReadyCards, unseen, old
  <2>6. before = 2
    BY <2>5 DEF before
  <2> QED BY <1>8, <1>13, <2>2, <2>3, <2>6
<1>25. ASSUME today'.shifted = {}, x \notin today'.slipped PROVE DueKept'
  <2>1. Kept(DuePool, DueOrder, DueOwed, DueBooked, today.revCap)
    BY <1>11, <1>25 DEF CapInv, DueKept
  <2>2. ~ slips /\ today'.slipped = today.slipped /\ x \notin today.slipped /\ Day(g.at) = d
    BY <1>11, <1>13, <1>25
  <2>3. DuePool' = DuePool \ {x}
    BY <1>16, <1>17, <1>18, <1>19, <2>2 DEF DuePool
  <2>4. DueOwed' \subseteq DueOwed \ {x}
    <3>1. x \notin DueOwed'
      BY <1>8, <1>10, <1>24, <1>25 DEF DueOwed
    <3>2. DueOwed' \subseteq DueOwed
      BY <1>8, <1>10, <2>2 DEF DueOwed
    <3> QED BY <3>1, <3>2
  <2>5. DueBooked' \subseteq DueBooked \cup {x}
    BY <1>8, <1>10, <2>2 DEF DueBooked
  <2>6. \A c \in DuePool \ {x} : DueOrder'[c] = DueOrder[c]
    BY <1>16, <1>19
  <2>7. CASE x \in DueBooked' /\ x \notin DueBooked
    <3>1. x \in Fair(2)' \/ x \in Held(2)'
      BY <2>7 DEF DueBooked
    <3>2. x \notin Fair(2)
      BY <2>2, <2>7 DEF DueBooked
    <3>3. x \in Held(2)
      <4>1. CASE x \in Fair(2)'
        <5>1. before = 2 /\ fair
          BY <1>8, <3>2, <4>1
        <5>2. g.served = d /\ g.kind = 2
          BY <2>2, <5>1 DEF fair, before
        <5> QED BY <1>7, <5>2 DEF Held, HeldOn
      <4>2. CASE x \in Held(2)'
        BY <1>10, <4>2
      <4> QED BY <3>1, <4>1, <4>2
    <3>4. x \notin Logged(2)
      BY <2>2, <2>7, <3>3 DEF DueBooked
    <3>5. x \in DueOwed
      BY <1>24, <1>25, <3>3, <3>4
    <3>6. Keyed(DuePool, DueOrder) /\ IsFiniteSet(DueBooked)
      BY <1>2, PoolsAre
    <3>7. Kept(DuePool \ {x}, DueOrder', DueOwed', DueBooked', today.revCap)
      BY <1>12, <2>1, <2>4, <2>5, <2>6, <3>5, <3>6, KeptBooks
    <3> QED BY <1>11, <2>3, <3>7 DEF DueKept
  <2>8. CASE ~ (x \in DueBooked' /\ x \notin DueBooked)
    <3>1. DueBooked' \subseteq DueBooked
      BY <2>5, <2>8
    <3>2. DueOwed' \subseteq DuePool'
      BY <2>1, <2>3, <2>4 DEF Kept
    <3>3. DueKept
      BY <2>1 DEF DueKept
    <3>4. /\ DuePool' \subseteq DuePool /\ DueOwed' \subseteq DueOwed
          /\ \A c \in DuePool' : DueOrder'[c] = DueOrder[c]
      BY <2>3, <2>4, <2>6
    <3> QED BY <1>2, <1>11, <1>12, <3>1, <3>2, <3>3, <3>4, DueStays
  <2> QED BY <2>7, <2>8
<1>26. CountInv'
  <2>1. ASSUME fetch.pc = "counted"
        PROVE  \A b : Logged(b)' \ today'.slipped \subseteq Logged(b) \ today.slipped
    <3>1. x \in today'.slipped /\ today.slipped \subseteq today'.slipped
      BY <1>11, <1>13, <2>1
    <3> QED BY <1>8, <3>1
  <2> QED BY <1>1, <1>2, <1>9, <1>11, <2>1, CountsStay
<1>27. SlotInv'
  <2>1. \A i \in DOMAIN unsent' : \E j \in DOMAIN unsent : unsent'[i] = unsent[j]
    <3>1. /\ DOMAIN unsent = 1 .. Len(unsent) /\ DOMAIN unsent' = 1 .. Len(unsent) - 1
          /\ Len(unsent) \in Nat /\ \A i \in 1 .. Len(unsent) - 1 : unsent'[i] = unsent[i + 1]
      BY <1>1, <1>2
    <3> SUFFICES ASSUME NEW i \in DOMAIN unsent'
                 PROVE  \E j \in DOMAIN unsent : unsent'[i] = unsent[j]
      OBVIOUS
    <3>2. i + 1 \in DOMAIN unsent /\ unsent'[i] = unsent[i + 1]
      BY <3>1
    <3> QED BY <3>2
  <2>2. \A i \in DOMAIN unsent' : unsent'[i].served <= d
    BY <1>2, <2>1 DEF SlotInv
  <2> QED BY <1>1, <1>2, <1>9, <2>2 DEF SlotInv, Single, Pending
<1>28. ASSUME today'.shifted = {} PROVE RepeatInv'
  <2>1. RepeatInv
    BY <1>11, <1>28 DEF CapInv
  <2>2. Repeated(d, queue)' = Repeated(d, queue) /\ UnsentOn(d, 2, unsent)' = UnsentOn(d, 2, unsent')
    BY <1>1, <1>9 DEF Repeated, UnsentOn, Pending
  <2>3. ASSUME NEW c \in Repeated(d, queue)
        PROVE  c \in UnsentOn(d, 2, unsent') \cup Logged(2)' \cup today'.slipped
    <3>1. c \in UnsentOn(d, 2, unsent) \/ c \in Logged(2) \/ c \in today.slipped
      BY <2>1 DEF RepeatInv
    <3>2. CASE c \in Logged(2) \/ c \in today.slipped
      BY <1>8, <1>11, <3>2
    <3>3. CASE c \in UnsentOn(d, 2, unsent) /\ c # x
      BY <1>7, <3>3
    <3>4. CASE c \in UnsentOn(d, 2, unsent) /\ c = x
      <4>1. x \in Held(2)
        BY <3>4 DEF Held, HeldOn
      <4> QED BY <1>8, <1>24, <1>28, <3>4, <4>1
    <3> QED BY <3>1, <3>2, <3>3, <3>4
  <2>4. Repeated(Day(now), queue)' \subseteq Repeated(d, queue)
    BY <1>9, <2>2
  <2>5. UnsentOn(Day(now), 2, unsent)' = UnsentOn(d, 2, unsent')
    BY <1>9, <2>2
  <2> QED BY <2>3, <2>4, <2>5 DEF RepeatInv
<1> QED BY <1>11, <1>21, <1>22, <1>23, <1>25, <1>26, <1>27, <1>28 DEF CapInv


LEMMA InitCaps == Init => CapInv
<1> SUFFICES ASSUME Init PROVE CapInv
  OBVIOUS
<1>1. /\ log = {} /\ queue = <<>> /\ unsent = <<>> /\ fetch = Idle /\ today = Undisturbed
  BY DEF Init
<1>2. /\ today.newCap = 0 /\ today.revCap = 0 /\ today.slipped = {} /\ today.shifted = {}
      /\ HistoryInv
  BY <1>1 DEF Undisturbed, HistoryInv
<1>3. fetch.pc = "idle"
  BY <1>1 DEF Idle
<1>4. \A d, k : UnsentOn(d, k, unsent) = {} /\ QueuedOn(d, k, queue) = {}
                /\ ListedOn(d, k, fetch, queue) = {}
  <2>1. DOMAIN unsent = {}
    BY <1>1
  <2> QED BY <1>1, <1>3, <2>1, NothingHeld DEF UnsentOn
<1>5. \A k : Held(k) = {}
  BY <1>4 DEF Held, HeldOn
<1>6. \A b : Logged(b) = {} /\ Fair(b) = {}
  BY <1>1 DEF Logged, LoggedOn, Fair
<1>7. NewKept /\ DueKept
  <2>1. NewOwed = {} /\ NewBooked = {} /\ DueOwed = {} /\ DueBooked = {}
    BY <1>5, <1>6 DEF NewOwed, NewBooked, DueOwed, DueBooked
  <2>2. Cardinality({}) = 0
    BY FS_EmptySet
  <2> QED BY <1>2, <2>1, <2>2 DEF NewKept, DueKept, Kept
<1>8. CountInv
  BY <1>3 DEF CountInv
<1>9. SlotInv
  <2>1. DOMAIN queue = {} /\ DOMAIN unsent = {} /\ Single(queue)
    BY <1>1, NothingHeld
  <2> QED BY <1>3, <2>1 DEF SlotInv
<1>10. RepeatInv
  BY <1>1, NothingHeld DEF RepeatInv
<1> QED BY <1>2, <1>7, <1>8, <1>9, <1>10 DEF CapInv

LEMMA NextKeepsCaps ==
    ASSUME Inv, Inv', CapInv, [Next]_vars
    PROVE  CapInv'
<1>1. CASE GetReview
  BY <1>1, OpenPageKeepsCaps DEF GetReview
<1>2. CASE GetStudy
  BY <1>2, OpenPageKeepsCaps DEF GetStudy
<1>3. CASE ReadCounts
  BY <1>3, ReadCountsKeepsCaps
<1>4. CASE ListCards
  BY <1>4, ListCardsKeepsCaps
<1>5. CASE RespondReview \/ RespondStudy \/ onAfterSwap
  BY <1>5, RespondKeepsCaps
<1>6. CASE LoseRefill
  <2>1. fetch'.pc \notin {"counted", "answered"}
        /\ UNCHANGED <<now, preset, row, log, queue, unsent, today>>
    BY <1>6, RequestIs DEF LoseRefill
  <2> QED BY <2>1, SameSlotsKeepCaps
<1>7. CASE GradeBatch
  BY <1>7, GradeBatchKeepsCaps
<1>8. CASE onStudyMoreClick
  <2>1. fetch'.pc \notin {"counted", "answered"}
        /\ UNCHANGED <<now, preset, row, log, queue, unsent, today>>
    BY <1>8, RequestIs DEF onStudyMoreClick
  <2> QED BY <2>1, SameSlotsKeepCaps
<1>9. CASE Tick
  BY <1>9, TickKeepsCaps
<1>10. CASE \E rating \in Rating, ahead \in 3 .. MaxSlots : grade(rating, ahead)
  BY <1>10, GradeKeepsCaps
<1>11. CASE \E what \in {"suspend", "bury", "flag"} : sendCardState(what)
  BY <1>11, SendCardStateKeepsCaps
<1>12. CASE \E note \in Notes : ToggleSuspendCardsForNote(note)
  BY <1>12, ToggleKeepsCaps
<1>13. CASE \E e \in Edit : PostDeckEdit(e)
  BY <1>13, EditKeepsCaps
<1>14. CASE UNCHANGED vars
  <2>1. UNCHANGED <<now, preset, row, log, queue, unsent, today>> /\ fetch' = fetch
    BY <1>14 DEF vars
  <2> QED BY <2>1, SameSlotsKeepCaps
<1> QED BY <1>1, <1>2, <1>3, <1>4, <1>5, <1>6, <1>7, <1>8, <1>9, <1>10, <1>11, <1>12, <1>13, <1>14
        DEF Next

(* What is booked is within the cap but for what slipped. *)
LEMMA CapsFollow ==
    ASSUME TypeInv, CapInv
    PROVE  CapsHoldUpToOverlap
<1>1. HistoryInv
  BY DEF CapInv
<1>2. /\ today.newCap \in Nat /\ today.revCap \in Nat
      /\ IsFiniteSet(today.slipped) /\ Cardinality(today.slipped) \in Nat
  BY <1>1, PoolsAre, FS_CardinalityType DEF HistoryInv
<1>3. ASSUME NEW b, NEW booked, Fair(b) \ today.slipped \subseteq booked, IsFiniteSet(booked),
             NEW cap \in Nat, Cardinality(booked) <= cap
      PROVE  Cardinality(Fair(b)) <= cap + Cardinality(today.slipped)
  <2>1. Fair(b) \subseteq booked \cup today.slipped
    BY <1>3
  <2>2. /\ IsFiniteSet(booked \cup today.slipped)
        /\ Cardinality(booked \cup today.slipped)
              = Cardinality(booked) + Cardinality(today.slipped)
                   - Cardinality(booked \cap today.slipped)
    BY <1>2, <1>3, FS_Union
  <2>3. Cardinality(booked \cap today.slipped) \in Nat /\ Cardinality(booked) \in Nat
    BY <1>2, <1>3, FS_Intersection, FS_CardinalityType
  <2>4. /\ Cardinality(Fair(b)) \in Nat
        /\ Cardinality(Fair(b)) <= Cardinality(booked \cup today.slipped)
    BY <2>1, <2>2, FS_Subset, FS_CardinalityType
  <2> QED BY <1>2, <1>3, <2>2, <2>3, <2>4
<1>4. NewCapUpToOverlap
  <2> SUFFICES ASSUME "edit" \notin today.shifted
               PROVE  Cardinality(Fair(0)) <= today.newCap + Cardinality(today.slipped)
    BY DEF NewCapUpToOverlap
  <2>1. Cardinality(NewBooked) <= today.newCap /\ IsFiniteSet(NewBooked)
    BY <1>1, PoolsAre DEF CapInv, NewKept, Kept
  <2>2. Fair(0) \ today.slipped \subseteq NewBooked
    BY DEF NewBooked
  <2> QED BY <1>2, <1>3, <2>1, <2>2
<1>5. DueCapUpToOverlap
  <2> SUFFICES ASSUME today.shifted = {}
               PROVE  Cardinality(Fair(2)) <= today.revCap + Cardinality(today.slipped)
    BY DEF DueCapUpToOverlap
  <2>1. Cardinality(DueBooked) <= today.revCap /\ IsFiniteSet(DueBooked)
    BY <1>1, PoolsAre DEF CapInv, DueKept, Kept
  <2>2. Fair(2) \ today.slipped \subseteq DueBooked
    BY DEF DueBooked
  <2> QED BY <1>2, <1>3, <2>1, <2>2
<1> QED BY <1>4, <1>5 DEF CapsHoldUpToOverlap

(* The day's limits hold: the cards introduced, and the cards reviewed, in a *)
(* study day out of those served in it are no more than the deck's limit and *)
(* the cards whose grade or mark overlapped a request, over all pages,      *)
(* refills, reloads and late grades (newCutoff and revCutoff cut by rank    *)
(* over every eligible card, study.sql).                                   *)
THEOREM CapsHold == Spec => []CapsHoldUpToOverlap
<1>1. Init => CapInv
  BY InitCaps
<1>2. Inv /\ Inv' /\ CapInv /\ [Next]_vars => CapInv'
  BY NextKeepsCaps
<1>3. Inv /\ CapInv => CapsHoldUpToOverlap
  BY CapsFollow DEF Inv
<1> QED BY <1>1, <1>2, <1>3, InvHolds, PTL DEF Spec
-----------------------------------------------------------------------------
(* The class calendar: the gate, which counts weeks, and the walk over the  *)
(* calendar, which finds dates, are the same count of the same meetings.    *)

Proper(cal) ==
    /\ Configured(cal) /\ cal.weekdays \subseteq 1 .. 7 /\ Dated(cal)

Meetings(cal, from, to) == {d \in from .. to : meets(cal, d) /\ ~skipped(cal, d)}
OnWeekdays(cal, from, to) == {d \in from .. to : meets(cal, d)}

(* Each whole week holds one meeting for each weekday.                      *)
LEMMA WeekIs ==
    ASSUME NEW cal, Proper(cal), NEW a \in Int
    PROVE  /\ IsFiniteSet(cal.weekdays) /\ Cardinality(cal.weekdays) \in Nat \ {0}
           /\ IsFiniteSet(OnWeekdays(cal, a, a + 6))
           /\ Cardinality(OnWeekdays(cal, a, a + 6)) = Cardinality(cal.weekdays)
<1> DEFINE W == cal.weekdays
           S == OnWeekdays(cal, a, a + 6)
           f == [d \in S |-> isoWeekday(d)]
<1>1. IsFiniteSet(W) /\ Cardinality(W) \in Nat /\ Cardinality(W) # 0
  <2>1. IsFiniteSet(1 .. 7)
    <3>1. 1 \in Int /\ 7 \in Int
      OBVIOUS
    <3> QED BY <3>1, FS_Interval
  <2> QED BY <2>1, FS_Subset, FS_EmptySet, FS_CardinalityType DEF Proper, Configured
<1>2. IsFiniteSet(S)
  <2>1. IsFiniteSet(a .. a + 6) /\ S \subseteq a .. a + 6
    BY FS_Interval DEF OnWeekdays
  <2> QED BY <2>1, FS_Subset
<1>3. f \in [S -> W]
  BY DEF OnWeekdays, meets
<1>4. \A c, d \in S : f[c] = f[d] => c = d
  <2> SUFFICES ASSUME NEW c \in S, NEW d \in S, isoWeekday(c) = isoWeekday(d) PROVE c = d
    OBVIOUS
  <2>1. c \in Int /\ d \in Int /\ a <= c /\ c <= a + 6 /\ a <= d /\ d <= a + 6
    BY DEF OnWeekdays
  <2>2. c % 7 = d % 7
    BY <2>1 DEF isoWeekday
  <2> HIDE DEF S
  <2> QED BY <2>1, <2>2
<1>5. ASSUME NEW w \in W PROVE \E d \in S : f[d] = w
  <2>1. w \in 1 .. 7
    BY DEF Proper
  <2>2. PICK d \in a .. a + 6 : d % 7 = w - 1
    <3> DEFINE e == a + ((w - 1 - a) % 7)
    <3>1. e \in a .. a + 6 /\ e % 7 = w - 1
      BY <2>1
    <3> QED BY <3>1
  <2>3. isoWeekday(d) = w
    BY <2>1, <2>2 DEF isoWeekday
  <2>4. d \in S
    BY <2>3 DEF OnWeekdays, meets
  <2> QED BY <2>3, <2>4
<1>6. f \in Bijection(S, W)
  <2> HIDE DEF S, f
  <2> QED BY <1>3, <1>4, <1>5 DEF Bijection, Injection, Surjection, IsInjective
<1>7. Cardinality(W) = Cardinality(S)
  BY <1>2, <1>6, FS_Bijection DEF ExistsBijection
<1> QED BY <1>1, <1>2, <1>7

LEMMA WeekdaysSplit ==
    ASSUME NEW cal, NEW a \in Int, NEW b \in Int, NEW c \in Int, a <= b + 1, b <= c
    PROVE  /\ IsFiniteSet(OnWeekdays(cal, a, b)) /\ Cardinality(OnWeekdays(cal, a, b)) \in Nat
           /\ IsFiniteSet(OnWeekdays(cal, b + 1, c))
           /\ Cardinality(OnWeekdays(cal, b + 1, c)) \in Nat
           /\ OnWeekdays(cal, a, c) = OnWeekdays(cal, a, b) \cup OnWeekdays(cal, b + 1, c)
           /\ IsFiniteSet(OnWeekdays(cal, a, c))
           /\ Cardinality(OnWeekdays(cal, a, c))
                 = Cardinality(OnWeekdays(cal, a, b)) + Cardinality(OnWeekdays(cal, b + 1, c))
<1> DEFINE S == OnWeekdays(cal, a, b)
           T == OnWeekdays(cal, b + 1, c)
<1>1. /\ IsFiniteSet(S) /\ Cardinality(S) \in Nat /\ IsFiniteSet(T) /\ Cardinality(T) \in Nat
  <2>1. IsFiniteSet(a .. b) /\ IsFiniteSet(b + 1 .. c)
    BY FS_Interval
  <2>2. S \subseteq a .. b /\ T \subseteq b + 1 .. c
    BY DEF OnWeekdays
  <2> QED BY <2>1, <2>2, FS_Subset, FS_CardinalityType
<1>2. S \cap T = {}
  BY DEF OnWeekdays
<1>3. OnWeekdays(cal, a, c) = S \cup T
  BY DEF OnWeekdays
<1>4. IsFiniteSet(S \cup T) /\ Cardinality(S \cup T) = Cardinality(S) + Cardinality(T) - 0
  BY <1>1, <1>2, FS_Union, FS_EmptySet
<1> QED BY <1>1, <1>3, <1>4

LEMMA WeeksAre ==
    ASSUME NEW cal, Proper(cal), NEW a \in Int, NEW w \in Nat
    PROVE  /\ IsFiniteSet(OnWeekdays(cal, a, a + 7 * w - 1))
           /\ Cardinality(OnWeekdays(cal, a, a + 7 * w - 1)) = w * Cardinality(cal.weekdays)
<1> DEFINE k == Cardinality(cal.weekdays)
           S(n) == OnWeekdays(cal, a, a + 7 * n - 1)
           Wrong == {n \in Nat : Cardinality(S(n)) # n * k}
<1>1. k \in Nat
  BY WeekIs
<1>2. ASSUME NEW n \in Nat PROVE IsFiniteSet(S(n))
  <2>1. IsFiniteSet(a .. a + 7 * n - 1) /\ S(n) \subseteq a .. a + 7 * n - 1
    BY FS_Interval DEF OnWeekdays
  <2> QED BY <2>1, FS_Subset
<1>3. Cardinality(S(0)) = 0 * k
  <2>1. S(0) = {}
    BY DEF OnWeekdays
  <2>2. Cardinality(S(0)) = 0
    BY <2>1, FS_EmptySet
  <2> HIDE DEF k
  <2>3. 0 * k = 0
    BY <1>1
  <2> QED BY <2>2, <2>3
<1>4. ASSUME NEW n \in Nat, Cardinality(S(n)) = n * k
      PROVE  Cardinality(S(n + 1)) = (n + 1) * k
  <2> DEFINE b == a + 7 * n - 1
             c == a + 7 * (n + 1) - 1
  <2>1. b \in Int /\ c \in Int /\ a <= b + 1 /\ b <= c /\ b + 1 \in Int /\ c = (b + 1) + 6
    OBVIOUS
  <2>2. Cardinality(OnWeekdays(cal, a, c))
           = Cardinality(OnWeekdays(cal, a, b)) + Cardinality(OnWeekdays(cal, b + 1, c))
    <3> HIDE DEF b, c
    <3> QED BY <2>1, WeekdaysSplit
  <2>3. Cardinality(OnWeekdays(cal, b + 1, c)) = k
    <3> HIDE DEF b, c
    <3> QED BY <2>1, WeekIs
  <2>4. Cardinality(S(n + 1)) = n * k + k
    BY <1>4, <2>2, <2>3
  <2>5. n * k + k = (n + 1) * k
    BY <1>1
  <2> QED BY <2>4, <2>5
<1>5. Wrong = {}
  <2> SUFFICES ASSUME Wrong # {} PROVE FALSE
    OBVIOUS
  <2> DEFINE n == Least(Wrong)
  <2>1. n \in Wrong /\ \A y \in Wrong : n <= y
    BY LeastIs
  <2>2. n \in Nat /\ n # 0 /\ Cardinality(S(n)) # n * k
    BY <1>3, <2>1
  <2> HIDE DEF n
  <2>3. n - 1 \in Nat /\ ~(n <= n - 1) /\ (n - 1) + 1 = n
    BY <2>2
  <2>4. Cardinality(S(n - 1)) = (n - 1) * k
    BY <2>1, <2>3
  <2>5. Cardinality(S((n - 1) + 1)) = ((n - 1) + 1) * k
    BY <1>4, <2>3, <2>4
  <2> QED BY <2>2, <2>3, <2>5
<1> QED BY <1>2, <1>5

(* The gate counts the meetings up to and including the day.                *)
LEMMA ClassDayIs ==
    ASSUME NEW cal, Proper(cal), NEW day \in Int
    PROVE  /\ IsFiniteSet(Meetings(cal, cal.start, day))
           /\ Cardinality(Meetings(cal, cal.start, day)) \in Nat
           /\ CurrentClassDay(cal, day) = Cardinality(Meetings(cal, cal.start, day))
<1> DEFINE a == cal.start
           M == Meetings(cal, a, day)
<1>1. a \in Int /\ Configured(cal) /\ cal.skip \subseteq Int /\ IsFiniteSet(cal.skip)
  BY DEF Proper, Dated
<1>2. IsFiniteSet(M) /\ Cardinality(M) \in Nat
  <2>1. IsFiniteSet(a .. day) /\ M \subseteq a .. day
    BY <1>1, FS_Interval DEF Meetings
  <2> QED BY <2>1, FS_Subset, FS_CardinalityType
<1>3. CASE day < a
  <2>1. M = {}
    BY <1>1, <1>3 DEF Meetings
  <2>2. CurrentClassDay(cal, day) = 0
    BY <1>3 DEF CurrentClassDay
  <2> QED BY <1>2, <2>1, <2>2, FS_EmptySet
<1>4. CASE ~(day < a)
  <2> DEFINE total == day - a + 1
             weeks == total \div 7
             b == a + 7 * weeks - 1
             tail == (a + 7 * weeks) .. (a + total - 1)
             lost == {s \in cal.skip : a <= s /\ s <= day /\ meets(cal, s)}
  <2>1. /\ weeks \in Nat /\ b \in Int /\ a <= b + 1 /\ b <= day
        /\ b + 1 = a + 7 * weeks /\ day = a + total - 1
    <3>1. total \in Nat
      BY <1>1, <1>4
    <3>2. weeks \in Nat /\ 7 * weeks <= total
      BY <3>1
    <3> QED BY <1>1, <3>1, <3>2
  <2>2. CurrentClassDay(cal, day)
           = weeks * Cardinality(cal.weekdays)
                + Cardinality({d \in tail : meets(cal, d)}) - Cardinality(lost)
    BY <1>1, <1>4 DEF CurrentClassDay
  <2>3. {d \in tail : meets(cal, d)} = OnWeekdays(cal, b + 1, day)
    BY <2>1 DEF OnWeekdays
  <2>4. Cardinality(OnWeekdays(cal, a, b)) = weeks * Cardinality(cal.weekdays)
    BY <1>1, <2>1, WeeksAre
  <2> HIDE DEF weeks, b, tail
  <2>5. /\ IsFiniteSet(OnWeekdays(cal, a, day))
        /\ Cardinality(OnWeekdays(cal, a, day))
              = Cardinality(OnWeekdays(cal, a, b)) + Cardinality(OnWeekdays(cal, b + 1, day))
    BY <1>1, <2>1, WeekdaysSplit
  <2>6. /\ M = OnWeekdays(cal, a, day) \ lost
        /\ OnWeekdays(cal, a, day) \cap lost = lost
    BY <1>1 DEF Meetings, OnWeekdays, skipped
  <2>7. Cardinality(M) = Cardinality(OnWeekdays(cal, a, day)) - Cardinality(lost)
    BY <2>5, <2>6, FS_Difference
  <2>8. CurrentClassDay(cal, day)
           = Cardinality(OnWeekdays(cal, a, b)) + Cardinality(OnWeekdays(cal, b + 1, day))
                - Cardinality(lost)
    BY <2>2, <2>3, <2>4
  <2>9. Cardinality(OnWeekdays(cal, a, b)) \in Nat /\ Cardinality(OnWeekdays(cal, b + 1, day)) \in Nat
    BY <1>1, <2>1, WeekdaysSplit
  <2>10. Cardinality(lost) \in Nat
    <3>1. lost \subseteq cal.skip
      OBVIOUS
    <3> QED BY <1>1, <3>1, FS_Subset, FS_CardinalityType
  <2>11. CurrentClassDay(cal, day) = Cardinality(M)
    <3> HIDE DEF lost, M
    <3> QED BY <2>5, <2>7, <2>8, <2>9, <2>10
  <2> QED BY <1>2, <2>11
<1> QED BY <1>3, <1>4

(* The walk is long enough: it meets the n lessons asked for.               *)
Walk(cal, n) == Meetings(cal, cal.start, cal.start + 7 * (n + Cardinality(cal.skip)) - 1)

LEMMA WalkIsEnough ==
    ASSUME NEW cal, Proper(cal), NEW n \in Nat
    PROVE  IsFiniteSet(Walk(cal, n)) /\ Walk(cal, n) \subseteq Int /\ n <= Cardinality(Walk(cal, n))
<1> DEFINE a == cal.start
           k == Cardinality(cal.skip)
           w == n + k
           c == a + 7 * w - 1
           S == OnWeekdays(cal, a, c)
<1>1. /\ a \in Int /\ k \in Nat /\ w \in Nat /\ c \in Int /\ IsFiniteSet(cal.skip)
      /\ cal.skip \subseteq Int
  BY FS_CardinalityType DEF Proper, Dated
<1>2. IsFiniteSet(S) /\ Cardinality(S) = w * Cardinality(cal.weekdays)
  BY <1>1, WeeksAre
<1>3. w <= w * Cardinality(cal.weekdays)
  <2> DEFINE m == Cardinality(cal.weekdays)
  <2>1. m \in Nat /\ m - 1 \in Nat
    BY <1>1, WeekIs
  <2> HIDE DEF w, m
  <2>2. w * (m - 1) \in Nat /\ w * m \in Nat
    BY <1>1, <2>1
  <2>3. w * (m - 1) = w * m - w
    BY <1>1, <2>1
  <2>4. w <= w * m
    BY <1>1, <2>2, <2>3
  <2> QED BY <2>4 DEF m
<1>4. Walk(cal, n) = S \ cal.skip
  BY DEF Walk, Meetings, OnWeekdays, skipped
<1>5. /\ IsFiniteSet(S \ cal.skip)
      /\ Cardinality(S \ cal.skip) = Cardinality(S) - Cardinality(S \cap cal.skip)
  BY <1>2, FS_Difference
<1>6. Cardinality(S \cap cal.skip) <= k /\ Cardinality(S \cap cal.skip) \in Nat
  <2>1. S \cap cal.skip \subseteq cal.skip
    OBVIOUS
  <2> QED BY <1>1, <2>1, FS_Subset, FS_CardinalityType
<1>7. Cardinality(S) \in Nat
  BY <1>2, FS_CardinalityType
<1>8. S \subseteq Int
  BY <1>1 DEF OnWeekdays
<1>9. w <= Cardinality(S)
  BY <1>2, <1>3
<1> HIDE DEF S, w
<1>10. n <= Cardinality(S \ cal.skip)
  BY <1>1, <1>5, <1>6, <1>7, <1>9 DEF w
<1> QED BY <1>4, <1>5, <1>8, <1>10

(* The dates found by the walk are its first meetings, in order.            *)
Lessons(meeting) == IF meeting < MaxReleaseDay THEN meeting ELSE MaxReleaseDay

LEMMA DatesAre ==
    ASSUME NEW cal, Proper(cal), NEW meeting \in Int, Lessons(meeting) > 0
    PROVE  LET n == Lessons(meeting)
               M == Walk(cal, n)
           IN /\ n \in Nat
              /\ DOMAIN MeetingDates(cal, meeting) = 1 .. n
              /\ Len(MeetingDates(cal, meeting)) = n
              /\ \A i \in 1 .. n :
                    /\ MeetingDates(cal, meeting)[i] \in M
                    /\ Cardinality({e \in M : e < MeetingDates(cal, meeting)[i]}) = i - 1
<1> DEFINE n == Lessons(meeting)
           M == Walk(cal, n)
           key == [i \in M |-> Place(i)]
           reached == {d \in M : Cardinality({e \in M : e < d}) < n}
           dates == [i \in 1 .. Cardinality(reached) |->
                       CHOOSE d \in reached : Cardinality({e \in reached : e < d}) = i - 1]
<1>1. n \in Nat /\ n > 0
  BY CalendarAssumption DEF Lessons
<1>2. MeetingDates(cal, meeting) = dates
  <2>1. Configured(cal) /\ ~(n <= 0)
    BY <1>1 DEF Proper
  <2> QED BY <2>1 DEF MeetingDates, Walk, Meetings, Lessons
<1>3. IsFiniteSet(M) /\ M \subseteq Int /\ n <= Cardinality(M) /\ Cardinality(M) \in Nat
  BY <1>1, WalkIsEnough, FS_CardinalityType
<1>4. Keyed(M, key) /\ \A i, j \in M : Less(key[i], key[j]) <=> i < j
  BY <1>3, PlaceIs
<1> HIDE DEF key, n, M
<1>5. ASSUME NEW d \in M PROVE Cardinality({e \in M : e < d}) = Rank(M, key, d)
  <2>1. {e \in M : e < d} = {e \in M : Less(key[e], key[d])}
    BY <1>4
  <2> QED BY <2>1 DEF Rank
<1>6. ASSUME NEW d \in reached
      PROVE  {e \in reached : e < d} = {e \in M : e < d}
  <2>1. ASSUME NEW e \in M, e < d PROVE e \in reached
    <3>1. Rank(M, key, e) < Rank(M, key, d) /\ Rank(M, key, d) < n
      BY <1>4, <1>5, <2>1, RankIs
    <3>2. Rank(M, key, e) \in 0 .. Cardinality(M) - 1 /\ Rank(M, key, d) \in 0 .. Cardinality(M) - 1
      BY <1>4, RankIs
    <3>3. Rank(M, key, e) < n
      BY <1>1, <1>3, <3>1, <3>2
    <3> QED BY <1>5, <3>3
  <2> QED BY <2>1
<1>7. ASSUME NEW i \in 0 .. n - 1
      PROVE  \E d \in reached : Cardinality({e \in M : e < d}) = i
  <2>1. i \in 0 .. Cardinality(M) - 1 /\ i < n
    BY <1>1, <1>3
  <2>2. PICK d \in M : Rank(M, key, d) = i
    BY <1>4, <2>1, RankIs
  <2> QED BY <1>5, <2>1, <2>2
<1>8. Cardinality(reached) = n
  <2> DEFINE f == [d \in reached |-> Cardinality({e \in M : e < d})]
             I == 0 .. n - 1
  <2>1. IsFiniteSet(reached)
    BY <1>3, FS_Subset
  <2>2. f \in [reached -> I]
    <3> SUFFICES ASSUME NEW d \in reached PROVE Cardinality({e \in M : e < d}) \in I
      OBVIOUS
    <3>1. Rank(M, key, d) \in 0 .. Cardinality(M) - 1 /\ Rank(M, key, d) < n
      BY <1>4, <1>5, RankIs
    <3>2. Rank(M, key, d) \in I
      BY <1>1, <1>3, <3>1
    <3> QED BY <1>5, <3>2
  <2>3. \A c, d \in reached : f[c] = f[d] => c = d
    <3> SUFFICES ASSUME NEW c \in reached, NEW d \in reached, f[c] = f[d] PROVE c = d
      OBVIOUS
    <3>1. Rank(M, key, c) = Rank(M, key, d)
      BY <1>5
    <3> QED BY <1>4, <3>1, RankIs
  <2>4. \A i \in I : \E d \in reached : f[d] = i
    BY <1>7
  <2>5. f \in Bijection(reached, I)
    <3> HIDE DEF f, I, reached
    <3> QED BY <2>2, <2>3, <2>4 DEF Bijection, Injection, Surjection, IsInjective
  <2>6. Cardinality(I) = n
    BY <1>1, FS_Interval
  <2> QED BY <2>1, <2>5, <2>6, FS_Bijection DEF ExistsBijection
<1>9. ASSUME NEW i \in 1 .. n
      PROVE  dates[i] \in M /\ Cardinality({e \in M : e < dates[i]}) = i - 1
  <2>1. i - 1 \in 0 .. n - 1
    BY <1>1
  <2>2. \E d \in reached : Cardinality({e \in reached : e < d}) = i - 1
    BY <1>6, <1>7, <2>1
  <2>3. dates[i] = CHOOSE d \in reached : Cardinality({e \in reached : e < d}) = i - 1
    BY <1>8
  <2>4. dates[i] \in reached /\ Cardinality({e \in reached : e < dates[i]}) = i - 1
    BY <2>2, <2>3
  <2> QED BY <1>6, <2>4
<1>10. DOMAIN dates = 1 .. n
  BY <1>8
<1>11. Len(dates) = n
  <2>1. dates \in Seq(M)
    <3> HIDE DEF dates
    <3>1. dates \in [1 .. n -> M]
      BY <1>8, <1>9, <1>10 DEF dates
    <3> QED BY <1>1, <3>1
  <2> HIDE DEF dates
  <2> QED BY <1>1, <1>10, <2>1
<1> HIDE DEF dates
<1> QED BY <1>1, <1>2, <1>9, <1>10, <1>11 DEF n, M

(* A lesson's date has come exactly when the gate has counted up to it.     *)
LEMMA DateAndGate ==
    ASSUME NEW cal, Proper(cal), NEW meeting \in Int, NEW i \in 1 .. Lessons(meeting),
           NEW day \in Int
    PROVE  /\ MeetingDates(cal, meeting)[i] \in Int
           /\ i <= CurrentClassDay(cal, day) <=> MeetingDates(cal, meeting)[i] <= day
<1> DEFINE n == Lessons(meeting)
           M == Walk(cal, n)
           d == MeetingDates(cal, meeting)[i]
           Before == {e \in M : e < d}
           Met == Meetings(cal, cal.start, day)
<1>1. n \in Int /\ n > 0 /\ i \in Int
  BY CalendarAssumption DEF Lessons
<1>2. n \in Nat /\ d \in M /\ Cardinality(Before) = i - 1
  BY <1>1, DatesAre
<1>3. IsFiniteSet(M) /\ M \subseteq Int
  BY <1>2, WalkIsEnough
<1>4. IsFiniteSet(Met) /\ Cardinality(Met) \in Nat /\ CurrentClassDay(cal, day) = Cardinality(Met)
  BY ClassDayIs
<1>5. /\ cal.start \in Int
      /\ \A e \in M : /\ cal.start <= e /\ e \in Int /\ meets(cal, e) /\ ~skipped(cal, e)
                      /\ \A x \in Int : (/\ cal.start <= x /\ x <= e
                                         /\ meets(cal, x) /\ ~skipped(cal, x)) => x \in M
      /\ Met = {e \in Int : /\ cal.start <= e /\ e <= day
                            /\ meets(cal, e) /\ ~skipped(cal, e)}
  <2>1. cal.start \in Int /\ Cardinality(cal.skip) \in Nat
    BY FS_CardinalityType DEF Proper, Dated
  <2> DEFINE z == cal.start + 7 * (n + Cardinality(cal.skip)) - 1
  <2>2. z \in Int
    BY <1>1, <2>1
  <2>3. M = {e \in Int : cal.start <= e /\ e <= z /\ meets(cal, e) /\ ~skipped(cal, e)}
    <3>1. M = {e \in cal.start .. z : meets(cal, e) /\ ~skipped(cal, e)}
      BY DEF Walk, Meetings
    <3> HIDE DEF z, M
    <3> QED BY <2>1, <2>2, <3>1
  <2>4. Met = {e \in Int : /\ cal.start <= e /\ e <= day
                            /\ meets(cal, e) /\ ~skipped(cal, e)}
    BY <2>1 DEF Meetings
  <2> HIDE DEF z, M, Met
  <2>5. ASSUME NEW e \in M
        PROVE  /\ cal.start <= e /\ e \in Int /\ meets(cal, e) /\ ~skipped(cal, e)
               /\ \A x \in Int : (/\ cal.start <= x /\ x <= e
                                  /\ meets(cal, x) /\ ~skipped(cal, x)) => x \in M
    <3>1. cal.start <= e /\ e <= z /\ e \in Int /\ meets(cal, e) /\ ~skipped(cal, e)
      BY <2>3
    <3>2. ASSUME NEW x \in Int, cal.start <= x, x <= e, meets(cal, x), ~skipped(cal, x)
          PROVE  x \in M
      <4>1. x <= z
        BY <2>2, <3>1, <3>2
      <4> QED BY <2>3, <3>2, <4>1
    <3> QED BY <3>1, <3>2
  <2> QED BY <2>1, <2>4, <2>5
<1> HIDE DEF n, M, d, Met
<1>6. d \in Int /\ IsFiniteSet(Before) /\ d \notin Before
  BY <1>2, <1>3, FS_Subset
<1>7. CASE d <= day
  <2>1. Before \cup {d} \subseteq Met
    <3>1. d \in Met
      BY <1>2, <1>5, <1>6, <1>7
    <3>2. ASSUME NEW e \in Before PROVE e \in Met
      <4>1. e \in M /\ e \in Int /\ e < d
        BY <1>5
      <4>2. e <= day
        BY <1>1, <1>6, <1>7, <4>1
      <4> QED BY <1>5, <4>1, <4>2
    <3> QED BY <3>1, <3>2
  <2>2. IsFiniteSet(Before \cup {d}) /\ Cardinality(Before \cup {d}) = i
    <3>1. /\ IsFiniteSet(Before \cup {d})
          /\ Cardinality(Before \cup {d}) = Cardinality(Before) + 1
      BY <1>6, FS_AddElement
    <3> QED BY <1>1, <1>2, <3>1
  <2>3. i <= Cardinality(Met)
    BY <1>4, <2>1, <2>2, FS_Subset
  <2> QED BY <1>4, <1>6, <1>7, <2>3 DEF d
<1>8. CASE ~(d <= day)
  <2>1. Met \subseteq Before
    <3> SUFFICES ASSUME NEW e \in Met PROVE e \in Before
      OBVIOUS
    <3>1. e \in Int /\ cal.start <= e /\ e <= day /\ meets(cal, e) /\ ~skipped(cal, e)
      BY <1>5
    <3>2. e < d
      BY <1>1, <1>6, <1>8, <3>1
    <3>3. e \in M
      BY <1>2, <1>5, <1>6, <3>1, <3>2
    <3> QED BY <3>2, <3>3
  <2>2. Cardinality(Met) <= i - 1
    BY <1>2, <1>6, <2>1, FS_Subset
  <2> QED BY <1>1, <1>4, <1>6, <1>8, <2>2 DEF d
<1> QED BY <1>6, <1>7, <1>8 DEF d

-----------------------------------------------------------------------------
(* The stored settings hold a calendar of whole dates.                      *)

CalendarInv == "calendar" \in DOMAIN preset /\ Dated(preset.calendar)

LEMMA StoredIsProper ==
    ASSUME CalendarInv, Configured(calendarFromWire(preset.calendar))
    PROVE  Proper(calendarFromWire(preset.calendar))
<1>1. ~Configured(NoCalendar)
  BY DEF Configured, NoCalendar
<1>2. /\ calendarFromWire(preset.calendar) = preset.calendar
      /\ preset.calendar.weekdays \subseteq 1 .. 7
  BY <1>1 DEF calendarFromWire
<1> QED BY <1>2 DEF CalendarInv, Proper

LEMMA CalendarKept == CalendarInv /\ [Next]_vars => CalendarInv'
<1> SUFFICES ASSUME CalendarInv, [Next]_vars PROVE CalendarInv'
  OBVIOUS
<1>1. CASE \E e \in Edit : PostDeckEdit(e)
  <2>1. PICK e \in Edit : preset' = [preset EXCEPT ![e.field] = e.value]
    BY <1>1 DEF PostDeckEdit
  <2>2. DOMAIN preset' = DOMAIN preset
    BY <2>1
  <2>3. preset'["calendar"] = IF e.field = "calendar" THEN e.value ELSE preset["calendar"]
    BY <2>1 DEF CalendarInv
  <2>4. e.field = "calendar" => Dated(e.value)
    BY PresetAssumption
  <2> QED BY <2>2, <2>3, <2>4 DEF CalendarInv
<1>2. CASE UNCHANGED preset
  BY <1>2 DEF CalendarInv, Dated
<1>3. (\E e \in Edit : PostDeckEdit(e)) \/ UNCHANGED preset
  <2>1. CASE Next
    BY <2>1 DEF Next, GetReview, GetStudy, OpenPage, ReadCounts, ListCards, RespondReview,
         RespondStudy, onAfterSwap, LoseRefill, GradeBatch, onStudyMoreClick, Tick, grade,
         sendCardState, ToggleSuspendCardsForNote
  <2>2. CASE UNCHANGED vars
    BY <2>2 DEF vars
  <2> QED BY <2>1, <2>2
<1> QED BY <1>1, <1>2, <1>3

(* A number of meetings is asked for: the deck's lessons, the class day or  *)
(* four, whichever is the largest.                                          *)
LEMMA MostIs ==
    ASSUME NEW S, S \subseteq Int, IsFiniteSet(S), S # {}
    PROVE  Most(S) \in S
<1> DEFINE key == [i \in S |-> Place(i)]
<1>1. Keyed(S, key) /\ \A i, j \in S : Less(key[i], key[j]) <=> i < j
  BY PlaceIs
<1> HIDE DEF key
<1>2. Cardinality(S) \in Nat /\ Cardinality(S) # 0
  BY FS_EmptySet, FS_CardinalityType
<1>3. Cardinality(S) - 1 \in 0 .. Cardinality(S) - 1
  BY <1>2
<1>4. PICK m \in S : Rank(S, key, m) = Cardinality(S) - 1
  <2>1. \A i \in 0 .. Cardinality(S) - 1 : \E c \in S : Rank(S, key, c) = i
    <3>1. Keyed(S, key)
      BY <1>1
    <3> QED BY ONLY <3>1, RankIs
  <2> QED BY <1>3, <2>1
<1>5. ASSUME NEW y \in S PROVE m >= y
  <2>1. Rank(S, key, y) \in 0 .. Cardinality(S) - 1
    BY <1>1, RankIs
  <2>2. ~(Rank(S, key, m) < Rank(S, key, y))
    BY <1>2, <1>4, <2>1
  <2>3. ~Less(key[m], key[y])
    BY <1>1, <2>2, RankIs
  <2>4. m \in Int /\ y \in Int
    OBVIOUS
  <2> QED BY <1>1, <2>3, <2>4
<1> QED BY <1>5 DEF Most

LEMMA CalendarHolds ==
    ASSUME TypeInv, CalendarInv
    PROVE  LessonsOpenOnTheirDate
<1> DEFINE cal == calendarFromWire(preset.calendar)
           day == Day(now)
           classDay == CurrentClassDay(cal, day)
           asked == {Lesson[c] : c \in Card} \cup {classDay, calendarPreviewMeetings}
           meeting == Most(asked)
           table == deckClassDays(cal, day)
           unlock == nextUnlock(cal, day)
<1> SUFFICES ASSUME Configured(cal)
             PROVE  /\ \A i \in DOMAIN table : table[i].unlocked = (table[i].date <= day)
                    /\ unlock = NoDate \/ unlock > day
                    /\ \A c \in NewCards(Settings(preset, day)) :
                         Lesson[c] > 0 => MeetingDate(cal, Lesson[c]) <= day
  BY DEF LessonsOpenOnTheirDate
<1>1. Proper(cal) /\ day \in Int
  BY StoredIsProper, NowIs, DaysAre
<1>2. classDay \in Nat
  BY <1>1, ClassDayIs
<1>3. Lesson \in [Card -> 0 .. MaxReleaseDay] /\ MaxReleaseDay \in Nat /\ MaxReleaseDay > 0
  BY StudyAssumption, CalendarAssumption
<1>4. meeting \in Int
  <2>1. IsFiniteSet({Lesson[c] : c \in Card})
    <3>1. IsFiniteSet(0 .. MaxReleaseDay)
      BY <1>3, FS_Interval
    <3>2. {Lesson[c] : c \in Card} \subseteq 0 .. MaxReleaseDay
      BY <1>3
    <3> QED BY <3>1, <3>2, FS_Subset
  <2>2. IsFiniteSet({classDay, calendarPreviewMeetings})
    <3>1. {classDay, calendarPreviewMeetings} = {classDay} \cup {calendarPreviewMeetings}
      OBVIOUS
    <3>2. IsFiniteSet({classDay}) /\ IsFiniteSet({calendarPreviewMeetings})
      BY FS_Singleton
    <3> HIDE DEF classDay
    <3> QED BY <3>1, <3>2, FS_Union
  <2>3. IsFiniteSet(asked)
    <3> HIDE DEF classDay
    <3> QED BY <2>1, <2>2, FS_Union
  <2>4. asked \subseteq Int /\ asked # {}
    BY <1>2, <1>3 DEF calendarPreviewMeetings
  <2> HIDE DEF asked
  <2> QED BY <2>3, <2>4, MostIs
<1> HIDE DEF cal, day
<1>5. ASSUME NEW i \in DOMAIN table PROVE table[i].unlocked = (table[i].date <= day)
  <2> DEFINE dates == MeetingDates(cal, meeting)
  <2>1. table = [j \in DOMAIN dates |-> [date |-> dates[j], unlocked |-> j <= classDay]]
    BY DEF deckClassDays
  <2> HIDE DEF meeting, classDay
  <2>2. i \in DOMAIN dates /\ table[i].date = dates[i] /\ table[i].unlocked = (i <= classDay)
    BY <2>1
  <2>3. Lessons(meeting) \in Int /\ Configured(cal)
    BY <1>1, <1>3, <1>4 DEF Lessons, Proper
  <2>4. CASE Lessons(meeting) > 0
    <3>1. DOMAIN dates = 1 .. Lessons(meeting)
      BY <1>1, <1>4, <2>4, DatesAre
    <3>2. i \in 1 .. Lessons(meeting)
      BY <2>2, <3>1
    <3>3. i <= classDay <=> dates[i] <= day
      BY <1>1, <1>4, <3>2, DateAndGate DEF classDay
    <3> HIDE DEF dates
    <3> QED BY <2>2, <3>3
  <2>5. CASE ~(Lessons(meeting) > 0)
    <3>1. dates = <<>>
      BY <2>3, <2>5 DEF MeetingDates, Lessons
    <3> QED BY <2>2, <3>1
  <2> QED BY <2>4, <2>5
<1>6. ASSUME NEW n \in 1 .. MaxReleaseDay
      PROVE  MeetingDate(cal, n) \in Int /\ (n <= classDay <=> MeetingDate(cal, n) <= day)
  <2>1. n \in Int /\ Lessons(n) = n /\ n > 0 /\ n \in 1 .. Lessons(n)
    BY <1>3 DEF Lessons
  <2>2. Len(MeetingDates(cal, n)) >= n
    BY <1>1, <2>1, DatesAre
  <2>3. MeetingDate(cal, n) = MeetingDates(cal, n)[n]
    BY <2>2 DEF MeetingDate
  <2> QED BY <1>1, <2>1, <2>3, DateAndGate
<1> HIDE DEF classDay
<1>7. unlock = NoDate \/ unlock > day
  <2> DEFINE lesson == NextLockedLesson(classDay)
             locked == {Lesson[c] : c \in {d \in Card : unseen(d) /\ Lesson[d] > classDay}}
  <2>1. unlock = IF ~Configured(cal) \/ lesson = 0 THEN NoDate ELSE MeetingDate(cal, lesson)
    BY DEF nextUnlock, classDay
  <2>2. CASE locked = {}
    BY <2>1, <2>2 DEF NextLockedLesson
  <2>3. CASE locked # {}
    <3>1. locked \subseteq Nat
      BY <1>3
    <3>2. lesson = Least(locked)
      BY <2>3 DEF NextLockedLesson
    <3> HIDE DEF lesson
    <3>3. lesson \in locked
      <4> HIDE DEF locked
      <4> QED BY <2>3, <3>1, <3>2, LeastIs
    <3>4. lesson \in 1 .. MaxReleaseDay /\ ~(lesson <= classDay)
      BY <1>2, <1>3, <3>3
    <3> QED BY <1>1, <1>6, <2>1, <3>4
  <2> QED BY <2>2, <2>3
<1>8. ASSUME NEW c \in NewCards(Settings(preset, day)), Lesson[c] > 0
      PROVE  MeetingDate(cal, Lesson[c]) <= day
  <2>1. c \in Card /\ Lesson[c] <= classDay
    BY <1>1 DEF NewCards, Settings, GateDay, Gate, Proper, classDay, cal
  <2>2. Lesson[c] \in 1 .. MaxReleaseDay
    BY <1>3, <1>8, <2>1
  <2> QED BY <1>6, <2>1, <2>2
<1> QED BY <1>5, <1>7, <1>8

(* The gate opens a lesson on the date the calendar announces: the table of *)
(* class days shows a meeting as open from its date on, the unlock line     *)
(* names a day to come, and no card of a lesson is offered before the       *)
(* lesson's date, on any study day and under any calendar the deck is given *)
(* (CurrentClassDay counts weeks, MeetingDates walks them, calendar.go).    *)
THEOREM LessonsOpen == Spec => []LessonsOpenOnTheirDate
<1>1. Init => CalendarInv
  BY PresetAssumption DEF Init, CalendarInv
<1>2. CalendarInv /\ [Next]_vars => CalendarInv'
  BY CalendarKept
<1>3. TypeInv /\ CalendarInv => LessonsOpenOnTheirDate
  BY CalendarHolds
<1>4. Inv => TypeInv
  BY DEF Inv
<1> QED BY <1>1, <1>2, <1>3, <1>4, InvHolds, PTL DEF Spec

=============================================================================
