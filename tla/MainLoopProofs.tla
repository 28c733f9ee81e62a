---------------------------- MODULE MainLoopProofs ----------------------------
(* Theorems about MainLoop, for any sources, delays and lateness.          *)
EXTENDS MainLoop, FiniteSetTheorems, TLAPS

-----------------------------------------------------------------------------
(* The sequences: the list of the loop and the batch of an iteration.      *)

In(s, seq) == \E i \in DOMAIN seq : seq[i] = s

Once(seq) == \A i, j \in DOMAIN seq : seq[i] = seq[j] => i = j

\* What Append does to a list without repetitions.
LEMMA Appended ==
    ASSUME NEW S, NEW seq \in Seq(S), NEW s \in S
    PROVE  /\ Append(seq, s) \in Seq(S)
           /\ \A x : In(x, Append(seq, s)) <=> In(x, seq) \/ x = s
           /\ Once(seq) /\ ~In(s, seq) => Once(Append(seq, s))
BY SMTT(60) DEF In, Once

\* What Head and Tail are in a list without repetitions.
LEMMA HeadAndTail ==
    ASSUME NEW S, NEW seq \in Seq(S), seq # <<>>, Once(seq)
    PROVE  /\ Head(seq) \in S /\ In(Head(seq), seq)
           /\ Tail(seq) \in Seq(S) /\ Once(Tail(seq))
           /\ \A x : In(x, Tail(seq)) <=> In(x, seq) /\ x # Head(seq)
<1>1. /\ Len(seq) \in Nat /\ Len(seq) > 0 /\ DOMAIN seq = 1..Len(seq)
      /\ Tail(seq) \in Seq(S) /\ Head(seq) = seq[1] /\ 1 \in DOMAIN seq
      /\ DOMAIN Tail(seq) = 1..Len(seq) - 1
      /\ \A i \in 1..Len(seq) - 1 : Tail(seq)[i] = seq[i + 1]
  OBVIOUS
<1>2. Head(seq) \in S /\ In(Head(seq), seq)
  BY <1>1 DEF In
<1>3. Once(Tail(seq))
  <2> SUFFICES ASSUME NEW i \in DOMAIN Tail(seq), NEW j \in DOMAIN Tail(seq),
                      Tail(seq)[i] = Tail(seq)[j]
               PROVE  i = j
    BY DEF Once
  <2>1. /\ i \in Nat /\ j \in Nat /\ seq[i + 1] = seq[j + 1]
        /\ i + 1 \in DOMAIN seq /\ j + 1 \in DOMAIN seq
    BY <1>1
  <2>2. i + 1 = j + 1
    BY <2>1 DEF Once
  <2> QED BY <2>1, <2>2
<1>4. ASSUME NEW x, In(x, Tail(seq)) PROVE In(x, seq) /\ x # Head(seq)
  <2>1. PICK i \in DOMAIN Tail(seq) : Tail(seq)[i] = x
    BY <1>4 DEF In
  <2>2. i + 1 \in DOMAIN seq /\ seq[i + 1] = x /\ i + 1 # 1
    BY <1>1, <2>1
  <2> QED BY <1>1, <2>2 DEF In, Once
<1>5. ASSUME NEW x, In(x, seq), x # Head(seq) PROVE In(x, Tail(seq))
  <2>1. PICK i \in DOMAIN seq : seq[i] = x
    BY <1>5 DEF In
  <2>2. i - 1 \in DOMAIN Tail(seq) /\ Tail(seq)[i - 1] = seq[(i - 1) + 1]
        /\ (i - 1) + 1 = i
    BY <1>1, <1>5, <2>1
  <2> QED BY <2>1, <2>2 DEF In
<1> QED BY <1>1, <1>2, <1>3, <1>4, <1>5

\* What is left when an element is removed.
LEMMA RemovedIs ==
    ASSUME NEW S, NEW seq \in Seq(S), NEW p \in DOMAIN seq
    PROVE  LET t == RemoveAt(seq, p)
               n == Len(seq)
           IN  /\ t \in Seq(S) /\ Len(t) = n - 1 /\ DOMAIN t = 1..n - 1
               /\ \A i \in 1..n - 1 : t[i] = seq[IF i < p THEN i ELSE i + 1]
<1> DEFINE t == RemoveAt(seq, p)
           n == Len(seq)
           at(i) == IF i < p THEN i ELSE i + 1
<1>0. n \in Nat /\ DOMAIN seq = 1..n /\ p \in 1..n
  OBVIOUS
<1> DEFINE a == SubSeq(seq, 1, p - 1)
           b == SubSeq(seq, p + 1, n)
<1>1. a \in Seq(S) /\ Len(a) = p - 1 /\ \A i \in 1..p - 1 : a[i] = seq[i]
  BY <1>0
<1>2. b \in Seq(S) /\ Len(b) = n - p /\ \A i \in 1..n - p : b[i] = seq[p + i]
  BY <1>0, SMTT(60)
<1>3. t = a \o b
  BY DEF RemoveAt
<1> HIDE DEF a, b
<1>4. /\ t \in Seq(S) /\ Len(t) = n - 1 /\ DOMAIN t = 1..n - 1
  <2>0. a \in Seq(S) /\ b \in Seq(S)
    BY <1>1, <1>2
  <2>1. t \in Seq(S) /\ Len(t) = Len(a) + Len(b)
    BY <1>3, <2>0
  <2>2. Len(t) = n - 1
    BY <1>0, <1>1, <1>2, <2>1, SMTT(60)
  <2> QED BY <2>1, <2>2
<1>5. ASSUME NEW i \in 1..n - 1 PROVE t[i] = seq[at(i)]
  <2>1. CASE i < p
    BY <1>0, <1>1, <1>2, <1>3, <2>1, SMTT(60)
  <2>2. CASE i >= p
    <3>1. t[i] = b[i - (p - 1)] /\ i - (p - 1) \in 1..n - p
      BY <1>0, <1>1, <1>2, <1>3, <2>2, SMTT(60)
    <3>2. p + (i - (p - 1)) = i + 1
      BY <1>0
    <3> QED BY <1>0, <1>2, <2>2, <3>1, <3>2, SMTT(60)
  <2> QED BY <1>0, <2>1, <2>2
<1> QED BY <1>4, <1>5

\* An element that is removed leaves the others as they were.
LEMMA Removed ==
    ASSUME NEW S, NEW seq \in Seq(S), Once(seq), NEW p \in DOMAIN seq
    PROVE  LET t == RemoveAt(seq, p) IN
           /\ t \in Seq(S) /\ Once(t)
           /\ \A x : In(x, t) <=> In(x, seq) /\ x # seq[p]
<1> DEFINE t == RemoveAt(seq, p)
           n == Len(seq)
           at(i) == IF i < p THEN i ELSE i + 1
<1>1. n \in Nat /\ DOMAIN seq = 1..n /\ p \in 1..n
  OBVIOUS
<1>2. /\ t \in Seq(S) /\ Len(t) = n - 1 /\ DOMAIN t = 1..n - 1
      /\ \A i \in 1..n - 1 : t[i] = seq[at(i)]
  BY RemovedIs
<1> HIDE DEF t
<1>3. ASSUME NEW i \in DOMAIN t
      PROVE  at(i) \in DOMAIN seq /\ at(i) # p
  BY <1>1, <1>2
<1>4. Once(t)
  <2> SUFFICES ASSUME NEW i \in DOMAIN t, NEW j \in DOMAIN t, t[i] = t[j]
               PROVE  i = j
    BY DEF Once
  <2>1. at(i) = at(j)
    BY <1>2, <1>3 DEF Once
  <2> QED BY <1>1, <1>2, <2>1
<1>5. ASSUME NEW x, In(x, t) PROVE In(x, seq) /\ x # seq[p]
  <2>1. PICK i \in DOMAIN t : t[i] = x
    BY <1>5 DEF In
  <2>2. at(i) \in DOMAIN seq /\ at(i) # p /\ seq[at(i)] = x
    BY <1>2, <1>3, <2>1
  <2> HIDE DEF at
  <2> QED BY <2>2 DEF In, Once
<1>6. ASSUME NEW x, In(x, seq), x # seq[p] PROVE In(x, t)
  <2>1. PICK i \in DOMAIN seq : seq[i] = x /\ i # p
    BY <1>6 DEF In
  <2> DEFINE k == IF i < p THEN i ELSE i - 1
  <2>2. k \in DOMAIN t /\ at(k) = i
    BY <1>1, <1>2, <2>1
  <2> HIDE DEF at, k
  <2> QED BY <1>2, <2>1, <2>2 DEF In
<1> QED BY <1>2, <1>4, <1>5, <1>6 DEF t

-----------------------------------------------------------------------------
(* What is taken out of a sequence.                                        *)

\* The elements of a finite set of numbers have the ranks 1, 2, ...
LEMMA Ranks ==
    ASSUME NEW n \in Nat, NEW I \in SUBSET (1..n)
    PROVE  LET m    == Cardinality(I)
               rank == [i \in I |-> Cardinality({j \in I : j <= i})]
           IN  /\ m \in Nat /\ rank \in Bijection(I, 1..m)
               /\ \A i, j \in I : i < j => rank[i] < rank[j]
<1> DEFINE m == Cardinality(I)
           upTo(i) == {j \in I : j <= i}
           rank == [i \in I |-> Cardinality(upTo(i))]
<1>1. IsFiniteSet(I) /\ m \in Nat /\ \A i \in I : i \in Nat
  <2>1. IsFiniteSet(1..n)
    BY FS_Interval
  <2>2. IsFiniteSet(I)
    BY <2>1, FS_Subset
  <2> QED BY <2>2, FS_CardinalityType
<1>2. ASSUME NEW i \in I
      PROVE  /\ IsFiniteSet(upTo(i)) /\ Cardinality(upTo(i)) \in Nat
             /\ Cardinality(upTo(i)) <= m /\ Cardinality(upTo(i)) # 0
  <2>1. upTo(i) \in SUBSET I /\ i \in upTo(i)
    OBVIOUS
  <2>2. IsFiniteSet(upTo(i)) /\ Cardinality(upTo(i)) <= m
    BY <1>1, <2>1, FS_Subset
  <2>3. upTo(i) # {}
    BY <2>1
  <2> HIDE DEF upTo
  <2> QED BY <2>2, <2>3, FS_EmptySet, FS_CardinalityType
<1>3. ASSUME NEW i \in I, NEW j \in I, i < j PROVE rank[i] < rank[j]
  <2>1. upTo(i) \in SUBSET upTo(j) /\ j \in upTo(j) /\ j \notin upTo(i)
    <3>1. i \in Nat /\ j \in Nat /\ \A k \in I : k \in Nat
      BY <1>1
    <3>2. \A k \in I : k <= i => k <= j
      BY <1>3, <3>1
    <3>3. j <= j /\ ~(j <= i)
      BY <1>3, <3>1
    <3> QED BY <3>2, <3>3
  <2>2. upTo(i) # upTo(j)
    BY <2>1
  <2>3. rank[i] = Cardinality(upTo(i)) /\ rank[j] = Cardinality(upTo(j))
    OBVIOUS
  <2> HIDE DEF upTo
  <2>4. /\ Cardinality(upTo(i)) <= Cardinality(upTo(j))
        /\ Cardinality(upTo(j)) = Cardinality(upTo(i)) => upTo(i) = upTo(j)
    BY <1>2, <2>1, FS_Subset
  <2> DEFINE a == Cardinality(upTo(i))
             b == Cardinality(upTo(j))
  <2>5. a \in Nat /\ b \in Nat /\ a <= b /\ a # b
    BY <1>2, <2>2, <2>4
  <2> QED BY <2>3, <2>5
<1>4. rank \in Injection(I, 1..m)
  <2>1. rank \in [I -> 1..m]
    BY <1>1, <1>2
  <2>2. ASSUME NEW i \in I, NEW j \in I, rank[i] = rank[j] PROVE i = j
    <3>1. i \in Nat /\ j \in Nat /\ rank[i] \in Nat
      BY <1>1, <2>1
    <3> HIDE DEF rank
    <3> QED BY <1>3, <2>2, <3>1
  <2>3. IsInjective(rank)
    <3>1. DOMAIN rank = I
      OBVIOUS
    <3> HIDE DEF rank
    <3> QED BY <2>2, <3>1 DEF IsInjective
  <2> HIDE DEF rank
  <2> QED BY <2>1, <2>3 DEF Injection
<1> HIDE DEF rank
<1>5. Cardinality(1..m) = m /\ IsFiniteSet(1..m)
  BY <1>1, FS_Interval
<1>6. rank \in Surjection(I, 1..m)
  BY <1>1, <1>4, <1>5, FS_Injection
<1> QED BY <1>1, <1>3, <1>4, <1>6 DEF Bijection, rank

\* Among picks the sources of a list that satisfy a condition, in its order.
LEMMA AmongIs ==
    ASSUME NEW S, NEW seq \in Seq(S), NEW ss
    PROVE  LET t == Among(seq, ss) IN
           /\ t \in Seq(S)
           /\ \A x : In(x, t) <=> In(x, seq) /\ x \in ss
           /\ Once(seq) => Once(t)
           /\ \E at \in [DOMAIN t -> DOMAIN seq] :
                /\ \A k \in DOMAIN t : t[k] = seq[at[k]]
                /\ \A j, k \in DOMAIN t : j < k => at[j] < at[k]
<1> DEFINE t == Among(seq, ss)
           I == {i \in DOMAIN seq : seq[i] \in ss}
           m == Cardinality(I)
           rank == [i \in I |-> Cardinality({j \in I : j <= i})]
           at == [k \in 1..m |-> CHOOSE i \in I : rank[i] = k]
<1>1. DOMAIN seq = 1..Len(seq) /\ Len(seq) \in Nat /\ I \in SUBSET (1..Len(seq))
  OBVIOUS
<1>2. /\ m \in Nat /\ rank \in Bijection(I, 1..m)
      /\ \A i, j \in I : i < j => rank[i] < rank[j]
  <2> HIDE DEF I
  <2> QED BY <1>1, Ranks
<1>3. t = [k \in 1..m |-> seq[at[k]]]
  BY DEF Among
<1>4. DOMAIN rank = I /\ \A i \in I : i \in 1..Len(seq) /\ seq[i] \in ss
  BY <1>1
<1> HIDE DEF I, m, rank
<1>5. /\ \A i \in I : rank[i] \in 1..m
      /\ \A i, j \in I : rank[i] = rank[j] => i = j
      /\ \A k \in 1..m : \E i \in I : rank[i] = k
  BY <1>2, <1>4 DEF Bijection, Injection, Surjection, IsInjective
<1>6. \A k \in 1..m : at[k] \in I /\ rank[at[k]] = k
  BY <1>5
<1>7. \A i \in I : at[rank[i]] = i
  BY <1>5, <1>6
<1> HIDE DEF at
<1>8. /\ DOMAIN t = 1..m /\ \A k \in 1..m : t[k] = seq[at[k]]
  BY <1>3
<1>9. t \in Seq(S)
  BY <1>1, <1>2, <1>3, <1>4, <1>6, SMTT(60)
<1> HIDE DEF t
<1>10. ASSUME NEW x PROVE In(x, t) <=> In(x, seq) /\ x \in ss
  <2>1. ASSUME In(x, t) PROVE In(x, seq) /\ x \in ss
    <3>1. PICK k \in 1..m : t[k] = x
      BY <1>8, <2>1 DEF In
    <3> QED BY <1>1, <1>4, <1>6, <1>8, <3>1 DEF In
  <2>2. ASSUME In(x, seq), x \in ss PROVE In(x, t)
    <3>1. PICK i \in DOMAIN seq : seq[i] = x
      BY <2>2 DEF In
    <3>2. i \in I
      BY <2>2, <3>1 DEF I
    <3> QED BY <1>5, <1>7, <1>8, <3>1, <3>2 DEF In
  <2> QED BY <2>1, <2>2
<1>11. ASSUME Once(seq) PROVE Once(t)
  <2> SUFFICES ASSUME NEW j \in 1..m, NEW k \in 1..m, t[j] = t[k]
               PROVE  j = k
    BY <1>8 DEF Once
  <2>1. at[j] = at[k]
    BY <1>1, <1>4, <1>6, <1>8, <1>11, ZenonT(90) DEF Once
  <2> QED BY <1>6, <2>1
<1>12. ASSUME NEW j \in 1..m, NEW k \in 1..m, j < k PROVE at[j] < at[k]
  <2>1. /\ at[j] \in I /\ at[k] \in I /\ at[j] \in Nat /\ at[k] \in Nat
        /\ rank[at[j]] = j /\ rank[at[k]] = k
    BY <1>1, <1>4, <1>6, SMTT(60)
  <2>2. ~(at[k] < at[j])
    BY <1>2, <1>12, <2>1
  <2>3. at[j] # at[k]
    BY <1>2, <1>12, <2>1
  <2> QED BY <2>1, <2>2, <2>3
<1>13. at \in [1..m -> DOMAIN seq]
  <2>1. at = [k \in 1..m |-> at[k]]
    BY DEF at
  <2> QED BY <1>1, <1>4, <1>6, <2>1
<1> QED BY <1>8, <1>9, <1>10, <1>11, <1>12, <1>13 DEF t

\* How many of the numbers I come up to i, and which of them seq has in ss.
UpTo(I, i) == Cardinality({j \in I : j <= i})
Where(seq, ss) == {i \in DOMAIN seq : seq[i] \in ss}

\* The k-th element that is taken out is the one up to which there are k.
LEMMA AmongAt ==
    ASSUME NEW S, NEW seq \in Seq(S), NEW ss
    PROVE  LET I == Where(seq, ss)
               m == Cardinality(I)
           IN  /\ m \in Nat /\ IsFiniteSet(I) /\ I \in SUBSET (1..Len(seq))
               /\ DOMAIN Among(seq, ss) = 1..m
               /\ Among(seq, ss) = [k \in 1..m |-> Among(seq, ss)[k]]
               /\ \A i \in I : /\ UpTo(I, i) \in 1..m
                               /\ Among(seq, ss)[UpTo(I, i)] = seq[i]
               /\ \A k \in 1..m : \E i \in I : UpTo(I, i) = k
<1> DEFINE I == Where(seq, ss)
           m == Cardinality(I)
           rank == [i \in I |-> UpTo(I, i)]
           t == [k \in 1..m |-> seq[CHOOSE i \in I : rank[i] = k]]
<1>1. Len(seq) \in Nat /\ I \in SUBSET (1..Len(seq)) /\ IsFiniteSet(1..Len(seq))
  BY FS_Interval DEF Where
<1>2. IsFiniteSet(I)
  BY <1>1, FS_Subset
<1>3. Among(seq, ss) = t
  BY DEF Among, Where, UpTo
<1>4. m \in Nat /\ rank \in Bijection(I, 1..m)
  <2> HIDE DEF I
  <2>1. rank = [i \in I |-> Cardinality({j \in I : j <= i})]
    BY DEF UpTo
  <2> QED BY <1>1, <2>1, Ranks
<1>5. \A i \in I : rank[i] = UpTo(I, i)
  OBVIOUS
<1> HIDE DEF I, m, rank
<1>6. /\ \A i \in I : rank[i] \in 1..m
      /\ \A i, j \in I : rank[i] = rank[j] => i = j
      /\ \A k \in 1..m : \E i \in I : rank[i] = k
  <2>1. DOMAIN rank = I
    BY DEF rank
  <2> QED BY <1>4, <2>1 DEF Bijection, Injection, Surjection, IsInjective
<1>7. ASSUME NEW i \in I PROVE t[rank[i]] = seq[i]
  <2>1. rank[i] \in 1..m
    BY <1>6
  <2>2. (CHOOSE j \in I : rank[j] = rank[i]) = i
    BY <1>6
  <2> QED BY <2>1, <2>2
<1>8. DOMAIN t = 1..m /\ t = [k \in 1..m |-> t[k]]
  OBVIOUS
<1> HIDE DEF t
<1>9. /\ m \in Nat /\ IsFiniteSet(I) /\ I \in SUBSET (1..Len(seq))
      /\ DOMAIN t = 1..m /\ t = [k \in 1..m |-> t[k]]
      /\ \A i \in I : UpTo(I, i) \in 1..m /\ t[UpTo(I, i)] = seq[i]
      /\ \A k \in 1..m : \E i \in I : UpTo(I, i) = k
  BY <1>1, <1>2, <1>4, <1>5, <1>6, <1>7, <1>8
<1> QED BY <1>3, <1>9 DEF I, m

\* Sequences that hold the same elements of interest in the same order.
LEMMA AmongSame ==
    ASSUME NEW S, NEW q \in Seq(S), NEW r \in Seq(S), NEW ss, NEW tt,
           NEW f \in Bijection(Where(q, ss), Where(r, tt)),
           \A i \in Where(q, ss) : r[f[i]] = q[i],
           \A i, j \in Where(q, ss) : i <= j <=> f[i] <= f[j]
    PROVE  Among(r, tt) = Among(q, ss)
<1> DEFINE I == Where(q, ss)
           J == Where(r, tt)
           m == Cardinality(I)
<1>1. /\ m \in Nat /\ IsFiniteSet(I)
      /\ Among(q, ss) = [k \in 1..m |-> Among(q, ss)[k]]
      /\ \A i \in I : UpTo(I, i) \in 1..m /\ Among(q, ss)[UpTo(I, i)] = q[i]
      /\ \A k \in 1..m : \E i \in I : UpTo(I, i) = k
  BY AmongAt
<1>2. /\ Among(r, tt) = [k \in 1..Cardinality(J) |-> Among(r, tt)[k]]
      /\ IsFiniteSet(J)
      /\ \A i \in J : Among(r, tt)[UpTo(J, i)] = r[i]
  BY AmongAt
<1>3. /\ \A i \in I : r[f[i]] = q[i]
      /\ \A i, j \in I : i <= j <=> f[i] <= f[j]
      /\ f \in Bijection(I, J)
  OBVIOUS
<1> HIDE DEF I, J
<1>4. /\ f \in [I -> J] /\ \A i, j \in I : f[i] = f[j] => i = j
      /\ \A j \in J : \E i \in I : f[i] = j
  BY <1>3 DEF Bijection, Injection, Surjection, IsInjective
<1>5. Cardinality(J) = m
  BY <1>1, <1>2, <1>3, FS_Bijection DEF ExistsBijection
<1>6. ASSUME NEW i \in I PROVE UpTo(J, f[i]) = UpTo(I, i)
  <2> DEFINE A == {j \in I : j <= i}
             B == {j \in J : j <= f[i]}
             g == [j \in A |-> f[j]]
  <2>1. A \in SUBSET I /\ B \in SUBSET J
    OBVIOUS
  <2>2. IsFiniteSet(A) /\ IsFiniteSet(B)
    BY <1>1, <1>2, <2>1, FS_Subset
  <2>3. \A j \in A : f[j] \in B
    BY <1>3, <1>4
  <2>4. \A b \in B : \E j \in A : f[j] = b
    BY <1>3, <1>4
  <2>5. DOMAIN g = A /\ \A j \in A : g[j] = f[j]
    OBVIOUS
  <2>6. g \in [A -> B]
    BY <2>3
  <2> HIDE DEF A, B, g
  <2>7. g \in Bijection(A, B)
    BY <1>4, <2>1, <2>4, <2>5, <2>6 DEF Bijection, Injection, Surjection, IsInjective
  <2>8. Cardinality(A) = Cardinality(B)
    BY <2>2, <2>7, FS_Bijection DEF ExistsBijection
  <2> QED BY <2>8 DEF A, B, UpTo
<1>7. ASSUME NEW k \in 1..m PROVE Among(r, tt)[k] = Among(q, ss)[k]
  <2>1. PICK i \in I : UpTo(I, i) = k
    BY <1>1
  <2>2. Among(q, ss)[k] = q[i]
    BY <1>1, <2>1
  <2>3. Among(r, tt)[k] = r[f[i]]
    BY <1>2, <1>4, <1>6, <2>1
  <2> QED BY <1>3, <2>2, <2>3
<1> HIDE DEF m
<1> QED BY <1>1, <1>2, <1>5, <1>7

\* The identity keeps the order.
LEMMA AmongKept ==
    ASSUME NEW S, NEW q \in Seq(S), NEW r \in Seq(S), NEW ss, NEW tt,
           Where(r, tt) = Where(q, ss), \A i \in Where(q, ss) : r[i] = q[i]
    PROVE  Among(r, tt) = Among(q, ss)
<1> DEFINE I == Where(q, ss)
           f == [i \in I |-> i]
<1>1. f \in Bijection(I, Where(r, tt))
  <2>1. f \in [I -> I] /\ DOMAIN f = I /\ \A i \in I : f[i] = i
    OBVIOUS
  <2>2. Where(r, tt) = I
    OBVIOUS
  <2> HIDE DEF I, f
  <2> QED BY <2>1, <2>2 DEF Bijection, Injection, Surjection, IsInjective
<1>2. \A i \in I : r[f[i]] = q[i]
  OBVIOUS
<1>3. \A i, j \in I : i <= j <=> f[i] <= f[j]
  OBVIOUS
<1> HIDE DEF f
<1> QED BY <1>1, <1>2, <1>3, AmongSame

\* What is appended comes last, if it is of interest.
LEMMA AmongAppended ==
    ASSUME NEW S, NEW seq \in Seq(S), NEW s \in S, NEW ss
    PROVE  /\ s \notin ss => Among(Append(seq, s), ss) = Among(seq, ss)
           /\ s \in ss => Among(Append(seq, s), ss) = Append(Among(seq, ss), s)
<1> DEFINE r == Append(seq, s)
           n == Len(seq)
           I == Where(seq, ss)
           J == Where(r, ss)
           m == Cardinality(I)
<1>1. /\ r \in Seq(S) /\ n \in Nat /\ DOMAIN seq = 1..n /\ DOMAIN r = 1..n + 1
      /\ r[n + 1] = s /\ \A i \in 1..n : r[i] = seq[i]
  BY SMTT(60)
<1> HIDE DEF r
<1>2. CASE s \notin ss
  <2>1. J = I
    BY <1>1, <1>2 DEF Where
  <2>2. \A i \in I : r[i] = seq[i]
    BY <1>1 DEF Where
  <2>3. Among(r, ss) = Among(seq, ss)
    BY <1>1, <2>1, <2>2, AmongKept
  <2> QED BY <1>2, <2>3 DEF r
<1>3. CASE s \in ss
  <2>1. J = I \cup {n + 1} /\ n + 1 \notin I
    BY <1>1, <1>3 DEF Where
  <2>2. /\ m \in Nat /\ IsFiniteSet(I) /\ I \in SUBSET (1..n)
        /\ Among(seq, ss) = [k \in 1..m |-> Among(seq, ss)[k]]
        /\ \A i \in I : UpTo(I, i) \in 1..m /\ Among(seq, ss)[UpTo(I, i)] = seq[i]
        /\ \A k \in 1..m : \E i \in I : UpTo(I, i) = k
    BY AmongAt
  <2>3. /\ Among(r, ss) = [k \in 1..Cardinality(J) |-> Among(r, ss)[k]]
        /\ \A i \in J : Among(r, ss)[UpTo(J, i)] = r[i]
    BY <1>1, AmongAt
  <2> HIDE DEF I, J
  <2>4. Cardinality(J) = m + 1
    BY <2>1, <2>2, FS_AddElement
  <2>5. ASSUME NEW i \in I PROVE UpTo(J, i) = UpTo(I, i)
    <3>1. {j \in J : j <= i} = {j \in I : j <= i}
      BY <1>1, <2>1, <2>2
    <3> QED BY <3>1 DEF UpTo
  <2>6. UpTo(J, n + 1) = m + 1
    <3>1. {j \in J : j <= n + 1} = J
      BY <1>1, <2>1, <2>2
    <3> QED BY <2>4, <3>1 DEF UpTo
  <2> HIDE DEF m
  <2>7. ASSUME NEW k \in 1..m PROVE Among(r, ss)[k] = Among(seq, ss)[k]
    <3>1. PICK i \in I : UpTo(I, i) = k
      BY <2>2
    <3>2. Among(seq, ss)[k] = seq[i] /\ i \in 1..n
      BY <2>2, <3>1
    <3>3. Among(r, ss)[k] = r[i]
      BY <2>1, <2>3, <2>5, <3>1
    <3> QED BY <1>1, <3>2, <3>3
  <2>8. Among(r, ss)[m + 1] = s
    <3>1. n + 1 \in J
      BY <2>1
    <3>2. Among(r, ss)[UpTo(J, n + 1)] = r[n + 1]
      BY <2>3, <3>1
    <3> QED BY <1>1, <2>6, <3>2
  <2>9. Among(r, ss) = [k \in 1..m + 1 |-> IF k = m + 1 THEN s ELSE Among(seq, ss)[k]]
    <3>1. \A k \in 1..m + 1 : k # m + 1 => k \in 1..m
      BY <2>2
    <3> QED BY <2>3, <2>4, <2>7, <2>8, <3>1
  <2>10. Among(seq, ss) \in Seq(S)
    BY AmongIs
  <2>11. Len(Among(seq, ss)) = m
    BY <2>2, <2>10
  <2>12. Append(Among(seq, ss), s)
           = [k \in 1..m + 1 |-> IF k = m + 1 THEN s ELSE Among(seq, ss)[k]]
    BY <2>2, <2>10, <2>11, SMTT(60)
  <2> QED BY <1>3, <2>9, <2>12 DEF r
<1> QED BY <1>2, <1>3

\* What is removed is no longer there, and the rest is as it was.
LEMMA AmongRemoved ==
    ASSUME NEW S, NEW seq \in Seq(S), Once(seq), NEW p \in DOMAIN seq, NEW ss
    PROVE  Among(RemoveAt(seq, p), ss) = Among(seq, ss \ {seq[p]})
<1> DEFINE r == RemoveAt(seq, p)
           n == Len(seq)
           I == Where(seq, ss \ {seq[p]})
           J == Where(r, ss)
           f == [i \in I |-> IF i < p THEN i ELSE i - 1]
<1>1. n \in Nat /\ DOMAIN seq = 1..n /\ p \in 1..n
  OBVIOUS
<1>2. /\ r \in Seq(S) /\ DOMAIN r = 1..n - 1
      /\ \A i \in 1..n - 1 : r[i] = seq[IF i < p THEN i ELSE i + 1]
  BY RemovedIs
<1>3. \A i \in 1..n : seq[i] = seq[p] => i = p
  BY <1>1 DEF Once
<1>4. \A i : i \in I <=> i \in 1..n /\ seq[i] \in ss /\ i # p
  BY <1>1, <1>3 DEF Where
<1> HIDE DEF r, n
<1>5. \A i : i \in J <=> i \in 1..n - 1 /\ r[i] \in ss
  BY <1>2 DEF Where
<1>6. /\ DOMAIN f = I /\ f = [i \in I |-> f[i]]
      /\ \A i \in I : f[i] = IF i < p THEN i ELSE i - 1
  OBVIOUS
<1> HIDE DEF I, J, f
<1>7. ASSUME NEW i \in I PROVE f[i] \in 1..n - 1 /\ r[f[i]] = seq[i] /\ f[i] \in J
  <2>1. i \in 1..n /\ seq[i] \in ss /\ i # p
    BY <1>4
  <2>2. CASE i < p
    <3>1. f[i] = i /\ i \in 1..n - 1
      BY <1>1, <1>6, <2>1, <2>2
    <3> QED BY <1>2, <1>5, <2>1, <2>2, <3>1
  <2>3. CASE ~(i < p)
    <3>1. f[i] = i - 1 /\ i - 1 \in 1..n - 1 /\ ~(i - 1 < p) /\ (i - 1) + 1 = i
      BY <1>1, <1>6, <2>1, <2>3
    <3>2. r[i - 1] = seq[i]
      BY <1>2, <3>1
    <3> QED BY <1>5, <2>1, <3>1, <3>2
  <2> QED BY <2>2, <2>3
<1>8. ASSUME NEW j \in J PROVE \E i \in I : f[i] = j
  <2>1. j \in 1..n - 1 /\ r[j] \in ss
    BY <1>5
  <2>2. CASE j < p
    <3>1. j \in 1..n /\ j # p /\ seq[j] \in ss
      BY <1>1, <1>2, <2>1, <2>2
    <3>2. j \in I
      BY <1>4, <3>1
    <3> QED BY <1>6, <2>2, <3>2
  <2>3. CASE ~(j < p)
    <3>1. /\ j + 1 \in 1..n /\ j + 1 # p /\ ~(j + 1 < p) /\ (j + 1) - 1 = j
          /\ seq[j + 1] \in ss
      BY <1>1, <1>2, <2>1, <2>3
    <3>2. j + 1 \in I
      BY <1>4, <3>1
    <3> QED BY <1>6, <3>1, <3>2
  <2> QED BY <2>2, <2>3
<1>9. \A i, j \in I : i <= j <=> f[i] <= f[j]
  <2> SUFFICES ASSUME NEW i \in I, NEW j \in I PROVE i <= j <=> f[i] <= f[j]
    OBVIOUS
  <2>1. i \in 1..n /\ i # p /\ j \in 1..n /\ j # p
    BY <1>4
  <2> QED BY <1>1, <1>6, <2>1
<1>10. f \in Bijection(I, J)
  <2>1. f \in [I -> J]
    BY <1>6, <1>7
  <2>2. ASSUME NEW i \in I, NEW j \in I, f[i] = f[j] PROVE i = j
    <3>1. i \in Nat /\ j \in Nat /\ f[i] \in Nat /\ f[j] \in Nat
      BY <1>1, <1>4, <1>7
    <3>2. i <= j /\ j <= i
      BY <1>9, <2>2, <3>1
    <3> QED BY <3>1, <3>2
  <2> QED BY <1>6, <1>8, <2>1, <2>2
          DEF Bijection, Injection, Surjection, IsInjective
<1>11. f \in Bijection(Where(seq, ss \ {seq[p]}), Where(r, ss))
  BY <1>10 DEF I, J
<1>12. \A i \in Where(seq, ss \ {seq[p]}) : r[f[i]] = seq[i]
  BY <1>7 DEF I
<1>13. \A i, j \in Where(seq, ss \ {seq[p]}) : i <= j <=> f[i] <= f[j]
  BY <1>9 DEF I
<1>14. Among(r, ss) = Among(seq, ss \ {seq[p]})
  <2> DEFINE rest == ss \ {seq[p]}
  <2>1. /\ f \in Bijection(Where(seq, rest), Where(r, ss)) /\ r \in Seq(S)
        /\ \A i \in Where(seq, rest) : r[f[i]] = seq[i]
        /\ \A i, j \in Where(seq, rest) : i <= j <=> f[i] <= f[j]
    BY <1>2, <1>11, <1>12, <1>13
  <2> HIDE DEF rest
  <2>2. Among(r, ss) = Among(seq, rest)
    BY <2>1, AmongSame
  <2> QED BY <2>2 DEF rest
<1> QED BY <1>14 DEF r

\* What comes first of those of interest is the head.
LEMMA AmongFirst ==
    ASSUME NEW S, NEW seq \in Seq(S), Once(seq), NEW ss,
           NEW p \in Where(seq, ss), \A i \in Where(seq, ss) : p <= i
    PROVE  /\ Among(seq, ss) # <<>>
           /\ Among(seq, ss \ {seq[p]}) = Tail(Among(seq, ss))
<1> DEFINE n == Len(seq)
           I == Where(seq, ss)
           J == Where(seq, ss \ {seq[p]})
           m == Cardinality(I)
           t == Among(seq, ss)
           u == Among(seq, ss \ {seq[p]})
<1>1. /\ m \in Nat /\ IsFiniteSet(I) /\ I \in SUBSET (1..n)
      /\ DOMAIN t = 1..m
      /\ \A i \in I : UpTo(I, i) \in 1..m /\ t[UpTo(I, i)] = seq[i]
  BY AmongAt
<1>2. /\ IsFiniteSet(J) /\ Cardinality(J) \in Nat
      /\ u = [k \in 1..Cardinality(J) |-> u[k]]
      /\ \A i \in J : u[UpTo(J, i)] = seq[i]
      /\ \A k \in 1..Cardinality(J) : \E i \in J : UpTo(J, i) = k
  BY AmongAt
<1>3. I = J \cup {p} /\ p \notin J
  <2>1. \A i \in DOMAIN seq : seq[i] = seq[p] => i = p
    BY DEF Once, Where
  <2> QED BY <2>1 DEF Where
<1>4. p \in I /\ \A i \in I : p <= i /\ i \in Nat
  BY <1>1
<1>5. t \in Seq(S)
  BY AmongIs
<1> HIDE DEF I, J, t, u
<1>6. Cardinality(J) + 1 = m
  BY <1>2, <1>3, FS_AddElement
<1>7. ASSUME NEW i \in J
      PROVE  UpTo(I, i) = UpTo(J, i) + 1 /\ UpTo(J, i) \in Nat
  <2> DEFINE A == {j \in I : j <= i}
             B == {j \in J : j <= i}
  <2>1. A = B \cup {p} /\ p \notin B /\ B \in SUBSET J
    BY <1>3, <1>4
  <2> HIDE DEF A, B
  <2>2. IsFiniteSet(B)
    BY <1>2, <2>1, FS_Subset
  <2>3. Cardinality(A) = Cardinality(B) + 1 /\ Cardinality(B) \in Nat
    BY <2>1, <2>2, FS_AddElement, FS_CardinalityType
  <2> QED BY <2>3 DEF A, B, UpTo
<1> HIDE DEF m
<1>8. Len(t) = m /\ t # <<>>
  <2>1. Len(t) = m
    BY <1>1, <1>5
  <2> QED BY <1>2, <1>5, <1>6, <2>1
<1>9. Tail(t) = [k \in 1..m - 1 |-> t[k + 1]]
  <2>1. /\ Tail(t) \in Seq(S) /\ Len(Tail(t)) = m - 1
        /\ \A k \in 1..m - 1 : Tail(t)[k] = t[k + 1]
    BY <1>1, <1>5, <1>8
  <2>2. Tail(t) \in [1..m - 1 -> S]
    <3> DEFINE v == Tail(t)
    <3>1. v \in Seq(S) /\ Len(v) = m - 1
      BY <2>1
    <3> HIDE DEF v
    <3>2. v \in [1..Len(v) -> S]
      BY <3>1
    <3> QED BY <3>1, <3>2 DEF v
  <2>3. Tail(t) = [k \in 1..m - 1 |-> Tail(t)[k]]
    BY <2>2
  <2> QED BY <2>1, <2>3
<1>10. Cardinality(J) = m - 1
  BY <1>1, <1>2, <1>6
<1>11. ASSUME NEW k \in 1..m - 1 PROVE u[k] = t[k + 1]
  <2>1. PICK i \in J : UpTo(J, i) = k
    BY <1>2, <1>10
  <2>2. u[k] = seq[i]
    BY <1>2, <2>1
  <2>3. i \in I /\ UpTo(I, i) = k + 1
    BY <1>3, <1>7, <2>1
  <2> QED BY <1>1, <2>2, <2>3
<1>12. u = Tail(t)
  BY <1>2, <1>9, <1>10, <1>11
<1> QED BY <1>8, <1>12 DEF t, u

-----------------------------------------------------------------------------
(* The inductive invariant.                                                *)

\* The list and the batch hold a source once, and the batch no longer has the
\* one whose callback runs: a list that held a source twice, or a batch that
\* notified it twice, would let the counts of ReferencesAreCounted go wrong.
Lists ==
    /\ list \in Seq(Sources) /\ batch \in Seq(Sources)
    /\ current \in Sources \cup {None}
    /\ Once(list) /\ Once(batch) /\ ~In(current, batch)

Values ==
    /\ refs \in [Sources -> Int]
    /\ owned \subseteq Sources
    /\ cancelled \subseteq Sources /\ expired \subseteq Sources
    /\ timeout \in [Timed -> Delays \cup {0}]
    /\ left \in [Timed -> Int]
    /\ elapsed \in 0..MaxLate
    /\ readable \subseteq Sockets

\* Of a source that waits in the batch and is not cancelled nothing has
\* changed since the poll: whatever changed it cancelled it, and a deadline
\* that passed cannot be set again.
Current(s) ==
    In(s, batch) /\ s \notin cancelled =>
        /\ In(s, list)
        /\ s \in Timed => left[s] <= 0 /\ s \in expired
        /\ s \in Sockets => s \in readable

BatchIsCurrent == \A s \in Sources : Current(s)

Inv == Lists /\ Values /\ ReferencesAreCounted /\ BatchIsCurrent

\* The invariant holds of an empty loop.
LEMMA Initially == Init => Inv
<1> SUFFICES ASSUME Init PROVE Inv
  OBVIOUS
<1>1. Lists
  BY KindsAssumption DEF Init, Lists, In, Once
<1>2. Values
  BY DelaysAssumption DEF Init, Values
<1>3. ReferencesAreCounted
  BY KindsAssumption DEF Init, ReferencesAreCounted, One, Linked, Batched
<1>4. BatchIsCurrent
  BY DEF Init, BatchIsCurrent, Current, In
<1> QED BY <1>1, <1>2, <1>3, <1>4 DEF Inv

\* What the count says of one source.
Counted(s) ==
    refs[s] = (IF s \in owned THEN 1 ELSE 0) + (IF In(s, list) THEN 1 ELSE 0)
                + (IF In(s, batch) THEN 1 ELSE 0)
                + (IF current = s THEN 1 ELSE 0)

\* ReferencesAreCounted, source by source.
LEMMA CountedIs == ReferencesAreCounted <=> \A s \in Sources : Counted(s)
BY DEF ReferencesAreCounted, Counted, One, Linked, Batched, In

\* A source without references is nowhere.
LEMMA Nowhere ==
    ASSUME Inv, NEW s \in Sources, refs[s] = 0
    PROVE  s \notin owned /\ ~In(s, list) /\ ~In(s, batch) /\ current # s
<1>1. Counted(s)
  BY CountedIs DEF Inv
<1> QED BY <1>1 DEF Counted

\* A source is added.
LEMMA AddSteps ==
    ASSUME Inv,
           \/ \E s \in Timers, delay \in Delays : NewTimer(s, delay)
           \/ \E s \in Sockets : NewSocket(s)
           \/ \E s \in Tasks : do_later(s)
           \/ \E s \in Sources : AddAgain(s)
    PROVE  Inv'
<1> USE KindsAssumption, DelaysAssumption
<1>1. ASSUME NEW s \in Sources, ~In(s, list), add_source(s),
             UNCHANGED <<batch, current>>
      PROVE  /\ Lists'
             /\ \A x : In(x, list') <=> In(x, list) \/ x = s
  <2>1. list' = Append(list, s) /\ list \in Seq(Sources) /\ Once(list)
    BY <1>1 DEF add_source, Inv, Lists
  <2>2. /\ list' \in Seq(Sources) /\ Once(list')
        /\ \A x : In(x, list') <=> In(x, list) \/ x = s
    BY <1>1, <2>1, Appended
  <2> QED BY <1>1, <2>2 DEF Inv, Lists
<1>2. ASSUME NEW s \in Timers, NEW delay \in Delays, NewTimer(s, delay)
      PROVE  Inv'
  <2>1. s \in Sources /\ s \in Timed /\ s \notin Sockets /\ delay \in Int
    BY DEF Sources, Timed
  <2>2. s \notin owned /\ ~In(s, list) /\ ~In(s, batch) /\ current # s
    BY <1>2, <2>1, Nowhere DEF NewTimer, fresh
  <2>3. /\ Lists' /\ \A x : In(x, list') <=> In(x, list) \/ x = s
    BY <1>1, <1>2, <2>1, <2>2 DEF NewTimer
  <2>4. Values'
    BY <1>2, <2>1 DEF NewTimer, fresh, Inv, Values
  <2>5. ReferencesAreCounted'
    <3> SUFFICES ASSUME NEW x \in Sources PROVE Counted(x)'
      BY DEF ReferencesAreCounted, Counted, One, Linked, Batched, In
    <3>1. Counted(x) /\ refs \in [Sources -> Int]
      BY CountedIs DEF Inv, Values
    <3> QED BY <1>2, <2>1, <2>2, <2>3, <3>1 DEF Counted, NewTimer
  <2>6. BatchIsCurrent'
    <3> SUFFICES ASSUME NEW x \in Sources PROVE Current(x)'
      BY DEF BatchIsCurrent
    <3>1. Current(x) /\ left \in [Timed -> Int]
      BY DEF Inv, BatchIsCurrent, Values
    <3> QED BY <1>2, <2>2, <2>3, <3>1 DEF Current, NewTimer, fresh
  <2> QED BY <2>3, <2>4, <2>5, <2>6 DEF Inv
<1>3. ASSUME NEW s \in Sockets, NewSocket(s)
      PROVE  Inv'
  <2>1. s \in Sources /\ s \notin Timed
    BY DEF Sources, Timed
  <2>2. s \notin owned /\ ~In(s, list) /\ ~In(s, batch) /\ current # s
    BY <1>3, <2>1, Nowhere DEF NewSocket, fresh
  <2>3. /\ Lists' /\ \A x : In(x, list') <=> In(x, list) \/ x = s
    BY <1>1, <1>3, <2>1, <2>2 DEF NewSocket
  <2>4. Values'
    BY <1>3, <2>1 DEF NewSocket, fresh, times, Inv, Values
  <2>5. ReferencesAreCounted'
    <3> SUFFICES ASSUME NEW x \in Sources PROVE Counted(x)'
      BY DEF ReferencesAreCounted, Counted, One, Linked, Batched, In
    <3>1. Counted(x) /\ refs \in [Sources -> Int]
      BY CountedIs DEF Inv, Values
    <3> QED BY <1>3, <2>1, <2>2, <2>3, <3>1 DEF Counted, NewSocket
  <2>6. BatchIsCurrent'
    <3> SUFFICES ASSUME NEW x \in Sources PROVE Current(x)'
      BY DEF BatchIsCurrent
    <3>1. Current(x) /\ left \in [Timed -> Int]
      BY DEF Inv, BatchIsCurrent, Values
    <3> QED BY <1>3, <2>2, <2>3, <3>1 DEF Current, NewSocket, fresh, times
  <2> QED BY <2>3, <2>4, <2>5, <2>6 DEF Inv
<1>4. ASSUME NEW s \in Tasks, do_later(s)
      PROVE  Inv'
  <2>1. s \in Sources /\ s \in Timed /\ s \notin Sockets
    BY DEF Sources, Timed
  <2>2. s \notin owned /\ ~In(s, list) /\ ~In(s, batch) /\ current # s
    BY <1>4, <2>1, Nowhere DEF do_later, fresh
  <2>3. /\ Lists' /\ \A x : In(x, list') <=> In(x, list) \/ x = s
    BY <1>1, <1>4, <2>1, <2>2 DEF do_later
  <2>4. Values'
    BY <1>4, <2>1 DEF do_later, fresh, Inv, Values
  <2>5. ReferencesAreCounted'
    <3> SUFFICES ASSUME NEW x \in Sources PROVE Counted(x)'
      BY DEF ReferencesAreCounted, Counted, One, Linked, Batched, In
    <3>1. Counted(x) /\ refs \in [Sources -> Int]
      BY CountedIs DEF Inv, Values
    <3> QED BY <1>4, <2>1, <2>2, <2>3, <3>1 DEF Counted, do_later
  <2>6. BatchIsCurrent'
    <3> SUFFICES ASSUME NEW x \in Sources PROVE Current(x)'
      BY DEF BatchIsCurrent
    <3>1. Current(x) /\ left \in [Timed -> Int]
      BY DEF Inv, BatchIsCurrent, Values
    <3> QED BY <1>4, <2>2, <2>3, <3>1 DEF Current, do_later, fresh
  <2> QED BY <2>3, <2>4, <2>5, <2>6 DEF Inv
<1>5. ASSUME NEW s \in Sources, AddAgain(s)
      PROVE  Inv'
  <2>1. ~In(s, list)
    BY <1>5 DEF AddAgain, Linked, In
  <2>2. In(s, batch) => s \in cancelled
    BY <2>1 DEF Inv, BatchIsCurrent, Current
  <2>3. /\ Lists' /\ \A x : In(x, list') <=> In(x, list) \/ x = s
    BY <1>1, <1>5, <2>1 DEF AddAgain
  <2>4. Values'
    <3>1. s \in Timed => timeout[s] \in Int
      <4>1. s \in Timed => timeout[s] \in Delays \cup {0}
        BY DEF Inv, Values
      <4>2. \A d \in Delays \cup {0} : d \in Int
        OBVIOUS
      <4> QED BY <4>1, <4>2
    <3> QED BY <1>5, <3>1 DEF AddAgain, Inv, Values
  <2>5. ReferencesAreCounted'
    <3> SUFFICES ASSUME NEW x \in Sources PROVE Counted(x)'
      BY DEF ReferencesAreCounted, Counted, One, Linked, Batched, In
    <3>1. Counted(x) /\ refs \in [Sources -> Int]
      BY CountedIs DEF Inv, Values
    <3> QED BY <1>5, <2>1, <2>3, <3>1 DEF Counted, AddAgain
  <2>6. BatchIsCurrent'
    <3> SUFFICES ASSUME NEW x \in Sources PROVE Current(x)'
      BY DEF BatchIsCurrent
    <3>1. Current(x) /\ left \in [Timed -> Int]
      BY DEF Inv, BatchIsCurrent, Values
    <3> QED BY <1>5, <2>2, <2>3, <3>1 DEF Current, AddAgain
  <2> QED BY <2>3, <2>4, <2>5, <2>6 DEF Inv
<1> QED BY <1>2, <1>3, <1>4, <1>5

\* A source that is linked is taken out of the list, or stays.
LEMMA WithoutIs ==
    ASSUME Inv, NEW s \in Sources, In(s, list)
    PROVE  /\ Without(s) \in Seq(Sources) /\ Once(Without(s))
           /\ \A x : In(x, Without(s)) <=> In(x, list) /\ x # s
<1>1. Place(s) \in DOMAIN list /\ list[Place(s)] = s
  BY DEF Place, In
<1>2. list \in Seq(Sources) /\ Once(list)
  BY DEF Inv, Lists
<1> QED BY <1>1, <1>2, Removed DEF Without

\* The owner, or whoever has the identifier of a source, gives it up or sets it.
LEMMA OwnerSteps ==
    ASSUME Inv,
           \/ \E s \in Sources : remove_source(s) \/ cancel_source(s) \/ Release(s)
           \/ \E s \in Timers, delay \in Delays : set_timeout(s, delay)
    PROVE  Inv'
<1> USE KindsAssumption, DelaysAssumption
<1>1. ASSUME NEW x \in Sources
      PROVE  Counted(x) /\ Current(x) /\ refs \in [Sources -> Int]
  BY CountedIs DEF Inv, BatchIsCurrent, Values
<1>2. ASSUME NEW s \in Sources, remove_source(s)
      PROVE  Inv'
  <2>1. In(s, list) /\ list' = Without(s) /\ s \in owned
    BY <1>2 DEF remove_source, Linked, In
  <2>2. /\ list' \in Seq(Sources) /\ Once(list')
        /\ \A x : In(x, list') <=> In(x, list) /\ x # s
    BY <2>1, WithoutIs
  <2>3. Lists'
    BY <1>2, <2>2 DEF remove_source, Inv, Lists
  <2>4. Values'
    BY <1>2 DEF remove_source, times, Inv, Values
  <2>5. ReferencesAreCounted'
    <3> SUFFICES ASSUME NEW x \in Sources PROVE Counted(x)'
      BY DEF ReferencesAreCounted, Counted, One, Linked, Batched, In
    <3> QED BY <1>1, <1>2, <2>1, <2>2, SMTT(60) DEF Counted, remove_source
  <2>6. BatchIsCurrent'
    <3> SUFFICES ASSUME NEW x \in Sources PROVE Current(x)'
      BY DEF BatchIsCurrent
    <3> QED BY <1>1, <1>2, <2>2 DEF Current, remove_source, times
  <2> QED BY <2>3, <2>4, <2>5, <2>6 DEF Inv
<1>3. ASSUME NEW s \in Sources, cancel_source(s)
      PROVE  Inv'
  <2>1. UNCHANGED <<list, batch, current, refs, owned>>
    BY <1>3 DEF cancel_source, lists
  <2>2. Lists' /\ ReferencesAreCounted'
    <3>1. Lists'
      BY <2>1 DEF Inv, Lists
    <3>2. ReferencesAreCounted'
      <4> SUFFICES ASSUME NEW x \in Sources PROVE Counted(x)'
        BY DEF ReferencesAreCounted, Counted, One, Linked, Batched, In
      <4> QED BY <1>1, <2>1 DEF Counted
    <3> QED BY <3>1, <3>2
  <2>3. Values'
    BY <1>3 DEF cancel_source, times, Inv, Values
  <2>4. BatchIsCurrent'
    <3> SUFFICES ASSUME NEW x \in Sources PROVE Current(x)'
      BY DEF BatchIsCurrent
    <3> QED BY <1>1, <1>3, <2>1 DEF Current, cancel_source, times
  <2> QED BY <2>2, <2>3, <2>4 DEF Inv
<1>4. ASSUME NEW s \in Sources, Release(s)
      PROVE  Inv'
  <2>1. UNCHANGED <<list, batch, current>>
    BY <1>4 DEF Release, lists
  <2>2. Lists'
    BY <2>1 DEF Inv, Lists
  <2>3. Values'
    BY <1>4 DEF Release, times, Inv, Values
  <2>4. ReferencesAreCounted'
    <3> SUFFICES ASSUME NEW x \in Sources PROVE Counted(x)'
      BY DEF ReferencesAreCounted, Counted, One, Linked, Batched, In
    <3> QED BY <1>1, <1>4, <2>1 DEF Counted, Release
  <2>5. BatchIsCurrent'
    BY <1>4, <2>1 DEF Inv, BatchIsCurrent, Current, Release, times
  <2> QED BY <2>2, <2>3, <2>4, <2>5 DEF Inv
<1>5. ASSUME NEW s \in Timers, NEW delay \in Delays, set_timeout(s, delay)
      PROVE  Inv'
  <2>1. UNCHANGED <<list, batch, current, refs, owned, cancelled, expired, readable>>
    BY <1>5 DEF set_timeout, lists
  <2>2. Lists' /\ ReferencesAreCounted'
    <3>1. Lists'
      BY <2>1 DEF Inv, Lists
    <3>2. ReferencesAreCounted'
      <4> SUFFICES ASSUME NEW x \in Sources PROVE Counted(x)'
        BY DEF ReferencesAreCounted, Counted, One, Linked, Batched, In
      <4> QED BY <1>1, <2>1 DEF Counted
    <3> QED BY <3>1, <3>2
  <2>3. Values'
    BY <1>5 DEF set_timeout, lists, Inv, Values, Timed
  <2>4. BatchIsCurrent'
    <3> SUFFICES ASSUME NEW x \in Sources PROVE Current(x)'
      BY DEF BatchIsCurrent
    <3>1. left \in [Timed -> Int]
      BY DEF Inv, Values
    <3> QED BY <1>1, <1>5, <2>1, <3>1 DEF Current, set_timeout
  <2> QED BY <2>2, <2>3, <2>4 DEF Inv
<1> QED BY <1>2, <1>3, <1>4, <1>5

\* The iteration polls.
LEMMA PollStep ==
    ASSUME Inv, Poll PROVE Inv'
<1> USE KindsAssumption, DelaysAssumption
<1>1. ASSUME NEW x \in Sources
      PROVE  Counted(x) /\ refs \in [Sources -> Int] /\ ~In(x, batch)
  BY CountedIs DEF Inv, Values, Poll, In
<1>2. PICK ss \in {Taken} :
        /\ batch' = Among(list, ss)
        /\ refs' = [s \in Sources |-> IF s \in ss THEN refs[s] + 1 ELSE refs[s]]
        /\ expired' = expired \cup (ss \ cancelled)
  BY DEF Poll
<1>3. \A x : x \in ss <=> x \in Sources /\ In(x, list) /\ (x \in cancelled \/ Due(x))
  BY <1>2 DEF Taken, Linked, In
<1>4. /\ batch' \in Seq(Sources) /\ Once(batch')
      /\ \A x \in Sources : In(x, batch') <=> x \in ss
  <2>1. list \in Seq(Sources) /\ Once(list)
    BY DEF Inv, Lists
  <2>2. /\ batch' \in Seq(Sources) /\ Once(batch')
        /\ \A x : In(x, batch') <=> In(x, list) /\ x \in ss
    BY <1>2, <2>1, AmongIs
  <2> QED BY <1>3, <2>2
<1>5. current = None /\ ss \subseteq Sources
  BY <1>3 DEF Poll
<1>6. Lists'
  <2>1. ~In(None, batch')
    BY <1>4 DEF In
  <2> QED BY <1>4, <1>5, <2>1 DEF Poll, Inv, Lists
<1>7. Values'
  BY <1>2, <1>5 DEF Poll, Inv, Values
<1>8. ReferencesAreCounted'
  <2> SUFFICES ASSUME NEW x \in Sources PROVE Counted(x)'
    BY DEF ReferencesAreCounted, Counted, One, Linked, Batched, In
  <2>1. UNCHANGED <<list, current, owned>>
    BY DEF Poll
  <2> QED BY <1>1, <1>2, <1>4, <2>1 DEF Counted
<1>9. BatchIsCurrent'
  <2> SUFFICES ASSUME NEW x \in Sources PROVE Current(x)'
    BY DEF BatchIsCurrent
  <2>1. UNCHANGED <<list, cancelled, left, readable>>
    BY DEF Poll
  <2>2. ASSUME x \in ss, x \notin cancelled
        PROVE  /\ In(x, list) /\ x \in expired'
               /\ x \in Timed => left[x] <= 0
               /\ x \in Sockets => x \in readable
    BY <1>2, <1>3, <2>2 DEF Due, Timed
  <2> QED BY <1>4, <2>1, <2>2 DEF Current
<1> QED BY <1>6, <1>7, <1>8, <1>9 DEF Inv

\* A turn of the iteration ends for s, which the batch holds no longer.
LEMMA UnlinkIs ==
    ASSUME Inv, NEW s \in Sources, unlink(s)
    PROVE  /\ list' \in Seq(Sources) /\ Once(list')
           /\ \A x : In(x, list') <=> In(x, list) /\ x # s
           /\ cancelled' = cancelled \/ cancelled' = cancelled \cup {s}
           /\ refs' = [refs EXCEPT ![s] = @ - IF In(s, list) THEN 2 ELSE 1]
<1>1. CASE In(s, list)
  <2>1. /\ list' = Without(s) /\ cancelled' = cancelled \cup {s}
        /\ refs' = [refs EXCEPT ![s] = @ - 2]
    BY <1>1 DEF unlink, Linked, In
  <2> QED BY <1>1, <2>1, WithoutIs
<1>2. CASE ~In(s, list)
  <2>1. /\ list' = list /\ cancelled' = cancelled
        /\ refs' = [refs EXCEPT ![s] = @ - 1]
    BY <1>2 DEF unlink, Linked, In
  <2> QED BY <1>2, <2>1 DEF Inv, Lists
<1> QED BY <1>1, <1>2

\* The iteration notifies its batch.
LEMMA TurnSteps ==
    ASSUME Inv, SkipCancelled \/ Notify \/ ReturnStop \/ ReturnContinue
    PROVE  Inv'
<1> USE KindsAssumption, DelaysAssumption
<1>1. ASSUME NEW x \in Sources
      PROVE  /\ Counted(x) /\ Current(x) /\ refs \in [Sources -> Int]
             /\ left \in [Timed -> Int]
  BY CountedIs DEF Inv, BatchIsCurrent, Values
<1>2. /\ list \in Seq(Sources) /\ Once(list)
      /\ batch \in Seq(Sources) /\ Once(batch)
      /\ current \in Sources \cup {None} /\ ~In(current, batch)
  BY DEF Inv, Lists
<1> DEFINE h == Head(batch)
<1>3. ASSUME batch # <<>>
      PROVE  /\ h \in Sources /\ In(h, batch)
             /\ Tail(batch) \in Seq(Sources) /\ Once(Tail(batch))
             /\ \A x : In(x, Tail(batch)) <=> In(x, batch) /\ x # h
  BY <1>2, <1>3, HeadAndTail
<1> HIDE DEF h
<1>4. CASE SkipCancelled
  <2>1. /\ batch # <<>> /\ current = None /\ h \in cancelled /\ unlink(h)
        /\ batch' = Tail(batch)
        /\ UNCHANGED <<current, owned, expired, timeout, left, elapsed, readable>>
    BY <1>4 DEF SkipCancelled, times, h
  <2>2. /\ list' \in Seq(Sources) /\ Once(list')
        /\ \A x : In(x, list') <=> In(x, list) /\ x # h
        /\ cancelled' = cancelled \/ cancelled' = cancelled \cup {h}
        /\ refs' = [refs EXCEPT ![h] = @ - IF In(h, list) THEN 2 ELSE 1]
    BY <1>3, <2>1, UnlinkIs
  <2>3. Lists'
    BY <1>2, <1>3, <2>1, <2>2 DEF Lists
  <2>4. Values'
    BY <1>3, <2>1, <2>2 DEF Inv, Values
  <2>5. ReferencesAreCounted'
    <3> SUFFICES ASSUME NEW x \in Sources PROVE Counted(x)'
      BY DEF ReferencesAreCounted, Counted, One, Linked, Batched, In
    <3> QED BY <1>1, <1>3, <2>1, <2>2, SMTT(60) DEF Counted
  <2>6. BatchIsCurrent'
    <3> SUFFICES ASSUME NEW x \in Sources PROVE Current(x)'
      BY DEF BatchIsCurrent
    <3> QED BY <1>1, <1>3, <2>1, <2>2 DEF Current
  <2> QED BY <2>3, <2>4, <2>5, <2>6 DEF Inv
<1>5. CASE Notify
  <2>1. /\ batch # <<>> /\ current = None /\ h \notin cancelled
        /\ current' = h /\ batch' = Tail(batch)
        /\ UNCHANGED <<list, refs, owned, cancelled, expired, timeout, left,
                       elapsed, readable>>
    BY <1>5 DEF Notify, times, h
  <2>2. Lists'
    BY <1>2, <1>3, <2>1 DEF Lists
  <2>3. Values'
    BY <2>1 DEF Inv, Values
  <2>4. ReferencesAreCounted'
    <3> SUFFICES ASSUME NEW x \in Sources PROVE Counted(x)'
      BY DEF ReferencesAreCounted, Counted, One, Linked, Batched, In
    <3>1. CASE x = h
      BY <1>1, <1>3, <2>1, <3>1, SMTT(60) DEF Counted
    <3>2. CASE x # h
      BY <1>1, <1>3, <2>1, <3>2 DEF Counted
    <3> QED BY <3>1, <3>2
  <2>5. BatchIsCurrent'
    <3> SUFFICES ASSUME NEW x \in Sources PROVE Current(x)'
      BY DEF BatchIsCurrent
    <3> QED BY <1>1, <1>3, <2>1 DEF Current
  <2> QED BY <2>2, <2>3, <2>4, <2>5 DEF Inv
<1>6. CASE ReturnStop
  <2>1. /\ current # None /\ current \in Sources /\ unlink(current)
        /\ current' = None /\ readable' \in {readable, readable \ {current}}
        /\ UNCHANGED <<batch, owned, expired, timeout, left, elapsed>>
    BY <1>2, <1>6 DEF ReturnStop, Reads, times
  <2>2. /\ list' \in Seq(Sources) /\ Once(list')
        /\ \A x : In(x, list') <=> In(x, list) /\ x # current
        /\ cancelled' = cancelled \/ cancelled' = cancelled \cup {current}
        /\ refs' = [refs EXCEPT ![current] = @ - IF In(current, list) THEN 2 ELSE 1]
    BY <2>1, UnlinkIs
  <2>3. Lists'
    BY <1>2, <2>1, <2>2 DEF Lists, In
  <2>4. Values'
    BY <2>1, <2>2 DEF Inv, Values
  <2>5. ReferencesAreCounted'
    <3> SUFFICES ASSUME NEW x \in Sources PROVE Counted(x)'
      BY DEF ReferencesAreCounted, Counted, One, Linked, Batched, In
    <3> QED BY <1>1, <1>2, <2>1, <2>2 DEF Counted
  <2>6. BatchIsCurrent'
    <3> SUFFICES ASSUME NEW x \in Sources PROVE Current(x)'
      BY DEF BatchIsCurrent
    <3> QED BY <1>1, <1>2, <2>1, <2>2 DEF Current
  <2> QED BY <2>3, <2>4, <2>5, <2>6 DEF Inv
<1>7. CASE ReturnContinue
  <2>1. /\ current # None /\ current \in Sources /\ current' = None
        /\ readable' \in {readable, readable \ {current}}
        /\ refs' = [refs EXCEPT ![current] = @ - 1]
        /\ expired' = expired \/ expired' = expired \ {current}
        /\ UNCHANGED <<list, batch, owned, cancelled, timeout, elapsed>>
    BY <1>2, <1>7 DEF ReturnContinue, Reads
  <2>2. /\ left' \in [Timed -> Int]
        /\ \A x \in Timed : x # current => left'[x] = left[x]
    <3>1. left \in [Timed -> Int] /\ elapsed \in Int
      BY DEF Inv, Values
    <3>2. CASE current \in Timers
      <4>1. current \in Timed
        BY <3>2 DEF Timed
      <4>2. timeout[current] \in Int
        <5>1. timeout[current] \in Delays \cup {0}
          BY <4>1 DEF Inv, Values
        <5>2. \A d \in Delays \cup {0} : d \in Int
          OBVIOUS
        <5> QED BY <5>1, <5>2
      <4>3. PICK from \in {left[current], -elapsed} :
                left' = [left EXCEPT ![current] = from + timeout[current]]
        BY <1>7, <3>2 DEF ReturnContinue
      <4>4. from + timeout[current] \in Int
        BY <3>1, <4>1, <4>2, <4>3
      <4> QED BY <3>1, <4>3, <4>4
    <3>3. CASE current \notin Timers
      BY <1>7, <3>1, <3>3 DEF ReturnContinue
    <3> QED BY <3>2, <3>3
  <2>3. Lists'
    BY <1>2, <2>1 DEF Lists, In
  <2>4. Values'
    BY <2>1, <2>2 DEF Inv, Values
  <2>5. ReferencesAreCounted'
    <3> SUFFICES ASSUME NEW x \in Sources PROVE Counted(x)'
      BY DEF ReferencesAreCounted, Counted, One, Linked, Batched, In
    <3> QED BY <1>1, <1>2, <2>1 DEF Counted
  <2>6. BatchIsCurrent'
    <3> SUFFICES ASSUME NEW x \in Sources PROVE Current(x)'
      BY DEF BatchIsCurrent
    <3> QED BY <1>1, <1>2, <2>1, <2>2 DEF Current
  <2> QED BY <2>3, <2>4, <2>5, <2>6 DEF Inv
<1> QED BY <1>4, <1>5, <1>6, <1>7

\* The world: deadlines come nearer, data arrives.
LEMMA WorldSteps ==
    ASSUME Inv, Tick \/ \E s \in Sockets : Arrive(s)
    PROVE  Inv'
<1>1. UNCHANGED <<list, batch, current, refs, owned, cancelled, expired, timeout>>
  BY DEF Tick, Arrive, lists, times
<1>2. Lists'
  BY <1>1 DEF Inv, Lists
<1>3. ReferencesAreCounted'
  <2> SUFFICES ASSUME NEW x \in Sources PROVE Counted(x)'
    BY DEF ReferencesAreCounted, Counted, One, Linked, Batched, In
  <2>1. Counted(x)
    BY CountedIs DEF Inv
  <2> QED BY <1>1, <2>1 DEF Counted
<1>4. left \in [Timed -> Int] /\ elapsed \in 0..MaxLate /\ readable \subseteq Sockets
  BY DEF Inv, Values
<1>5. /\ left' \in [Timed -> Int] /\ elapsed' \in 0..MaxLate
      /\ \A x \in Timed : left[x] <= 0 => left'[x] <= 0
      /\ readable \subseteq readable' /\ readable' \subseteq Sockets
  <2>1. CASE Tick
    <3> DEFINE running == {s \in Timed \ cancelled : Linked(s)}
    <3>1. /\ left' = [s \in Timed |-> IF s \in running THEN left[s] - 1 ELSE left[s]]
          /\ elapsed' \in {elapsed, elapsed + 1} /\ elapsed' <= MaxLate
          /\ readable' = readable
      BY <1>4, <2>1, DelaysAssumption DEF Tick
    <3> HIDE DEF running
    <3> QED BY <1>4, <3>1, DelaysAssumption
  <2>2. CASE \E s \in Sockets : Arrive(s)
    BY <1>4, <2>2 DEF Arrive, times
  <2> QED BY <2>1, <2>2
<1>6. Values'
  BY <1>1, <1>5 DEF Inv, Values
<1>7. BatchIsCurrent'
  <2> SUFFICES ASSUME NEW x \in Sources PROVE Current(x)'
    BY DEF BatchIsCurrent
  <2>1. Current(x)
    BY DEF Inv, BatchIsCurrent
  <2> QED BY <1>1, <1>5, <2>1 DEF Current
<1> QED BY <1>2, <1>3, <1>6, <1>7 DEF Inv

\* Every step keeps the invariant: one case for each action.
LEMMA Step == Inv /\ [Next]_vars => Inv'
<1> SUFFICES ASSUME Inv, [Next]_vars PROVE Inv'
  OBVIOUS
<1>1. CASE \/ \E s \in Timers, delay \in Delays : NewTimer(s, delay)
           \/ \E s \in Sockets : NewSocket(s)
           \/ \E s \in Tasks : do_later(s)
           \/ \E s \in Sources : AddAgain(s)
  BY <1>1, AddSteps
<1>2. CASE \/ \E s \in Sources : remove_source(s) \/ cancel_source(s) \/ Release(s)
           \/ \E s \in Timers, delay \in Delays : set_timeout(s, delay)
  BY <1>2, OwnerSteps
<1>3. CASE Poll
  BY <1>3, PollStep
<1>4. CASE SkipCancelled \/ Notify \/ ReturnStop \/ ReturnContinue
  BY <1>4, TurnSteps
<1>5. CASE Tick \/ \E s \in Sockets : Arrive(s)
  BY <1>5, WorldSteps
<1>6. CASE UNCHANGED vars
  <2>1. UNCHANGED <<list, batch, current, refs, owned, cancelled, expired,
                    timeout, left, elapsed, readable>>
    BY <1>6 DEF vars
  <2>2. Lists' /\ Values'
    BY <2>1 DEF Inv, Lists, Values
  <2>3. ReferencesAreCounted' /\ BatchIsCurrent'
    BY <2>1 DEF Inv, ReferencesAreCounted, One, Linked, Batched,
                BatchIsCurrent, Current
  <2> QED BY <2>2, <2>3 DEF Inv
<1>7. \/ \E s \in Timers, delay \in Delays : NewTimer(s, delay)
      \/ \E s \in Sockets : NewSocket(s)
      \/ \E s \in Tasks : do_later(s)
      \/ \E s \in Sources : AddAgain(s)
      \/ \E s \in Sources : remove_source(s) \/ cancel_source(s) \/ Release(s)
      \/ \E s \in Timers, delay \in Delays : set_timeout(s, delay)
      \/ Poll
      \/ SkipCancelled \/ Notify \/ ReturnStop \/ ReturnContinue
      \/ Tick \/ \E s \in Sockets : Arrive(s)
      \/ UNCHANGED vars
  BY DEF Next
<1> QED BY <1>1, <1>2, <1>3, <1>4, <1>5, <1>6, <1>7

-----------------------------------------------------------------------------
(* Deferred tasks.                                                         *)

Before(seq, x, y) ==
    \E i, j \in DOMAIN seq : i < j /\ seq[i] = x /\ seq[j] = y

\* Nobody owns a task, hence nobody cancels it but the loop when it has run;
\* it is due from the start; and the batch, which took all the tasks there
\* were, has them in the order of the list.
TasksWait ==
    \A t \in Tasks :
        /\ t \notin owned /\ left[t] <= 0
        /\ In(t, list) => t \notin cancelled
        /\ In(t, batch) \/ current = t => In(t, list)

TasksKeepOrder ==
    \A t, u \in Tasks :
        In(u, batch) /\ Before(list, t, u) /\ t # current => Before(batch, t, u)

TaskInv == TasksWait /\ TasksKeepOrder

\* The order of a sequence is that of what is left of it.
LEMMA OrderOfRest ==
    ASSUME NEW S, NEW seq \in Seq(S), NEW x, NEW y
    PROVE  /\ \A s \in S : Before(Append(seq, s), x, y) /\ y # s => Before(seq, x, y)
           /\ \A p \in DOMAIN seq : Before(RemoveAt(seq, p), x, y) => Before(seq, x, y)
           /\ seq # <<>> /\ Before(seq, x, y) /\ x # Head(seq)
                => Before(Tail(seq), x, y)
           /\ Before(seq, x, y) => In(x, seq) /\ In(y, seq)
<1>1. ASSUME NEW s \in S, Before(Append(seq, s), x, y), y # s
      PROVE  Before(seq, x, y)
  <2> DEFINE t == Append(seq, s)
             n == Len(seq)
  <2>1. /\ n \in Nat /\ DOMAIN seq = 1..n /\ DOMAIN t = 1..n + 1
        /\ t[n + 1] = s /\ \A i \in 1..n : t[i] = seq[i]
    BY SMTT(60)
  <2> HIDE DEF t, n
  <2>2. PICK i \in DOMAIN t, j \in DOMAIN t : i < j /\ t[i] = x /\ t[j] = y
    BY <1>1 DEF Before, t
  <2>3. j # n + 1
    BY <1>1, <2>1, <2>2
  <2>4. i \in 1..n /\ j \in 1..n
    BY <2>1, <2>2, <2>3
  <2> QED BY <2>1, <2>2, <2>4 DEF Before
<1>2. ASSUME NEW p \in DOMAIN seq, Before(RemoveAt(seq, p), x, y)
      PROVE  Before(seq, x, y)
  <2> DEFINE t == RemoveAt(seq, p)
             n == Len(seq)
             at(i) == IF i < p THEN i ELSE i + 1
  <2>1. /\ n \in Nat /\ DOMAIN seq = 1..n /\ DOMAIN t = 1..n - 1 /\ p \in 1..n
        /\ \A i \in 1..n - 1 : t[i] = seq[at(i)]
    BY RemovedIs
  <2> HIDE DEF t, n
  <2>2. PICK i \in DOMAIN t, j \in DOMAIN t : i < j /\ t[i] = x /\ t[j] = y
    BY <1>2 DEF Before, t
  <2>3. at(i) \in 1..n /\ at(j) \in 1..n /\ at(i) < at(j)
    BY <2>1, <2>2
  <2>4. seq[at(i)] = x /\ seq[at(j)] = y
    BY <2>1, <2>2
  <2> HIDE DEF at
  <2> QED BY <2>1, <2>3, <2>4 DEF Before
<1>3. ASSUME seq # <<>>, Before(seq, x, y), x # Head(seq)
      PROVE  Before(Tail(seq), x, y)
  <2> DEFINE t == Tail(seq)
             n == Len(seq)
  <2>1. /\ n \in Nat /\ DOMAIN seq = 1..n /\ DOMAIN t = 1..n - 1
        /\ seq[1] = Head(seq) /\ \A i \in 1..n - 1 : t[i] = seq[i + 1]
    BY <1>3, SMTT(60)
  <2> HIDE DEF t, n
  <2>2. PICK i \in DOMAIN seq, j \in DOMAIN seq : i < j /\ seq[i] = x /\ seq[j] = y
    BY <1>3 DEF Before
  <2>3. i # 1
    BY <1>3, <2>1, <2>2
  <2>4. /\ i - 1 \in 1..n - 1 /\ j - 1 \in 1..n - 1 /\ i - 1 < j - 1
        /\ (i - 1) + 1 = i /\ (j - 1) + 1 = j
    BY <2>1, <2>2, <2>3
  <2>5. t[i - 1] = x /\ t[j - 1] = y
    BY <2>1, <2>2, <2>4
  <2> QED BY <2>1, <2>4, <2>5 DEF Before, t
<1>4. Before(seq, x, y) => In(x, seq) /\ In(y, seq)
  BY DEF Before, In
<1> QED BY <1>1, <1>2, <1>3, <1>4

\* What is taken out of a list stays in its order.
LEMMA OrderOfAmong ==
    ASSUME NEW S, NEW seq \in Seq(S), Once(seq), NEW ss,
           NEW x \in ss, NEW y \in ss, Before(seq, x, y)
    PROVE  Before(Among(seq, ss), x, y)
<1> DEFINE t == Among(seq, ss)
<1>1. PICK i \in DOMAIN seq, j \in DOMAIN seq : i < j /\ seq[i] = x /\ seq[j] = y
  BY DEF Before
<1>2. /\ t \in Seq(S) /\ \A z : In(z, t) <=> In(z, seq) /\ z \in ss
      /\ \E at \in [DOMAIN t -> DOMAIN seq] :
            /\ \A k \in DOMAIN t : t[k] = seq[at[k]]
            /\ \A k, l \in DOMAIN t : k < l => at[k] < at[l]
  BY AmongIs
<1> HIDE DEF t
<1>3. PICK at \in [DOMAIN t -> DOMAIN seq] :
            /\ \A k \in DOMAIN t : t[k] = seq[at[k]]
            /\ \A k, l \in DOMAIN t : k < l => at[k] < at[l]
  BY <1>2
<1>4. In(x, t) /\ In(y, t)
  BY <1>1, <1>2 DEF In
<1>5. PICK k \in DOMAIN t, l \in DOMAIN t : t[k] = x /\ t[l] = y
  BY <1>4 DEF In
<1>6. at[k] = i /\ at[l] = j
  BY <1>1, <1>3, <1>5 DEF Once
<1>7. k \in Nat /\ l \in Nat /\ i \in Nat /\ j \in Nat
  BY <1>2
<1>8. k # l /\ ~(l < k)
  BY <1>1, <1>3, <1>6, <1>7
<1>9. k < l
  BY <1>7, <1>8
<1> QED BY <1>5, <1>9 DEF Before, t

\* Nothing is deferred at first.
LEMMA InitTasks == Init => TaskInv
<1> SUFFICES ASSUME Init PROVE TaskInv
  OBVIOUS
<1>1. \A t \in Tasks : t \in Timed
  BY DEF Timed
<1>2. None \notin Tasks
  BY KindsAssumption DEF Sources
<1> QED BY <1>1, <1>2 DEF Init, TaskInv, TasksWait, TasksKeepOrder, Before, In

\* A source is added, at the end of the list.
LEMMA TasksWhenAdded ==
    ASSUME Inv, TaskInv, NEW s \in Sources, ~In(s, list),
           list' = Append(list, s), batch' = batch, current' = current,
           cancelled' \subseteq cancelled, s \in Tasks => s \notin cancelled',
           owned' \subseteq owned \cup {s}, s \in Tasks => owned' = owned,
           \A t \in Tasks : left'[t] <= 0
    PROVE  TaskInv'
<1>1. list \in Seq(Sources)
  BY DEF Inv, Lists
<1>2. \A x : In(x, list') <=> In(x, list) \/ x = s
  BY <1>1, Appended
<1>3. TasksWait'
  BY <1>2 DEF TaskInv, TasksWait
<1>4. TasksKeepOrder'
  <2> SUFFICES ASSUME NEW t \in Tasks, NEW u \in Tasks, In(u, batch),
                      Before(list', t, u), t # current
               PROVE  Before(batch, t, u)
    BY DEF TasksKeepOrder
  <2>1. u # s
    BY DEF TaskInv, TasksWait
  <2>2. Before(list, t, u)
    BY <1>1, <2>1, OrderOfRest
  <2> QED BY <2>2 DEF TaskInv, TasksKeepOrder
<1> QED BY <1>3, <1>4 DEF TaskInv

\* The list and the batch stay as they are.
LEMMA TasksWhenLeft ==
    ASSUME TaskInv, list' = list, batch' = batch,
           current' = current \/ (current \notin Tasks /\ current' = None),
           \A t \in Tasks : /\ left'[t] <= 0 /\ t \notin owned'
                            /\ t \in cancelled' => t \in cancelled
    PROVE  TaskInv'
<1>1. None \notin Tasks
  BY KindsAssumption DEF Sources
<1> QED BY <1>1 DEF TaskInv, TasksWait, TasksKeepOrder

\* A source leaves the list that is no task, or the task that has run.
LEMMA TasksWhenUnlinked ==
    ASSUME Inv, TaskInv, NEW s \in Sources,
           \/ s \notin Tasks /\ current' = current
           \/ s = current /\ current' = None,
           \A x : In(x, list') <=> In(x, list) /\ x # s,
           list' = list \/ (In(s, list) /\ list' = Without(s)),
           cancelled' \subseteq cancelled \cup {s},
           \A x : In(x, batch') => In(x, batch),
           batch' = batch \/ (batch # <<>> /\ s = Head(batch) /\ batch' = Tail(batch)),
           owned' \subseteq owned, left' = left
    PROVE  TaskInv'
<1>1. /\ None \notin Tasks
      /\ list \in Seq(Sources) /\ batch \in Seq(Sources) /\ ~In(current, batch)
  BY KindsAssumption DEF Sources, Inv, Lists
<1>2. TasksWait'
  BY <1>1 DEF TaskInv, TasksWait
<1>3. TasksKeepOrder'
  <2> SUFFICES ASSUME NEW t \in Tasks, NEW u \in Tasks, In(u, batch'),
                      Before(list', t, u), t # current'
               PROVE  Before(batch', t, u)
    BY DEF TasksKeepOrder
  <2>1. Before(list, t, u)
    <3>1. CASE list' = list
      BY <3>1
    <3>2. CASE list' = Without(s) /\ In(s, list)
      <4>1. Place(s) \in DOMAIN list /\ list' = RemoveAt(list, Place(s))
        BY <3>2 DEF Place, In, Without
      <4> QED BY <1>1, <4>1, OrderOfRest
    <3> QED BY <3>1, <3>2
  <2>2. t # s /\ t # current
    <3>1. In(t, list')
      BY DEF Before, In
    <3> QED BY <3>1, <1>1
  <2>3. Before(batch, t, u)
    BY <2>1, <2>2 DEF TaskInv, TasksKeepOrder
  <2>4. CASE batch # <<>> /\ s = Head(batch) /\ batch' = Tail(batch)
    BY <1>1, <2>2, <2>3, <2>4, OrderOfRest
  <2> QED BY <2>3, <2>4
<1> QED BY <1>2, <1>3 DEF TaskInv

\* The iteration polls: it takes every task there is.
LEMMA TasksWhenPolled == ASSUME Inv, TaskInv, Poll PROVE TaskInv'
<1>1. PICK ss \in {Taken} : batch' = Among(list, ss)
  BY DEF Poll
<1>2. UNCHANGED <<list, current, owned, cancelled, left>> /\ current = None
  BY DEF Poll
<1>3. list \in Seq(Sources) /\ Once(list)
  BY DEF Inv, Lists
<1>4. \A x : In(x, batch') => In(x, list)
  BY <1>1, <1>3, AmongIs
<1>5. TasksWait'
  BY <1>2, <1>4 DEF TaskInv, TasksWait
<1>6. ASSUME NEW t \in Tasks, In(t, list) PROVE t \in ss
  <2>1. t \in Sources /\ t \notin Sockets /\ left[t] <= 0
    BY KindsAssumption DEF Sources, TaskInv, TasksWait
  <2> QED BY <1>1, <1>6, <2>1 DEF Taken, Due, Linked, In
<1>7. TasksKeepOrder'
  <2> SUFFICES ASSUME NEW t \in Tasks, NEW u \in Tasks, Before(list, t, u)
               PROVE  Before(batch', t, u)
    BY <1>2 DEF TasksKeepOrder
  <2>1. t \in ss /\ u \in ss
    BY <1>3, <1>6, OrderOfRest
  <2> QED BY <1>1, <1>3, <2>1, OrderOfAmong
<1> QED BY <1>5, <1>7 DEF TaskInv

\* Every step keeps the tasks due, linked and in order.
LEMMA TaskStep == Inv /\ TaskInv /\ [Next]_vars => TaskInv'
<1> SUFFICES ASSUME Inv, TaskInv, [Next]_vars PROVE TaskInv'
  OBVIOUS
<1> USE KindsAssumption
<1>1. /\ left \in [Timed -> Int] /\ list \in Seq(Sources)
      /\ batch \in Seq(Sources) /\ Once(batch)
      /\ current \in Sources \cup {None}
  BY DEF Inv, Lists, Values
<1>2. ASSUME NEW t \in Tasks
      PROVE  /\ t \in Timed /\ t \notin Timers /\ t \notin Sockets /\ t # None
             /\ t \notin Readded /\ left[t] <= 0 /\ t \notin owned
  BY DEF Timed, Sources, TaskInv, TasksWait
<1>3. CASE \E s \in Timers, delay \in Delays : NewTimer(s, delay)
  <2>1. PICK s \in Timers, delay \in Delays : NewTimer(s, delay)
    BY <1>3
  <2>2. s \in Sources /\ s \notin Tasks /\ ~In(s, list)
    BY <2>1, Nowhere DEF NewTimer, fresh, Sources
  <2>3. \A t \in Tasks : left'[t] <= 0
    BY <1>1, <1>2, <2>1, <2>2 DEF NewTimer
  <2> QED BY <2>1, <2>2, <2>3, TasksWhenAdded DEF NewTimer, fresh, add_source
<1>4. CASE \E s \in Sockets : NewSocket(s)
  <2>1. PICK s \in Sockets : NewSocket(s)
    BY <1>4
  <2>2. s \in Sources /\ s \notin Tasks /\ ~In(s, list)
    BY <2>1, Nowhere DEF NewSocket, fresh, Sources
  <2>3. \A t \in Tasks : left'[t] <= 0
    BY <1>2, <2>1 DEF NewSocket, times
  <2> QED BY <2>1, <2>2, <2>3, TasksWhenAdded DEF NewSocket, fresh, add_source
<1>5. CASE \E s \in Tasks : do_later(s)
  <2>1. PICK s \in Tasks : do_later(s)
    BY <1>5
  <2>2. s \in Sources /\ ~In(s, list)
    BY <2>1, Nowhere DEF do_later, fresh, Sources
  <2>3. \A t \in Tasks : left'[t] <= 0
    BY <1>1, <1>2, <2>1 DEF do_later
  <2>4. s \notin cancelled' /\ cancelled' \subseteq cancelled
    BY <2>1 DEF do_later, fresh
  <2> QED BY <2>1, <2>2, <2>3, <2>4, TasksWhenAdded DEF do_later, add_source
<1>6. CASE \E s \in Sources : AddAgain(s)
  <2>1. PICK s \in Sources : AddAgain(s)
    BY <1>6
  <2>2. s \notin Tasks /\ ~In(s, list)
    BY <1>2, <2>1 DEF AddAgain, Linked, In
  <2>3. \A t \in Tasks : left'[t] <= 0
    BY <1>1, <1>2, <2>1, <2>2 DEF AddAgain
  <2> QED BY <2>1, <2>2, <2>3, TasksWhenAdded DEF AddAgain, add_source
<1>7. CASE \E s \in Sources : remove_source(s)
  <2>1. PICK s \in Sources : remove_source(s)
    BY <1>7
  <2>2. s \notin Tasks /\ In(s, list) /\ list' = Without(s)
    BY <1>2, <2>1 DEF remove_source, Linked, In
  <2>3. \A x : In(x, list') <=> In(x, list) /\ x # s
    BY <2>2, WithoutIs
  <2>4. UNCHANGED <<batch, current, owned, left>> /\ cancelled' = cancelled \cup {s}
    BY <2>1 DEF remove_source, times
  <2> QED BY <2>2, <2>3, <2>4, TasksWhenUnlinked
<1>8. CASE \/ \E s \in Sources : cancel_source(s) \/ Release(s)
           \/ \E s \in Timers, delay \in Delays : set_timeout(s, delay)
           \/ \E s \in Sockets : Arrive(s)
           \/ UNCHANGED vars
  <2>1. UNCHANGED <<list, batch, current>> /\ owned' \subseteq owned
    BY <1>8 DEF cancel_source, Release, set_timeout, Arrive, vars, lists
  <2>2. \A t \in Tasks : left'[t] = left[t] /\ (t \in cancelled' => t \in cancelled)
    BY <1>1, <1>2, <1>8
       DEF cancel_source, Release, set_timeout, Arrive, vars, times
  <2> QED BY <1>2, <2>1, <2>2, TasksWhenLeft
<1>9. CASE Tick
  <2> DEFINE running == {s \in Timed \ cancelled : Linked(s)}
  <2>1. /\ UNCHANGED <<list, batch, current, owned, cancelled>>
        /\ left' = [s \in Timed |-> IF s \in running THEN left[s] - 1 ELSE left[s]]
    BY <1>9 DEF Tick, lists
  <2> HIDE DEF running
  <2>2. \A t \in Tasks : left'[t] <= 0
    BY <1>1, <1>2, <2>1
  <2> QED BY <1>2, <2>1, <2>2, TasksWhenLeft
<1>10. CASE Poll
  BY <1>10, TasksWhenPolled
<1> DEFINE h == Head(batch)
<1>11. ASSUME batch # <<>>
       PROVE  /\ h \in Sources /\ In(h, batch)
              /\ \A x : In(x, Tail(batch)) <=> In(x, batch) /\ x # h
  BY <1>1, <1>11, HeadAndTail
<1> HIDE DEF h
<1>12. CASE SkipCancelled
  <2>1. /\ batch # <<>> /\ h \in cancelled /\ unlink(h) /\ batch' = Tail(batch)
        /\ UNCHANGED <<current, owned, left>>
    BY <1>12 DEF SkipCancelled, times, h
  <2>2. h \notin Tasks
    BY <1>11, <2>1 DEF TaskInv, TasksWait
  <2>3. /\ \A x : In(x, list') <=> In(x, list) /\ x # h
        /\ cancelled' \subseteq cancelled \cup {h}
    BY <1>11, <2>1, UnlinkIs
  <2>4. list' = list \/ (In(h, list) /\ list' = Without(h))
    BY <2>1 DEF unlink, Linked, In
  <2>5. \A x : In(x, batch') => In(x, batch)
    BY <1>11, <2>1
  <2> QED BY <1>11, <2>1, <2>2, <2>3, <2>4, <2>5, TasksWhenUnlinked DEF h
<1>13. CASE Notify
  <2>1. /\ batch # <<>> /\ current = None /\ current' = h /\ batch' = Tail(batch)
        /\ UNCHANGED <<list, owned, cancelled, left>>
    BY <1>13 DEF Notify, times, h
  <2>2. TasksWait'
    BY <1>11, <2>1 DEF TaskInv, TasksWait
  <2>3. TasksKeepOrder'
    <3> SUFFICES ASSUME NEW t \in Tasks, NEW u \in Tasks, In(u, Tail(batch)),
                        Before(list, t, u), t # h
                 PROVE  Before(Tail(batch), t, u)
      BY <2>1 DEF TasksKeepOrder
    <3>1. Before(batch, t, u)
      BY <1>2, <1>11, <2>1 DEF TaskInv, TasksKeepOrder
    <3> QED BY <1>1, <2>1, <3>1, OrderOfRest DEF h
  <2> QED BY <2>2, <2>3 DEF TaskInv
<1>14. CASE ReturnStop
  <2>1. /\ current \in Sources /\ unlink(current) /\ current' = None
        /\ UNCHANGED <<batch, owned, left>>
    BY <1>1, <1>14 DEF ReturnStop, times
  <2>2. /\ \A x : In(x, list') <=> In(x, list) /\ x # current
        /\ cancelled' \subseteq cancelled \cup {current}
    BY <2>1, UnlinkIs
  <2>3. list' = list \/ (In(current, list) /\ list' = Without(current))
    BY <2>1 DEF unlink, Linked, In
  <2> QED BY <2>1, <2>2, <2>3, TasksWhenUnlinked
<1>15. CASE ReturnContinue
  <2>1. /\ current \notin Tasks /\ current' = None
        /\ UNCHANGED <<list, batch, owned, cancelled>>
    BY <1>15 DEF ReturnContinue
  <2>2. \A t \in Tasks : left'[t] <= 0
    BY <1>1, <1>2, <1>15 DEF ReturnContinue
  <2> QED BY <1>2, <2>1, <2>2, TasksWhenLeft
<1>16. \/ \E s \in Timers, delay \in Delays : NewTimer(s, delay)
       \/ \E s \in Sockets : NewSocket(s)
       \/ \E s \in Tasks : do_later(s)
       \/ \E s \in Sources : AddAgain(s)
       \/ \E s \in Sources : remove_source(s)
       \/ \E s \in Sources : cancel_source(s) \/ Release(s)
       \/ \E s \in Timers, delay \in Delays : set_timeout(s, delay)
       \/ \E s \in Sockets : Arrive(s)
       \/ UNCHANGED vars \/ Tick \/ Poll
       \/ SkipCancelled \/ Notify \/ ReturnStop \/ ReturnContinue
  BY DEF Next, Arrive
<1> QED BY <1>3, <1>4, <1>5, <1>6, <1>7, <1>8, <1>9, <1>10, <1>12, <1>13,
           <1>14, <1>15, <1>16

\* The tasks that are yet to run, in their order.
Asked == Among(list, Tasks \ {current})

\* A step asks for a task, runs the first of those asked for or leaves them:
\* the list is changed at its end, or by a source that is none of them.
LEMMA DoLaterStep ==
    ASSUME Inv, TaskInv, [Next]_vars PROVE Later!Next \/ Asked' = Asked
<1> USE KindsAssumption
<1>1. /\ list \in Seq(Sources) /\ Once(list)
      /\ batch \in Seq(Sources) /\ Once(batch)
      /\ current \in Sources \cup {None}
  BY DEF Inv, Lists
<1>2. ASSUME NEW t \in Tasks
      PROVE  /\ t \in Sources /\ t \notin Timers /\ t \notin Sockets /\ t # None
             /\ t \notin Readded /\ t \notin owned
  BY DEF Sources, TaskInv, TasksWait
<1>3. Asked' = Among(list', Tasks \ {current'})
  BY DEF Asked
<1>4. ASSUME NEW s \in Sources, s \notin Tasks, list' = Append(list, s),
             current' = current
      PROVE  Asked' = Asked
  BY <1>1, <1>3, <1>4, AmongAppended DEF Asked
<1>5. ASSUME NEW s \in Sources, In(s, list), list' = Without(s),
             Tasks \ {current} = Tasks \ {current', s}
      PROVE  Asked' = Asked
  <2>1. /\ Place(s) \in DOMAIN list /\ list[Place(s)] = s
        /\ list' = RemoveAt(list, Place(s))
    BY <1>5 DEF Place, In, Without
  <2>2. Asked' = Among(list, (Tasks \ {current'}) \ {s})
    BY <1>1, <1>3, <2>1, AmongRemoved
  <2>3. (Tasks \ {current'}) \ {s} = Tasks \ {current}
    BY <1>5
  <2> QED BY <2>2, <2>3 DEF Asked
<1>6. ASSUME list' = list, Tasks \ {current} = Tasks \ {current'}
      PROVE  Asked' = Asked
  BY <1>3, <1>6 DEF Asked
<1>7. CASE \/ \E s \in Timers, delay \in Delays : NewTimer(s, delay)
           \/ \E s \in Sockets : NewSocket(s)
           \/ \E s \in Sources : AddAgain(s)
  <2>1. PICK s \in Sources :
            s \notin Tasks /\ list' = Append(list, s) /\ current' = current
    BY <1>2, <1>7 DEF NewTimer, NewSocket, AddAgain, add_source, Sources
  <2> QED BY <1>4, <2>1
<1>8. CASE \E t \in Tasks : do_later(t)
  <2>1. PICK t \in Tasks : do_later(t)
    BY <1>8
  <2>2. /\ list' = Append(list, t) /\ current' = current /\ t \in Sources
        /\ ~In(t, list) /\ current # t
    BY <1>2, <2>1, Nowhere DEF do_later, fresh, add_source
  <2>3. Asked' = Append(Asked, t)
    <3> DEFINE rest == Tasks \ {current}
    <3>1. Asked' = Among(Append(list, t), rest) /\ Asked = Among(list, rest)
      BY <1>3, <2>2 DEF Asked
    <3>2. t \in rest
      BY <2>2
    <3> HIDE DEF rest
    <3> QED BY <1>1, <2>2, <3>1, <3>2, AmongAppended
  <2>4. ~In(t, Asked)
    BY <1>1, <2>2, AmongIs DEF Asked
  <2>5. Later!Ask(t)
    BY <2>3, <2>4 DEF Later!Ask, Asked, In
  <2> QED BY <2>5 DEF Later!Next
<1>9. CASE \E s \in Sources : remove_source(s)
  <2>1. PICK s \in Sources : remove_source(s)
    BY <1>9
  <2>2. s \notin Tasks /\ In(s, list) /\ list' = Without(s) /\ current' = current
    BY <1>2, <2>1 DEF remove_source, Linked, In
  <2> QED BY <1>5, <2>2
<1>10. CASE SkipCancelled
  <2>1. PICK h \in Sources : h = Head(batch) /\ In(h, batch)
    BY <1>1, <1>10, HeadAndTail DEF SkipCancelled
  <2>2. h \in cancelled /\ unlink(h) /\ current' = current
    BY <1>10, <2>1 DEF SkipCancelled
  <2>3. h \notin Tasks
    BY <2>1, <2>2 DEF TaskInv, TasksWait
  <2>4. list' = list \/ (In(h, list) /\ list' = Without(h))
    BY <2>2 DEF unlink, Linked, In
  <2> QED BY <1>5, <1>6, <2>2, <2>3, <2>4
<1>11. CASE Notify
  <2>1. PICK h \in Sources : h = Head(batch) /\ In(h, batch)
    BY <1>1, <1>11, HeadAndTail DEF Notify
  <2>2. /\ current = None /\ current' = h /\ list' = list
        /\ batch # <<>> /\ batch' = Tail(batch)
    BY <1>11, <2>1 DEF Notify
  <2>3. CASE h \notin Tasks
    BY <1>2, <1>6, <2>2, <2>3
  <2>4. CASE h \in Tasks
    <3>1. Asked = Among(list, Tasks) /\ Asked' = Among(list, Tasks \ {h})
      <4>1. Tasks \ {None} = Tasks
        BY <1>2
      <4> QED BY <1>3, <2>2, <4>1 DEF Asked
    <3>2. In(h, list)
      BY <2>1, <2>4 DEF TaskInv, TasksWait
    <3>3. PICK p \in DOMAIN list : list[p] = h
      BY <3>2 DEF In
    <3>4. p \in Where(list, Tasks)
      BY <2>4, <3>3 DEF Where
    <3>5. ASSUME NEW i \in Where(list, Tasks) PROVE p <= i
      <4>1. i \in DOMAIN list /\ list[i] \in Tasks /\ i \in Nat /\ p \in Nat
        BY <1>1 DEF Where
      <4>2. ASSUME i < p PROVE FALSE
        <5>1. Before(list, list[i], h)
          BY <3>3, <4>1, <4>2 DEF Before
        <5>2. Before(batch, list[i], h)
          BY <1>2, <2>1, <2>2, <2>4, <4>1, <5>1 DEF TaskInv, TasksKeepOrder
        <5>3. PICK k \in DOMAIN batch, l \in DOMAIN batch : k < l /\ batch[l] = h
          BY <5>2 DEF Before
        <5>4. batch[1] = h /\ 1 \in DOMAIN batch /\ k \in Nat /\ l \in Nat /\ k >= 1
          BY <1>1, <2>1, <2>2
        <5>5. l = 1
          BY <1>1, <5>3, <5>4 DEF Once
        <5> QED BY <5>3, <5>4, <5>5
      <4> QED BY <4>1, <4>2
    <3>6. Asked # <<>> /\ Asked' = Tail(Asked)
      BY <1>1, <3>1, <3>3, <3>4, <3>5, AmongFirst
    <3>7. Later!Run
      BY <3>6 DEF Later!Run, Asked
    <3> QED BY <3>7 DEF Later!Next
  <2> QED BY <2>3, <2>4
<1>12. CASE ReturnStop
  <2>1. current \in Sources /\ unlink(current) /\ current' = None
    BY <1>1, <1>12 DEF ReturnStop
  <2>2. Tasks \ {current} = Tasks \ {current', current}
    BY <1>2, <2>1
  <2>3. CASE In(current, list)
    <3>1. list' = Without(current)
      BY <2>1, <2>3 DEF unlink, Linked, In
    <3> QED BY <1>5, <2>1, <2>2, <2>3, <3>1
  <2>4. CASE ~In(current, list)
    <3>1. list' = list
      BY <2>1, <2>4 DEF unlink, Linked, In
    <3>2. current \notin Tasks
      BY <2>4 DEF TaskInv, TasksWait
    <3> QED BY <1>2, <1>6, <2>1, <3>1, <3>2
  <2> QED BY <2>3, <2>4
<1>13. CASE ReturnContinue
  BY <1>2, <1>6, <1>13 DEF ReturnContinue
<1>14. CASE \/ \E s \in Sources : cancel_source(s) \/ Release(s)
            \/ \E s \in Timers, delay \in Delays : set_timeout(s, delay)
            \/ \E s \in Sockets : Arrive(s)
            \/ UNCHANGED vars \/ Tick \/ Poll
  BY <1>6, <1>14
     DEF cancel_source, Release, set_timeout, Arrive, vars, lists, Tick, Poll
<1>15. \/ \E s \in Timers, delay \in Delays : NewTimer(s, delay)
       \/ \E s \in Sockets : NewSocket(s)
       \/ \E s \in Sources : AddAgain(s)
       \/ \E t \in Tasks : do_later(t)
       \/ \E s \in Sources : remove_source(s)
       \/ \E s \in Sources : cancel_source(s) \/ Release(s)
       \/ \E s \in Timers, delay \in Delays : set_timeout(s, delay)
       \/ \E s \in Sockets : Arrive(s)
       \/ UNCHANGED vars \/ Tick \/ Poll
       \/ SkipCancelled \/ Notify \/ ReturnStop \/ ReturnContinue
  BY DEF Next
<1> QED BY <1>7, <1>8, <1>9, <1>10, <1>11, <1>12, <1>13, <1>14, <1>15

-----------------------------------------------------------------------------
(* The theorems.                                                           *)

\* The invariant holds for ever.
LEMMA Always == Spec => []Inv
<1> QED BY Initially, Step, PTL DEF Spec

\* Every source has exactly the references of those that use it, whatever its
\* callbacks and those of the other sources do to it during an iteration: the
\* loop never uses a source that was destroyed and destroys it in the end.
THEOREM Counting == Spec => []ReferencesAreCounted
<1>1. Inv => ReferencesAreCounted
  BY DEF Inv
<1> QED BY <1>1, Always, PTL

\* Every value keeps its type; that references stay natural numbers is that
\* nobody lets go of what it does not hold.
THEOREM TypeCorrect == Spec => []TypeOK
<1>1. Inv => TypeOK
  <2> SUFFICES ASSUME Inv PROVE TypeOK
    OBVIOUS
  <2>1. ASSUME NEW s \in Sources PROVE refs[s] \in Nat
    <3>1. Counted(s)
      BY CountedIs DEF Inv
    <3> QED BY <3>1 DEF Counted
  <2>2. refs \in [Sources -> Nat]
    BY <2>1 DEF Inv, Values
  <2> QED BY <2>2 DEF Inv, Lists, Values, TypeOK
<1> QED BY <1>1, Always, PTL

\* A callback starts only for a source that is linked, is not cancelled and is
\* due at that moment, however long its iteration already lasts.
THEOREM Silence == Spec => RemovedIsSilent
<1> DEFINE A == \A s \in Sources : current' = s /\ current # s =>
                    Linked(s) /\ s \notin cancelled /\ Due(s)
<1>1. Inv /\ [Next]_vars => [A]_vars
  <2> SUFFICES ASSUME Inv, Next, NEW s \in Sources, current' = s, current # s
               PROVE  Linked(s) /\ s \notin cancelled /\ Due(s)
    OBVIOUS
  <2>1. s # None
    BY KindsAssumption
  <2>2. Notify
    BY <2>1 DEF Next, NewTimer, NewSocket, do_later, AddAgain, remove_source,
                cancel_source, Release, set_timeout, Poll, SkipCancelled,
                Notify, ReturnStop, ReturnContinue, Tick, Arrive, lists
  <2>3. batch # <<>> /\ s = Head(batch) /\ s \notin cancelled
    BY <2>2 DEF Notify
  <2>4. In(s, batch)
    BY <2>3, HeadAndTail DEF Inv, Lists
  <2>5. Current(s)
    BY DEF Inv, BatchIsCurrent
  <2>6. s \in Timed \/ s \in Sockets
    BY DEF Sources, Timed
  <2> QED BY <2>3, <2>4, <2>5, <2>6 DEF Current, Linked, In, Due
<1> QED BY <1>1, Always, PTL DEF Spec, RemovedIsSilent

\* Deferred tasks run once each, in the order they were asked for, whatever
\* sources are added, removed and cancelled around them: the loop implements
\* DoLater.
THEOREM Deferred == Spec => TasksInOrder
<1>1. Init => Later!Init
  <2> SUFFICES ASSUME Init PROVE Asked = <<>>
    BY DEF Later!Init, Asked
  <2>1. list = <<>> /\ list \in Seq(Sources)
    BY DEF Init
  <2>2. Asked \in Seq(Sources) /\ \A x : In(x, Asked) => In(x, list)
    BY <2>1, AmongIs DEF Asked
  <2>3. \A i \in DOMAIN Asked : FALSE
    BY <2>1, <2>2 DEF In
  <2>4. Asked \in Seq(Sources) /\ DOMAIN Asked = 1..Len(Asked) /\ Len(Asked) \in Nat
    BY <2>2
  <2>5. ~(Len(Asked) >= 1)
    BY <2>3, <2>4
  <2> QED BY <2>4, <2>5
<1>2. Inv /\ TaskInv /\ [Next]_vars => [Later!Next]_Asked
  BY DoLaterStep
<1>3. Spec => [](Inv /\ TaskInv)
  BY Initially, Step, InitTasks, TaskStep, PTL DEF Spec
<1>4. Spec => Later!Init /\ [][Later!Next]_Asked
  BY <1>1, <1>2, <1>3, PTL DEF Spec
<1> QED BY <1>4 DEF TasksInOrder, Later!Spec, Asked
=============================================================================
