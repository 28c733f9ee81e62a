-------------------------- MODULE EventQueueProofs --------------------------
(***************************************************************************)
(* What EventQueue keeps, proved for any size of the buffer, any kinds and *)
(* lengths of events and any number of tickers: the types, with the bound  *)
(* on how often room is counted twice, and that the events are delivered   *)
(* once and in order.                                                      *)
(*                                                                         *)
(* The layout of the ring is what that needs.  The places of the events    *)
(* are numbered on from rptr without regard to the end of the buffer, so   *)
(* that the place p is at the cell p, or p - Size; no event runs over that *)
(* end, and what is written lies between the end of the last event posted  *)
(* and that number Size further on.                                        *)
(***************************************************************************)
EXTENDS EventQueue, FiniteSetTheorems, TLAPS

Cell(p) == IF p < Size THEN p ELSE p - Size

\* The events q lie in the buffer b at the places pos, from r up to e.
Laid(pos, q, b, r, e) ==
  /\ pos \in [1..Len(q) + 1 -> Nat]
  /\ pos[1] = r /\ pos[Len(q) + 1] = e
  /\ \A i \in 1..Len(q) :
        /\ pos[i + 1] = pos[i] + Lengths[q[i]]
        /\ pos[i] < Size => pos[i + 1] <= Size
        /\ b[Cell(pos[i])] = q[i]
  /\ \A i \in 1..Len(q), j \in 1..Len(q) + 1 :
        i < j => pos[i] + Lengths[q[i]] <= pos[j]

\* The place where the next event goes.
Last == rptr + Size - freeroom

(* One ticker at a time is at work.  It has put wptr at the last place, and   *)
(* then behind the event that it has put there; when nobody is at work wptr   *)
(* is at the last place, or at its other number.                              *)
InSync ==
  /\ endptr = Size /\ freeroom \in 0..Size
  /\ \E pos : Laid(pos, posted, buffer, rptr, Last)
  /\ \A v, w \in Writers : InQueue(v) /\ InQueue(w) => v = w
  /\ \A w \in Writers, k \in Kinds, n \in 1..Size :
        writer[w] = Placed(k, n) =>
            /\ wptr = Cell(Last) /\ n = wptr + Lengths[k]
            /\ Lengths[k] <= freeroom
  /\ \A w \in Writers, k \in Kinds :
        writer[w] = Stored(k) =>
            /\ wptr = Cell(Last) + Lengths[k] /\ buffer[Cell(Last)] = k
            /\ Lengths[k] <= freeroom
  /\ (\A w \in Writers : ~InQueue(w)) => wptr \in {Last - Size, Last, Last + Size}
  /\ reading # None => posted # <<>> /\ reading = Head(posted)

Types ==
  /\ setting \in Settings
  /\ buffer \in [0..Size - 1 -> Kinds \cup {Bytes}]
  /\ rptr \in 0..Size - 1
  /\ wptr \in 0..Size
  /\ endptr \in 0..Size
  /\ writer \in [Writers -> {Idle} \cup {Stored(k) : k \in Kinds}
                           \cup {Placed(k, n) : k \in Kinds, n \in 1..Size}]
  /\ reading \in Kinds \cup {None}
  /\ gap \in BOOLEAN /\ raced \in BOOLEAN
  /\ posted \in Seq(Kinds)
  /\ freeroom \in Int

\* Each ticker at work has yet to take the room of one event, and the reader
\* to give back that of one.
Waiting == {w \in Writers : ~InQueue(w)}

Room ==
  /\ freeroom <= IF reading = None THEN Size + MaxLength ELSE Size
  /\ freeroom >= -(Cardinality(Waiting) * MaxLength)

Inv == Types /\ Room /\ (~gap /\ ~raced => InSync)

-----------------------------------------------------------------------------
(* Lengths and the steps of a ticker.                                      *)

\* The lengths of the events, and the greatest of them.
LEMMA Bounds ==
  /\ Size \in Nat /\ Size > 0
  /\ \A k \in Kinds : Lengths[k] \in Nat /\ 1 <= Lengths[k] /\ Lengths[k] <= Size
  /\ MaxLength \in Nat /\ 1 <= MaxLength /\ MaxLength <= Size
  /\ \A k \in Kinds : Lengths[k] <= MaxLength
<1>1. Size \in Nat /\ Size > 0 /\ Lengths \in [Kinds -> 1..Size]
  BY BufferAssumption
<1>2. \A k \in Kinds : Lengths[k] \in Nat /\ 1 <= Lengths[k] /\ Lengths[k] <= Size
  BY <1>1
<1>3. \E n \in 1..Size : \A k \in Kinds : Lengths[k] <= n
  BY <1>1, <1>2
<1>4. MaxLength \in 1..Size /\ \A k \in Kinds : Lengths[k] <= MaxLength
  BY <1>3 DEF MaxLength
<1> QED
  BY <1>1, <1>2, <1>4

\* The records of a ticker can be told apart.
LEMMA Steps ==
  /\ \A k, n : Placed(k, n) # Idle /\ Stored(k) # Idle
  /\ \A k, n, l : Placed(k, n) # Stored(l)
  /\ \A k, n, l, m : Placed(k, n) = Placed(l, m) => k = l /\ n = m
  /\ \A k, l : Stored(k) = Stored(l) => k = l
<1>1. \A k, n : /\ Placed(k, n).step = "placed" /\ Placed(k, n).kind = k
                /\ Placed(k, n).next = n
                /\ Stored(k).step = "stored" /\ Stored(k).kind = k
  BY DEF Placed, Stored
<1>2. Idle.step = "idle"
  BY DEF Idle
<1>3. /\ \A k, n : Placed(k, n) # Idle /\ Stored(k) # Idle
      /\ \A k, n, l : Placed(k, n) # Stored(l)
  <2>1. ASSUME NEW k, NEW n, NEW l
        PROVE  Placed(k, n) # Idle /\ Stored(k) # Idle /\ Placed(k, n) # Stored(l)
    <3>1. /\ Placed(k, n).step # Idle.step /\ Stored(k).step # Idle.step
          /\ Placed(k, n).step # Stored(l).step
      BY <1>1, <1>2
    <3> QED
      BY <3>1
  <2> QED
    BY <2>1
<1>4. \A k, n, l, m : Placed(k, n) = Placed(l, m) => k = l /\ n = m
  <2>1. ASSUME NEW k, NEW n, NEW l, NEW m, Placed(k, n) = Placed(l, m)
        PROVE  k = l /\ n = m
    BY <1>1, <2>1
  <2> QED
    BY <2>1
<1>5. \A k, l : Stored(k) = Stored(l) => k = l
  <2>1. ASSUME NEW k, NEW l, Stored(k) = Stored(l)
        PROVE  k = l
    BY <1>1, <2>1
  <2> QED
    BY <2>1
<1> QED
  BY <1>3, <1>4, <1>5

\* What a ticker that has placed or stored its event has in hand.
LEMMA InHand ==
  ASSUME Types, NEW w \in Writers
  PROVE  /\ writer[w].step = "placed" =>
               \E k \in Kinds, n \in 1..Size :
                    /\ writer[w] = Placed(k, n)
                    /\ writer[w].kind = k /\ writer[w].next = n
         /\ writer[w].step = "stored" =>
               \E k \in Kinds : writer[w] = Stored(k) /\ writer[w].kind = k
         /\ \/ writer[w] = Idle
            \/ \E k \in Kinds : writer[w] = Stored(k)
            \/ \E k \in Kinds, n \in 1..Size : writer[w] = Placed(k, n)
<1>1. \/ writer[w] = Idle
      \/ \E k \in Kinds : writer[w] = Stored(k)
      \/ \E k \in Kinds, n \in 1..Size : writer[w] = Placed(k, n)
  BY DEF Types
<1>2. \A k, n : /\ Placed(k, n).step = "placed" /\ Placed(k, n).kind = k
                /\ Placed(k, n).next = n
                /\ Stored(k).step = "stored" /\ Stored(k).kind = k
  BY DEF Placed, Stored
<1>3. Idle.step = "idle"
  BY DEF Idle
<1>4. CASE writer[w] = Idle
  BY <1>3, <1>4
<1>5. CASE \E k \in Kinds : writer[w] = Stored(k)
  BY <1>2, <1>5
<1>6. CASE \E k \in Kinds, n \in 1..Size : writer[w] = Placed(k, n)
  BY <1>2, <1>6
<1> QED
  BY <1>1, <1>4, <1>5, <1>6

-----------------------------------------------------------------------------
(* The layout.                                                             *)

\* The events lie one after the other between r and e.
LEMMA Between ==
  ASSUME NEW pos, NEW q \in Seq(Kinds), NEW b, NEW r, NEW e, Laid(pos, q, b, r, e)
  PROVE  /\ r \in Nat /\ e \in Nat /\ r <= e
         /\ \A i \in 1..Len(q) :
                /\ pos[i] \in Nat /\ r <= pos[i] /\ pos[i] + Lengths[q[i]] <= e
                /\ pos[i] < e /\ q[i] \in Kinds
         /\ q # <<>> <=> r # e
<1>1. Len(q) \in Nat
  OBVIOUS
<1>2. /\ 1 \in 1..Len(q) + 1 /\ Len(q) + 1 \in 1..Len(q) + 1
      /\ \A i \in 1..Len(q) : i \in 1..Len(q) + 1 /\ i < Len(q) + 1
      /\ q # <<>> <=> 1 \in 1..Len(q)
  BY <1>1
<1>3. r \in Nat /\ e \in Nat
  BY <1>2 DEF Laid
<1>4. ASSUME NEW i \in 1..Len(q)
      PROVE  /\ pos[i] \in Nat /\ r <= pos[i] /\ pos[i] + Lengths[q[i]] <= e
             /\ pos[i] < e /\ q[i] \in Kinds
  <2>1. q[i] \in Kinds /\ pos[i] \in Nat
    BY <1>2 DEF Laid
  <2>2. Lengths[q[i]] \in Nat /\ 1 <= Lengths[q[i]]
    BY <2>1, Bounds
  <2>3. pos[i] + Lengths[q[i]] <= e
    BY <1>2 DEF Laid
  <2>4. CASE i = 1
    BY <1>3, <2>1, <2>2, <2>3, <2>4 DEF Laid
  <2>5. CASE i # 1
    <3>1. 1 \in 1..Len(q) /\ 1 < i /\ q[1] \in Kinds /\ i \in 1..Len(q) + 1
      BY <1>1, <2>5
    <3>2. pos[1] + Lengths[q[1]] <= pos[i] /\ Lengths[q[1]] \in Nat
      BY <3>1, Bounds DEF Laid
    <3> QED
      BY <1>3, <2>1, <2>2, <2>3, <3>2, SMTT(60) DEF Laid
  <2> QED
    BY <2>4, <2>5
<1>5. CASE q = <<>>
  BY <1>3, <1>4, <1>5 DEF Laid
<1>6. CASE q # <<>>
  BY <1>2, <1>3, <1>4, <1>6
<1> QED
  BY <1>5, <1>6, <1>4, <1>3

\* An event that is written behind the last, in room that is free, leaves the
\* others as they are.
LEMMA LaidStore ==
  ASSUME NEW pos, NEW q \in Seq(Kinds), NEW b, NEW r, NEW e, Laid(pos, q, b, r, e),
         r < Size, e <= r + Size, NEW k \in Kinds, e + Lengths[k] <= r + Size,
         NEW d, \A c \in 0..Size - 1 :
                  c \notin Cell(e)..Cell(e) + Lengths[k] - 1 => d[c] = b[c]
  PROVE  Laid(pos, q, d, r, e)
<1>1. ASSUME NEW i \in 1..Len(q) PROVE d[Cell(pos[i])] = q[i]
  <2> DEFINE p == pos[i]
             l == Lengths[k]
  <2>1. /\ p \in Nat /\ r \in Nat /\ e \in Nat /\ r <= p /\ p < e
        /\ l \in Nat /\ Size \in Nat
    BY Between, Bounds
  <2>2. b[Cell(p)] = q[i]
    BY DEF Laid
  <2> HIDE DEF p, l
  <2>3. Cell(p) \in 0..Size - 1 /\ Cell(p) \notin Cell(e)..Cell(e) + l - 1
    BY <2>1, e + l <= r + Size, SMTT(60) DEF Cell, l
  <2> QED
    BY <2>2, <2>3 DEF p, l
<1> QED
  BY <1>1 DEF Laid

\* The event behind the last is posted.
LEMMA LaidAppend ==
  ASSUME NEW pos, NEW q \in Seq(Kinds), NEW b, NEW r, NEW e, Laid(pos, q, b, r, e),
         NEW k \in Kinds, b[Cell(e)] = k, e < Size => e + Lengths[k] <= Size
  PROVE  \E p : Laid(p, Append(q, k), b, r, e + Lengths[k])
<1> DEFINE n == Len(q)
           t == Append(q, k)
           p == [i \in 1..n + 2 |-> IF i <= n + 1 THEN pos[i] ELSE e + Lengths[k]]
<1>1. /\ n \in Nat /\ t \in Seq(Kinds) /\ Len(t) = n + 1 /\ t[n + 1] = k
      /\ \A i \in 1..n : t[i] = q[i]
  OBVIOUS
<1>2. /\ r \in Nat /\ e \in Nat /\ Lengths[k] \in Nat /\ 1 <= Lengths[k]
      /\ \A i \in 1..n : pos[i] \in Nat /\ pos[i] + Lengths[q[i]] <= e /\ pos[i] < e
                         /\ Lengths[q[i]] \in Nat
  BY Between, Bounds
<1>3. /\ pos \in [1..n + 1 -> Nat] /\ pos[1] = r /\ pos[n + 1] = e
      /\ \A i \in 1..n : pos[i + 1] = pos[i] + Lengths[q[i]]
      /\ \A i \in 1..n : pos[i] < Size => pos[i + 1] <= Size
      /\ \A i \in 1..n : b[Cell(pos[i])] = q[i]
      /\ \A i \in 1..n, j \in 1..n + 1 : i < j => pos[i] + Lengths[q[i]] <= pos[j]
  BY DEF Laid
<1> HIDE DEF n, t
<1>4. /\ p \in [1..n + 2 -> Nat] /\ p[n + 2] = e + Lengths[k] /\ p[n + 1] = e
      /\ \A i \in 1..n + 1 : p[i] = pos[i]
      /\ p[1] = r
  BY <1>1, <1>2, <1>3, SMTT(60)
<1> HIDE DEF p
<1>5. ASSUME NEW i \in 1..n + 1
      PROVE  /\ p[i + 1] = p[i] + Lengths[t[i]]
             /\ p[i] < Size => p[i + 1] <= Size
             /\ b[Cell(p[i])] = t[i]
  <2>1. CASE i = n + 1
    BY <1>1, <1>2, <1>4, <2>1
  <2>2. CASE i # n + 1
    <3>1. i \in 1..n /\ i + 1 \in 1..n + 1
      BY <1>1, <2>2
    <3> QED
      BY <1>1, <1>3, <1>4, <3>1
  <2> QED
    BY <2>1, <2>2
<1>6. ASSUME NEW i \in 1..n + 1, NEW j \in 1..n + 2, i < j
      PROVE  p[i] + Lengths[t[i]] <= p[j]
  <2>1. CASE i = n + 1
    <3>1. j = n + 2
      BY <1>1, <1>6, <2>1
    <3> QED
      BY <1>1, <1>2, <1>4, <2>1, <3>1
  <2>2. CASE i # n + 1 /\ j = n + 2
    <3>1. i \in 1..n
      BY <1>1, <2>2
    <3>2. /\ p[i] = pos[i] /\ t[i] = q[i] /\ p[j] = e + Lengths[k]
          /\ pos[i] + Lengths[q[i]] <= e /\ Lengths[q[i]] \in Nat /\ pos[i] \in Nat
      BY <1>1, <1>2, <1>4, <2>2, <3>1
    <3> QED
      BY <1>2, <3>2, SMTT(60)
  <2>3. CASE i # n + 1 /\ j # n + 2
    <3>1. i \in 1..n /\ j \in 1..n + 1
      BY <1>1, <1>6, <2>3, SMTT(60)
    <3> QED
      BY <1>1, <1>3, <1>4, <1>6, <3>1
  <2> QED
    BY <2>1, <2>2, <2>3
<1>7. Laid(p, t, b, r, e + Lengths[k])
  <2>1. Len(t) + 1 = n + 2
    BY <1>1
  <2> QED
    BY <1>1, <1>4, <1>5, <1>6, <2>1 DEF Laid
<1> QED
  BY <1>7 DEF t

\* The oldest event is done with, and the places are numbered from the start
\* again when it ended there.
LEMMA LaidTail ==
  ASSUME NEW pos, NEW q \in Seq(Kinds), NEW b, NEW r, NEW e, Laid(pos, q, b, r, e),
         q # <<>>, r < Size, e <= r + Size, NEW off \in {0, Size},
         off = IF r + Lengths[Head(q)] = Size THEN Size ELSE 0
  PROVE  \E p : Laid(p, Tail(q), b, r + Lengths[Head(q)] - off, e - off)
<1> DEFINE n == Len(q)
           t == Tail(q)
           l == Lengths[Head(q)]
           p == [i \in 1..n |-> pos[i + 1] - off]
<1>1. /\ n \in Nat /\ n >= 1 /\ t \in Seq(Kinds) /\ Len(t) + 1 = n
      /\ Head(q) = q[1] /\ q[1] \in Kinds
      /\ \A i \in 1..Len(t) : t[i] = q[i + 1] /\ i + 1 \in 1..n
  OBVIOUS
<1>2. /\ r \in Nat /\ e \in Nat /\ Size \in Nat /\ l \in Nat
      /\ \A i \in 1..n : pos[i] \in Nat /\ pos[i] + Lengths[q[i]] <= e /\ pos[i] < e
                         /\ Lengths[q[i]] \in Nat /\ r <= pos[i]
  BY <1>1, Between, Bounds
<1>3. /\ pos \in [1..n + 1 -> Nat] /\ pos[1] = r /\ pos[n + 1] = e
      /\ \A i \in 1..n : pos[i + 1] = pos[i] + Lengths[q[i]]
      /\ \A i \in 1..n : pos[i] < Size => pos[i + 1] <= Size
      /\ \A i \in 1..n : b[Cell(pos[i])] = q[i]
      /\ \A i \in 1..n, j \in 1..n + 1 : i < j => pos[i] + Lengths[q[i]] <= pos[j]
  BY DEF Laid
<1>4. 1 \in 1..n /\ pos[2] = r + l /\ r + l <= Size /\ e \in Nat
  <2>1. 1 \in 1..n
    BY <1>1
  <2>2. pos[1 + 1] = pos[1] + Lengths[q[1]] /\ (pos[1] < Size => pos[1 + 1] <= Size)
    BY <1>3, <2>1
  <2> QED
    BY <1>1, <1>2, <1>3, <2>1, <2>2
<1>5. off = Size => r + l = Size
  BY <1>2, <1>4
<1> HIDE DEF n, t, l
<1>6. \A i \in 1..n : i + 1 \in 1..n + 1 /\ pos[i + 1] \in Nat /\ pos[i + 1] >= r + l
  <2>1. ASSUME NEW i \in 1..n
        PROVE  i + 1 \in 1..n + 1 /\ pos[i + 1] \in Nat /\ pos[i + 1] >= r + l
    <3>1. i + 1 \in 1..n + 1 /\ 1 < i + 1
      BY <1>1
    <3>2. pos[1] + Lengths[q[1]] <= pos[i + 1]
      BY <1>3, <1>4, <3>1
    <3> QED
      BY <1>1, <1>3, <3>1, <3>2 DEF l
  <2> QED
    BY <2>1
<1>7. \A i \in 1..n : pos[i + 1] - off \in Nat
  BY <1>2, <1>5, <1>6
<1>8. /\ p \in [1..Len(t) + 1 -> Nat] /\ p[1] = r + l - off /\ p[n] = e - off
      /\ \A i \in 1..n : p[i] = pos[i + 1] - off
  <2>1. p \in [1..n -> Nat] /\ \A i \in 1..n : p[i] = pos[i + 1] - off
    BY <1>7
  <2>2. 1 \in 1..n /\ n \in 1..n /\ 1..Len(t) + 1 = 1..n
    BY <1>1
  <2>3. p[1] = pos[1 + 1] - off /\ p[n] = pos[n + 1] - off
    BY <2>1, <2>2
  <2> HIDE DEF p
  <2>4. p[1] = r + l - off
    <3>1. off \in Nat /\ pos[1 + 1] = r + l
      BY <1>2, <1>4
    <3> QED
      BY <1>2, <2>3, <3>1
  <2>5. p[n] = e - off
    BY <1>3, <2>3
  <2> QED
    BY <2>1, <2>2, <2>4, <2>5
<1> HIDE DEF p
<1>9. ASSUME NEW i \in 1..Len(t)
      PROVE  /\ p[i + 1] = p[i] + Lengths[t[i]]
             /\ p[i] < Size => p[i + 1] <= Size
             /\ b[Cell(p[i])] = t[i]
  <2>1. /\ i \in 1..n /\ i + 1 \in 1..n /\ t[i] = q[i + 1]
        /\ p[i] = pos[i + 1] - off /\ p[i + 1] = pos[i + 2] - off
        /\ (i + 1) + 1 = i + 2
    BY <1>1, <1>8
  <2>2. /\ pos[i + 2] = pos[i + 1] + Lengths[q[i + 1]]
        /\ pos[i + 1] < Size => pos[i + 2] <= Size
        /\ b[Cell(pos[i + 1])] = q[i + 1]
    BY <1>3, <2>1
  <2>3. /\ pos[i + 1] \in Nat /\ pos[i + 1] >= r + l /\ pos[i + 1] < e
        /\ pos[i + 2] <= e /\ Lengths[q[i + 1]] \in Nat
    BY <1>2, <1>6, <2>1, <2>2
  <2>4. p[i + 1] = p[i] + Lengths[t[i]]
    <3>1. off \in Nat /\ pos[i + 2] \in Int
      BY <1>2, <2>2, <2>3, SMTT(60)
    <3> QED
      BY ONLY <2>1, <2>2, <2>3, <3>1, SMTT(60)
  <2>5. p[i] < Size => p[i + 1] <= Size
    <3>1. CASE off = 0
      BY <2>1, <2>2, <2>3, <3>1, SMTT(60)
    <3>2. CASE off = Size
      BY <1>2, <2>1, <2>2, <2>3, <3>2, SMTT(60)
    <3> QED
      BY <3>1, <3>2
  <2>6. Cell(p[i]) = Cell(pos[i + 1])
    <3>1. CASE off = 0
      BY <2>1, <2>3, <3>1
    <3>2. CASE off = Size
      <4>1. pos[i + 1] >= Size /\ pos[i + 1] - Size < Size
        BY <1>2, <1>5, <2>3, <3>2, SMTT(60)
      <4> QED
        BY <1>2, <2>1, <2>3, <3>2, <4>1, SMTT(60) DEF Cell
    <3> QED
      BY <3>1, <3>2
  <2> QED
    BY <2>1, <2>2, <2>4, <2>5, <2>6
<1>10. ASSUME NEW i \in 1..Len(t), NEW j \in 1..Len(t) + 1, i < j
       PROVE  p[i] + Lengths[t[i]] <= p[j]
  <2>1. /\ i + 1 \in 1..n /\ j + 1 \in 1..n + 1 /\ i + 1 < j + 1
        /\ t[i] = q[i + 1] /\ i \in 1..n /\ j \in 1..n
    BY <1>1, <1>10
  <2>2. pos[i + 1] + Lengths[q[i + 1]] <= pos[j + 1]
    BY <1>3, <2>1
  <2>3. /\ p[i] = pos[i + 1] - off /\ p[j] = pos[j + 1] - off
        /\ pos[i + 1] \in Nat /\ pos[j + 1] \in Nat /\ Lengths[q[i + 1]] \in Nat
    BY <1>2, <1>6, <1>8, <2>1
  <2>4. off \in Nat
    BY <1>2
  <2>5. pos[i + 1] - off + Lengths[q[i + 1]] <= pos[j + 1] - off
    BY <2>2, <2>3, <2>4, SMTT(60)
  <2> QED
    BY <2>1, <2>3, <2>5
<1>11. Laid(p, t, b, r + l - off, e - off)
  BY <1>1, <1>8, <1>9, <1>10 DEF Laid
<1> QED
  BY <1>11 DEF t, l

-----------------------------------------------------------------------------
(* The steps.                                                              *)

\* A cell of the buffer is meant by the last place while there is room.
LEMMA LastCell ==
  ASSUME Types, freeroom \in 1..Size
  PROVE  /\ Last \in Nat /\ rptr <= Last /\ Last < rptr + Size
         /\ Cell(Last) \in 0..Size - 1
         /\ Last < Size => Cell(Last) = Last
         /\ Last >= Size => Cell(Last) = Last - Size
<1>1. /\ Size \in Nat /\ Size > 0 /\ rptr \in Nat /\ rptr < Size
      /\ freeroom \in Nat /\ freeroom <= Size /\ freeroom >= 1
  BY Bounds DEF Types
<1> QED
  BY <1>1 DEF Last, Cell

\* The number of tickers that wait.
LEMMA Counts ==
  /\ Cardinality(Writers) \in Nat
  /\ \A S \in SUBSET Writers :
        /\ Cardinality(S) \in Nat /\ Cardinality(S) <= Cardinality(Writers)
        /\ \A w \in Writers \ S : Cardinality(S \cup {w}) = Cardinality(S) + 1
<1>1. IsFiniteSet(Writers) /\ Cardinality(Writers) \in Nat
  BY BufferAssumption, FS_CardinalityType
<1>2. ASSUME NEW S \in SUBSET Writers
      PROVE  /\ Cardinality(S) \in Nat /\ Cardinality(S) <= Cardinality(Writers)
             /\ \A w \in Writers \ S : Cardinality(S \cup {w}) = Cardinality(S) + 1
  <2>1. IsFiniteSet(S) /\ Cardinality(S) <= Cardinality(Writers)
    BY <1>1, FS_Subset
  <2>2. Cardinality(S) \in Nat
    BY <2>1, FS_CardinalityType
  <2>3. ASSUME NEW w \in Writers \ S
        PROVE  Cardinality(S \cup {w}) = Cardinality(S) + 1
    BY <2>1, FS_AddElement
  <2> QED
    BY <2>1, <2>2, <2>3
<1> QED
  BY <1>1, <1>2

\* Room stays as it is when nobody begins or ends, and the room does not
\* change.
LEMMA SameRoom ==
  ASSUME Room, Waiting' = Waiting, freeroom' = freeroom, reading' = reading
  PROVE  Room'
BY DEF Room

\* The tickers that have nothing in the queue after a step of one of them.
LEMMA Begins ==
  ASSUME Types, NEW w \in Writers, NEW s, writer' = [writer EXCEPT ![w] = s]
  PROVE  /\ writer'[w] = s /\ \A v \in Writers : v # w => writer'[v] = writer[v]
         /\ s # Idle => Waiting' = Waiting \ {w}
         /\ s = Idle => Waiting' = Waiting \cup {w}
<1>1. writer'[w] = s /\ \A v \in Writers : v # w => writer'[v] = writer[v]
  BY DEF Types
<1>2. s # Idle => Waiting' = Waiting \ {w}
  BY <1>1 DEF Waiting, InQueue
<1>3. s = Idle => Waiting' = Waiting \cup {w}
  BY <1>1 DEF Waiting, InQueue
<1> QED
  BY <1>1, <1>2, <1>3

\* A ticker that finds the place of its event keeps the invariant.
LEMMA PlaceKeeps ==
  ASSUME Inv, NEW w \in Writers, NEW k \in Kinds, Place(w, k)
  PROVE  Inv'
<1> DEFINE l == Lengths[k]
           wrap == wptr + l > Size
           at == IF wrap THEN 0 ELSE wptr
<1>1. /\ Types /\ Room /\ (~gap /\ ~raced => InSync)
      /\ Size \in Nat /\ l \in Nat /\ 1 <= l /\ l <= Size /\ wptr \in Nat /\ wptr <= Size
  BY Bounds DEF Inv, Types
<1>2. /\ writer[w] = Idle /\ freeroom >= l
      /\ endptr' = IF wrap THEN wptr ELSE endptr
      /\ wptr' = at
      /\ writer' = [writer EXCEPT ![w] = Placed(k, at + l)]
      /\ gap' = (gap \/ (wrap /\ wptr < Size))
      /\ raced' = (raced \/ \E v \in Writers : InQueue(v))
      /\ UNCHANGED <<setting, buffer, rptr, freeroom, reading, posted>>
  BY DEF Place, HasRoom, InQueue
<1>3. at \in 0..Size /\ at + l \in 1..Size
  BY <1>1
<1> HIDE DEF at
<1>4. /\ writer'[w] = Placed(k, at + l) /\ \A v \in Writers : v # w => writer'[v] = writer[v]
      /\ Waiting' = Waiting \ {w}
  <2> DEFINE s == Placed(k, at + l)
  <2>1. s # Idle
    BY Steps
  <2>2. writer' = [writer EXCEPT ![w] = s] /\ Types
    BY <1>1, <1>2
  <2> HIDE DEF s
  <2>3. /\ writer'[w] = s /\ \A v \in Writers : v # w => writer'[v] = writer[v]
        /\ Waiting' = Waiting \ {w}
    BY ONLY <2>1, <2>2, w \in Writers, Begins
  <2> QED
    BY <2>3 DEF s
<1>5. Types'
  <2>1. writer' \in [Writers -> {Idle} \cup {Stored(j) : j \in Kinds}
                             \cup {Placed(j, n) : j \in Kinds, n \in 1..Size}]
    BY <1>1, <1>2, <1>3, SMTT(60) DEF Types
  <2>2. endptr' \in 0..Size /\ wptr' \in 0..Size /\ gap' \in BOOLEAN /\ raced' \in BOOLEAN
    BY <1>1, <1>2, <1>3 DEF Types
  <2> QED
    BY <1>1, <1>2, <2>1, <2>2, SMTT(60) DEF Types
<1>6. Room'
  <2>1. Waiting' \in SUBSET Writers
    BY <1>4 DEF Waiting
  <2>2. Cardinality(Waiting') \in Nat /\ MaxLength \in Nat
    BY <2>1, Counts, Bounds
  <2>3. Cardinality(Waiting') * MaxLength >= 0
    BY <2>2
  <2>4. freeroom' \in Int /\ freeroom' >= 0 /\ Cardinality(Waiting') * MaxLength \in Int
    BY <1>1, <1>2, <2>2, SMTT(60) DEF Types
  <2>5. freeroom' >= -(Cardinality(Waiting') * MaxLength)
    BY <2>3, <2>4
  <2>6. freeroom' <= IF reading' = None THEN Size + MaxLength ELSE Size
    BY <1>1, <1>2 DEF Room
  <2> QED
    BY <2>5, <2>6 DEF Room
<1>7. ASSUME ~gap', ~raced' PROVE InSync'
  <2>1. /\ ~gap /\ ~raced /\ InSync /\ \A v \in Writers : writer[v] = Idle
        /\ wrap => wptr = Size
    <3>1. ~gap /\ ~raced /\ ~(wrap /\ wptr < Size) /\ ~\E v \in Writers : InQueue(v)
      BY <1>2, <1>7
    <3> QED
      BY <1>1, <3>1 DEF InQueue
  <2>2. /\ endptr = Size /\ freeroom \in 0..Size /\ freeroom \in 1..Size
        /\ wptr \in {Last - Size, Last, Last + Size}
    BY <1>1, <1>2, <2>1 DEF InSync, InQueue, Types
  <2>3. Last' = Last /\ Cell(Last)' = Cell(Last)
    BY <1>2 DEF Last, Cell
  <2>4. /\ Last \in Nat /\ rptr <= Last /\ Last < rptr + Size
        /\ Last < Size => Cell(Last) = Last
        /\ Last >= Size => Cell(Last) = Last - Size
        /\ rptr \in Nat /\ rptr < Size
    BY <1>1, <2>2, LastCell DEF Types
  <2>5. at = Cell(Last) /\ endptr' = Size
    <3>1. CASE wrap
      BY <1>1, <1>2, <2>1, <2>2, <2>4, <3>1 DEF at
    <3>2. CASE ~wrap
      BY <1>1, <1>2, <2>2, <2>4, <3>2 DEF at
    <3> QED
      BY <3>1, <3>2
  <2>6. \A v \in Writers : v # w => writer'[v] = Idle
    BY <1>4, <2>1
  <2>7. \A v, u \in Writers : InQueue(v)' /\ InQueue(u)' => v = u
    BY <2>6 DEF InQueue
  <2>8. ASSUME NEW v \in Writers, NEW j \in Kinds, NEW n \in 1..Size,
               writer'[v] = Placed(j, n)
        PROVE  wptr' = Cell(Last)' /\ n = wptr' + Lengths[j] /\ Lengths[j] <= freeroom'
    <3>1. v = w
      BY <2>6, <2>8, Steps
    <3>2. j = k /\ n = at + l
      BY <1>4, <2>8, <3>1, Steps
    <3> QED
      BY <1>2, <2>3, <2>5, <3>2
  <2>9. \A v \in Writers, j \in Kinds : writer'[v] # Stored(j)
    <3>1. ASSUME NEW v \in Writers, NEW j \in Kinds PROVE writer'[v] # Stored(j)
      BY <1>4, <2>6, Steps
    <3> QED
      BY <3>1
  <2>10. InQueue(w)'
    BY <1>4, Steps DEF InQueue
  <2>11. \E pos : Laid(pos, posted', buffer', rptr', Last')
    BY <1>2, <2>1, <2>3 DEF InSync
  <2>12. reading' # None => posted' # <<>> /\ reading' = Head(posted')
    BY <1>2, <2>1 DEF InSync
  <2> QED
    BY <1>2, <2>2, <2>5, <2>7, <2>8, <2>9, <2>10, <2>11, <2>12 DEF InSync
<1> QED
  BY <1>5, <1>6, <1>7 DEF Inv

\* A ticker that stores its event keeps the invariant.
LEMMA StoreKeeps ==
  ASSUME Inv, NEW w \in Writers, Store(w)
  PROVE  Inv'
<1>1. /\ Types /\ Room /\ (~gap /\ ~raced => InSync)
      /\ Size \in Nat /\ Size > 0 /\ wptr \in Nat /\ wptr <= Size
  BY Bounds DEF Inv, Types
<1>2. PICK k \in Kinds, n \in 1..Size :
        writer[w] = Placed(k, n) /\ writer[w].kind = k /\ writer[w].next = n
  BY <1>1, InHand DEF Store
<1>3. /\ buffer' = [c \in 0..Size - 1 |->
            IF c = wptr THEN k
            ELSE IF c \in wptr..wptr + Lengths[k] - 1 THEN Bytes ELSE buffer[c]]
      /\ wptr' = n
      /\ writer' = [writer EXCEPT ![w] = Stored(k)]
      /\ UNCHANGED <<setting, rptr, endptr, freeroom, reading, posted, gap, raced>>
  BY <1>2 DEF Store
<1>4. /\ writer'[w] = Stored(k) /\ \A v \in Writers : v # w => writer'[v] = writer[v]
      /\ Waiting' = Waiting
  <2> DEFINE s == Stored(k)
  <2>1. s # Idle /\ writer[w] # Idle
    BY <1>2, Steps
  <2>2. writer' = [writer EXCEPT ![w] = s] /\ Types
    BY <1>1, <1>3
  <2> HIDE DEF s
  <2>3. /\ writer'[w] = s /\ \A v \in Writers : v # w => writer'[v] = writer[v]
        /\ Waiting' = Waiting \ {w}
    BY ONLY <2>1, <2>2, w \in Writers, Begins
  <2>4. Waiting \ {w} = Waiting
    BY <2>1 DEF Waiting, InQueue
  <2> QED
    BY <2>3, <2>4 DEF s
<1>5. Types'
  <2>1. writer' \in [Writers -> {Idle} \cup {Stored(j) : j \in Kinds}
                             \cup {Placed(j, m) : j \in Kinds, m \in 1..Size}]
    BY <1>1, <1>3, SMTT(60) DEF Types
  <2>2. buffer' \in [0..Size - 1 -> Kinds \cup {Bytes}]
    BY <1>1, <1>3 DEF Types
  <2>3. wptr' \in 0..Size
    BY <1>1, <1>3
  <2>4. /\ UNCHANGED <<setting, rptr, endptr, freeroom, reading, posted, gap, raced>>
        /\ Types
    BY <1>1, <1>3
  <2> QED
    BY ONLY <2>1, <2>2, <2>3, <2>4 DEF Types
<1>6. Room'
  BY <1>1, <1>3, <1>4, SameRoom
<1>7. ASSUME ~gap', ~raced' PROVE InSync'
  <2> DEFINE l == Lengths[k]
  <2>1. InSync
    BY <1>1, <1>3, <1>7
  <2>2. /\ wptr = Cell(Last) /\ n = wptr + l /\ l <= freeroom
        /\ endptr = Size /\ freeroom \in 0..Size
    BY <1>2, <2>1 DEF InSync
  <2>3. l \in Nat /\ 1 <= l /\ freeroom \in 1..Size
    BY <1>1, <2>2, Bounds
  <2>4. PICK pos : Laid(pos, posted, buffer, rptr, Last)
    BY <2>1 DEF InSync
  <2>5. /\ Last \in Nat /\ Cell(Last) \in 0..Size - 1
        /\ rptr \in Nat /\ rptr < Size /\ Last <= rptr + Size
    BY <1>1, <2>3, LastCell DEF Types
  <2>6. Last + l <= rptr + Size
    BY <1>1, <2>2, <2>3, <2>5 DEF Last
  <2>7. /\ \A c \in 0..Size - 1 : c \notin Cell(Last)..Cell(Last) + l - 1 => buffer'[c] = buffer[c]
        /\ buffer'[Cell(Last)] = k
    <3>1. ASSUME NEW c \in 0..Size - 1, c \notin Cell(Last)..Cell(Last) + l - 1
          PROVE  buffer'[c] = buffer[c]
      <4>1. c \notin wptr..wptr + l - 1
        BY <2>2, <3>1
      <4>2. c # wptr
        BY <1>1, <2>3, <4>1
      <4> QED
        BY <1>3, <4>1, <4>2
    <3>2. buffer'[Cell(Last)] = k
      BY <1>3, <2>2, <2>5
    <3> QED
      BY <3>1, <3>2
  <2>8. Laid(pos, posted, buffer', rptr, Last)
    <3> DEFINE d == buffer'
    <3>1. \A c \in 0..Size - 1 : c \notin Cell(Last)..Cell(Last) + Lengths[k] - 1 => d[c] = buffer[c]
      BY <2>7
    <3>2. posted \in Seq(Kinds)
      BY <1>1 DEF Types
    <3> HIDE DEF d
    <3>3. Laid(pos, posted, d, rptr, Last)
      BY ONLY <2>4, <2>5, <2>6, <3>1, <3>2, k \in Kinds, LaidStore
    <3> QED
      BY <3>3 DEF d
  <2>9. Last' = Last /\ Cell(Last)' = Cell(Last)
    BY <1>3 DEF Last, Cell
  <2>10. \A v \in Writers : v # w => writer'[v] = Idle
    <3>1. InQueue(w)
      BY <1>2, Steps DEF InQueue
    <3> QED
      BY <1>4, <2>1, <3>1 DEF InSync, InQueue
  <2>11. \A v, u \in Writers : InQueue(v)' /\ InQueue(u)' => v = u
    BY <2>10 DEF InQueue
  <2>12. \A v \in Writers, j \in Kinds, m \in 1..Size : writer'[v] # Placed(j, m)
    <3>1. ASSUME NEW v \in Writers, NEW j \in Kinds, NEW m PROVE writer'[v] # Placed(j, m)
      BY <1>4, <2>10, Steps
    <3> QED
      BY <3>1
  <2>13. ASSUME NEW v \in Writers, NEW j \in Kinds, writer'[v] = Stored(j)
         PROVE  /\ wptr' = Cell(Last)' + Lengths[j] /\ buffer'[Cell(Last)'] = j
                /\ Lengths[j] <= freeroom'
    <3>1. v = w
      BY <2>10, <2>13, Steps
    <3>2. j = k
      BY <1>4, <2>13, <3>1, Steps
    <3> QED
      BY <1>3, <2>2, <2>7, <2>9, <3>2
  <2>14. InQueue(w)'
    BY <1>4, Steps DEF InQueue
  <2>15. \E p : Laid(p, posted', buffer', rptr', Last')
    BY <1>3, <2>8, <2>9
  <2>16. reading' # None => posted' # <<>> /\ reading' = Head(posted')
    BY <1>3, <2>1 DEF InSync
  <2> QED
    BY <1>3, <2>2, <2>11, <2>12, <2>13, <2>14, <2>15, <2>16, ZenonT(90) DEF InSync
<1> QED
  BY <1>5, <1>6, <1>7 DEF Inv

\* A ticker that takes the room of its event keeps the invariant.
LEMMA CommitKeeps ==
  ASSUME Inv, NEW w \in Writers, Commit(w)
  PROVE  Inv'
<1>1. /\ Types /\ Room /\ (~gap /\ ~raced => InSync)
      /\ Size \in Nat /\ Size > 0 /\ wptr \in Nat /\ wptr <= Size
  BY Bounds DEF Inv, Types
<1>2. PICK k \in Kinds : writer[w] = Stored(k) /\ writer[w].kind = k
  BY <1>1, InHand DEF Commit
<1> DEFINE l == Lengths[k]
<1>3. /\ freeroom' = freeroom - l
      /\ posted' = IF gap \/ raced THEN <<>> ELSE Append(posted, k)
      /\ writer' = [writer EXCEPT ![w] = Idle]
      /\ UNCHANGED <<setting, buffer, rptr, wptr, endptr, reading, gap, raced>>
  BY <1>2 DEF Commit
<1>4. /\ writer'[w] = Idle /\ \A v \in Writers : v # w => writer'[v] = writer[v]
      /\ Waiting' = Waiting \cup {w} /\ w \in Writers \ Waiting
  <2>1. writer[w] # Idle
    BY <1>2, Steps
  <2>2. w \in Writers \ Waiting
    BY <2>1 DEF Waiting, InQueue
  <2> DEFINE s == Idle
  <2>3. writer' = [writer EXCEPT ![w] = s] /\ Types /\ s = Idle
    BY <1>1, <1>3
  <2> HIDE DEF s
  <2>4. /\ writer'[w] = s /\ \A v \in Writers : v # w => writer'[v] = writer[v]
        /\ Waiting' = Waiting \cup {w}
    BY ONLY <2>3, w \in Writers, Begins
  <2> QED
    BY <2>2, <2>3, <2>4
<1>5. l \in Nat /\ 1 <= l /\ l <= MaxLength /\ MaxLength \in Nat
  BY Bounds
<1>6. Types'
  <2>1. writer' \in [Writers -> {Idle} \cup {Stored(j) : j \in Kinds}
                             \cup {Placed(j, m) : j \in Kinds, m \in 1..Size}]
    BY <1>1, <1>3 DEF Types
  <2>2. posted' \in Seq(Kinds)
    BY <1>1, <1>3 DEF Types
  <2>3. freeroom' \in Int
    BY <1>1, <1>3, <1>5 DEF Types
  <2> QED
    BY <1>1, <1>3, <2>1, <2>2, <2>3 DEF Types
<1> HIDE DEF l
<1>7. Room'
  <2> DEFINE c == Cardinality(Waiting)
  <2>1. c \in Nat /\ Cardinality(Waiting') = c + 1
    <3>1. Waiting \in SUBSET Writers
      BY DEF Waiting
    <3> QED
      BY <1>4, <3>1, Counts
  <2>2. /\ freeroom >= -(c * MaxLength) /\ freeroom \in Int
        /\ freeroom <= IF reading = None THEN Size + MaxLength ELSE Size
    BY <1>1 DEF Room, Types
  <2> HIDE DEF c
  <2>3. (c + 1) * MaxLength = c * MaxLength + MaxLength /\ c * MaxLength \in Int
    BY <1>5, <2>1
  <2>4. freeroom' >= -((c + 1) * MaxLength)
    BY <1>3, <1>5, <2>2, <2>3
  <2>5. freeroom' <= IF reading' = None THEN Size + MaxLength ELSE Size
    BY <1>1, <1>3, <1>5, <2>2
  <2> QED
    BY <2>1, <2>4, <2>5 DEF Room
<1>8. ASSUME ~gap', ~raced' PROVE InSync'
  <2>1. InSync /\ posted' = Append(posted, k) /\ posted \in Seq(Kinds)
    BY <1>1, <1>3, <1>8 DEF Types
  <2>2. /\ wptr = Cell(Last) + l /\ buffer[Cell(Last)] = k /\ l <= freeroom
        /\ endptr = Size /\ freeroom \in 0..Size
    BY <1>2, <2>1 DEF InSync, l
  <2>3. freeroom \in 1..Size /\ freeroom' \in 0..Size
    BY <1>1, <1>3, <1>5, <2>2
  <2>4. /\ Last \in Nat /\ rptr <= Last /\ Last < rptr + Size
        /\ Last < Size => Cell(Last) = Last
        /\ Last >= Size => Cell(Last) = Last - Size
        /\ rptr \in Nat /\ rptr < Size
    BY <1>1, <2>3, LastCell DEF Types
  <2>5. PICK pos : Laid(pos, posted, buffer, rptr, Last)
    BY <2>1 DEF InSync
  <2>6. Last < Size => Last + l <= Size
    BY <1>1, <1>5, <2>2, <2>4
  <2>7. \E p : Laid(p, Append(posted, k), buffer, rptr, Last + l)
    <3>1. Last < Size => Last + Lengths[k] <= Size
      BY <2>6 DEF l
    <3>2. \E p : Laid(p, Append(posted, k), buffer, rptr, Last + Lengths[k])
      BY ONLY <2>1, <2>2, <2>5, <3>1, k \in Kinds, LaidAppend
    <3> QED
      BY <3>2 DEF l
  <2>8. Last' = Last + l
    BY <1>1, <1>3, <1>5, <2>3, <2>4 DEF Last
  <2>9. \A v \in Writers : writer'[v] = Idle
    <3>1. InQueue(w)
      BY <1>2, Steps DEF InQueue
    <3> QED
      BY <1>4, <2>1, <3>1 DEF InSync, InQueue
  <2>10. wptr' \in {Last' - Size, Last', Last' + Size}
    <3>1. CASE Last < Size
      BY <1>1, <1>3, <1>5, <2>2, <2>4, <2>8, <3>1
    <3>2. CASE Last >= Size
      BY <1>1, <1>3, <1>5, <2>2, <2>4, <2>8, <3>2
    <3> QED
      BY <1>1, <2>4, <3>1, <3>2
  <2>11. \A v \in Writers : \A j, m : writer'[v] # Placed(j, m) /\ writer'[v] # Stored(j)
    BY <2>9, Steps
  <2>12. \E p : Laid(p, posted', buffer', rptr', Last')
    BY <1>3, <2>1, <2>7, <2>8
  <2>13. reading' # None => posted' # <<>> /\ reading' = Head(posted')
    <3>1. reading # None => posted # <<>> /\ reading = Head(posted)
      BY <2>1 DEF InSync
    <3>2. posted # <<>> => Head(Append(posted, k)) = Head(posted) /\ Append(posted, k) # <<>>
      BY <2>1
    <3> QED
      BY <1>3, <2>1, <3>1, <3>2
  <2> QED
    BY <1>3, <2>2, <2>3, <2>9, <2>10, <2>11, <2>12, <2>13 DEF InSync, InQueue
<1> QED
  BY <1>6, <1>7, <1>8 DEF Inv

\* The pump, calling back for the next event, keeps the invariant.
LEMMA NotifyKeeps ==
  ASSUME Inv, Notify
  PROVE  Inv'
<1>1. /\ Types /\ Room /\ (~gap /\ ~raced => InSync)
      /\ Size \in Nat /\ Size > 0 /\ MaxLength \in Nat /\ freeroom \in Int
  BY Bounds DEF Inv, Types
<1>2. /\ freeroom < Size /\ reading' = buffer[rptr] /\ buffer[rptr] \in Kinds
      /\ UNCHANGED <<setting, buffer, rptr, wptr, endptr, freeroom, writer, posted, gap, raced>>
  BY <1>1 DEF Notify, Available
<1>3. Types'
  BY <1>1, <1>2 DEF Types
<1>4. Room'
  <2>1. Waiting' = Waiting
    BY <1>2 DEF Waiting, InQueue
  <2>2. freeroom' <= Size /\ freeroom' <= Size + MaxLength
    BY <1>1, <1>2
  <2> QED
    BY <1>1, <1>2, <2>1, <2>2 DEF Room
<1>5. ASSUME ~gap', ~raced' PROVE InSync'
  <2>1. InSync
    BY <1>1, <1>2, <1>5
  <2>2. PICK pos : Laid(pos, posted, buffer, rptr, Last)
    BY <2>1 DEF InSync
  <2>3. rptr \in Nat /\ rptr < Size /\ Last # rptr /\ posted \in Seq(Kinds)
    BY <1>1, <1>2 DEF Types, Last
  <2>4. posted # <<>>
    BY ONLY <2>2, <2>3, Between
  <2>5. 1 \in 1..Len(posted) /\ Head(posted) = posted[1]
    BY <2>3, <2>4
  <2>6. buffer[Cell(pos[1])] = posted[1] /\ pos[1] = rptr
    BY <2>2, <2>5 DEF Laid
  <2>7. Cell(rptr) = rptr
    BY <2>3 DEF Cell
  <2>8. posted' # <<>> /\ reading' = Head(posted')
    BY <1>2, <2>4, <2>5, <2>6, <2>7
  <2>9. Last' = Last /\ Cell(Last)' = Cell(Last)
    BY <1>2 DEF Last, Cell
  <2>10. \E p : Laid(p, posted', buffer', rptr', Last')
    BY <1>2, <2>2, <2>9
  <2> QED
    BY <1>2, <2>1, <2>8, <2>9, <2>10 DEF InSync, InQueue
<1> QED
  BY <1>3, <1>4, <1>5 DEF Inv

\* The pump, passing on behind the event, keeps the invariant.
LEMMA AdvanceKeeps ==
  ASSUME Inv, Advance
  PROVE  Inv'
<1> DEFINE l == Lengths[reading]
<1>1. /\ Types /\ Room /\ (~gap /\ ~raced => InSync)
      /\ Size \in Nat /\ Size > 0 /\ MaxLength \in Nat
      /\ freeroom \in Int /\ rptr \in Nat /\ rptr < Size
  BY Bounds DEF Inv, Types
<1>2. reading # None /\ reading \in Kinds
  BY <1>1 DEF Advance, Types
<1>3. /\ rptr' = IF rptr + l >= endptr THEN 0 ELSE rptr + l
      /\ freeroom' = freeroom + l
      /\ reading' = None
      /\ posted' = IF posted = <<>> THEN posted ELSE Tail(posted)
      /\ UNCHANGED <<setting, buffer, wptr, endptr, writer, gap, raced>>
  BY DEF Advance
<1>4. l \in Nat /\ 1 <= l /\ l <= MaxLength
  BY <1>2, Bounds
<1> HIDE DEF l
<1>5. Types'
  <2>1. rptr' \in 0..Size - 1
    BY <1>1, <1>3, <1>4 DEF Types
  <2>2. freeroom' \in Int
    BY <1>1, <1>3, <1>4
  <2>3. posted' \in Seq(Kinds)
    BY <1>1, <1>3 DEF Types
  <2> QED
    BY <1>1, <1>3, <2>1, <2>2, <2>3, SMTT(60) DEF Types
<1>6. Room'
  <2> DEFINE m == Cardinality(Waiting) * MaxLength
  <2>1. Waiting' = Waiting
    BY <1>3 DEF Waiting, InQueue
  <2>2. freeroom >= -m /\ freeroom <= Size
    BY <1>1, <1>2 DEF Room
  <2>3. m \in Int
    <3>1. Waiting \in SUBSET Writers
      BY DEF Waiting
    <3> QED
      BY <1>1, <3>1, Counts
  <2> HIDE DEF m
  <2>4. freeroom' >= -m /\ freeroom' <= Size + MaxLength
    BY <1>1, <1>3, <1>4, <2>2, <2>3
  <2> QED
    BY <1>3, <2>1, <2>4 DEF Room, m
<1>7. ASSUME ~gap', ~raced' PROVE InSync'
  <2> DEFINE off == IF rptr + l = Size THEN Size ELSE 0
  <2>1. InSync
    BY <1>1, <1>3, <1>7
  <2>2. /\ endptr = Size /\ freeroom \in 0..Size /\ posted # <<>> /\ reading = Head(posted)
        /\ posted \in Seq(Kinds)
    BY <1>1, <1>2, <2>1 DEF InSync, Types
  <2>3. PICK pos : Laid(pos, posted, buffer, rptr, Last)
    BY <2>1 DEF InSync
  <2>4. Last \in Nat /\ rptr <= Last /\ Last <= rptr + Size
    BY <1>1, <2>2 DEF Last
  <2>5. rptr + l <= Last /\ rptr + l <= Size
    <3>1. /\ 1 \in 1..Len(posted) /\ Head(posted) = posted[1]
          /\ Len(posted) + 1 \in 1..Len(posted) + 1 /\ 1 < Len(posted) + 1
      BY <2>2
    <3>2. pos[1] = rptr /\ (pos[1] < Size => pos[1 + 1] <= Size)
          /\ pos[1 + 1] = pos[1] + Lengths[posted[1]]
      BY <2>3, <3>1 DEF Laid
    <3>3. \A i \in 1..Len(posted) : pos[i] + Lengths[posted[i]] <= Last
      BY ONLY <2>2, <2>3, Between
    <3>4. pos[1] + Lengths[posted[1]] <= Last
      BY <3>1, <3>3
    <3> QED
      BY <1>1, <1>4, <2>2, <3>1, <3>2, <3>4 DEF l
  <2>6. /\ off \in {0, Size} /\ off \in Nat /\ rptr' = rptr + (l - off)
        /\ freeroom' \in 0..Size /\ freeroom <= freeroom' /\ Last' = Last - off
    <3>1. off \in {0, Size} /\ off \in Nat
      BY <1>1
    <3>2. rptr' = rptr + (l - off)
      BY <1>1, <1>3, <1>4, <2>2, <2>5
    <3>3. freeroom' \in 0..Size /\ freeroom <= freeroom'
      BY <1>1, <1>3, <1>4, <2>2, <2>5 DEF Last
    <3> HIDE DEF off
    <3>4. Last' = Last - off
      BY <1>1, <1>3, <1>4, <3>1, <3>2 DEF Last
    <3> QED
      BY <3>1, <3>2, <3>3, <3>4
  <2>7. \E p : Laid(p, posted', buffer', rptr', Last')
    <3>1. off = IF rptr + Lengths[Head(posted)] = Size THEN Size ELSE 0
      BY <2>2 DEF l
    <3> HIDE DEF off
    <3>2. \E p : Laid(p, Tail(posted), buffer, rptr + Lengths[Head(posted)] - off, Last - off)
      BY ONLY <1>1, <2>2, <2>3, <2>4, <2>6, <3>1, LaidTail
    <3>3. rptr + Lengths[Head(posted)] - off = rptr'
      BY <2>2, <2>6 DEF l
    <3>4. posted' = Tail(posted) /\ buffer' = buffer
      BY <1>3, <2>2
    <3> QED
      BY <2>6, <3>2, <3>3, <3>4
  <2>8. Cell(Last)' = Cell(Last)
    <3>1. CASE off = 0
      BY <1>3, <2>4, <2>6, <3>1 DEF Cell
    <3>2. CASE off = Size /\ off # 0
      <4>1. Last >= Size /\ Last - Size < Size /\ Last' = Last - Size
        BY <1>1, <2>4, <2>5, <2>6, <3>2
      <4> QED
        BY <1>1, <2>4, <4>1 DEF Cell
    <3> QED
      BY <2>6, <3>1, <3>2
  <2>9. /\ \A v, u \in Writers : InQueue(v)' /\ InQueue(u)' => v = u
        /\ \A v \in Writers : InQueue(v)' <=> InQueue(v)
    BY <1>3, <2>1 DEF InSync, InQueue
  <2>10. ASSUME NEW v \in Writers, NEW j \in Kinds, NEW n \in 1..Size,
                writer'[v] = Placed(j, n)
         PROVE  wptr' = Cell(Last)' /\ n = wptr' + Lengths[j] /\ Lengths[j] <= freeroom'
    <3>1. wptr = Cell(Last) /\ n = wptr + Lengths[j] /\ Lengths[j] <= freeroom
      BY <1>3, <2>1, <2>10 DEF InSync
    <3>2. Lengths[j] \in Nat
      BY Bounds
    <3> QED
      BY <1>1, <1>3, <2>2, <2>6, <2>8, <3>1, <3>2
  <2>11. ASSUME NEW v \in Writers, NEW j \in Kinds, writer'[v] = Stored(j)
         PROVE  /\ wptr' = Cell(Last)' + Lengths[j] /\ buffer'[Cell(Last)'] = j
                /\ Lengths[j] <= freeroom'
    <3>1. wptr = Cell(Last) + Lengths[j] /\ buffer[Cell(Last)] = j /\ Lengths[j] <= freeroom
      BY <1>3, <2>1, <2>11 DEF InSync
    <3>2. Lengths[j] \in Nat
      BY Bounds
    <3> QED
      BY <1>1, <1>3, <2>2, <2>6, <2>8, <3>1, <3>2, SMTT(60)
  <2>12. (\A v \in Writers : ~InQueue(v)') => wptr' \in {Last' - Size, Last', Last' + Size}
    <3>1. ASSUME \A v \in Writers : ~InQueue(v)'
          PROVE  wptr' \in {Last' - Size, Last', Last' + Size}
      <4>1. wptr \in {Last - Size, Last, Last + Size} /\ wptr \in 0..Size
        BY <1>1, <2>1, <2>9, <3>1 DEF InSync, Types
      <4>2. CASE off = 0
        BY <1>3, <2>4, <2>6, <4>1, <4>2
      <4>3. CASE off = Size /\ off # 0
        <5>1. Last >= Size /\ Last' = Last - Size /\ rptr + l = Size
          BY <1>1, <2>4, <2>5, <2>6, <4>3
        <5> QED
          BY <1>1, <1>3, <2>4, <4>1, <5>1
      <4> QED
        BY <2>6, <4>2, <4>3
    <3> QED
      BY <3>1
  <2> QED
    BY <1>3, <2>2, <2>6, <2>7, <2>9, <2>10, <2>11, <2>12 DEF InSync
<1> QED
  BY <1>5, <1>6, <1>7 DEF Inv

\* Nothing lies in the ring when it is emptied.
LEMMA LaidEmpty ==
  ASSUME NEW b
  PROVE  \E pos : Laid(pos, <<>>, b, 0, 0)
<1> DEFINE p == [i \in 1..1 |-> 0]
<1>1. p \in [1..Len(<<>>) + 1 -> Nat] /\ p[1] = 0 /\ p[Len(<<>>) + 1] = 0
  OBVIOUS
<1>2. \A i \in 1..Len(<<>>) : FALSE
  OBVIOUS
<1> HIDE DEF p
<1> QED
  BY <1>1, <1>2 DEF Laid

\* Emptying the queue keeps the invariant, and puts the layout right again.
LEMMA SkipKeeps ==
  ASSUME Inv, Skip
  PROVE  Inv'
<1>1. /\ Types /\ Room /\ Size \in Nat /\ Size > 0 /\ MaxLength \in Nat
  BY Bounds DEF Inv
<1>2. /\ rptr' = 0 /\ wptr' = 0 /\ endptr' = Size /\ freeroom' = Size
      /\ posted' = <<>>
      /\ gap' = FALSE
      /\ raced' = (reading # None \/ \E w \in Writers : InQueue(w))
      /\ UNCHANGED <<setting, buffer, writer, reading>>
  BY DEF Skip
<1>3. Types'
  <2>1. rptr' \in 0..Size - 1 /\ wptr' \in 0..Size /\ endptr' \in 0..Size /\ freeroom' \in Int
    BY <1>1, <1>2
  <2>2. posted' \in Seq(Kinds) /\ gap' \in BOOLEAN
    <3>1. posted' = <<>> /\ gap' = FALSE
      BY <1>2
    <3>2. <<>> \in Seq(Kinds) /\ FALSE \in BOOLEAN
      OBVIOUS
    <3> QED
      BY ONLY <3>1, <3>2
  <2>3. raced' \in BOOLEAN
    <3>1. (reading # None \/ \E w \in Writers : InQueue(w)) \in BOOLEAN
      OBVIOUS
    <3>2. raced' = (reading # None \/ \E w \in Writers : InQueue(w))
      BY <1>2
    <3> QED
      BY ONLY <3>1, <3>2
  <2> QED
    BY <1>1, <1>2, <2>1, <2>2, <2>3 DEF Types
<1>4. Room'
  <2>1. Waiting' \in SUBSET Writers
    BY <1>2 DEF Waiting, InQueue
  <2>2. Cardinality(Waiting') * MaxLength >= 0 /\ Cardinality(Waiting') * MaxLength \in Int
    BY <1>1, <2>1, Counts
  <2> QED
    BY <1>1, <1>2, <2>2 DEF Room
<1>5. ASSUME ~raced' PROVE InSync'
  <2>1. reading' = None /\ \A w \in Writers : writer'[w] = Idle
    BY <1>2, <1>5 DEF InQueue
  <2>2. Last' = 0
    BY <1>1, <1>2 DEF Last
  <2>3. \E pos : Laid(pos, posted', buffer', rptr', Last')
    BY <1>2, <2>2, LaidEmpty
  <2>4. \A v \in Writers : \A j, m : writer'[v] # Placed(j, m) /\ writer'[v] # Stored(j)
    BY <2>1, Steps
  <2>5. wptr' \in {Last' - Size, Last', Last' + Size}
    BY <1>2, <2>2
  <2>6. endptr' = Size /\ freeroom' \in 0..Size
    BY <1>1, <1>2
  <2>7. \A w \in Writers : ~InQueue(w)'
    BY <2>1 DEF InQueue
  <2> QED
    BY ONLY <2>1, <2>3, <2>4, <2>5, <2>6, <2>7 DEF InSync
<1> QED
  BY <1>3, <1>4, <1>5 DEF Inv

-----------------------------------------------------------------------------
\* The invariant holds of a new queue.
LEMMA InitInv ==
  ASSUME Init
  PROVE  Inv
<1>1. Size \in Nat /\ Size > 0 /\ MaxLength \in Nat
  BY Bounds
<1>2. Types
  <2>1. buffer \in [0..Size - 1 -> Kinds \cup {Bytes}]
    BY DEF Init
  <2>2. writer \in [Writers -> {Idle} \cup {Stored(k) : k \in Kinds}
                            \cup {Placed(k, n) : k \in Kinds, n \in 1..Size}]
    BY DEF Init
  <2>3. /\ rptr \in 0..Size - 1 /\ wptr \in 0..Size /\ endptr \in 0..Size
        /\ freeroom \in Int
    BY <1>1 DEF Init
  <2>4. setting \in Settings /\ reading = None /\ gap \in BOOLEAN /\ raced \in BOOLEAN
    BY DEF Init
  <2>5. posted \in Seq(Kinds)
    BY DEF Init
  <2> QED
    BY <2>1, <2>2, <2>3, <2>4, <2>5 DEF Types
<1>3. Room
  <2>1. Waiting \in SUBSET Writers
    BY DEF Waiting
  <2>2. Cardinality(Waiting) * MaxLength >= 0 /\ Cardinality(Waiting) * MaxLength \in Int
    BY <1>1, <2>1, Counts
  <2> QED
    BY <1>1, <2>2 DEF Init, Room
<1>4. InSync
  <2>1. Last = 0 /\ rptr = 0 /\ posted = <<>>
    BY <1>1 DEF Init, Last
  <2>2. \E pos : Laid(pos, posted, buffer, rptr, Last)
    BY <2>1, LaidEmpty
  <2>3. \A v \in Writers : writer[v] = Idle
    BY DEF Init
  <2>4. \A v \in Writers : \A j, m : writer[v] # Placed(j, m) /\ writer[v] # Stored(j)
    BY <2>3, Steps
  <2> QED
    BY <1>1, <2>1, <2>2, <2>3, <2>4 DEF Init, InSync, InQueue
<1> QED
  BY <1>2, <1>3, <1>4 DEF Inv

\* The invariant is inductive.
LEMMA Inductive ==
  ASSUME Inv, [Next]_vars
  PROVE  Inv'
<1>1. CASE UNCHANGED vars
  <2>1. UNCHANGED <<Types, Waiting, InSync>>
    BY <1>1 DEF vars, Types, Waiting, InQueue, InSync, Last, Cell
  <2> QED
    BY <1>1, <2>1 DEF vars, Inv, Room
<1>2. CASE Next
  <2>1. ASSUME NEW w \in Writers, NEW k \in Kinds, Place(w, k) PROVE Inv'
    BY <2>1, PlaceKeeps
  <2>2. ASSUME NEW w \in Writers, Store(w) PROVE Inv'
    BY <2>2, StoreKeeps
  <2>3. ASSUME NEW w \in Writers, Commit(w) PROVE Inv'
    BY <2>3, CommitKeeps
  <2>4. CASE Notify
    BY <2>4, NotifyKeeps
  <2>5. CASE Advance
    BY <2>5, AdvanceKeeps
  <2>6. CASE Skip
    BY <2>6, SkipKeeps
  <2> QED
    BY <1>2, <2>1, <2>2, <2>3, <2>4, <2>5, <2>6 DEF Next
<1> QED
  BY <1>1, <1>2

\* The bounds of the room, which the count of the tickers gives.
LEMMA InvTypes ==
  ASSUME Inv
  PROVE  TypeOK
<1>1. Types /\ Room /\ (~gap /\ ~raced => freeroom \in 0..Size)
  BY DEF Inv, InSync
<1> DEFINE c == Cardinality(Waiting)
           n == Cardinality(Writers)
<1>2. c \in Nat /\ n \in Nat /\ c <= n /\ MaxLength \in Nat /\ Size \in Nat
  <2>1. Waiting \in SUBSET Writers
    BY DEF Waiting
  <2> QED
    BY <2>1, Counts, Bounds
<1>3. /\ freeroom >= -(c * MaxLength) /\ freeroom \in Int
      /\ freeroom <= Size + MaxLength
  BY <1>1, <1>2 DEF Room, Types
<1> HIDE DEF c, n
<1>4. c * MaxLength <= n * MaxLength /\ n * MaxLength \in Int /\ c * MaxLength \in Int
  <2>1. PICK d \in Nat : n = c + d
    <3>1. n - c \in Nat /\ n = c + (n - c)
      BY <1>2
    <3> QED
      BY <3>1
  <2>2. n * MaxLength = c * MaxLength + d * MaxLength /\ d * MaxLength >= 0
    BY <1>2, <2>1
  <2>3. d * MaxLength \in Int /\ n * MaxLength \in Int /\ c * MaxLength \in Int
    BY <1>2, <2>1
  <2> QED
    BY <2>2, <2>3
<1>5. -n * MaxLength = -(n * MaxLength)
  BY <1>2
<1>6. freeroom \in -n * MaxLength..Size + MaxLength
  BY <1>2, <1>3, <1>4, <1>5
<1> QED
  BY <1>1, <1>6 DEF TypeOK, Types, n

\* The layout gives the order of delivery.
LEMMA InvOrder ==
  ASSUME Inv
  PROVE  DeliveredInOrder
<1> SUFFICES ASSUME ~gap, ~raced
             PROVE  /\ Available <=> posted # <<>>
                    /\ posted # <<>> => buffer[rptr] = Head(posted)
                    /\ reading # None => posted # <<>> /\ reading = Head(posted)
  BY DEF DeliveredInOrder
<1>1. /\ Types /\ InSync /\ Size \in Nat /\ freeroom \in Int /\ freeroom <= Size
      /\ rptr \in Nat /\ rptr < Size /\ posted \in Seq(Kinds)
  BY Bounds DEF Inv, InSync, Types
<1>2. PICK pos : Laid(pos, posted, buffer, rptr, Last)
  BY <1>1 DEF InSync
<1>3. posted # <<>> <=> rptr # Last
  BY ONLY <1>1, <1>2, Between
<1>4. Available <=> rptr # Last
  BY <1>1 DEF Available, Last
<1>5. ASSUME posted # <<>> PROVE buffer[rptr] = Head(posted)
  <2>1. 1 \in 1..Len(posted) /\ Head(posted) = posted[1]
    BY <1>1, <1>5
  <2>2. buffer[Cell(pos[1])] = posted[1] /\ pos[1] = rptr
    BY <1>2, <2>1 DEF Laid
  <2> QED
    BY <1>1, <2>1, <2>2 DEF Cell
<1> QED
  BY <1>1, <1>3, <1>4, <1>5 DEF InSync

(* The types, for any buffer, kinds and tickers: the cells of the queue stay  *)
(* within the buffer, and the room that is counted is never off by more than  *)
(* one event for each ticker and one for the reader, even when tickers race.  *)
THEOREM TypeCorrect == Spec => []TypeOK
<1>1. Init => Inv
  BY InitInv
<1>2. Inv /\ [Next]_vars => Inv'
  BY Inductive
<1>3. Inv => TypeOK
  BY InvTypes
<1> QED
  BY <1>1, <1>2, <1>3, PTL DEF Spec

(* Events are delivered in the order they were posted, each once, and none is *)
(* written over before its callback returned, as long as one ticker at a time *)
(* writes and the writing wraps at the very end of the buffer.                *)
THEOREM InOrderOnce == Spec => []DeliveredInOrder
<1>1. Init => Inv
  BY InitInv
<1>2. Inv /\ [Next]_vars => Inv'
  BY Inductive
<1>3. Inv => DeliveredInOrder
  BY InvOrder
<1> QED
  BY <1>1, <1>2, <1>3, PTL DEF Spec
=============================================================================
