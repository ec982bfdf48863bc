---------------------------- MODULE AbiWireProofs ----------------------------
(***************************************************************************)
(* What AbiWire promises, proved for all items, events, filters and        *)
(* lengths of strings and batches.                                         *)
(*                                                                         *)
(* The proofs speak of which part data holds at which offset.  Cat and     *)
(* Sized name the concatenation of data and its length: below, facts about *)
(* them are used, and their definitions only where such facts are proved.  *)
(***************************************************************************)
EXTENDS AbiWire, SequenceTheorems, FiniteSetTheorems, TLAPS

Data == Seq(Nat)
Cat(s, t) == s \o t
Sized(s, n) == n \in Nat /\ s \in Data /\ Len(s) = n

(* The data has the part at the offset.                                    *)
Holds(data, offset, part) ==
    /\ offset + Len(part) <= Len(data)
    /\ \A i \in 1 .. Len(part) : data[offset + i] = part[i]

-----------------------------------------------------------------------------
(* What data holds where.                                                  *)

LEMMA SizedIsData ==
    ASSUME NEW s, NEW n, Sized(s, n)
    PROVE  s \in Data /\ n \in Nat
BY DEF Sized

LEMMA DataIsSized == ASSUME NEW s \in Data PROVE Sized(s, Len(s))
BY DEF Sized, Data

LEMMA CatIsSized ==
    ASSUME NEW s, NEW t, NEW m, NEW n, Sized(s, m), Sized(t, n)
    PROVE  Sized(Cat(s, t), m + n)
BY DEF Sized, Cat, Data

LEMMA CatIsData == ASSUME NEW s \in Data, NEW t \in Data PROVE Cat(s, t) \in Data
BY DEF Cat, Data

LEMMA HoldsSelf == ASSUME NEW s \in Data PROVE Holds(s, 0, s)
BY DEF Holds, Data

LEMMA HoldsLeft ==
    ASSUME NEW s \in Data, NEW t \in Data, NEW o \in Nat, NEW part \in Data, Holds(s, o, part)
    PROVE  Holds(Cat(s, t), o, part)
BY DEF Holds, Cat, Data

LEMMA HoldsRight ==
    ASSUME NEW s, NEW m, Sized(s, m), NEW t \in Data, NEW o \in Nat, NEW part \in Data,
           Holds(t, o, part)
    PROVE  Holds(Cat(s, t), m + o, part)
<1> DEFINE st == s \o t
<1>1. /\ Len(st) = m + Len(t) /\ m \in Nat /\ Len(t) \in Nat /\ Len(part) \in Nat
      /\ \A j \in 1 .. Len(t) : st[m + j] = t[j]
  <2>1. m = Len(s) /\ s \in Data
    BY DEF Sized
  <2>2. \A j \in 1 .. Len(t) : (s \o t)[Len(s) + j] = t[j]
    BY <2>1 DEF Data
  <2>3. Len(s \o t) = Len(s) + Len(t) /\ Len(s) \in Nat /\ Len(t) \in Nat /\ Len(part) \in Nat
    BY <2>1 DEF Data
  <2> HIDE DEF st
  <2>4. QED BY <2>1, <2>2, <2>3 DEF st
<1> HIDE DEF st
<1>2. ASSUME NEW i \in 1 .. Len(part) PROVE st[m + o + i] = part[i]
  <2>1. o + i \in 1 .. Len(t) /\ t[o + i] = part[i]
    <3>1. o + Len(part) <= Len(t)
      BY DEF Holds
    <3>2. t[o + i] = part[i]
      BY DEF Holds
    <3>3. QED BY <1>1, <3>1, <3>2
  <2>2. m + (o + i) = m + o + i
    BY <1>1
  <2>3. QED BY <1>1, <2>1, <2>2
<1>3. QED BY <1>1, <1>2 DEF Holds, st, Cat

LEMMA HoldsHere ==
    ASSUME NEW s, NEW m, Sized(s, m), NEW t \in Data
    PROVE  Holds(Cat(s, t), m, t)
<1>1. m + 0 = m
  BY DEF Sized
<1>2. QED BY <1>1, HoldsSelf, HoldsRight

LEMMA HoldsWithin ==
    ASSUME NEW data \in Data, NEW o \in Nat, NEW s \in Data, NEW p \in Nat, NEW part \in Data,
           Holds(data, o, s), Holds(s, p, part)
    PROVE  Holds(data, o + p, part)
<1>1. Len(data) \in Nat /\ Len(s) \in Nat /\ Len(part) \in Nat
  BY DEF Data
<1>2. ASSUME NEW i \in 1 .. Len(part) PROVE data[o + p + i] = part[i]
  <2>1. p + i \in 1 .. Len(s) /\ s[p + i] = part[i]
    BY <1>1 DEF Holds
  <2>2. data[o + (p + i)] = s[p + i] /\ o + (p + i) = o + p + i
    BY <1>1, <2>1 DEF Holds
  <2>3. QED BY <2>1, <2>2
<1>3. QED BY <1>1, <1>2 DEF Holds

LEMMA ElementHeld ==
    ASSUME NEW data \in Data, NEW o \in Nat, NEW part, NEW n, Sized(part, n),
           Holds(data, o, part), NEW i \in 1 .. n
    PROVE  data[o + i] = part[i]
BY DEF Holds, Sized

(* What is held is what SubSeq takes out.                                  *)
LEMMA SubSeqHeld ==
    ASSUME NEW data \in Data, NEW o \in Nat, NEW part, NEW n, Sized(part, n),
           Holds(data, o, part)
    PROVE  SubSeq(data, o + 1, o + n) = part
<1>1. o + n <= Len(data) /\ Len(data) \in Nat /\ n \in Nat
  BY DEF Holds, Sized, Data
<1>2. SubSeq(data, o + 1, o + n) = [i \in 1 .. n |-> data[o + i]]
  <2>1. SubSeq(data, o + 1, o + n) = [i \in 1 .. (o + n) - (o + 1) + 1 |-> data[i + (o + 1) - 1]]
    BY <1>1 DEF Data
  <2>2. (o + n) - (o + 1) + 1 = n /\ \A i \in 1 .. n : i + (o + 1) - 1 = o + i
    BY <1>1
  <2>3. QED BY <2>1, <2>2
<1>3. part = [i \in 1 .. n |-> part[i]]
  BY DEF Data, Sized
<1>4. \A i \in 1 .. n : data[o + i] = part[i]
  BY ElementHeld
<1>5. QED BY <1>2, <1>3, <1>4

LEMMA StartHeld ==
    ASSUME NEW data \in Data, NEW part, NEW n, Sized(part, n), Holds(data, 0, part)
    PROVE  SubSeq(data, 1, n) = part
<1>1. n \in Nat
  BY SizedIsData
<1>2. SubSeq(data, 0 + 1, 0 + n) = part
  BY SubSeqHeld, 0 \in Nat
<1>3. 0 + 1 = 1 /\ 0 + n = n
  BY <1>1
<1>4. QED BY <1>2, <1>3

-----------------------------------------------------------------------------
(* Words.                                                                  *)

LEMMA FillIs ==
    ASSUME NEW b \in Nat, NEW n \in Nat
    PROVE  /\ Sized(Fill(b, n), n)
           /\ \A i \in 1 .. n : Fill(b, n)[i] = b
BY DEF Fill, Data, Sized

LEMMA PairIs ==
    ASSUME NEW a \in Nat, NEW b \in Nat
    PROVE  Sized(<<a, b>>, 2)
BY DEF Data, Sized

LEMMA WordIs ==
    ASSUME NEW n \in Nat
    PROVE  Sized(Word(n), 32) /\ Number(Word(n)) = n /\ IsUint64(Word(n))
<1> DEFINE hi == n \div 256
           lo == n % 256
           w == Word(n)
<1>1. hi \in Nat /\ lo \in Nat /\ 0 \in Nat /\ n = hi * 256 + lo
  OBVIOUS
<1>2. w = Cat(Fill(0, 30), <<hi, lo>>)
  BY DEF Word, Cat
<1>3. <<hi, lo>>[1] = hi /\ <<hi, lo>>[2] = lo
  OBVIOUS
<1> DEFINE pair == <<hi, lo>>
<1>4. Sized(pair, 2)
  BY <1>1, PairIs
<1> HIDE DEF hi, lo, w, pair
<1>5. Sized(Fill(0, 30), 30)
  BY <1>1, FillIs, 30 \in Nat
<1>6. w = Cat(Fill(0, 30), pair)
  BY <1>2 DEF pair
<1>7. Sized(w, 32)
  <2>1. Sized(Cat(Fill(0, 30), pair), 30 + 2)
    BY <1>4, <1>5, CatIsSized
  <2>2. 30 + 2 = 32
    OBVIOUS
  <2>3. QED BY <1>6, <2>1, <2>2
<1>8. w \in Data /\ pair \in Data /\ Fill(0, 30) \in Data
  BY <1>4, <1>5, <1>7, SizedIsData
<1>9. w[31] = hi /\ w[32] = lo
  <2>1. Holds(w, 30, pair)
    BY <1>5, <1>6, <1>8, HoldsHere
  <2>2. w[30 + 1] = pair[1] /\ w[30 + 2] = pair[2]
    BY <1>4, <1>8, <2>1, ElementHeld, 30 \in Nat, 1 \in 1 .. 2, 2 \in 1 .. 2
  <2>3. 30 + 1 = 31 /\ 30 + 2 = 32
    OBVIOUS
  <2>4. QED BY <1>3, <2>2, <2>3 DEF pair
<1>10. SubSeq(w, 1, 30) = Fill(0, 30)
  <2>1. Holds(w, 0, Fill(0, 30))
    BY <1>6, <1>8, HoldsSelf, HoldsLeft, 0 \in Nat
  <2>2. QED BY <1>5, <1>8, <2>1, StartHeld, Zenon
<1>11. Number(w) = n
  BY <1>1, <1>9, <1>10 DEF Number
<1>12. IsUint64(w)
  <2>1. Holds(w, 0, Fill(0, 30))
    BY <1>6, <1>8, HoldsSelf, HoldsLeft, 0 \in Nat
  <2>2. ASSUME NEW i \in 1 .. 24 PROVE w[i] = 0
    <3>1. i \in 1 .. 30 /\ 0 + i = i
      OBVIOUS
    <3>2. w[0 + i] = Fill(0, 30)[i]
      BY <1>5, <1>8, <2>1, <3>1, ElementHeld, 0 \in Nat
    <3>3. Fill(0, 30)[i] = 0
      BY <3>1, FillIs, 0 \in Nat, 30 \in Nat
    <3>4. QED BY <3>1, <3>2, <3>3
  <2>3. QED BY <2>2 DEF IsUint64
<1>13. QED BY <1>7, <1>11, <1>12 DEF w

LEMMA AddressWordIs ==
    ASSUME NEW a \in Nat
    PROVE  /\ Sized(AddressWord(a), 32)
           /\ IsAddress(AddressWord(a)) /\ AddressWord(a)[32] = a
<1> DEFINE w == AddressWord(a)
           zeros == Fill(0, 12)
           rest == Fill(a, 20)
<1>1. Sized(zeros, 12) /\ Sized(rest, 20) /\ rest[20] = a
  <2>1. 0 \in Nat /\ 12 \in Nat /\ 20 \in Nat /\ 20 \in 1 .. 20
    OBVIOUS
  <2>2. QED BY <2>1, FillIs
<1>2. w = Cat(zeros, rest)
  BY DEF AddressWord, Cat
<1> HIDE DEF w, zeros, rest
<1>3. Sized(w, 32)
  <2>1. Sized(Cat(zeros, rest), 12 + 20)
    BY <1>1, CatIsSized
  <2>2. 12 + 20 = 32
    OBVIOUS
  <2>3. QED BY <1>2, <2>1, <2>2
<1>4. w \in Data /\ zeros \in Data /\ rest \in Data
  BY <1>1, <1>3, SizedIsData
<1>5. w[32] = a
  <2>1. Holds(w, 12, rest)
    BY <1>1, <1>2, <1>4, HoldsHere
  <2>2. w[12 + 20] = rest[20]
    BY <1>1, <1>4, <2>1, ElementHeld, 12 \in Nat, 20 \in 1 .. 20
  <2>3. 12 + 20 = 32
    OBVIOUS
  <2>4. QED BY <1>1, <2>2, <2>3
<1>6. SubSeq(w, 1, 12) = zeros
  <2>1. Holds(w, 0, zeros)
    BY <1>2, <1>4, HoldsSelf, HoldsLeft, 0 \in Nat
  <2>2. QED BY <1>1, <1>4, <2>1, StartHeld, Zenon
<1>7. IsAddress(w)
  BY <1>6 DEF IsAddress, zeros
<1>8. QED BY <1>3, <1>5, <1>7 DEF w

LEMMA Bytes32Is ==
    ASSUME NEW b \in Nat
    PROVE  Sized(Bytes32(b), 32) /\ Bytes32(b)[1] = b
<1>1. 32 \in Nat /\ 1 \in 1 .. 32
  OBVIOUS
<1>2. QED BY <1>1, FillIs DEF Bytes32

(* A word of the data is what WordAt reads there.                          *)
LEMMA ReadsWord ==
    ASSUME NEW data \in Data, NEW o \in Nat, NEW w, Sized(w, 32), Holds(data, o, w)
    PROVE  Fits(data, o, 32) /\ WordAt(data, o) = w
<1>1. Fits(data, o, 32)
  BY DEF Holds, Sized, Fits
<1>2. WordAt(data, o) = w
  BY SubSeqHeld DEF WordAt
<1>3. QED BY <1>1, <1>2

LEMMA ReadsNumber ==
    ASSUME NEW data \in Data, NEW o \in Nat, NEW n \in Nat, Holds(data, o, Word(n))
    PROVE  Fits(data, o, 32) /\ NumberAt(data, o) = n
BY WordIs, ReadsWord DEF NumberAt

-----------------------------------------------------------------------------
(* Counting up, one step at a time.                                        *)

LEMMA First ==
    ASSUME NEW T, T \subseteq Nat, T # {}
    PROVE  \E x \in T : \A y \in T : x <= y
<1> DEFINE below(x) == 0 .. x - 1
           belows == {below(x) : x \in T}
<1>1. belows \subseteq FiniteSubsetsOf(Nat)
  <2> SUFFICES ASSUME NEW x \in T PROVE below(x) \in FiniteSubsetsOf(Nat)
    OBVIOUS
  <2>1. x \in Nat /\ below(x) \subseteq Nat
    OBVIOUS
  <2>2. IsFiniteSet(below(x))
    BY <2>1, FS_Interval
  <2>3. QED BY <2>1, <2>2 DEF FiniteSubsetsOf
<1>2. \E b \in belows : \A c \in belows : <<c, b>> \notin StrictSubsetOrdering(Nat)
  <2>1. belows # {}
    OBVIOUS
  <2> HIDE DEF belows
  <2>2. QED BY <1>1, <2>1, FS_StrictSubsetOrderingWellFounded, WFMin
<1>3. PICK x \in T : \A y \in T : <<below(y), below(x)>> \notin StrictSubsetOrdering(Nat)
  BY <1>2
<1>4. ASSUME NEW y \in T, y < x PROVE FALSE
  <2>1. x \in Nat /\ y \in Nat
    OBVIOUS
  <2>2. below(y) \in SUBSET Nat /\ below(x) \in SUBSET Nat
    BY <2>1
  <2>3. below(y) \subseteq below(x) /\ y \in below(x) /\ y \notin below(y)
    BY <1>4, <2>1
  <2>4. <<below(y), below(x)>> \in StrictSubsetOrdering(Nat)
    BY <2>2, <2>3 DEF StrictSubsetOrdering
  <2>5. QED BY <1>3, <2>4
<1>5. QED BY <1>4

LEMMA CountUp ==
    ASSUME NEW n \in Nat, NEW S, 0 \in S, \A k \in 0 .. n - 1 : k \in S => k + 1 \in S
    PROVE  0 .. n \subseteq S
<1> DEFINE T == (0 .. n) \ S
<1>1. SUFFICES ASSUME T # {} PROVE FALSE
  OBVIOUS
<1>2. T \subseteq Nat
  OBVIOUS
<1>3. PICK x \in T : \A y \in T : x <= y
  <2> HIDE DEF T
  <2>1. QED BY <1>1, <1>2, First
<1>4. x \in 0 .. n /\ x \notin S /\ x # 0
  BY <1>3
<1>5. x - 1 \in 0 .. n - 1 /\ x - 1 \in 0 .. n /\ ~(x <= x - 1) /\ (x - 1) + 1 = x
  BY <1>4
<1>6. x - 1 \in S
  BY <1>3, <1>5
<1>7. QED BY <1>4, <1>5, <1>6

-----------------------------------------------------------------------------
(* FlattenSeq concatenates parts one after the other.                      *)

Flattens(f, s, n) == f = [i \in 1 .. n |-> IF i = 1 THEN s[i] ELSE f[i - 1] \o s[i]]

LEMMA FlattensAt ==
    ASSUME NEW f, NEW s, NEW n \in Nat, Flattens(f, s, n), NEW i \in 1 .. n
    PROVE  f[i] = IF i = 1 THEN s[i] ELSE Cat(f[i - 1], s[i])
BY DEF Flattens, Cat

LEMMA FlattensStep ==
    ASSUME NEW f, NEW s, NEW n \in Nat, Flattens(f, s, n)
    PROVE  \E g : Flattens(g, s, n + 1)
<1> DEFINE Next1(h, i) == IF i = 1 THEN s[i] ELSE Cat(h[i - 1], s[i])
           g == [i \in 1 .. n + 1 |-> Next1(f, i)]
<1>1. ASSUME NEW i \in 1 .. n + 1 PROVE Next1(f, i) = Next1(g, i)
  <2>1. CASE i = 1
    BY <2>1
  <2>2. CASE i # 1
    <3>1. i - 1 \in 1 .. n /\ i - 1 \in 1 .. n + 1
      BY <2>2
    <3>2. g[i - 1] = f[i - 1]
      BY <3>1, FlattensAt
    <3>3. QED BY <2>2, <3>2
  <2>3. QED BY <2>1, <2>2
<1>2. g = [i \in 1 .. n + 1 |-> Next1(g, i)]
  BY <1>1
<1>3. QED BY <1>2 DEF Flattens, Cat

LEMMA FlattensExists ==
    ASSUME NEW s, NEW n \in Nat
    PROVE  \E f : Flattens(f, s, n)
<1> DEFINE S == {k \in 0 .. n : \E f : Flattens(f, s, k)}
<1>1. 0 \in S
  <2>1. Flattens([i \in 1 .. 0 |-> s], s, 0)
    BY DEF Flattens
  <2>2. QED BY <2>1
<1>2. ASSUME NEW k \in 0 .. n - 1, k \in S PROVE k + 1 \in S
  BY <1>2, FlattensStep
<1>3. 0 .. n \subseteq S
  <2> HIDE DEF S
  <2>1. QED BY <1>1, <1>2, CountUp
<1>4. QED BY <1>3

LEMMA FlattensOnce ==
    ASSUME NEW f, NEW g, NEW s, NEW t, NEW m \in Nat, NEW n \in Nat, m <= n,
           Flattens(f, s, m), Flattens(g, t, n), \A i \in 1 .. m : s[i] = t[i]
    PROVE  \A i \in 1 .. m : f[i] = g[i]
<1> DEFINE S == {i \in 0 .. m : i = 0 \/ f[i] = g[i]}
<1>1. 0 \in S
  OBVIOUS
<1>2. ASSUME NEW k \in 0 .. m - 1, k \in S PROVE k + 1 \in S
  <2>1. k + 1 \in 1 .. m /\ k + 1 \in 1 .. n /\ (k + 1) - 1 = k /\ (k + 1 = 1 <=> k = 0)
    OBVIOUS
  <2>2. f[k + 1] = IF k = 0 THEN s[k + 1] ELSE Cat(f[k], s[k + 1])
    BY <2>1, FlattensAt
  <2>3. g[k + 1] = IF k = 0 THEN t[k + 1] ELSE Cat(g[k], t[k + 1])
    BY <2>1, FlattensAt
  <2>4. f[k + 1] = g[k + 1]
    BY <1>2, <2>1, <2>2, <2>3
  <2>5. QED BY <2>1, <2>4
<1>3. 0 .. m \subseteq S
  <2> HIDE DEF S
  <2>1. QED BY <1>1, <1>2, CountUp
<1>4. QED BY <1>3

LEMMA FlattenSeqIs ==
    ASSUME NEW s, NEW n \in Nat \ {0}, Len(s) = n, NEW f, Flattens(f, s, n)
    PROVE  FlattenSeq(s) = f[n]
<1> DEFINE g == CHOOSE h : Flattens(h, s, n)
<1>1. Flattens(g, s, n)
  OBVIOUS
<1>2. FlattenSeq(s) = g[n]
  BY DEF FlattenSeq, Flattens
<1>3. f[n] = g[n]
  BY <1>1, FlattensOnce
<1>4. QED BY <1>2, <1>3

(* The first k parts, flattened.                                           *)
Flat(s, k) == FlattenSeq(SubSeq(s, 1, k))

LEMMA FlatZero == ASSUME NEW s PROVE Flat(s, 0) = << >>
<1>1. SubSeq(s, 1, 0) = << >>
  OBVIOUS
<1>2. QED BY <1>1 DEF Flat, FlattenSeq

LEMMA FlatStep ==
    ASSUME NEW s \in Seq(Data), NEW k \in 0 .. Len(s) - 1
    PROVE  Flat(s, k + 1) = Cat(Flat(s, k), s[k + 1])
<1> DEFINE n == Len(s)
<1>1. n \in Nat
  OBVIOUS
<1>2. PICK f : Flattens(f, s, n)
  BY <1>1, FlattensExists
<1>3. ASSUME NEW j \in 1 .. n PROVE Flat(s, j) = f[j]
  <2> DEFINE t == SubSeq(s, 1, j)
  <2>1. Len(t) = j /\ j \in Nat \ {0} /\ j <= n /\ \A i \in 1 .. j : t[i] = s[i]
    BY <1>1
  <2> HIDE DEF t
  <2>2. PICK g : Flattens(g, t, j)
    BY <2>1, FlattensExists
  <2>3. g[j] = f[j]
    BY <1>1, <1>2, <2>1, <2>2, FlattensOnce, j \in 1 .. j
  <2>4. FlattenSeq(t) = g[j]
    BY <2>1, <2>2, FlattenSeqIs
  <2>5. QED BY <2>3, <2>4 DEF Flat, t
<1>4. k + 1 \in 1 .. n /\ (k + 1) - 1 = k /\ (k + 1 = 1 <=> k = 0)
  BY <1>1
<1>5. Flat(s, k + 1) = IF k = 0 THEN s[k + 1] ELSE Cat(f[k], s[k + 1])
  BY <1>1, <1>2, <1>3, <1>4, FlattensAt
<1>6. CASE k = 0
  <2>1. Cat(<< >>, s[k + 1]) = s[k + 1]
    <3>1. s[k + 1] \in Data
      BY <1>4
    <3>2. QED BY <3>1 DEF Cat, Data
  <2>2. QED BY <1>5, <1>6, <2>1, FlatZero
<1>7. CASE k # 0
  <2>1. k \in 1 .. n
    BY <1>1, <1>7
  <2>2. QED BY <1>3, <1>5, <1>7, <2>1
<1>8. QED BY <1>6, <1>7

LEMMA FlatAll == ASSUME NEW s \in Seq(Data) PROVE Flat(s, Len(s)) = FlattenSeq(s)
<1>1. SubSeq(s, 1, Len(s)) = s
  OBVIOUS
<1>2. QED BY <1>1 DEF Flat

LEMMA FlatIsData ==
    ASSUME NEW s \in Seq(Data), NEW k \in 0 .. Len(s)
    PROVE  Flat(s, k) \in Data
<1> DEFINE S == {j \in 0 .. Len(s) : Flat(s, j) \in Data}
<1>1. 0 \in S
  <2>1. 0 \in 0 .. Len(s) /\ << >> \in Data
    BY DEF Data
  <2>2. QED BY <2>1, FlatZero
<1>2. ASSUME NEW j \in 0 .. Len(s) - 1, j \in S PROVE j + 1 \in S
  <2>1. s[j + 1] \in Data /\ j + 1 \in 0 .. Len(s)
    OBVIOUS
  <2>2. Flat(s, j + 1) \in Data
    BY <1>2, <2>1, FlatStep, CatIsData
  <2>3. QED BY <2>1, <2>2
<1>3. 0 .. Len(s) \subseteq S
  <2>1. Len(s) \in Nat
    OBVIOUS
  <2> HIDE DEF S
  <2>2. QED BY <1>1, <1>2, <2>1, CountUp
<1>4. QED BY <1>3

(* Each part lies where the parts before it end.                           *)
LEMMA FlatHolds ==
    ASSUME NEW s \in Seq(Data), NEW k \in 0 .. Len(s), NEW i \in 1 .. k
    PROVE  Holds(Flat(s, k), Len(Flat(s, i - 1)), s[i])
<1> DEFINE P(j) == \A l \in 1 .. j : Holds(Flat(s, j), Len(Flat(s, l - 1)), s[l])
           S == {j \in 0 .. Len(s) : P(j)}
<1>1. 0 \in S
  OBVIOUS
<1>2. ASSUME NEW j \in 0 .. Len(s) - 1, j \in S PROVE j + 1 \in S
  <2> SUFFICES ASSUME NEW l \in 1 .. j + 1
               PROVE  Holds(Flat(s, j + 1), Len(Flat(s, l - 1)), s[l])
    OBVIOUS
  <2> DEFINE o == Len(Flat(s, l - 1))
  <2>1. /\ j \in 0 .. Len(s) /\ s[j + 1] \in Data /\ s[l] \in Data
        /\ l - 1 \in 0 .. Len(s) /\ (l = j + 1 => l - 1 = j)
    OBVIOUS
  <2>2. Flat(s, j) \in Data /\ Flat(s, l - 1) \in Data
    BY <2>1, FlatIsData
  <2>3. Sized(Flat(s, l - 1), o) /\ o \in Nat
    BY <2>2, DataIsSized, SizedIsData
  <2>4. Flat(s, j + 1) = Cat(Flat(s, j), s[j + 1])
    BY FlatStep
  <2> HIDE DEF o
  <2>5. CASE l = j + 1
    BY <2>1, <2>2, <2>3, <2>4, <2>5, HoldsHere DEF o
  <2>6. CASE l \in 1 .. j
    <3>1. Holds(Flat(s, j), o, s[l])
      BY <1>2, <2>6 DEF o
    <3>2. QED BY <2>1, <2>2, <2>3, <2>4, <3>1, HoldsLeft DEF o
  <2>7. QED BY <2>5, <2>6
<1>3. 0 .. Len(s) \subseteq S
  <2>1. Len(s) \in Nat
    OBVIOUS
  <2> HIDE DEF S
  <2>2. QED BY <1>1, <1>2, <2>1, CountUp
<1>4. QED BY <1>3

LEMMA FlatOfWords ==
    ASSUME NEW s \in Seq(Data), \A i \in 1 .. Len(s) : Sized(s[i], 32), NEW k \in 0 .. Len(s)
    PROVE  Sized(Flat(s, k), 32 * k)
<1> DEFINE S == {j \in 0 .. Len(s) : Sized(Flat(s, j), 32 * j)}
<1>1. 0 \in S
  <2>1. Sized(<< >>, 0) /\ 0 \in 0 .. Len(s) /\ 32 * 0 = 0
    BY DEF Sized, Data
  <2>2. QED BY <2>1, FlatZero
<1>2. ASSUME NEW j \in 0 .. Len(s) - 1, j \in S PROVE j + 1 \in S
  <2>1. j + 1 \in 0 .. Len(s) /\ j + 1 \in 1 .. Len(s) /\ 32 * j + 32 = 32 * (j + 1)
    OBVIOUS
  <2>2. Sized(Cat(Flat(s, j), s[j + 1]), 32 * j + 32)
    BY <1>2, <2>1, CatIsSized
  <2>3. Sized(Flat(s, j + 1), 32 * (j + 1))
    BY <2>1, <2>2, FlatStep
  <2>4. QED BY <2>1, <2>3
<1>3. 0 .. Len(s) \subseteq S
  <2>1. Len(s) \in Nat
    OBVIOUS
  <2> HIDE DEF S
  <2>2. QED BY <1>1, <1>2, <2>1, CountUp
<1>4. QED BY <1>3

(* Data of whole words.                                                    *)
Whole(s) == s \in Data /\ Len(s) % 32 = 0

LEMMA CatIsWhole == ASSUME NEW s, NEW t, Whole(s), Whole(t) PROVE Whole(Cat(s, t))
<1>1. Len(s) \in Nat /\ Len(t) \in Nat /\ Len(s) % 32 = 0 /\ Len(t) % 32 = 0
  <2>1. s \in Data /\ t \in Data
    BY DEF Whole
  <2>2. Len(s) \in Nat /\ Len(t) \in Nat
    BY <2>1 DEF Data
  <2>3. QED BY <2>2 DEF Whole
<1>2. (Len(s) + Len(t)) % 32 = 0
  <2>1. \A m, n \in Nat : m % 32 = 0 /\ n % 32 = 0 => (m + n) % 32 = 0
    OBVIOUS
  <2>2. QED BY <1>1, <2>1
<1>3. Len(Cat(s, t)) = Len(s) + Len(t) /\ Cat(s, t) \in Data
  BY DEF Whole, Cat, Data
<1>4. QED BY <1>2, <1>3 DEF Whole

LEMMA WordIsWhole == ASSUME NEW w, Sized(w, 32) PROVE Whole(w)
BY 32 % 32 = 0 DEF Whole, Sized

LEMMA FlatOfWhole ==
    ASSUME NEW s \in Seq(Data), \A i \in 1 .. Len(s) : Whole(s[i]), NEW k \in 0 .. Len(s)
    PROVE  Whole(Flat(s, k))
<1> DEFINE S == {j \in 0 .. Len(s) : Whole(Flat(s, j))}
<1>1. 0 \in S
  <2>1. Whole(<< >>) /\ 0 \in 0 .. Len(s)
    BY 0 % 32 = 0 DEF Whole, Data
  <2>2. QED BY <2>1, FlatZero
<1>2. ASSUME NEW j \in 0 .. Len(s) - 1, j \in S PROVE j + 1 \in S
  <2>1. j + 1 \in 0 .. Len(s) /\ j + 1 \in 1 .. Len(s)
    OBVIOUS
  <2>2. Whole(Flat(s, j + 1))
    BY <1>2, <2>1, CatIsWhole, FlatStep
  <2>3. QED BY <2>1, <2>2
<1>3. 0 .. Len(s) \subseteq S
  <2>1. Len(s) \in Nat
    OBVIOUS
  <2> HIDE DEF S
  <2>2. QED BY <1>1, <1>2, <2>1, CountUp
<1>4. QED BY <1>3

-----------------------------------------------------------------------------
(* Strings, and structures of words.                                       *)

LEMMA EncodeBytesIs ==
    ASSUME NEW p, NEW n, Sized(p, n)
    PROVE  /\ Whole(EncodeBytes(p))
           /\ Holds(EncodeBytes(p), 0, Word(n)) /\ Holds(EncodeBytes(p), 32, p)
<1> DEFINE pad == (32 - (n % 32)) % 32
           z == Fill(0, pad)
           w == Word(n)
           e == EncodeBytes(p)
<1>1. n \in Nat /\ Len(p) = n /\ p \in Data
  BY DEF Sized
<1>2. pad \in Nat /\ (32 + n + pad) % 32 = 0
  BY <1>1
<1>3. e = Cat(Cat(w, p), z)
  BY <1>1 DEF EncodeBytes, Cat
<1> HIDE DEF pad
<1>4. Sized(z, pad) /\ Sized(w, 32)
  BY <1>1, <1>2, FillIs, WordIs, 0 \in Nat
<1> HIDE DEF z, w, e
<1>5. Sized(Cat(w, p), 32 + n) /\ Sized(e, 32 + n + pad)
  BY <1>3, <1>4, CatIsSized
<1>6. z \in Data /\ w \in Data /\ Cat(w, p) \in Data
  BY <1>4, <1>5, SizedIsData
<1>7. Whole(e)
  BY <1>2, <1>5 DEF Whole, Sized
<1>8. Holds(Cat(w, p), 0, w) /\ Holds(Cat(w, p), 32, p)
  BY <1>1, <1>4, <1>6, HoldsSelf, HoldsLeft, HoldsHere, 0 \in Nat
<1>9. Holds(e, 0, w) /\ Holds(e, 32, p)
  BY <1>1, <1>3, <1>6, <1>8, HoldsLeft, 0 \in Nat, 32 \in Nat
<1>10. QED BY <1>7, <1>9 DEF e, w

LEMMA WholeIsData == ASSUME NEW s, Whole(s) PROVE s \in Data
BY DEF Whole

(* What a string is read as, when its end is held as well.                 *)
LEMMA ReadsText ==
    ASSUME NEW data \in Data, NEW o \in Nat, NEW p, NEW n, Sized(p, n),
           Holds(data, o, Word(n)), Holds(data, o + 32, p)
    PROVE  HoldsBytes(data, o) /\ BytesAt(data, o) = p
<1>1. Fits(data, o, 32) /\ NumberAt(data, o) = n /\ n \in Nat
  BY ReadsNumber, SizedIsData
<1>2. o + 32 + n <= Len(data) /\ Len(data) \in Nat
  <2>1. o + 32 + n <= Len(data)
    BY DEF Holds, Sized
  <2>2. QED BY <2>1 DEF Data
<1>3. SubSeq(data, o + 32 + 1, o + 32 + n) = p
  BY SubSeqHeld, o + 32 \in Nat
<1>4. o + 32 + 1 = o + 33 /\ Smaller(o + 32 + n, Len(data)) = o + 32 + n
  BY <1>1, <1>2 DEF Smaller
<1>5. BytesAt(data, o) = p
  BY <1>1, <1>3, <1>4 DEF BytesAt
<1>6. QED BY <1>1, <1>2, <1>5 DEF HoldsBytes, Fits

LEMMA ReadsBytes ==
    ASSUME NEW data \in Data, NEW o \in Nat, NEW p \in Data, Holds(data, o, EncodeBytes(p))
    PROVE  HoldsBytes(data, o) /\ BytesAt(data, o) = p
<1> DEFINE n == Len(p)
<1>1. Sized(p, n)
  BY DataIsSized
<1> HIDE DEF n
<1>2. n \in Nat /\ Word(n) \in Data /\ EncodeBytes(p) \in Data
  BY <1>1, SizedIsData, WordIs, EncodeBytesIs, WholeIsData
<1>3. Holds(data, o + 0, Word(n)) /\ Holds(data, o + 32, p)
  BY <1>1, <1>2, EncodeBytesIs, HoldsWithin, 0 \in Nat, 32 \in Nat
<1>4. o + 0 = o
  OBVIOUS
<1>5. QED BY <1>1, <1>3, <1>4, ReadsText

(* What s holds, t holds as well.                                          *)
Extends(t, s) == \A o \in Nat, part \in Data : Holds(s, o, part) => Holds(t, o, part)

LEMMA NextWord ==
    ASSUME NEW s, NEW m, Sized(s, m), NEW w, Sized(w, 32)
    PROVE  Sized(Cat(s, w), m + 32) /\ Holds(Cat(s, w), m, w) /\ Extends(Cat(s, w), s)
<1>1. s \in Data /\ w \in Data
  BY SizedIsData
<1>2. QED BY <1>1, CatIsSized, HoldsHere, HoldsLeft DEF Extends

(* m bytes, six words and a tail.                                          *)
Structure(d, s, m, w1, w2, w3, w4, w5, w6, t) ==
    /\ Sized(s, m) /\ Sized(w1, 32) /\ Sized(w2, 32) /\ Sized(w3, 32)
    /\ Sized(w4, 32) /\ Sized(w5, 32) /\ Sized(w6, 32) /\ t \in Data
    /\ d = s \o w1 \o w2 \o w3 \o w4 \o w5 \o w6 \o t

LEMMA SixWords ==
    ASSUME NEW d, NEW s, NEW m, NEW w1, NEW w2, NEW w3, NEW w4, NEW w5, NEW w6, NEW t,
           Structure(d, s, m, w1, w2, w3, w4, w5, w6, t)
    PROVE  /\ d \in Data /\ (Whole(s) /\ Whole(t) => Whole(d)) /\ Extends(d, s)
           /\ Holds(d, m, w1) /\ Holds(d, m + 32, w2) /\ Holds(d, m + 64, w3)
           /\ Holds(d, m + 96, w4) /\ Holds(d, m + 128, w5) /\ Holds(d, m + 160, w6)
           /\ Holds(d, m + 192, t)
<1> DEFINE s1 == Cat(s, w1)
           s2 == Cat(s1, w2)
           s3 == Cat(s2, w3)
           s4 == Cat(s3, w4)
           s5 == Cat(s4, w5)
           s6 == Cat(s5, w6)
<1>1. d = Cat(s6, t)
  BY DEF Cat, Structure
<1>2. /\ Sized(s, m) /\ Sized(w1, 32) /\ Sized(w2, 32) /\ Sized(w3, 32)
      /\ Sized(w4, 32) /\ Sized(w5, 32) /\ Sized(w6, 32) /\ t \in Data
  BY DEF Structure
<1>3. m \in Nat
  BY <1>2, SizedIsData
<1>4. Sized(s1, m + 32) /\ Holds(s1, m, w1) /\ Extends(s1, s)
  BY <1>2, NextWord
<1> HIDE DEF s1
<1>5. Sized(s2, m + 64) /\ Holds(s2, m + 32, w2) /\ Extends(s2, s1)
  BY <1>2, <1>3, <1>4, NextWord, m + 32 + 32 = m + 64
<1> HIDE DEF s2
<1>6. Sized(s3, m + 96) /\ Holds(s3, m + 64, w3) /\ Extends(s3, s2)
  BY <1>2, <1>3, <1>5, NextWord, m + 64 + 32 = m + 96
<1> HIDE DEF s3
<1>7. Sized(s4, m + 128) /\ Holds(s4, m + 96, w4) /\ Extends(s4, s3)
  BY <1>2, <1>3, <1>6, NextWord, m + 96 + 32 = m + 128
<1> HIDE DEF s4
<1>8. Sized(s5, m + 160) /\ Holds(s5, m + 128, w5) /\ Extends(s5, s4)
  BY <1>2, <1>3, <1>7, NextWord, m + 128 + 32 = m + 160
<1> HIDE DEF s5
<1>9. Sized(s6, m + 192) /\ Holds(s6, m + 160, w6) /\ Extends(s6, s5)
  BY <1>2, <1>3, <1>8, NextWord, m + 160 + 32 = m + 192
<1>10. Whole(s) => Whole(s6)
  BY <1>2, WordIsWhole, CatIsWhole DEF s1, s2, s3, s4, s5
<1> HIDE DEF s6
<1>11. d \in Data /\ Holds(d, m + 192, t) /\ Extends(d, s6)
  <2>1. s6 \in Data
    BY <1>9, SizedIsData
  <2>2. QED BY <1>2, <1>1, <1>9, <2>1, CatIsData, HoldsHere, HoldsLeft DEF Extends
<1>12. /\ w1 \in Data /\ w2 \in Data /\ w3 \in Data
       /\ w4 \in Data /\ w5 \in Data /\ w6 \in Data
  BY <1>2, SizedIsData
<1>13. /\ Extends(d, s5) /\ Extends(d, s4) /\ Extends(d, s3)
       /\ Extends(d, s2) /\ Extends(d, s1) /\ Extends(d, s)
  BY <1>4, <1>5, <1>6, <1>7, <1>8, <1>9, <1>11 DEF Extends
<1>14. /\ Holds(d, m, w1) /\ Holds(d, m + 32, w2) /\ Holds(d, m + 64, w3)
       /\ Holds(d, m + 96, w4) /\ Holds(d, m + 128, w5) /\ Holds(d, m + 160, w6)
  <2>1. /\ m + 32 \in Nat /\ m + 64 \in Nat /\ m + 96 \in Nat
        /\ m + 128 \in Nat /\ m + 160 \in Nat
    BY <1>3
  <2>2. QED
    BY <1>3, <1>4, <1>5, <1>6, <1>7, <1>8, <1>9, <1>11, <1>12, <1>13, <2>1 DEF Extends
<1>15. Whole(s) /\ Whole(t) => Whole(d)
  BY <1>1, <1>10, CatIsWhole
<1>16. QED BY <1>11, <1>13, <1>14, <1>15

-----------------------------------------------------------------------------
(* Calldata.                                                               *)

LEMMA BytesAreNumbers ==
    Byte \subseteq Nat /\ Numbers \subseteq Nat /\ Seq(Byte) \subseteq Data
<1>1. Byte \subseteq Nat /\ Numbers \subseteq Nat
  BY DEF Byte, Numbers, TooLarge
<1>2. QED BY <1>1, SeqMonotonic DEF Data

LEMMA ItemIs ==
    ASSUME NEW a \in Items
    PROVE  /\ a.attester \in Nat /\ a.onBehalfOf \in Nat /\ a.docChainId \in Nat
           /\ a.docRef \in Nat /\ a.parentHash \in Nat /\ a.contentHash \in Nat
           /\ a.deadline \in Nat /\ a.uri \in Data /\ a.signature \in Data
           /\ a = [attester |-> a.attester, onBehalfOf |-> a.onBehalfOf,
                   docChainId |-> a.docChainId, docRef |-> a.docRef,
                   parentHash |-> a.parentHash, contentHash |-> a.contentHash,
                   uri |-> a.uri, deadline |-> a.deadline, signature |-> a.signature]
<1>1. a \in [attester : Byte, onBehalfOf : Byte, docChainId : Byte, docRef : Numbers,
             parentHash : Byte, contentHash : Byte, uri : Seq(Byte),
             deadline : Numbers, signature : Seq(Byte)]
  BY WireAssumption
<1>2. /\ a.attester \in Byte /\ a.onBehalfOf \in Byte /\ a.docChainId \in Byte
      /\ a.docRef \in Numbers /\ a.parentHash \in Byte /\ a.contentHash \in Byte
      /\ a.deadline \in Numbers /\ a.uri \in Seq(Byte) /\ a.signature \in Seq(Byte)
  BY <1>1
<1>3. a = [attester |-> a.attester, onBehalfOf |-> a.onBehalfOf,
           docChainId |-> a.docChainId, docRef |-> a.docRef,
           parentHash |-> a.parentHash, contentHash |-> a.contentHash,
           uri |-> a.uri, deadline |-> a.deadline, signature |-> a.signature]
  BY <1>1
<1>4. QED BY <1>2, <1>3, BytesAreNumbers

(* An attestation is eight words and a string.                             *)
LEMMA EncodeAttestationIs ==
    ASSUME NEW a \in Items
    PROVE  LET e == EncodeAttestation(a)
           IN  /\ Whole(e)
               /\ Holds(e, 0, AddressWord(a.attester)) /\ Holds(e, 32, AddressWord(a.onBehalfOf))
               /\ Holds(e, 64, Bytes32(a.docChainId)) /\ Holds(e, 96, Word(a.docRef))
               /\ Holds(e, 128, Bytes32(a.parentHash)) /\ Holds(e, 160, Bytes32(a.contentHash))
               /\ Holds(e, 192, Word(256)) /\ Holds(e, 224, Word(a.deadline))
               /\ Holds(e, 256, EncodeBytes(a.uri))
<1> DEFINE e == EncodeAttestation(a)
           u1 == AddressWord(a.attester)
           u2 == AddressWord(a.onBehalfOf)
           s == Cat(u1, u2)
           w1 == Bytes32(a.docChainId)
           w2 == Word(a.docRef)
           w3 == Bytes32(a.parentHash)
           w4 == Bytes32(a.contentHash)
           w5 == Word(256)
           w6 == Word(a.deadline)
           t == EncodeBytes(a.uri)
<1>1. /\ Sized(u1, 32) /\ Sized(u2, 32) /\ Sized(w1, 32) /\ Sized(w2, 32)
      /\ Sized(w3, 32) /\ Sized(w4, 32) /\ Sized(w5, 32) /\ Sized(w6, 32)
  BY ItemIs, AddressWordIs, Bytes32Is, WordIs, 256 \in Nat
<1>2. Whole(t) /\ t \in Data
  BY ItemIs, DataIsSized, EncodeBytesIs, WholeIsData
<1>3. e = s \o w1 \o w2 \o w3 \o w4 \o w5 \o w6 \o t
  BY 8 * 32 = 256 DEF EncodeAttestation, Cat
<1> HIDE DEF e, u1, u2, w1, w2, w3, w4, w5, w6, t
<1>4. Sized(s, 64) /\ Holds(s, 0, u1) /\ Holds(s, 32, u2) /\ Whole(s)
  <2>1. u1 \in Data /\ u2 \in Data
    BY <1>1, SizedIsData
  <2>2. Sized(s, 32 + 32) /\ 32 + 32 = 64
    BY <1>1, CatIsSized
  <2>3. QED
    BY <1>1, <2>1, <2>2, WordIsWhole, CatIsWhole, HoldsSelf, HoldsLeft, HoldsHere, 0 \in Nat
<1> HIDE DEF s
<1>5. /\ e \in Data /\ Whole(e) /\ Extends(e, s)
      /\ Holds(e, 64, w1) /\ Holds(e, 64 + 32, w2) /\ Holds(e, 64 + 64, w3)
      /\ Holds(e, 64 + 96, w4) /\ Holds(e, 64 + 128, w5) /\ Holds(e, 64 + 160, w6)
      /\ Holds(e, 64 + 192, t)
  <2> DEFINE m == 64
  <2>1. Sized(s, m)
    BY <1>4
  <2> HIDE DEF m
  <2>2. Structure(e, s, m, w1, w2, w3, w4, w5, w6, t)
    BY <1>1, <1>2, <1>3, <2>1 DEF Structure
  <2>3. /\ e \in Data /\ (Whole(s) /\ Whole(t) => Whole(e)) /\ Extends(e, s)
        /\ Holds(e, m, w1) /\ Holds(e, m + 32, w2) /\ Holds(e, m + 64, w3)
        /\ Holds(e, m + 96, w4) /\ Holds(e, m + 128, w5) /\ Holds(e, m + 160, w6)
        /\ Holds(e, m + 192, t)
    BY <2>2, SixWords
  <2>4. QED BY <1>2, <1>4, <2>3 DEF m
<1>6. Holds(e, 0, u1) /\ Holds(e, 32, u2)
  BY <1>1, <1>4, <1>5, SizedIsData, 0 \in Nat, 32 \in Nat DEF Extends
<1>7. /\ 64 + 32 = 96 /\ 64 + 64 = 128 /\ 64 + 96 = 160
      /\ 64 + 128 = 192 /\ 64 + 160 = 224 /\ 64 + 192 = 256
  OBVIOUS
<1>8. QED BY <1>5, <1>6, <1>7 DEF e, u1, u2, w1, w2, w3, w4, w5, w6, t

LEMMA ReadsItem ==
    ASSUME NEW data \in Data, NEW att \in Nat, NEW sig \in Nat, NEW a \in Items,
           Holds(data, att, EncodeAttestation(a)), Holds(data, sig, EncodeBytes(a.signature))
    PROVE  Readable(data, att, sig) /\ ReadItem(data, att, sig) = a
<1> DEFINE e == EncodeAttestation(a)
<1>1. e \in Data
  BY EncodeAttestationIs, WholeIsData
<1>2. /\ Sized(AddressWord(a.attester), 32) /\ Sized(AddressWord(a.onBehalfOf), 32)
      /\ Sized(Bytes32(a.docChainId), 32) /\ Sized(Bytes32(a.parentHash), 32)
      /\ Sized(Bytes32(a.contentHash), 32) /\ Sized(Word(a.docRef), 32)
      /\ Sized(Word(a.deadline), 32) /\ Sized(Word(256), 32)
      /\ EncodeBytes(a.uri) \in Data
  <2>1. EncodeBytes(a.uri) \in Data
    BY ItemIs, DataIsSized, EncodeBytesIs, WholeIsData
  <2>2. QED BY <2>1, ItemIs, AddressWordIs, Bytes32Is, WordIs, 256 \in Nat
<1>3. /\ Holds(data, att + 0, AddressWord(a.attester))
      /\ Holds(data, att + 32, AddressWord(a.onBehalfOf))
      /\ Holds(data, att + 64, Bytes32(a.docChainId)) /\ Holds(data, att + 96, Word(a.docRef))
      /\ Holds(data, att + 128, Bytes32(a.parentHash))
      /\ Holds(data, att + 160, Bytes32(a.contentHash))
      /\ Holds(data, att + 192, Word(256)) /\ Holds(data, att + 224, Word(a.deadline))
      /\ Holds(data, att + 256, EncodeBytes(a.uri))
  <2> HIDE DEF e
  <2>1. /\ 0 \in Nat /\ 32 \in Nat /\ 64 \in Nat /\ 96 \in Nat /\ 128 \in Nat
        /\ 160 \in Nat /\ 192 \in Nat /\ 224 \in Nat /\ 256 \in Nat
    OBVIOUS
  <2>2. \A o \in Nat, part \in Data : Holds(e, o, part) => Holds(data, att + o, part)
    BY <1>1, HoldsWithin DEF e
  <2>3. /\ Holds(e, 0, AddressWord(a.attester)) /\ Holds(e, 32, AddressWord(a.onBehalfOf))
        /\ Holds(e, 64, Bytes32(a.docChainId)) /\ Holds(e, 96, Word(a.docRef))
        /\ Holds(e, 128, Bytes32(a.parentHash)) /\ Holds(e, 160, Bytes32(a.contentHash))
        /\ Holds(e, 192, Word(256)) /\ Holds(e, 224, Word(a.deadline))
        /\ Holds(e, 256, EncodeBytes(a.uri))
    BY EncodeAttestationIs DEF e
  <2>4. QED BY <1>2, <2>1, <2>2, <2>3, SizedIsData
<1>4. /\ att + 0 = att /\ att + 32 \in Nat /\ att + 64 \in Nat /\ att + 96 \in Nat
      /\ att + 128 \in Nat /\ att + 160 \in Nat /\ att + 192 \in Nat
      /\ att + 224 \in Nat /\ att + 256 \in Nat
  OBVIOUS
<1>5. /\ WordAt(data, att) = AddressWord(a.attester)
      /\ WordAt(data, att + 32) = AddressWord(a.onBehalfOf)
      /\ WordAt(data, att + 64) = Bytes32(a.docChainId)
      /\ WordAt(data, att + 128) = Bytes32(a.parentHash)
      /\ WordAt(data, att + 160) = Bytes32(a.contentHash)
  BY <1>2, <1>3, <1>4, ReadsWord
<1>6. /\ NumberAt(data, att + 96) = a.docRef /\ NumberAt(data, att + 192) = 256
      /\ NumberAt(data, att + 224) = a.deadline /\ Fits(data, att + 224, 32)
  BY <1>3, <1>4, ItemIs, ReadsNumber, 256 \in Nat
<1>7. /\ HoldsBytes(data, att + 256) /\ BytesAt(data, att + 256) = a.uri
      /\ HoldsBytes(data, sig) /\ BytesAt(data, sig) = a.signature
  BY <1>3, <1>4, ItemIs, ReadsBytes
<1>8. Fits(data, att, 8 * 32)
  BY <1>6 DEF Fits
<1>9. Readable(data, att, sig)
  <2>1. 6 * 32 = 192
    OBVIOUS
  <2>2. IsAddress(WordAt(data, att)) /\ IsAddress(WordAt(data, att + 32))
    BY <1>5, ItemIs, AddressWordIs
  <2>3. QED BY <1>6, <1>7, <1>8, <2>1, <2>2 DEF Readable
<1>10. ReadItem(data, att, sig) = a
  <2>1. /\ AddressWord(a.attester)[32] = a.attester
        /\ AddressWord(a.onBehalfOf)[32] = a.onBehalfOf
        /\ Bytes32(a.docChainId)[1] = a.docChainId /\ Bytes32(a.parentHash)[1] = a.parentHash
        /\ Bytes32(a.contentHash)[1] = a.contentHash
    BY ItemIs, AddressWordIs, Bytes32Is
  <2>2. QED BY <1>5, <1>6, <1>7, <2>1, ItemIs DEF ReadItem
<1>11. QED BY <1>9, <1>10

(* An array is its length, the offsets of its elements and the elements.   *)
LEMMA ArrayIs ==
    ASSUME NEW tails \in Seq(Data), NEW n, n = Len(tails), NEW array,
           array = EncodeDynamicArray(tails)
    PROVE  /\ array \in Data /\ n <= Len(array)
           /\ (\A i \in 1 .. n : Whole(tails[i])) => Whole(array)
           /\ Holds(array, 0, Word(n))
           /\ \A i \in 1 .. n : \E offset \in Nat :
                 Holds(array, 32 * i, Word(offset)) /\ Holds(array, 32 + offset, tails[i])
<1> DEFINE Offset(i) == 32 * n + Len(Flat(tails, i - 1))
           words == [i \in 1 .. n |-> Word(Offset(i))]
           w == Word(n)
           head == FlattenSeq(words)
           body == FlattenSeq(tails)
<1>1. n \in Nat /\ DOMAIN tails = 1 .. n
  OBVIOUS
<1>2. array = Cat(Cat(w, head), body)
  <2>1. ASSUME NEW i \in 1 .. n
        PROVE  0 + 32 * Len(tails) + Len(FlattenSeq(SubSeq(tails, 1, i - 1))) = Offset(i)
    <3>1. 0 + 32 * n = 32 * n
      BY <1>1
    <3>2. QED BY <3>1 DEF Flat
  <2>2. words = [i \in DOMAIN tails |->
            Word(0 + 32 * Len(tails) + Len(FlattenSeq(SubSeq(tails, 1, i - 1))))]
    BY <1>1, <2>1
  <2> HIDE DEF words
  <2>3. QED BY <2>2 DEF EncodeDynamicArray, EncodeArrayFrom, Cat
<1>3. ASSUME NEW i \in 1 .. n
      PROVE  /\ Offset(i) \in Nat /\ Sized(words[i], 32) /\ words[i] = Word(Offset(i))
             /\ Sized(Flat(tails, i - 1), Len(Flat(tails, i - 1)))
  <2>1. i - 1 \in 0 .. Len(tails)
    BY <1>1
  <2>2. Sized(Flat(tails, i - 1), Len(Flat(tails, i - 1)))
    BY <2>1, FlatIsData, DataIsSized
  <2>3. Len(Flat(tails, i - 1)) \in Nat
    BY <2>2, SizedIsData
  <2>4. Offset(i) \in Nat
    BY <1>1, <2>3
  <2> HIDE DEF Offset
  <2>5. QED BY <2>2, <2>4, WordIs
<1> HIDE DEF Offset
<1>4. words \in Seq(Data) /\ Len(words) = n
  <2>1. \A i \in 1 .. n : Word(Offset(i)) \in Data
    BY <1>3, SizedIsData
  <2>2. QED BY <1>1, <2>1
<1> HIDE DEF words
<1>5. head = Flat(words, n) /\ Sized(head, 32 * n)
  <2>1. Flat(words, Len(words)) = head
    BY <1>4, FlatAll
  <2>2. n \in 0 .. Len(words) /\ \A i \in 1 .. Len(words) : Sized(words[i], 32)
    BY <1>1, <1>3, <1>4
  <2> HIDE DEF head
  <2>3. Sized(Flat(words, n), 32 * n)
    BY <1>4, <2>2, FlatOfWords
  <2>4. QED BY <1>4, <2>1, <2>3
<1>6. body = Flat(tails, n) /\ body \in Data
  BY <1>1, FlatAll, FlatIsData
<1>7. Sized(w, 32)
  BY <1>1, WordIs
<1> HIDE DEF w, head, body
<1>8. Sized(Cat(w, head), 32 + 32 * n)
  BY <1>5, <1>7, CatIsSized
<1>9. w \in Data /\ head \in Data /\ Cat(w, head) \in Data /\ array \in Data
  BY <1>2, <1>5, <1>6, <1>7, <1>8, SizedIsData, CatIsData
<1>10. Extends(array, Cat(w, head)) /\ Extends(Cat(w, head), w)
  BY <1>2, <1>6, <1>9, HoldsLeft DEF Extends
<1>11. Holds(array, 0, w)
  BY <1>9, <1>10, HoldsSelf, 0 \in Nat DEF Extends
<1>12. n <= Len(array)
  <2>1. Holds(array, 0, Cat(w, head))
    BY <1>9, <1>10, HoldsSelf, 0 \in Nat DEF Extends
  <2>2. 0 + (32 + 32 * n) <= Len(array) /\ Len(array) \in Nat
    <3>1. Len(array) \in Nat
      BY <1>9 DEF Data
    <3>2. QED BY <1>8, <2>1, <3>1 DEF Holds, Sized
  <2>3. QED BY <1>1, <2>2
<1>13. ASSUME \A i \in 1 .. n : Whole(tails[i]) PROVE Whole(array)
  <2>1. Whole(body)
    BY <1>1, <1>6, <1>13, FlatOfWhole
  <2>2. Whole(head)
    <3>1. n \in 0 .. Len(words) /\ \A i \in 1 .. Len(words) : Whole(words[i])
      BY <1>1, <1>3, <1>4, WordIsWhole
    <3>2. QED BY <1>4, <1>5, <3>1, FlatOfWhole
  <2>3. QED BY <1>2, <1>7, <2>1, <2>2, WordIsWhole, CatIsWhole
<1>14. ASSUME NEW i \in 1 .. n
       PROVE  Holds(array, 32 * i, Word(Offset(i))) /\ Holds(array, 32 + Offset(i), tails[i])
  <2>1. /\ i - 1 \in 0 .. n /\ 32 * (i - 1) \in Nat /\ 32 + 32 * (i - 1) = 32 * i
        /\ 32 * i \in Nat /\ tails[i] \in Data /\ n \in 0 .. n
    BY <1>1
  <2>2. Holds(head, Len(Flat(words, i - 1)), words[i])
    BY <1>4, <1>5, <2>1, FlatHolds
  <2>3. Len(Flat(words, i - 1)) = 32 * (i - 1)
    BY <1>3, <1>4, <2>1, FlatOfWords DEF Sized
  <2>4. words[i] \in Data
    BY <1>3, SizedIsData
  <2>5. Holds(Cat(w, head), 32 * i, words[i])
    BY <1>7, <1>9, <2>1, <2>2, <2>3, <2>4, HoldsRight
  <2>6. Holds(array, 32 * i, words[i])
    BY <1>10, <2>1, <2>4, <2>5 DEF Extends
  <2> DEFINE before == Len(Flat(tails, i - 1))
  <2>7. before \in Nat
    BY <1>3, SizedIsData
  <2>8. Holds(body, before, tails[i])
    BY <1>1, <1>6, <2>1, FlatHolds
  <2>9. 32 + Offset(i) = (32 + 32 * n) + before
    BY <1>1, <2>7 DEF Offset
  <2> HIDE DEF before
  <2>10. Holds(array, (32 + 32 * n) + before, tails[i])
    BY <1>2, <1>6, <1>8, <2>1, <2>7, <2>8, HoldsRight
  <2>11. QED BY <1>3, <2>6, <2>9, <2>10
<1>15. QED BY <1>3, <1>9, <1>11, <1>12, <1>13, <1>14 DEF w

(* An element is found at its offset, which counts from after the length.  *)
LEMMA ReadsArray ==
    ASSUME NEW tails \in Seq(Data), NEW data \in Data, NEW base \in Nat,
           Holds(data, base, EncodeDynamicArray(tails))
    PROVE  /\ NumberAt(data, base) = Len(tails) /\ Len(tails) <= Len(data)
           /\ \A i \in 1 .. Len(tails) :
                 LET at == base + 32 + NumberAt(data, base + 32 * i)
                 IN  at \in Nat /\ Holds(data, at, tails[i])
<1> DEFINE n == Len(tails)
           array == EncodeDynamicArray(tails)
<1>1. n \in Nat /\ \A i \in 1 .. n : tails[i] \in Data /\ 32 * i \in Nat
  OBVIOUS
<1>2. /\ array \in Data /\ n <= Len(array) /\ Holds(array, 0, Word(n))
      /\ \A i \in 1 .. n : \E offset \in Nat :
            Holds(array, 32 * i, Word(offset)) /\ Holds(array, 32 + offset, tails[i])
  BY ArrayIs
<1>3. Holds(data, base, array)
  OBVIOUS
<1> HIDE DEF n, array
<1>4. \A o \in Nat, part \in Data : Holds(array, o, part) => Holds(data, base + o, part)
  BY <1>2, <1>3, HoldsWithin
<1>5. \A m \in Nat : Word(m) \in Data
  BY WordIs, SizedIsData
<1>6. NumberAt(data, base) = n
  <2>1. Holds(data, base + 0, Word(n)) /\ base + 0 = base
    BY <1>1, <1>2, <1>4, <1>5, 0 \in Nat
  <2>2. QED BY <1>1, <2>1, ReadsNumber
<1>7. n <= Len(data)
  <2>1. Len(array) \in Nat /\ Len(data) \in Nat
    BY <1>2 DEF Data
  <2>2. base + Len(array) <= Len(data)
    BY <1>3 DEF Holds
  <2>3. QED BY <1>1, <1>2, <2>1, <2>2
<1>8. ASSUME NEW i \in 1 .. n
      PROVE  LET at == base + 32 + NumberAt(data, base + 32 * i)
             IN  at \in Nat /\ Holds(data, at, tails[i])
  <2>1. PICK offset \in Nat :
          Holds(array, 32 * i, Word(offset)) /\ Holds(array, 32 + offset, tails[i])
    BY <1>2
  <2>2. /\ 32 * i \in Nat /\ base + 32 * i \in Nat /\ tails[i] \in Data
        /\ 32 + offset \in Nat /\ base + 32 + offset \in Nat
        /\ base + (32 + offset) = base + 32 + offset
    BY <1>1
  <2>3. Holds(data, base + 32 * i, Word(offset)) /\ Holds(data, base + (32 + offset), tails[i])
    BY <1>4, <1>5, <2>1, <2>2
  <2>4. NumberAt(data, base + 32 * i) = offset
    BY <2>2, <2>3, ReadsNumber
  <2>5. QED BY <2>2, <2>3, <2>4
<1>9. QED BY <1>6, <1>7, <1>8 DEF n

(* Both calls are two offsets and what they point at.                      *)
Parts(data, x, y) == data = Word(64) \o Word(64 + Len(x)) \o x \o y

LEMMA TwoParts ==
    ASSUME NEW x \in Data, NEW y \in Data, NEW data, Parts(data, x, y)
    PROVE  /\ data \in Data /\ (Whole(x) /\ Whole(y) => Whole(data)) /\ 1 <= Len(data)
           /\ NumberAt(data, 0) = 64 /\ NumberAt(data, 32) = 64 + Len(x)
           /\ 64 + Len(x) \in Nat /\ Holds(data, 64, x) /\ Holds(data, 64 + Len(x), y)
<1> DEFINE n == Len(x)
           w1 == Word(64)
           w2 == Word(64 + n)
           s2 == Cat(w1, w2)
           s3 == Cat(s2, x)
<1>1. data = Cat(s3, y)
  BY DEF Cat, Parts
<1>2. Sized(x, n) /\ n \in Nat
  BY DataIsSized, SizedIsData
<1> HIDE DEF n
<1>3. 64 + n \in Nat
  BY <1>2
<1>4. Sized(w1, 32) /\ Sized(w2, 32)
  BY <1>3, WordIs, 64 \in Nat
<1> HIDE DEF w1, w2, s2, s3
<1>5. Sized(s2, 64) /\ Sized(s3, 64 + n)
  <2>1. Sized(s2, 32 + 32) /\ 32 + 32 = 64
    BY <1>4, CatIsSized DEF s2
  <2>2. Sized(s2, 64)
    BY <2>1
  <2>3. Sized(s3, 64 + n)
    BY <1>2, <2>2, CatIsSized DEF s3
  <2>4. QED BY <2>2, <2>3
<1>6. w1 \in Data /\ w2 \in Data /\ s2 \in Data /\ s3 \in Data /\ data \in Data
  BY <1>1, <1>4, <1>5, SizedIsData, CatIsData
<1>7. Extends(s2, w1) /\ Extends(s3, s2) /\ Extends(data, s3)
  BY <1>1, <1>6, HoldsLeft DEF Extends, s2, s3
<1>8. 0 \in Nat /\ 32 \in Nat /\ 64 \in Nat
  OBVIOUS
<1>9. Holds(s2, 0, w1) /\ Holds(s2, 32, w2) /\ Holds(s3, 64, x) /\ Holds(data, 64 + n, y)
  <2>1. Holds(s2, 0, w1)
    BY <1>6, <1>7, <1>8, HoldsSelf DEF Extends
  <2>2. Holds(s2, 32, w2)
    BY <1>4, <1>6, HoldsHere DEF s2
  <2>3. Holds(s3, 64, x)
    BY <1>5, HoldsHere DEF s3
  <2>4. Holds(data, 64 + n, y)
    BY <1>1, <1>5, HoldsHere
  <2>5. QED BY <2>1, <2>2, <2>3, <2>4
<1>10. Holds(data, 0, w1) /\ Holds(data, 32, w2) /\ Holds(data, 64, x)
  BY <1>6, <1>7, <1>8, <1>9 DEF Extends
<1>11. NumberAt(data, 0) = 64 /\ NumberAt(data, 32) = 64 + n
  BY <1>3, <1>6, <1>8, <1>10, ReadsNumber DEF w1, w2
<1>12. 1 <= Len(data)
  <2>1. 64 + n <= Len(data)
    BY <1>2, <1>10 DEF Holds, Sized
  <2>2. Len(data) \in Nat
    BY <1>6 DEF Data
  <2>3. QED BY <1>2, <2>1, <2>2
<1>13. Whole(x) /\ Whole(y) => Whole(data)
  BY <1>1, <1>4, WordIsWhole, CatIsWhole DEF s2, s3
<1>14. QED BY <1>3, <1>6, <1>9, <1>10, <1>11, <1>12, <1>13 DEF n

LEMMA DocCall ==
    ASSUME NEW a \in Items, NEW call, call = AttestDocCalldata(a)
    PROVE  ReadCall(call) = << <<a>> >> /\ Whole(call.data)
<1> DEFINE x == EncodeAttestation(a)
           y == EncodeBytes(a.signature)
           data == call.data
           sig == 64 + Len(x)
<1>1. call.function = "attestDoc" /\ Parts(data, x, y)
  BY DEF AttestDocCalldata, Parts
<1>2. Whole(x) /\ Whole(y) /\ x \in Data /\ y \in Data
  BY ItemIs, DataIsSized, EncodeAttestationIs, EncodeBytesIs, WholeIsData
<1> HIDE DEF x, y, data
<1>3. /\ data \in Data /\ Whole(data) /\ 1 <= Len(data)
      /\ NumberAt(data, 0) = 64 /\ NumberAt(data, 32) = sig
      /\ sig \in Nat /\ Holds(data, 64, x) /\ Holds(data, sig, y)
  BY <1>1, <1>2, TwoParts
<1> HIDE DEF sig
<1>4. Readable(data, 64, sig) /\ ReadItem(data, 64, sig) = a
  BY <1>3, ReadsItem, 64 \in Nat DEF x, y
<1>5. ReadCall(call) = <<[i \in 1 .. 1 |-> ReadItem(data, 64, sig)]>>
  BY <1>1, <1>3, <1>4 DEF ReadCall, data
<1>6. [i \in 1 .. 1 |-> a] = <<a>>
  OBVIOUS
<1>7. QED BY <1>3, <1>4, <1>5, <1>6 DEF data

LEMMA BatchCall ==
    ASSUME NEW items \in Seq(Items), NEW call, call = AttestBatchCalldata(items)
    PROVE  ReadCall(call) = <<items>> /\ Whole(call.data)
<1> DEFINE n == Len(items)
           xs == [i \in DOMAIN items |-> EncodeAttestation(items[i])]
           ys == [i \in DOMAIN items |-> EncodeBytes(items[i].signature)]
           x == EncodeDynamicArray(xs)
           y == EncodeDynamicArray(ys)
           data == call.data
           one == 64
           two == 64 + Len(x)
           Att(i) == one + 32 + NumberAt(data, one + 32 * i)
           Sig(i) == two + 32 + NumberAt(data, two + 32 * i)
<1>1. call.function = "attestBatch" /\ Parts(data, x, y)
  BY DEF AttestBatchCalldata, Parts
<1>2. n \in Nat /\ DOMAIN items = 1 .. n /\ \A i \in 1 .. n : items[i] \in Items
  OBVIOUS
<1>3. ASSUME NEW i \in 1 .. n
      PROVE  /\ xs[i] = EncodeAttestation(items[i]) /\ Whole(xs[i]) /\ xs[i] \in Data
             /\ ys[i] = EncodeBytes(items[i].signature) /\ Whole(ys[i]) /\ ys[i] \in Data
  <2>1. Whole(EncodeAttestation(items[i])) /\ Whole(EncodeBytes(items[i].signature))
    BY <1>2, ItemIs, DataIsSized, EncodeAttestationIs, EncodeBytesIs
  <2>2. QED BY <1>2, <2>1, WholeIsData
<1>4. xs \in Seq(Data) /\ Len(xs) = n /\ ys \in Seq(Data) /\ Len(ys) = n
  BY <1>2, <1>3
<1>5. items = [i \in 1 .. n |-> items[i]]
  BY <1>2
<1> HIDE DEF n, xs, ys
<1>6. x \in Data /\ y \in Data /\ Whole(x) /\ Whole(y)
  BY <1>3, <1>4, ArrayIs, WholeIsData
<1> HIDE DEF x, y, data
<1>7. /\ data \in Data /\ Whole(data)
      /\ NumberAt(data, 0) = one /\ NumberAt(data, 32) = two
      /\ one \in Nat /\ two \in Nat /\ Holds(data, one, x) /\ Holds(data, two, y)
  BY <1>1, <1>6, TwoParts
<1> HIDE DEF one, two
<1>8. /\ NumberAt(data, one) = n /\ n <= Len(data)
      /\ \A i \in 1 .. n : Att(i) \in Nat /\ Holds(data, Att(i), xs[i])
  BY <1>4, <1>7, ReadsArray DEF x
<1>9. /\ NumberAt(data, two) = n
      /\ \A i \in 1 .. n : Sig(i) \in Nat /\ Holds(data, Sig(i), ys[i])
  BY <1>4, <1>7, ReadsArray DEF y
<1> HIDE DEF Att, Sig
<1>10. ASSUME NEW i \in 1 .. n
       PROVE  Readable(data, Att(i), Sig(i)) /\ ReadItem(data, Att(i), Sig(i)) = items[i]
  BY <1>2, <1>3, <1>7, <1>8, <1>9, ReadsItem
<1>11. ReadCall(call) = <<[i \in 1 .. n |-> ReadItem(data, Att(i), Sig(i))]>>
  BY <1>1, <1>7, <1>8, <1>9, <1>10 DEF ReadCall, data, Att, Sig
<1>12. QED BY <1>5, <1>7, <1>10, <1>11 DEF data

-----------------------------------------------------------------------------
(* Logs.                                                                   *)

Logged == [docChainId : Byte, attester : Byte, docRef : Numbers, onBehalfOf : Byte,
           submitter : Byte, parentHash : Byte, blockHash : Byte,
           contentHash : Byte, uriHash : Byte, uri : Seq(Byte)]

LEMMA LoggedIs ==
    ASSUME NEW e \in Logged
    PROVE  /\ e.docChainId \in Nat /\ e.attester \in Nat /\ e.docRef \in Nat
           /\ e.onBehalfOf \in Nat /\ e.submitter \in Nat /\ e.parentHash \in Nat
           /\ e.blockHash \in Nat /\ e.contentHash \in Nat /\ e.uriHash \in Nat
           /\ e.uri \in Data
           /\ e = [docChainId |-> e.docChainId, attester |-> e.attester, docRef |-> e.docRef,
                   onBehalfOf |-> e.onBehalfOf, submitter |-> e.submitter,
                   parentHash |-> e.parentHash, blockHash |-> e.blockHash,
                   contentHash |-> e.contentHash, uriHash |-> e.uriHash, uri |-> e.uri]
<1>1. /\ e.docChainId \in Byte /\ e.attester \in Byte /\ e.docRef \in Numbers
      /\ e.onBehalfOf \in Byte /\ e.submitter \in Byte /\ e.parentHash \in Byte
      /\ e.blockHash \in Byte /\ e.contentHash \in Byte /\ e.uriHash \in Byte
      /\ e.uri \in Seq(Byte)
  BY DEF Logged
<1>2. e = [docChainId |-> e.docChainId, attester |-> e.attester, docRef |-> e.docRef,
           onBehalfOf |-> e.onBehalfOf, submitter |-> e.submitter,
           parentHash |-> e.parentHash, blockHash |-> e.blockHash,
           contentHash |-> e.contentHash, uriHash |-> e.uriHash, uri |-> e.uri]
  BY DEF Logged
<1>3. QED BY <1>1, <1>2, BytesAreNumbers

(* Where the two shapes agree.                                             *)
First0(version) == IF version = "current" THEN 32 ELSE 0

LEMMA EmittedDataIs ==
    ASSUME NEW e \in Logged, NEW version \in {"current", "legacy"}, NEW first, NEW data,
           first = First0(version), data = EmittedLog(e, version).data
    PROVE  /\ first \in Nat /\ data \in Data /\ Whole(data)
           /\ version = "current" => Holds(data, 0, AddressWord(e.onBehalfOf))
           /\ Holds(data, first, AddressWord(e.submitter))
           /\ Holds(data, first + 32, Bytes32(e.parentHash))
           /\ Holds(data, first + 64, Bytes32(e.blockHash))
           /\ Holds(data, first + 96, Bytes32(e.contentHash))
           /\ Holds(data, first + 128, Bytes32(e.uriHash))
           /\ Holds(data, first + 160, Word(first + 192))
           /\ Holds(data, first + 192, EncodeBytes(e.uri))
<1> DEFINE s == IF version = "current" THEN AddressWord(e.onBehalfOf) ELSE << >>
           w1 == AddressWord(e.submitter)
           w2 == Bytes32(e.parentHash)
           w3 == Bytes32(e.blockHash)
           w4 == Bytes32(e.contentHash)
           w5 == Bytes32(e.uriHash)
           w6 == Word(first + 192)
           t == EncodeBytes(e.uri)
<1>1. first \in Nat /\ first + 192 \in Nat
      /\ first + 192 = IF version = "current" THEN 7 * 32 ELSE 6 * 32
  BY DEF First0
<1>2. data = s \o w1 \o w2 \o w3 \o w4 \o w5 \o w6 \o t
  BY <1>1 DEF EmittedLog
<1>3. Sized(s, first) /\ Whole(s)
  <2>1. CASE version = "current"
    BY <2>1, LoggedIs, AddressWordIs, WordIsWhole DEF First0
  <2>2. CASE version = "legacy"
    BY <2>2, 0 % 32 = 0 DEF First0, Sized, Whole, Data
  <2>3. QED BY <2>1, <2>2
<1>4. /\ Sized(w1, 32) /\ Sized(w2, 32) /\ Sized(w3, 32)
      /\ Sized(w4, 32) /\ Sized(w5, 32) /\ Sized(w6, 32)
  BY <1>1, LoggedIs, AddressWordIs, Bytes32Is, WordIs
<1>5. Whole(t) /\ t \in Data
  BY LoggedIs, DataIsSized, EncodeBytesIs, WholeIsData
<1>6. version = "current" => Holds(s, 0, AddressWord(e.onBehalfOf))
                             /\ AddressWord(e.onBehalfOf) \in Data
  BY <1>3, HoldsSelf, SizedIsData
<1> HIDE DEF s, w1, w2, w3, w4, w5, w6, t
<1>7. Structure(data, s, first, w1, w2, w3, w4, w5, w6, t)
  BY <1>2, <1>3, <1>4, <1>5 DEF Structure
<1>8. /\ data \in Data /\ (Whole(s) /\ Whole(t) => Whole(data)) /\ Extends(data, s)
      /\ Holds(data, first, w1) /\ Holds(data, first + 32, w2) /\ Holds(data, first + 64, w3)
      /\ Holds(data, first + 96, w4) /\ Holds(data, first + 128, w5)
      /\ Holds(data, first + 160, w6) /\ Holds(data, first + 192, t)
  BY <1>7, SixWords
<1>9. version = "current" => Holds(data, 0, AddressWord(e.onBehalfOf))
  BY <1>6, <1>8, 0 \in Nat DEF Extends
<1>10. QED BY <1>1, <1>3, <1>5, <1>8, <1>9 DEF w1, w2, w3, w4, w5, w6, t

LEMMA TopicsAre ==
    ASSUME NEW e \in Logged, NEW version \in {"current", "legacy"}, NEW topics,
           topics = EmittedLog(e, version).topics
    PROVE  /\ Len(topics) = 4 /\ DOMAIN topics = 1 .. 4 /\ topics \in Seq(Data)
           /\ topics[1] = Topic0(version) /\ topics[2] = Bytes32(e.docChainId)
           /\ topics[3] = AddressWord(e.attester) /\ topics[4] = Word(e.docRef)
<1> DEFINE a == Topic0(version)
           b == Bytes32(e.docChainId)
           c == AddressWord(e.attester)
           d == Word(e.docRef)
<1>1. a \in Data /\ b \in Data /\ c \in Data /\ d \in Data
  BY LoggedIs, Bytes32Is, AddressWordIs, WordIs, SizedIsData, 165 \in Nat, 3 \in Nat DEF Topic0
<1>2. topics = <<a, b, c, d>>
  BY DEF EmittedLog
<1> HIDE DEF a, b, c, d
<1>3. QED BY <1>1, <1>2 DEF a, b, c, d

LEMMA ShapesDiffer == Topic0("current") # Topic0("legacy")
<1>1. Bytes32(165)[1] = 165 /\ Bytes32(3)[1] = 3
  BY Bytes32Is, 165 \in Nat, 3 \in Nat
<1>2. QED BY <1>1 DEF Topic0

(* What is left when an end is lost.                                       *)
StartOf(d, data) ==
    /\ d \in Data
    /\ \A o \in Nat, part \in Data :
          Holds(data, o, part) /\ o + Len(part) <= Len(d) => Holds(d, o, part)

LEMMA AllIsStart == ASSUME NEW data \in Data PROVE StartOf(data, data)
BY DEF StartOf

LEMMA CutIsStart ==
    ASSUME NEW data \in Data, NEW n \in 0 .. Len(data) - 1
    PROVE  StartOf(SubSeq(data, 1, n), data)
<1> DEFINE d == SubSeq(data, 1, n)
<1>1. d \in Data /\ Len(d) = n /\ n \in Nat /\ \A i \in 1 .. n : d[i] = data[i]
  BY DEF Data
<1> HIDE DEF d
<1>2. ASSUME NEW o \in Nat, NEW part \in Data, Holds(data, o, part), o + Len(part) <= Len(d)
      PROVE  Holds(d, o, part)
  <2>1. Len(part) \in Nat
    BY DEF Data
  <2>2. ASSUME NEW i \in 1 .. Len(part) PROVE d[o + i] = part[i]
    <3>1. o + i \in 1 .. n
      BY <1>1, <1>2, <2>1
    <3>2. data[o + i] = part[i]
      BY <1>2 DEF Holds
    <3>3. QED BY <1>1, <3>1, <3>2
  <2>3. QED BY <1>2, <2>2 DEF Holds
<1>3. QED BY <1>1, <1>2 DEF StartOf, d

(* A string that is there at all is all there.                             *)
LEMMA StringOfStart ==
    ASSUME NEW data \in Data, NEW d, StartOf(d, data), NEW o \in Nat, NEW p \in Data,
           Holds(data, o, EncodeBytes(p)), HoldsBytes(d, o)
    PROVE  BytesAt(d, o) = p
<1> DEFINE n == Len(p)
           w == Word(n)
<1>1. Sized(p, n) /\ n \in Nat
  BY DataIsSized, SizedIsData
<1> HIDE DEF n
<1>2. Sized(w, 32) /\ w \in Data /\ Len(w) = 32
  BY <1>1, WordIs, SizedIsData DEF Sized
<1>3. EncodeBytes(p) \in Data /\ d \in Data
  BY <1>1, EncodeBytesIs, WholeIsData DEF StartOf
<1>4. Holds(data, o, w) /\ Holds(data, o + 32, p)
  <2>1. Holds(data, o + 0, w) /\ Holds(data, o + 32, p)
    BY <1>1, <1>2, <1>3, EncodeBytesIs, HoldsWithin, 0 \in Nat, 32 \in Nat
  <2>2. o + 0 = o
    OBVIOUS
  <2>3. QED BY <2>1, <2>2
<1>5. Holds(d, o, w)
  BY <1>2, <1>4 DEF StartOf, HoldsBytes, Fits
<1>6. NumberAt(d, o) = n
  BY <1>1, <1>3, <1>5, ReadsNumber DEF w
<1>7. Holds(d, o + 32, p)
  <2>1. o + 32 + n <= Len(d) /\ o + 32 \in Nat /\ Len(p) = n
    BY <1>1, <1>6 DEF HoldsBytes, Fits, Sized
  <2>2. QED BY <1>4, <2>1 DEF StartOf
<1>8. QED BY <1>1, <1>3, <1>5, <1>7, ReadsText DEF w

(* The words of a log, as far as they are there.                           *)
LEMMA WordsOfStart ==
    ASSUME NEW e \in Logged, NEW version \in {"current", "legacy"}, NEW first, NEW data, NEW d,
           first = First0(version), data = EmittedLog(e, version).data,
           StartOf(d, data), Fits(d, 0, first + 192)
    PROVE  /\ version = "current" => /\ IsAddress(WordAt(d, 0))
                                     /\ WordAt(d, 0)[32] = e.onBehalfOf
           /\ IsAddress(WordAt(d, first)) /\ WordAt(d, first)[32] = e.submitter
           /\ WordAt(d, first + 32)[1] = e.parentHash
           /\ WordAt(d, first + 64)[1] = e.blockHash
           /\ WordAt(d, first + 96)[1] = e.contentHash
           /\ WordAt(d, first + 128)[1] = e.uriHash
           /\ NumberAt(d, first + 160) = first + 192
<1>1. /\ first \in Nat /\ data \in Data
      /\ version = "current" => Holds(data, 0, AddressWord(e.onBehalfOf))
      /\ Holds(data, first, AddressWord(e.submitter))
      /\ Holds(data, first + 32, Bytes32(e.parentHash))
      /\ Holds(data, first + 64, Bytes32(e.blockHash))
      /\ Holds(data, first + 96, Bytes32(e.contentHash))
      /\ Holds(data, first + 128, Bytes32(e.uriHash))
      /\ Holds(data, first + 160, Word(first + 192))
  BY EmittedDataIs
<1>2. d \in Data /\ Len(d) \in Nat /\ first + 192 <= Len(d)
  BY <1>1 DEF StartOf, Data, Fits
<1>3. ASSUME NEW o \in Nat, NEW w, Sized(w, 32), Holds(data, o, w), o <= first + 160
      PROVE  Holds(d, o, w) /\ WordAt(d, o) = w
  <2>1. o + 32 <= Len(d) /\ w \in Data /\ Len(w) = 32
    BY <1>1, <1>2, <1>3 DEF Sized
  <2>2. Holds(d, o, w)
    BY <1>3, <2>1 DEF StartOf
  <2>3. QED BY <1>2, <1>3, <2>2, ReadsWord
<1>4. /\ first + 32 \in Nat /\ first + 64 \in Nat /\ first + 96 \in Nat
      /\ first + 128 \in Nat /\ first + 160 \in Nat /\ first + 192 \in Nat /\ 0 \in Nat
      /\ 0 <= first + 160 /\ first <= first + 160 /\ first + 32 <= first + 160
      /\ first + 64 <= first + 160 /\ first + 96 <= first + 160
      /\ first + 128 <= first + 160 /\ first + 160 <= first + 160
  BY <1>1
<1>5. ASSUME version = "current"
      PROVE  IsAddress(WordAt(d, 0)) /\ WordAt(d, 0)[32] = e.onBehalfOf
  BY <1>1, <1>3, <1>4, <1>5, LoggedIs, AddressWordIs
<1>6. IsAddress(WordAt(d, first)) /\ WordAt(d, first)[32] = e.submitter
  BY <1>1, <1>3, <1>4, LoggedIs, AddressWordIs
<1>7. /\ WordAt(d, first + 32)[1] = e.parentHash
      /\ WordAt(d, first + 64)[1] = e.blockHash
      /\ WordAt(d, first + 96)[1] = e.contentHash
      /\ WordAt(d, first + 128)[1] = e.uriHash
  BY <1>1, <1>3, <1>4, LoggedIs, Bytes32Is
<1>8. NumberAt(d, first + 160) = first + 192
  <2>1. Holds(d, first + 160, Word(first + 192))
    BY <1>1, <1>3, <1>4, WordIs
  <2>2. QED BY <1>2, <1>4, <2>1, ReadsNumber
<1>9. QED BY <1>5, <1>6, <1>7, <1>8

LEMMA DecodeIs ==
    ASSUME NEW e \in Logged, NEW version \in {"current", "legacy"},
           version = "legacy" => e.onBehalfOf = 0,
           NEW log, log = EmittedLog(e, version), NEW w, StartOf(w.data, log.data),
           Len(w.topics) = 4 => w.topics = log.topics
    PROVE  /\ Decode(w) \in {<< >>, <<e>>}
           /\ w = log /\ IsUtf8(e.uri) => Decode(w) # << >>
<1> DEFINE d == w.data
           data == log.data
           topics == log.topics
           first == First0(version)
           uri == first + 192
           current == version = "current"
           read == [docChainId |-> topics[2][1], attester |-> topics[3][32],
                    docRef |-> Number(topics[4]),
                    onBehalfOf |-> IF current THEN WordAt(d, 0)[32] ELSE 0,
                    submitter |-> WordAt(d, first)[32],
                    parentHash |-> WordAt(d, first + 32)[1],
                    blockHash |-> WordAt(d, first + 64)[1],
                    contentHash |-> WordAt(d, first + 96)[1],
                    uriHash |-> WordAt(d, first + 128)[1],
                    uri |-> BytesAt(d, uri)]
<1>1. /\ Len(topics) = 4 /\ topics[1] = Topic0(version) /\ topics[2] = Bytes32(e.docChainId)
      /\ topics[3] = AddressWord(e.attester) /\ topics[4] = Word(e.docRef)
  BY TopicsAre
<1>2. /\ topics[2][1] = e.docChainId /\ topics[3][32] = e.attester
      /\ Number(topics[4]) = e.docRef /\ IsAddress(topics[3]) /\ IsUint64(topics[4])
  BY <1>1, LoggedIs, Bytes32Is, AddressWordIs, WordIs
<1>3. topics[1] \in {Topic0("current"), Topic0("legacy")} /\ (current <=> topics[1] = Topic0("current"))
  BY <1>1, ShapesDiffer
<1>4. /\ first \in Nat /\ data \in Data /\ Holds(data, uri, EncodeBytes(e.uri))
      /\ uri % 32 = 0 /\ e.uri \in Data
  BY EmittedDataIs, LoggedIs DEF First0
<1>5. ASSUME Len(w.topics) # 4 PROVE Decode(w) = << >> /\ w # log
  BY <1>1, <1>5 DEF Decode
<1>6. ASSUME Len(w.topics) = 4, ~Fits(d, 0, uri) PROVE Decode(w) = << >> /\ w # log
  <2>1. w.topics = topics
    BY <1>6
  <2>2. Decode(w) = << >>
    BY <1>3, <1>6, <2>1 DEF Decode, First0
  <2>3. Fits(data, 0, uri)
    <3>1. uri + Len(EncodeBytes(e.uri)) <= Len(data)
      BY <1>4 DEF Holds
    <3>2. EncodeBytes(e.uri) \in Data
      BY <1>4, DataIsSized, EncodeBytesIs, WholeIsData
    <3>3. Len(EncodeBytes(e.uri)) \in Nat /\ Len(data) \in Nat
      BY <1>4, <3>2 DEF Data
    <3>4. uri \in Nat
      BY <1>4
    <3> HIDE DEF uri, data
    <3>5. QED BY <3>1, <3>3, <3>4 DEF Fits
  <2>4. QED BY <1>6, <2>2, <2>3
<1>7. ASSUME Len(w.topics) = 4, Fits(d, 0, uri)
      PROVE  Decode(w) = IF HoldsString(d, uri) THEN <<e>> ELSE << >>
  <2>1. w.topics = topics
    BY <1>7
  <2>2. /\ current => IsAddress(WordAt(d, 0)) /\ WordAt(d, 0)[32] = e.onBehalfOf
        /\ IsAddress(WordAt(d, first)) /\ WordAt(d, first)[32] = e.submitter
        /\ WordAt(d, first + 32)[1] = e.parentHash
        /\ WordAt(d, first + 64)[1] = e.blockHash
        /\ WordAt(d, first + 96)[1] = e.contentHash
        /\ WordAt(d, first + 128)[1] = e.uriHash
        /\ NumberAt(d, first + 160) = uri
    BY <1>7, WordsOfStart
  <2>3. ASSUME HoldsString(d, uri) PROVE read = e
    <3>1. BytesAt(d, uri) = e.uri
      BY <1>4, <2>3, StringOfStart DEF HoldsString
    <3>2. (IF current THEN WordAt(d, 0)[32] ELSE 0) = e.onBehalfOf
      BY <2>2
    <3>3. QED BY <1>2, <2>2, <3>1, <3>2, LoggedIs
  <2>4. Decode(w) = IF HoldsString(d, uri) THEN <<read>> ELSE << >>
    <3>1. first = IF topics[1] = Topic0("current") THEN 32 ELSE 0
      BY <1>3 DEF First0
    <3> DEFINE found == topics[1] = Topic0("current")
    <3>2. found <=> current
      BY <1>3
    <3> HIDE DEF First0, uri, found
    <3>3. QED BY <1>1, <1>2, <1>3, <1>7, <2>1, <2>2, <3>1 DEF Decode, uri
  <2>5. QED BY <2>3, <2>4
<1>8. ASSUME w = log, IsUtf8(e.uri) PROVE HoldsString(d, uri)
  <2>1. HoldsBytes(data, uri) /\ BytesAt(data, uri) = e.uri
    BY <1>4, ReadsBytes
  <2>2. QED BY <1>4, <1>8, <2>1 DEF HoldsString
<1>9. <<e>> # << >>
  OBVIOUS
<1>10. QED BY <1>5, <1>6, <1>7, <1>8, <1>9

-----------------------------------------------------------------------------
(* Filters.                                                                *)

(* Fields that differ have topics that differ.                             *)
LEMMA TopicsTell ==
    ASSUME NEW m \in Nat, NEW n \in Nat
    PROVE  /\ Bytes32(m) = Bytes32(n) <=> m = n
           /\ AddressWord(m) = AddressWord(n) <=> m = n
           /\ Word(m) = Word(n) <=> m = n
<1>1. Bytes32(m)[1] = m /\ Bytes32(n)[1] = n
  BY Bytes32Is
<1>2. AddressWord(m)[32] = m /\ AddressWord(n)[32] = n
  BY AddressWordIs
<1>3. Number(Word(m)) = m /\ Number(Word(n)) = n
  BY WordIs
<1>4. QED BY <1>1, <1>2, <1>3

LEMMA SelectsIs ==
    ASSUME NEW f \in Filters, NEW e \in Logged, NEW version \in {"current", "legacy"},
           NEW topics, topics = EmittedLog(e, version).topics
    PROVE  Selected(Topics(f), topics) <=>
             /\ f.docChainId \in {None, e.docChainId}
             /\ f.attester \in {None, e.attester}
             /\ f.docRef \in {None, e.docRef}
<1> DEFINE t1 == {Topic0("current"), Topic0("legacy")}
           t2 == IF f.docChainId = None THEN None ELSE {Bytes32(f.docChainId)}
           t3 == IF f.attester = None THEN None ELSE {AddressWord(f.attester)}
           t4 == IF f.docRef = None THEN None ELSE {Word(f.docRef)}
<1>1. /\ f.docChainId \in Byte \cup {None} /\ f.attester \in Byte \cup {None}
      /\ f.docRef \in Numbers \cup {None}
  BY WireAssumption
<1>2. /\ DOMAIN topics = 1 .. 4
      /\ topics[1] \in t1 /\ topics[2] = Bytes32(e.docChainId)
      /\ topics[3] = AddressWord(e.attester) /\ topics[4] = Word(e.docRef)
  BY TopicsAre
<1>3. Topics(f) = <<t1, t2, t3, t4>>
  BY DEF Topics, TopicsWith
<1>4. /\ e.docChainId \in Nat /\ e.attester \in Nat /\ e.docRef \in Nat
  BY LoggedIs
<1>5. (t2 # None => topics[2] \in t2) <=> f.docChainId \in {None, e.docChainId}
  <2>1. CASE f.docChainId = None
    BY <2>1
  <2>2. CASE f.docChainId # None
    <3>1. f.docChainId \in Byte /\ f.docChainId \in Nat
      BY <1>1, <2>2, BytesAreNumbers
    <3>2. t2 = {Bytes32(f.docChainId)} /\ t2 # None
      BY <2>2, <3>1, NoneIsNoTopic
    <3>3. QED BY <1>2, <1>4, <2>2, <3>1, <3>2, TopicsTell
  <2>3. QED BY <2>1, <2>2
<1>6. (t3 # None => topics[3] \in t3) <=> f.attester \in {None, e.attester}
  <2>1. CASE f.attester = None
    BY <2>1
  <2>2. CASE f.attester # None
    <3>1. f.attester \in Byte /\ f.attester \in Nat
      BY <1>1, <2>2, BytesAreNumbers
    <3>2. t3 = {AddressWord(f.attester)} /\ t3 # None
      BY <2>2, <3>1, NoneIsNoTopic
    <3>3. QED BY <1>2, <1>4, <2>2, <3>1, <3>2, TopicsTell
  <2>3. QED BY <2>1, <2>2
<1>7. (t4 # None => topics[4] \in t4) <=> f.docRef \in {None, e.docRef}
  <2>1. CASE f.docRef = None
    BY <2>1
  <2>2. CASE f.docRef # None
    <3>1. f.docRef \in Numbers /\ f.docRef \in Nat
      BY <1>1, <2>2, BytesAreNumbers
    <3>2. t4 = {Word(f.docRef)} /\ t4 # None
      BY <2>2, <3>1, NoneIsNoTopic
    <3>3. QED BY <1>2, <1>4, <2>2, <3>1, <3>2, TopicsTell
  <2>3. QED BY <2>1, <2>2
<1> HIDE DEF t1, t2, t3, t4
<1>8. Selected(Topics(f), topics) <=>
        /\ t1 # None => topics[1] \in t1
        /\ t2 # None => topics[2] \in t2
        /\ t3 # None => topics[3] \in t3
        /\ t4 # None => topics[4] \in t4
  <2>1. \A i : i \in 1 .. 4 <=> i \in {1, 2, 3, 4}
    OBVIOUS
  <2>2. /\ <<t1, t2, t3, t4>>[1] = t1 /\ <<t1, t2, t3, t4>>[2] = t2
        /\ <<t1, t2, t3, t4>>[3] = t3 /\ <<t1, t2, t3, t4>>[4] = t4
    OBVIOUS
  <2>3. QED BY <1>2, <1>3, <2>1, <2>2 DEF Selected
<1>9. QED BY <1>2, <1>5, <1>6, <1>7, <1>8

-----------------------------------------------------------------------------
(* The inductive invariant: what is on the wire is the encoding of what    *)
(* was sent, or a part of the log, and what was read is read from it.      *)

CallOnWire ==
    \/ wire = AttestBatchCalldata(sent.items)
    \/ \E a \in Items : sent.items = <<a>> /\ wire = AttestDocCalldata(a)

LogOnWire(e, version) ==
    LET log == EmittedLog(e, version)
    IN  /\ version = "legacy" => e.onBehalfOf = 0
        /\ whole => wire = log
        /\ \E n \in 0 .. Len(log.data) : wire.data = SubSeq(log.data, 1, n)
        /\ \E n \in 1 .. 4 : wire.topics = SubSeq(log.topics, 1, n)

WireInv ==
    /\ whole \in BOOLEAN
    /\ wire = None => got = None
    /\ wire # None /\ whole => sent.items # << >> \/ sent.event # << >>
    /\ sent.items \in Seq(Items)
    /\ sent.items = << >> \/ sent.event = << >>
    /\ sent.items # << >> => CallOnWire /\ got \in {None, ReadCall(wire)}
    /\ sent.event # << >> =>
         /\ sent.event = <<sent.event[1]>> /\ sent.event[1] \in Logged
         /\ \E version \in Versions : LogOnWire(sent.event[1], version)
         /\ got \in {None, Decode(wire)}

LEMMA InitWire == Init => WireInv
BY DEF Init, WireInv

LEMMA PutCall ==
    ASSUME WireInv, NEW items \in Seq(Items), items # << >>, NEW message,
           \/ message = AttestBatchCalldata(items)
           \/ \E a \in Items : items = <<a>> /\ message = AttestDocCalldata(a),
           Put(items, << >>, message)
    PROVE  WireInv'
<1>1. /\ wire = None /\ got' = got /\ whole' = whole /\ wire' = message
      /\ sent'.items = items /\ sent'.event = << >>
  BY DEF Put
<1>2. got' = None
  BY <1>1 DEF WireInv
<1>3. CallOnWire'
  BY <1>1 DEF CallOnWire
<1>4. QED BY <1>1, <1>2, <1>3 DEF WireInv

LEMMA SubmitDocKeeps == WireInv /\ SubmitDoc => WireInv'
<1> SUFFICES ASSUME WireInv, NEW a \in Items, Put(<<a>>, << >>, AttestDocCalldata(a))
             PROVE  WireInv'
  BY DEF SubmitDoc
<1>1. <<a>> \in Seq(Items) /\ <<a>> # << >>
  OBVIOUS
<1>2. QED BY <1>1, PutCall

LEMMA SubmitBatchKeeps == WireInv /\ SubmitBatch => WireInv'
<1> SUFFICES ASSUME WireInv, NEW items \in BoundedSeq(Items, MaxItems), items # << >>,
                    Put(items, << >>, AttestBatchCalldata(items))
             PROVE  WireInv'
  BY DEF SubmitBatch
<1>1. items \in Seq(Items)
  BY DEF BoundedSeq, SeqOf
<1>2. QED BY <1>1, PutCall

LEMMA EmitKeeps == WireInv /\ Emit => WireInv'
<1> SUFFICES ASSUME WireInv, NEW d \in Events, NEW version \in Versions, NEW e,
                    e = IF version = "legacy" THEN [d EXCEPT !.onBehalfOf = 0] ELSE d,
                    Put(<< >>, <<e>>, EmittedLog(e, version))
             PROVE  WireInv'
  BY DEF Emit
<1> DEFINE log == EmittedLog(e, version)
<1>1. e \in Logged /\ (version = "legacy" => e.onBehalfOf = 0)
  <2>1. d \in Logged
    BY WireAssumption DEF Logged
  <2>2. 0 \in Byte
    BY DEF Byte
  <2>3. QED BY <2>1, <2>2 DEF Logged
<1>2. /\ wire = None /\ got' = got /\ whole' = whole /\ wire' = log
      /\ sent'.items = << >> /\ sent'.event = <<e>>
  BY DEF Put
<1>3. got' = None
  BY <1>2 DEF WireInv
<1>4. version \in {"current", "legacy"}
  BY WireAssumption
<1>5. /\ \E n \in 0 .. Len(log.data) : log.data = SubSeq(log.data, 1, n)
      /\ \E n \in 1 .. 4 : log.topics = SubSeq(log.topics, 1, n)
  <2>1. log.data = EmittedLog(e, version).data /\ log.topics = EmittedLog(e, version).topics
    OBVIOUS
  <2> HIDE DEF log
  <2>2. log.data \in Data
    BY <1>1, <1>4, <2>1, EmittedDataIs
  <2>3. log.topics \in Seq(Data) /\ Len(log.topics) = 4
    BY <1>1, <1>4, <2>1, TopicsAre
  <2>4. Len(log.data) \in 0 .. Len(log.data) /\ log.data = SubSeq(log.data, 1, Len(log.data))
    BY <2>2 DEF Data
  <2>5. 4 \in 1 .. 4 /\ log.topics = SubSeq(log.topics, 1, 4)
    BY <2>3
  <2>6. QED BY <2>4, <2>5
<1>6. LogOnWire(e, version)'
  BY <1>1, <1>2, <1>5 DEF LogOnWire
<1>7. sent'.event[1] = e /\ << >> \in Seq(Items)
  BY <1>2
<1>8. QED BY <1>1, <1>2, <1>3, <1>6, <1>7 DEF WireInv

LEMMA LoseKeeps == WireInv /\ Lose => WireInv'
<1> SUFFICES ASSUME WireInv, Lose PROVE WireInv'
  OBVIOUS
<1> DEFINE e == sent.event[1]
<1>1. /\ sent' = sent /\ got' = got /\ got = None /\ whole /\ whole' = FALSE
      /\ sent.event # << >>
  BY DEF Lose
<1>2. /\ sent.items \in Seq(Items) /\ sent.items = << >>
      /\ sent.event = <<e>> /\ e \in Logged
  BY <1>1 DEF WireInv
<1>3. PICK version \in Versions : LogOnWire(e, version)
  BY <1>1 DEF WireInv
<1> DEFINE log == EmittedLog(e, version)
<1>4. version \in {"current", "legacy"}
  BY WireAssumption
<1>5. /\ wire = log /\ (version = "legacy" => e.onBehalfOf = 0)
      /\ \E n \in 0 .. Len(log.data) : wire.data = SubSeq(log.data, 1, n)
      /\ \E n \in 1 .. 4 : wire.topics = SubSeq(log.topics, 1, n)
  BY <1>1, <1>3 DEF LogOnWire
<1>6. Len(log.data) \in Nat
  <2>1. log.data \in Data
    BY <1>2, <1>4, EmittedDataIs
  <2> HIDE DEF log
  <2>2. QED BY <2>1 DEF Data
<1>7. /\ \E n \in 0 .. Len(log.data) : wire'.data = SubSeq(log.data, 1, n)
      /\ \E n \in 1 .. 4 : wire'.topics = SubSeq(log.topics, 1, n)
  <2>1. DOMAIN wire = {"topics", "data"}
    BY <1>5 DEF EmittedLog
  <2> HIDE DEF log
  <2>2. CASE \E n \in 0 .. Len(wire.data) - 1 : wire' = [wire EXCEPT !.data = SubSeq(@, 1, n)]
    <3>1. PICK n \in 0 .. Len(wire.data) - 1 : wire' = [wire EXCEPT !.data = SubSeq(@, 1, n)]
      BY <2>2
    <3>2. wire'.data = SubSeq(log.data, 1, n) /\ wire'.topics = wire.topics
      BY <1>5, <2>1, <3>1
    <3>3. n \in 0 .. Len(log.data)
      BY <1>5, <1>6
    <3>4. QED BY <1>5, <3>2, <3>3
  <2>3. CASE \E n \in 1 .. 3 : wire' = [wire EXCEPT !.topics = SubSeq(@, 1, n)]
    <3>1. PICK n \in 1 .. 3 : wire' = [wire EXCEPT !.topics = SubSeq(@, 1, n)]
      BY <2>3
    <3>2. wire'.topics = SubSeq(log.topics, 1, n) /\ wire'.data = wire.data /\ n \in 1 .. 4
      BY <1>5, <2>1, <3>1
    <3>3. QED BY <1>5, <3>2
  <2>4. QED BY <2>2, <2>3 DEF Lose
<1>8. LogOnWire(e, version)'
  BY <1>1, <1>5, <1>7 DEF LogOnWire
<1>9. QED BY <1>1, <1>2, <1>8 DEF WireInv

LEMMA ReadCalldataKeeps == WireInv /\ ReadCalldata => WireInv'
<1> SUFFICES ASSUME WireInv, ReadCalldata PROVE WireInv'
  OBVIOUS
<1>1. /\ sent' = sent /\ wire' = wire /\ whole' = whole /\ got' = ReadCall(wire)
      /\ wire # None /\ sent.items # << >>
  BY DEF ReadCalldata
<1>2. CallOnWire' /\ sent.event = << >>
  BY <1>1 DEF CallOnWire, WireInv
<1>3. QED BY <1>1, <1>2 DEF WireInv

LEMMA ReadLogKeeps == WireInv /\ ReadLog => WireInv'
<1> SUFFICES ASSUME WireInv, ReadLog PROVE WireInv'
  OBVIOUS
<1>1. /\ sent' = sent /\ wire' = wire /\ whole' = whole /\ got' = Decode(wire)
      /\ wire # None /\ sent.event # << >>
  BY DEF ReadLog
<1>2. sent.items = << >> /\ \E version \in Versions : LogOnWire(sent.event[1], version)'
  BY <1>1 DEF LogOnWire, WireInv
<1>3. QED BY <1>1, <1>2 DEF WireInv

(* The stuttering step changes nothing the invariant speaks of.            *)
LEMMA StepKeeps == WireInv /\ [Next]_vars => WireInv'
<1>1. WireInv /\ Next => WireInv'
  BY SubmitDocKeeps, SubmitBatchKeeps, EmitKeeps, LoseKeeps, ReadCalldataKeeps, ReadLogKeeps
     DEF Next
<1>2. WireInv /\ UNCHANGED vars => WireInv'
  BY DEF vars, WireInv, CallOnWire, LogOnWire
<1>3. QED BY <1>1, <1>2

LEMMA InvariantHolds == Spec => []WireInv
BY InitWire, StepKeeps, PTL DEF Spec

(* What the invariant says of each direction.                              *)
LEMMA CallIsRead ==
    ASSUME WireInv, sent.items # << >>
    PROVE  ReadCall(wire) = <<sent.items>> /\ Whole(wire.data)
<1>1. sent.items \in Seq(Items) /\ CallOnWire
  BY DEF WireInv
<1>2. QED BY <1>1, DocCall, BatchCall DEF CallOnWire

LEMMA LogIsRead ==
    ASSUME WireInv, sent.event # << >>
    PROVE  \E e \in Logged, version \in {"current", "legacy"} :
              /\ sent.event = <<e>> /\ sent.event[1] = e
              /\ whole => wire = EmittedLog(e, version)
              /\ Decode(wire) \in {<< >>, <<e>>}
              /\ whole /\ IsUtf8(e.uri) => Decode(wire) # << >>
<1> DEFINE e == sent.event[1]
<1>1. sent.event = <<e>> /\ e \in Logged
  BY DEF WireInv
<1>2. PICK version \in Versions : LogOnWire(e, version)
  BY DEF WireInv
<1> DEFINE log == EmittedLog(e, version)
<1>3. version \in {"current", "legacy"}
  BY WireAssumption
<1>4. /\ version = "legacy" => e.onBehalfOf = 0
      /\ whole => wire = log
      /\ \E n \in 0 .. Len(log.data) : wire.data = SubSeq(log.data, 1, n)
      /\ \E n \in 1 .. 4 : wire.topics = SubSeq(log.topics, 1, n)
  BY <1>2 DEF LogOnWire
<1> HIDE DEF e
<1>5. log.data \in Data /\ log.topics \in Seq(Data) /\ Len(log.topics) = 4
  <2>1. e \in Logged /\ log.data = EmittedLog(e, version).data
        /\ log.topics = EmittedLog(e, version).topics
    BY <1>1
  <2> HIDE DEF log
  <2>2. log.data \in Data
    BY <1>3, <2>1, EmittedDataIs
  <2>3. log.topics \in Seq(Data) /\ Len(log.topics) = 4
    BY <1>3, <2>1, TopicsAre
  <2>4. QED BY <2>2, <2>3
<1> HIDE DEF log
<1>6. StartOf(wire.data, log.data)
  <2>1. PICK n \in 0 .. Len(log.data) : wire.data = SubSeq(log.data, 1, n)
    BY <1>4
  <2>2. Len(log.data) \in Nat /\ SubSeq(log.data, 1, Len(log.data)) = log.data
    BY <1>5 DEF Data
  <2>3. n = Len(log.data) \/ n \in 0 .. Len(log.data) - 1
    BY <2>2
  <2>4. QED BY <1>5, <2>1, <2>2, <2>3, AllIsStart, CutIsStart
<1>7. Len(wire.topics) = 4 => wire.topics = log.topics
  <2>1. PICK n \in 1 .. 4 : wire.topics = SubSeq(log.topics, 1, n)
    BY <1>4
  <2>2. Len(wire.topics) = n /\ SubSeq(log.topics, 1, 4) = log.topics
    BY <1>5, <2>1
  <2>3. QED BY <2>1, <2>2
<1>8. Decode(wire) \in {<< >>, <<e>>} /\ (wire = log /\ IsUtf8(e.uri) => Decode(wire) # << >>)
  BY <1>1, <1>3, <1>4, <1>6, <1>7, DecodeIs DEF log
<1>9. sent.event[1] = e
  BY <1>1
<1>10. QED BY <1>1, <1>3, <1>4, <1>8, <1>9 DEF log

-----------------------------------------------------------------------------
(* The theorems.                                                           *)

(* Calldata and logs are built of whole words whatever the lengths of uris,*)
(* signatures and batches (_encode_bytes pads, and every head is a number  *)
(* of words), and an exchange carries items or an event, never both.       *)
THEOREM TypeCorrect == Spec => []TypeOK
<1>1. WireInv => TypeOK
  <2> SUFFICES ASSUME WireInv PROVE TypeOK
    OBVIOUS
  <2>1. whole \in BOOLEAN /\ sent.items \in Seq(Items) /\ (sent.items = << >> \/ sent.event = << >>)
    BY DEF WireInv
  <2>2. Len(sent.event) <= 1
    <3>1. CASE sent.event = << >>
      BY <3>1
    <3>2. CASE sent.event # << >>
      <4>1. PICK e \in Logged : sent.event = <<e>>
        BY <3>2, LogIsRead
      <4>2. QED BY <4>1
    <3>3. QED BY <3>1, <3>2
  <2>3. ASSUME wire # None, whole PROVE Len(wire.data) % 32 = 0
    <3>1. CASE sent.items # << >>
      BY <3>1, CallIsRead DEF Whole
    <3>2. CASE sent.event # << >>
      <4>1. PICK e \in Logged, version \in {"current", "legacy"} : wire = EmittedLog(e, version)
        BY <2>3, <3>2, LogIsRead
      <4>2. Whole(wire.data)
        BY <4>1, EmittedDataIs
      <4>3. QED BY <4>2 DEF Whole
    <3>3. QED BY <2>3, <3>1, <3>2 DEF WireInv
  <2>4. QED BY <2>1, <2>2, <2>3 DEF TypeOK
<1>2. QED BY <1>1, InvariantHolds, PTL

(* The contract reads from the calldata of _encode_attest_doc and          *)
(* _encode_attest_batch the very items they were given, in their order:    *)
(* no offset of either array, of a uri or of a signature points elsewhere. *)
THEOREM CallArrives == Spec => []CallCarriesItems
<1>1. WireInv => CallCarriesItems
  BY CallIsRead DEF WireInv, CallCarriesItems
<1>2. QED BY <1>1, InvariantHolds, PTL

(* decode_doc_attested_log returns the event a log was emitted for or      *)
(* raises, for both shapes and wherever the log was cut off; it returns it *)
(* for a whole log whose string is text.                                   *)
THEOREM LogIsDecoded == Spec => []DecodesOrRejects
<1>1. WireInv => DecodesOrRejects
  <2> SUFFICES ASSUME WireInv, sent.event # << >>, got # None
               PROVE  /\ got \in {<< >>, sent.event}
                      /\ whole /\ IsUtf8(sent.event[1].uri) => got # << >>
    BY DEF DecodesOrRejects
  <2>1. got = Decode(wire)
    BY DEF WireInv
  <2>2. QED BY <2>1, LogIsRead
<1>2. QED BY <1>1, InvariantHolds, PTL

(* The topics doc_attested_topics asks for select a log exactly when the   *)
(* event has every field that the filter sets, whichever shape it has.     *)
THEOREM FilterIsExact == Spec => []FiltersSelect
<1>1. WireInv => FiltersSelect
  <2> SUFFICES ASSUME WireInv, sent.event # << >>, whole, NEW f \in Filters
               PROVE  Selected(Topics(f), wire.topics) <=>
                        LET e == sent.event[1]
                        IN  /\ f.docChainId \in {None, e.docChainId}
                            /\ f.attester \in {None, e.attester}
                            /\ f.docRef \in {None, e.docRef}
    BY DEF FiltersSelect
  <2>1. PICK e \in Logged, version \in {"current", "legacy"} :
          sent.event[1] = e /\ wire = EmittedLog(e, version)
    BY LogIsRead
  <2>2. QED BY <2>1, SelectsIs
<1>2. QED BY <1>1, InvariantHolds, PTL
=============================================================================
