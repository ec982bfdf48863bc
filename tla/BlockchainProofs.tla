-------------------------- MODULE BlockchainProofs --------------------------
(* Lemmas about the chain that indexers read, for the proofs about them.   *)
EXTENDS Blockchain, SequenceTheorems, FiniteSetTheorems, TLAPS

LEMMA DepthIsNat == Depth \in Nat /\ MaxBlock \in Nat
BY ChainAssumption

LEMMA MinusMonotone == \A a, b, d \in Int : a <= b => a - d <= b - d
OBVIOUS

(* Whatever the chain does, it keeps its type, and its settled blocks.     *)
LEMMA ChainStep ==
    ASSUME ChainTypeOK, Mine \/ FallBack
    PROVE  /\ ChainTypeOK'
           /\ settled <= settled'
           /\ \A b \in 1 .. settled :
                 b \in DOMAIN chain /\ b \in DOMAIN chain' /\ chain'[b] = chain[b]
<1> USE DepthIsNat
<1>1. /\ chain \in Seq(SUBSET Keys) /\ head \in Nat /\ tip \in Nat /\ head = Len(chain)
      /\ DOMAIN chain = 1 .. head /\ tip <= MaxBlock
      /\ tip - Depth <= head /\ head <= tip
      /\ \A m, n \in DOMAIN chain : \A k \in chain[m], l \in chain[n] :
            EventOf[k] = EventOf[l] => m = n /\ k = l
  BY DEF ChainTypeOK, Blocks, head, settled
<1>2. CASE Mine
  <2>1. PICK keys \in SUBSET Keys :
           /\ OneKeyEach(keys) /\ EventsAt(keys) \cap EventsAt(UNION Range(chain)) = {}
           /\ chain' = Append(chain, keys)
    BY <1>2 DEF Mine
  <2>2. /\ chain' \in Seq(SUBSET Keys) /\ Len(chain') = head + 1
        /\ DOMAIN chain' = 1 .. head + 1
        /\ \A b \in 1 .. head : chain'[b] = chain[b]
        /\ chain'[head + 1] = keys
    BY <1>1, <2>1
  <2>3. /\ head < MaxBlock
        /\ tip' = IF head + 1 > tip THEN head + 1 ELSE tip
    BY <1>2 DEF Mine
  <2>4. ASSUME NEW b \in 1 .. head, NEW k \in keys, NEW l \in chain[b]
        PROVE  EventOf[k] # EventOf[l]
    <3>1. l \in UNION Range(chain)
      BY <1>1 DEF Range
    <3>2. EventOf[k] \in EventsAt(keys) /\ EventOf[l] \in EventsAt(UNION Range(chain))
      BY <3>1 DEF EventsAt
    <3>3. QED BY <2>1, <3>2
  <2>5. \A m, n \in DOMAIN chain' : \A k \in chain'[m], l \in chain'[n] :
           EventOf[k] = EventOf[l] => m = n /\ k = l
    <3>1. SUFFICES ASSUME NEW m \in 1 .. head + 1, NEW n \in 1 .. head + 1,
                          NEW k \in chain'[m], NEW l \in chain'[n],
                          EventOf[k] = EventOf[l]
                   PROVE  m = n /\ k = l
      BY <2>2
    <3>2. CASE m \in 1 .. head /\ n \in 1 .. head
      BY <1>1, <2>2, <3>1, <3>2
    <3>3. CASE m = head + 1 /\ n \in 1 .. head
      BY <2>2, <2>4, <3>1, <3>3
    <3>4. CASE n = head + 1 /\ m \in 1 .. head
      BY <2>2, <2>4, <3>1, <3>4
    <3>5. CASE m = head + 1 /\ n = head + 1
      BY <2>1, <2>2, <3>1, <3>5 DEF OneKeyEach
    <3>6. QED BY <3>2, <3>3, <3>4, <3>5, <1>1
  <2>6. /\ tip' \in 0 .. MaxBlock /\ tip <= tip' /\ tip' - Depth <= head + 1
        /\ head + 1 <= tip'
    BY <1>1, <2>3
  <2>7. ChainTypeOK'
    BY <2>2, <2>5, <2>6 DEF ChainTypeOK, Blocks, head, settled
  <2>8. settled <= settled'
    <3>1. tip \in Int /\ tip' \in Int /\ Depth \in Int /\ tip <= tip'
      BY <1>1, <2>6
    <3>2. tip - Depth <= tip' - Depth
      BY <3>1, MinusMonotone
    <3>3. QED BY <3>2 DEF settled
  <2>9. \A b \in 1 .. settled : b \in 1 .. head /\ b \in 1 .. head + 1
    BY <1>1 DEF settled
  <2>10. QED BY <1>1, <2>2, <2>7, <2>8, <2>9
<1>3. CASE FallBack
  <2>1. PICK h \in 0 .. head - 1 : h >= settled /\ chain' = SubSeq(chain, 1, h)
    BY <1>3 DEF FallBack
  <2>2. tip' = tip
    BY <1>3 DEF FallBack
  <2>3. /\ chain' \in Seq(SUBSET Keys) /\ Len(chain') = h
        /\ DOMAIN chain' = 1 .. h
        /\ \A b \in 1 .. h : chain'[b] = chain[b]
    <3>1. h \in Nat /\ h <= Len(chain)
      BY <1>1, <2>1
    <3>2. \A i \in 1 .. h : chain[i] \in SUBSET Keys
      BY <1>1, <3>1
    <3>3. /\ chain' \in Seq(SUBSET Keys)
          /\ Len(chain') = IF 1 <= h THEN h - 1 + 1 ELSE 0
          /\ \A i \in 1 .. h - 1 + 1 : chain'[i] = chain[1 + i - 1]
      BY <2>1, <3>1, <3>2, SubSeqProperties
    <3>4. QED BY <3>1, <3>3
  <2>4. \A m, n \in DOMAIN chain' : \A k \in chain'[m], l \in chain'[n] :
           EventOf[k] = EventOf[l] => m = n /\ k = l
    BY <1>1, <2>1, <2>3
  <2>5. ChainTypeOK'
    BY <1>1, <2>1, <2>2, <2>3, <2>4 DEF ChainTypeOK, Blocks, head, settled
  <2>6. QED BY <1>1, <2>1, <2>2, <2>3, <2>5 DEF settled
<1>4. QED BY <1>2, <1>3

(* There are finitely many logs in a range of blocks.                      *)
LEMMA LogsInFinite ==
    ASSUME NEW from \in Int, NEW to \in Int
    PROVE  IsFiniteSet(LogsIn(from, to))
<1> DEFINE S == Keys \X (from .. to)
           T == [key : Keys, block : from .. to]
           f == [p \in S |-> [key |-> p[1], block |-> p[2]]]
<1>1. IsFiniteSet(S)
  BY KeysAssumption, FS_Interval, FS_Product
<1>2. f \in Surjection(S, T)
  <2>1. f \in [S -> T]
    OBVIOUS
  <2>2. ASSUME NEW t \in T PROVE \E p \in S : f[p] = t
    <3>1. <<t.key, t.block>> \in S /\ f[<<t.key, t.block>>] = t
      OBVIOUS
    <3>2. QED BY <3>1
  <2> HIDE DEF S, T, f
  <2>3. QED BY <2>1, <2>2 DEF Surjection
<1> HIDE DEF S, f
<1>3. IsFiniteSet(T)
  BY <1>1, <1>2, FS_Surjection
<1>4. LogsIn(from, to) \in SUBSET T
  BY DEF LogsIn
<1>5. QED BY <1>3, <1>4, FS_Subset

(* The logs of a range are those of its two parts.                         *)
LEMMA LogsInSplit ==
    ASSUME NEW from \in Int, NEW mid \in Int, NEW to \in Int,
           from <= mid + 1, mid <= to
    PROVE  /\ LogsIn(from, to) = LogsIn(from, mid) \cup LogsIn(mid + 1, to)
           /\ LogsIn(from, mid) \cap LogsIn(mid + 1, to) = {}
           /\ Cardinality(LogsIn(from, to)) =
                  Cardinality(LogsIn(from, mid)) + Cardinality(LogsIn(mid + 1, to))
<1>1. LogsIn(from, to) = LogsIn(from, mid) \cup LogsIn(mid + 1, to)
  BY DEF LogsIn
<1>2. LogsIn(from, mid) \cap LogsIn(mid + 1, to) = {}
  BY DEF LogsIn
<1>3. /\ IsFiniteSet(LogsIn(from, mid)) /\ IsFiniteSet(LogsIn(mid + 1, to))
  BY LogsInFinite
<1> DEFINE A == LogsIn(from, mid)
           B == LogsIn(mid + 1, to)
<1> HIDE DEF A, B
<1>4. Cardinality(A) \in Nat /\ Cardinality(B) \in Nat
  BY <1>3, FS_CardinalityType DEF A, B
<1>5. Cardinality(A \cup B) = Cardinality(A) + Cardinality(B) - Cardinality(A \cap B)
  BY <1>3, FS_Union DEF A, B
<1>6. Cardinality(A \cap B) = 0
  BY <1>2, FS_EmptySet DEF A, B
<1>7. Cardinality(A \cup B) = Cardinality(A) + Cardinality(B)
  BY <1>4, <1>5, <1>6
<1>8. QED BY <1>1, <1>2, <1>7 DEF A, B

(* The logs of a range depend on its blocks alone.                         *)
LEMMA LogsInKept ==
    ASSUME chain \in Blocks, chain' \in Blocks, NEW from \in Int, NEW to \in Int,
           \A b \in 1 .. to : /\ b \in DOMAIN chain <=> b \in DOMAIN chain'
                             /\ chain'[b] = chain[b]
    PROVE  LogsIn(from, to)' = LogsIn(from, to)
<1>1. DOMAIN chain \subseteq Nat \ {0} /\ DOMAIN chain' \subseteq Nat \ {0}
  BY DEF Blocks
<1>2. \A b \in from .. to :
         /\ b \in DOMAIN chain <=> b \in DOMAIN chain'
         /\ b \in DOMAIN chain => chain'[b] = chain[b]
  BY <1>1
<1>3. \A log \in [key : Keys, block : from .. to] :
         log.block \in DOMAIN chain /\ log.key \in chain[log.block]
            <=> log.block \in DOMAIN chain' /\ log.key \in chain'[log.block]
  BY <1>2
<1>4. QED BY <1>3 DEF LogsIn
=============================================================================
