--------------------------- MODULE RangeScanProofs ---------------------------
(***************************************************************************)
(* What RangeScan promises, proved for all block ranges, chunk sizes and   *)
(* providers.                                                              *)
(*                                                                         *)
(* A list of ranges that tiles a stretch of blocks still does when its     *)
(* first range is replaced by ranges that tile that one.  This is all that *)
(* a rejection does to `work', and a range that is yielded moves from the  *)
(* front of one tiling to the end of another.                              *)
(***************************************************************************)
EXTENDS RangeScan, SequenceTheorems, FiniteSetTheorems, TLAPS

-----------------------------------------------------------------------------
(* Tilings.                                                                *)

Spans == [from : Int, to : Int, depth : Int]

LEMMA TilesConcat ==
    ASSUME NEW s \in Seq(Spans), NEW t \in Seq(Spans),
           NEW a \in Int, NEW b \in Int, NEW c \in Int,
           Tiles(s, a, b), Tiles(t, b + 1, c)
    PROVE  Tiles(s \o t, a, c)
<1> DEFINE st == s \o t
<1>1. /\ st \in Seq(Spans) /\ Len(st) = Len(s) + Len(t)
      /\ \A i \in 1 .. Len(s) + Len(t) :
            st[i] = IF i <= Len(s) THEN s[i] ELSE t[i - Len(s)]
  BY ConcatProperties
<1>2. Len(s) \in Nat /\ Len(t) \in Nat
  OBVIOUS
<1>3. (s = << >> <=> Len(s) = 0) /\ (t = << >> <=> Len(t) = 0) /\ (st = << >> <=> Len(st) = 0)
  BY <1>1, EmptySeq
<1> HIDE DEF st
<1>4. b = IF Len(s) = 0 THEN a - 1 ELSE s[Len(s)].to
  BY <1>3 DEF Tiles
<1>5. c = IF Len(t) = 0 THEN b ELSE t[Len(t)].to
  BY <1>3 DEF Tiles
<1>6. ASSUME NEW i \in DOMAIN st
      PROVE  /\ st[i].from <= st[i].to
             /\ st[i].from = IF i = 1 THEN a ELSE st[i - 1].to + 1
  <2>1. i \in 1 .. Len(s) + Len(t)
    BY <1>1, <1>6
  <2>2. CASE i <= Len(s)
    <3>1. i \in DOMAIN s /\ st[i] = s[i] /\ (i # 1 => st[i - 1] = s[i - 1])
      BY <1>1, <1>2, <2>1, <2>2
    <3>2. QED BY <3>1 DEF Tiles
  <2>3. CASE i = Len(s) + 1
    <3>1. 1 \in DOMAIN t /\ st[i] = t[1] /\ (i # 1 => st[i - 1] = s[Len(s)])
      BY <1>1, <1>2, <2>1, <2>3
    <3>2. t[1].from <= t[1].to /\ t[1].from = b + 1
      BY <3>1 DEF Tiles
    <3>3. i = 1 <=> Len(s) = 0
      BY <1>2, <2>3
    <3>4. QED BY <1>4, <3>1, <3>2, <3>3
  <2>4. CASE i > Len(s) + 1
    <3> DEFINE j == i - Len(s)
    <3>1. j \in DOMAIN t /\ j # 1 /\ st[i] = t[j] /\ st[i - 1] = t[j - 1]
      BY <1>1, <1>2, <2>1, <2>4
    <3>2. QED BY <2>1, <2>4, <3>1, <1>2 DEF Tiles
  <2>5. QED BY <1>2, <2>1, <2>2, <2>3, <2>4
<1>7. c = IF st = << >> THEN a - 1 ELSE st[Len(st)].to
  <2>1. CASE Len(t) = 0
    BY <1>1, <1>2, <1>3, <1>4, <1>5, <2>1
  <2>2. CASE Len(t) # 0
    BY <1>1, <1>2, <1>3, <1>5, <2>2
  <2>3. QED BY <2>1, <2>2
<1>8. Tiles(st, a, c)
  BY <1>6, <1>7 DEF Tiles
<1>9. QED BY <1>8 DEF st

LEMMA TilesTail ==
    ASSUME NEW s \in Seq(Spans), s # << >>, NEW a \in Int, NEW c \in Int, Tiles(s, a, c)
    PROVE  /\ Head(s) \in Spans /\ Head(s).from = a /\ a <= Head(s).to
           /\ Tail(s) \in Seq(Spans) /\ Tiles(Tail(s), Head(s).to + 1, c)
<1> DEFINE t == Tail(s)
           b == Head(s).to + 1
<1>1. /\ Head(s) \in Spans /\ t \in Seq(Spans) /\ Len(t) = Len(s) - 1
      /\ \A i \in 1 .. Len(t) : t[i] = s[i + 1]
  BY HeadTailProperties
<1>2. Head(s) = s[1] /\ 1 \in DOMAIN s /\ Len(s) \in Nat \ {0}
  BY EmptySeq
<1>3. t = << >> <=> Len(t) = 0
  BY <1>1, EmptySeq
<1>4. Head(s).from = a /\ a <= Head(s).to
  BY <1>2 DEF Tiles
<1>5. b \in Int /\ b = s[1].to + 1 /\ s[1].to = b - 1
  BY <1>1, <1>2 DEF Spans
<1> HIDE DEF t, b
<1>6. ASSUME NEW i \in DOMAIN t
      PROVE  /\ t[i].from <= t[i].to
             /\ t[i].from = IF i = 1 THEN b ELSE t[i - 1].to + 1
  <2>1. i \in 1 .. Len(t) /\ i + 1 \in DOMAIN s /\ i + 1 # 1 /\ t[i] = s[i + 1]
    BY <1>1, <1>2, <1>6
  <2>2. i # 1 => t[i - 1] = s[i]
    BY <1>1, <2>1
  <2>3. s[i + 1].from <= s[i + 1].to /\ s[i + 1].from = s[i].to + 1
    BY <2>1 DEF Tiles
  <2>4. QED BY <1>5, <2>1, <2>2, <2>3
<1>7. c = s[Len(s)].to
  BY <1>2 DEF Tiles
<1>8. c = IF t = << >> THEN b - 1 ELSE t[Len(t)].to
  <2>1. CASE Len(t) = 0
    <3>1. Len(s) = 1
      BY <1>1, <1>2, <2>1
    <3>2. c = s[1].to
      BY <1>7, <3>1
    <3>3. c = b - 1
      BY <1>5, <3>2
    <3>4. QED BY <1>3, <2>1, <3>3
  <2>2. CASE Len(t) # 0
    <3>1. Len(t) \in 1 .. Len(t) /\ Len(t) + 1 = Len(s)
      BY <1>1, <1>2, <2>2
    <3>2. t[Len(t)] = s[Len(s)]
      BY <1>1, <3>1
    <3>3. QED BY <1>3, <1>7, <2>2, <3>2
  <2>3. QED BY <2>1, <2>2
<1>9. Tiles(t, b, c)
  BY <1>6, <1>8 DEF Tiles
<1>10. QED BY <1>1, <1>4, <1>9 DEF t, b

LEMMA TilesOne ==
    ASSUME NEW r \in Spans, r.from <= r.to
    PROVE  Tiles(<< r >>, r.from, r.to)
BY DEF Tiles, Spans

(* Ranges of a stretch of blocks, on one level, no longer than a bound.    *)
Within(pieces, from, to, depth, longest) ==
    /\ pieces \in Seq(Spans)
    /\ \A i \in DOMAIN pieces :
          /\ from <= pieces[i].from /\ pieces[i].to <= to
          /\ pieces[i].depth = depth
          /\ pieces[i].to < pieces[i].from + longest

-----------------------------------------------------------------------------
(* block_ranges.                                                           *)

(* What integer division is.                                               *)
LEMMA DivBounds ==
    ASSUME NEW n \in Int, NEW k \in Nat \ {0}
    PROVE  n \div k \in Int /\ (n \div k) * k <= n /\ n < (n \div k + 1) * k
OBVIOUS

LEMMA TimesMonotonic ==
    ASSUME NEW i \in Int, NEW j \in Int, i <= j, NEW k \in Nat
    PROVE  i * k <= j * k
OBVIOUS

(* A tiling of the blocks from a on, in pieces of a size and a shorter one *)
(* at the end.                                                             *)
LEMMA BlockRangesTile ==
    ASSUME NEW from \in Int, NEW to \in Int, from <= to, NEW size \in Nat \ {0},
           NEW depth \in Int
    PROVE  /\ Tiles(BlockRanges(from, to, size, depth), from, to)
           /\ Within(BlockRanges(from, to, size, depth), from, to, depth, size)
<1> DEFINE n == (to - from + size) \div size
           pieces == BlockRanges(from, to, size, depth)
           last(i) == IF from + i * size - 1 < to THEN from + i * size - 1 ELSE to
<1>1. n \in Int /\ n * size <= to - from + size /\ to - from + size < (n + 1) * size
  BY DivBounds
<1>2. (n + 1) * size = n * size + size
  BY <1>1
<1>3. to - from < n * size
  BY <1>1, <1>2
<1>4. n >= 1
  <2>1. n <= 0 => n * size <= 0
    BY <1>1, TimesMonotonic
  <2>2. QED BY <1>1, <1>3, <2>1
<1>5. (n - 1) * size = n * size - size
  BY <1>1
<1>6. (n - 1) * size <= to - from
  BY <1>1, <1>5
<1>7. pieces = [i \in 1 .. n |-> Piece(from + (i - 1) * size, last(i), depth)]
  BY DEF BlockRanges, PiecesUpTo
<1> HIDE DEF n, pieces
<1>8. ASSUME NEW i \in 1 .. n
      PROVE  /\ (i - 1) * size \in Int /\ i * size = (i - 1) * size + size
             /\ 0 <= (i - 1) * size /\ (i - 1) * size <= to - from
             /\ i # n => i * size <= to - from
  <2>1. (i - 1) * size \in Int /\ i * size = (i - 1) * size + size
    OBVIOUS
  <2>2. 0 * size <= (i - 1) * size /\ (i - 1) * size <= (n - 1) * size
    BY <1>1, TimesMonotonic
  <2>3. i # n => i * size <= (n - 1) * size
    BY <1>1, TimesMonotonic
  <2>4. QED BY <1>1, <1>6, <2>1, <2>2, <2>3
<1>9. last(n) = to
  <2>1. n * size \in Int
    BY <1>1
  <2>2. QED BY <1>3, <2>1
<1>10. ASSUME NEW i \in 1 .. n
       PROVE  /\ pieces[i].from = from + (i - 1) * size /\ pieces[i].to = last(i)
              /\ pieces[i].depth = depth /\ pieces[i] \in Spans
              /\ from <= pieces[i].from /\ pieces[i].to <= to
              /\ pieces[i].from <= pieces[i].to
              /\ pieces[i].to < pieces[i].from + size
  <2>1. pieces[i] = Piece(from + (i - 1) * size, last(i), depth)
    BY <1>7
  <2>2. from + (i - 1) * size \in Int /\ last(i) \in Int
        /\ from <= from + (i - 1) * size /\ last(i) <= to
        /\ from + (i - 1) * size <= last(i)
        /\ last(i) < from + (i - 1) * size + size
    BY <1>8
  <2> HIDE DEF last
  <2>3. QED BY <2>1, <2>2 DEF Piece, Spans
<1>11. ASSUME NEW i \in 1 .. n, i # 1
       PROVE  pieces[i].from = pieces[i - 1].to + 1
  <2>1. i - 1 \in 1 .. n /\ i - 1 # n
    BY <1>1, <1>11
  <2>2. (i - 1) * size <= to - from /\ (i - 1) * size \in Int
    BY <1>8, <2>1
  <2>3. last(i - 1) = from + (i - 1) * size - 1
    BY <2>2
  <2>4. QED BY <1>10, <2>1, <2>2, <2>3
<1>12. pieces \in Seq(Spans) /\ Len(pieces) = n /\ DOMAIN pieces = 1 .. n /\ pieces # << >>
  <2>1. pieces \in [1 .. n -> Spans]
    BY <1>7, <1>10
  <2>2. n \in Nat
    BY <1>1, <1>4
  <2>3. pieces \in Seq(Spans)
    BY <2>1, <2>2, SeqDef
  <2>4. DOMAIN pieces = 1 .. n
    BY <2>1
  <2>5. Len(pieces) = n
    BY <2>2, <2>3, <2>4, LenProperties
  <2>6. QED BY <1>4, <2>3, <2>4, <2>5, EmptySeq
<1>13. pieces[1].from = from
  BY <1>1, <1>4, <1>10
<1>14. pieces[Len(pieces)].to = to
  BY <1>1, <1>4, <1>9, <1>10, <1>12
<1>15. Tiles(pieces, from, to)
  BY <1>10, <1>11, <1>12, <1>13, <1>14 DEF Tiles
<1>16. Within(pieces, from, to, depth, size)
  BY <1>10, <1>12 DEF Within
<1>17. QED BY <1>15, <1>16 DEF pieces

(* No blocks, no ranges.                                                   *)
LEMMA NoBlockRanges ==
    ASSUME NEW from \in Int, NEW to \in Int, to < from, NEW size \in Nat \ {0}, NEW depth
    PROVE  BlockRanges(from, to, size, depth) = << >>
<1> DEFINE n == (to - from + size) \div size
<1>1. n \in Int /\ n * size <= to - from + size
  BY DivBounds
<1>2. n < 1
  <2>1. 1 <= n => 1 * size <= n * size
    BY <1>1, TimesMonotonic
  <2>2. QED BY <1>1, <2>1
<1>3. BlockRanges(from, to, size, depth) =
        [i \in 1 .. n |->
            Piece(from + (i - 1) * size,
                  IF from + i * size - 1 < to THEN from + i * size - 1 ELSE to, depth)]
  BY DEF BlockRanges, PiecesUpTo
<1> HIDE DEF n
<1>4. 1 .. n = {}
  BY <1>1, <1>2
<1>5. QED BY <1>3, <1>4

-----------------------------------------------------------------------------
(* The inductive invariant: what has been yielded tiles the blocks before  *)
(* the next one, what is left to do tiles the others, in ranges that are   *)
(* no longer than a chunk and not nested too deep.                         *)

Chunks == {r \in Ranges : r.from <= r.to /\ r.to < r.from + ChunkSize}

Covered ==
    FromBlock <= ToBlock + 1 =>
        Tiles(yielded, FromBlock, nextBlock - 1) /\ Tiles(work, nextBlock, ToBlock)

ScanInv ==
    /\ work \in Seq(Chunks) /\ yielded \in Seq(Chunks) /\ Covered
    /\ status \in {"scanning", "done", "raised"}
    /\ status = "done" => work = << >>
    /\ faults \in 0 .. MaxFaults
    /\ provider \in Providers

LEMMA ChunksAreSpans == Chunks \subseteq Spans /\ Seq(Chunks) \subseteq Seq(Spans)
<1>1. Chunks \subseteq Spans
  BY RangeAssumption DEF Chunks, Ranges, Spans
<1>2. QED BY <1>1, SeqMonotonic

LEMMA TilesOfChunks ==
    ASSUME NEW pieces, NEW from \in Int, NEW to \in Int, NEW depth \in 1 .. RecursionLimit,
           FromBlock <= from, to <= ToBlock,
           Tiles(pieces, from, to), Within(pieces, from, to, depth, ChunkSize)
    PROVE  pieces \in Seq(Chunks)
<1>1. FromBlock \in Int /\ ToBlock \in Int
  BY RangeAssumption
<1>2. Len(pieces) \in Nat /\ pieces \in [1 .. Len(pieces) -> Spans]
  BY LenProperties DEF Within
<1>3. ASSUME NEW i \in DOMAIN pieces PROVE pieces[i] \in Chunks
  <2>1. pieces[i] \in Spans /\ pieces[i].from <= pieces[i].to
    BY <1>2 DEF Tiles
  <2>2. /\ from <= pieces[i].from /\ pieces[i].to <= to /\ pieces[i].depth = depth
        /\ pieces[i].to < pieces[i].from + ChunkSize
    BY DEF Within
  <2>3. QED BY <1>1, <2>1, <2>2 DEF Spans, Chunks, Ranges
<1>4. pieces \in [1 .. Len(pieces) -> Chunks]
  BY <1>2, <1>3
<1>5. QED BY <1>2, <1>4, SeqDef

LEMMA NextBlockIsInt == ASSUME yielded \in Seq(Chunks) PROVE nextBlock \in Int
<1>1. CASE yielded = << >>
  BY <1>1, RangeAssumption DEF nextBlock
<1>2. CASE yielded # << >>
  <2>1. yielded[Len(yielded)] \in Spans
    BY <1>2, ChunksAreSpans, EmptySeq, ElementOfSeq
  <2>2. QED BY <1>2, <2>1 DEF nextBlock, Spans
<1>3. QED BY <1>1, <1>2

LEMMA ScanInvInit == Init => ScanInv
<1> SUFFICES ASSUME Init PROVE ScanInv
  OBVIOUS
<1>1. yielded = << >> /\ nextBlock = FromBlock /\ yielded \in Seq(Chunks)
  BY EmptySeq DEF Init, nextBlock
<1>2. FromBlock \in Int /\ ToBlock \in Int /\ ChunkSize \in Nat \ {0} /\ 1 \in 1 .. RecursionLimit
  BY RangeAssumption
<1>3. Tiles(yielded, FromBlock, FromBlock - 1)
  BY <1>1 DEF Tiles
<1>4. work \in Seq(Chunks) /\ (FromBlock <= ToBlock + 1 => Tiles(work, FromBlock, ToBlock))
  <2>1. CASE ToBlock < FromBlock
    <3>1. work = << >>
      BY <1>2, <2>1, NoBlockRanges DEF Init
    <3>2. FromBlock <= ToBlock + 1 => ToBlock = FromBlock - 1
      BY <1>2, <2>1
    <3>3. QED BY <3>1, <3>2, EmptySeq DEF Tiles
  <2>2. CASE FromBlock <= ToBlock
    <3>1. Tiles(work, FromBlock, ToBlock) /\ Within(work, FromBlock, ToBlock, 1, ChunkSize)
      BY <1>2, <2>2, BlockRangesTile DEF Init
    <3>2. QED BY <1>2, <3>1, TilesOfChunks
  <2>3. QED BY <1>2, <2>1, <2>2
<1>5. QED BY <1>1, <1>2, <1>3, <1>4, RangeAssumption DEF Init, ScanInv, Covered

(* The range to request begins with the next block.                        *)
LEMMA AtFront ==
    ASSUME ScanInv, Working
    PROVE  /\ range \in Chunks /\ range.from = nextBlock /\ nextBlock \in Int
           /\ FromBlock <= ToBlock + 1
           /\ Tiles(yielded, FromBlock, nextBlock - 1)
           /\ Tail(work) \in Seq(Chunks) /\ Tiles(Tail(work), range.to + 1, ToBlock)
<1>1. work \in Seq(Chunks) /\ work # << >> /\ nextBlock \in Int
  BY NextBlockIsInt DEF ScanInv, Working
<1>2. range \in Chunks /\ Tail(work) \in Seq(Chunks)
  BY <1>1, HeadTailProperties DEF range
<1>3. FromBlock <= ToBlock + 1
  BY <1>2, RangeAssumption DEF Chunks, Ranges
<1>4. Tiles(yielded, FromBlock, nextBlock - 1) /\ Tiles(work, nextBlock, ToBlock)
  BY <1>3 DEF ScanInv, Covered
<1>5. range.from = nextBlock /\ Tiles(Tail(work), range.to + 1, ToBlock)
  <2>1. work \in Seq(Spans) /\ ToBlock \in Int
    BY <1>1, ChunksAreSpans, RangeAssumption
  <2>2. QED BY <1>1, <1>4, <2>1, TilesTail DEF range
<1>6. QED BY <1>1, <1>2, <1>3, <1>4, <1>5

LEMMA YieldRangeKeeps == ASSUME ScanInv, YieldRange PROVE ScanInv' /\ nextBlock' = range.to + 1
<1>1. /\ range \in Chunks /\ range.from = nextBlock /\ nextBlock \in Int
      /\ Tiles(yielded, FromBlock, nextBlock - 1)
      /\ Tail(work) \in Seq(Chunks) /\ Tiles(Tail(work), range.to + 1, ToBlock)
  BY AtFront DEF YieldRange
<1>2. /\ yielded' = yielded \o << range >> /\ yielded' = Append(yielded, range)
      /\ yielded \in Seq(Chunks) /\ work' = Tail(work)
  BY <1>1, AppendIsConcat DEF YieldRange, ScanInv
<1>3. range \in Spans /\ range.from <= range.to
  BY <1>1, ChunksAreSpans DEF Chunks
<1>4. Tiles(yielded', FromBlock, range.to)
  <2>1. << range >> \in Seq(Spans) /\ yielded \in Seq(Spans)
    BY <1>2, <1>3, ChunksAreSpans
  <2>2. Tiles(<< range >>, range.from, range.to)
    BY <1>3, TilesOne
  <2>3. range.to \in Int /\ nextBlock - 1 \in Int /\ nextBlock - 1 + 1 = range.from
    BY <1>1, <1>3 DEF Spans
  <2>4. FromBlock \in Int
    BY RangeAssumption
  <2> DEFINE b == nextBlock - 1
  <2>5. b \in Int /\ b + 1 = range.from /\ Tiles(yielded, FromBlock, b)
    BY <1>1, <2>3
  <2> HIDE DEF b
  <2>6. Tiles(yielded \o << range >>, FromBlock, range.to)
    BY <2>1, <2>2, <2>3, <2>4, <2>5, TilesConcat
  <2>7. QED BY <1>2, <2>6
<1>5. nextBlock' = range.to + 1
  <2>1. yielded' # << >> /\ yielded'[Len(yielded')] = range
    BY <1>1, <1>2, AppendProperties
  <2>2. QED BY <2>1 DEF nextBlock
<1>6. nextBlock' - 1 = range.to
  BY <1>3, <1>5 DEF Spans
<1>7. Covered'
  <2>1. Tiles(yielded', FromBlock, nextBlock' - 1)
    BY <1>4, <1>6
  <2>2. Tiles(work', nextBlock', ToBlock)
    BY <1>1, <1>2, <1>5
  <2>3. QED BY <2>1, <2>2 DEF Covered
<1>8. yielded' \in Seq(Chunks)
  BY <1>1, <1>2, AppendProperties
<1>9. QED BY <1>1, <1>2, <1>5, <1>7, <1>8 DEF ScanInv, YieldRange, Working

(* Ranges one level down may take the place of the range they tile.        *)
LEMMA SplitKeeps ==
    ASSUME ScanInv, Working, NEW pieces,
           Tiles(pieces, range.from, range.to),
           Within(pieces, range.from, range.to, range.depth + 1, ChunkSize),
           Split(pieces), faults' \in 0 .. MaxFaults, provider' = provider
    PROVE  ScanInv'
<1>1. /\ range \in Chunks /\ range.from = nextBlock /\ nextBlock \in Int
      /\ Tail(work) \in Seq(Chunks) /\ Tiles(Tail(work), range.to + 1, ToBlock)
  BY AtFront
<1>2. CASE range.depth = RecursionLimit
  BY <1>2 DEF Split, Raise, ScanInv, Covered, nextBlock
<1>3. CASE range.depth # RecursionLimit
  <2>1. work' = pieces \o Tail(work) /\ yielded' = yielded /\ status' = status
    BY <1>3 DEF Split
  <2>2. pieces \in Seq(Chunks)
    <3>1. /\ range.from \in Int /\ range.to \in Int
          /\ FromBlock <= range.from /\ range.to <= ToBlock
          /\ range.depth \in 1 .. RecursionLimit
      BY <1>1, RangeAssumption DEF Chunks, Ranges
    <3>2. range.depth + 1 \in 1 .. RecursionLimit
      BY <1>3, <3>1, RangeAssumption
    <3>3. QED BY <3>1, <3>2, TilesOfChunks
  <2>3. work' \in Seq(Chunks)
    BY <1>1, <2>1, <2>2, ConcatProperties
  <2>4. Tiles(work', nextBlock, ToBlock)
    <3>1. pieces \in Seq(Spans) /\ Tail(work) \in Seq(Spans)
      BY <1>1, <2>2, ChunksAreSpans
    <3>2. range.to \in Int /\ ToBlock \in Int
      BY <1>1, ChunksAreSpans, RangeAssumption DEF Spans
    <3>3. QED BY <1>1, <2>1, <3>1, <3>2, TilesConcat
  <2>5. Covered'
    BY <2>1, <2>4 DEF Covered, ScanInv, nextBlock
  <2>6. status # "done"
    BY DEF Working
  <2>7. QED BY <2>1, <2>3, <2>5, <2>6 DEF ScanInv
<1>4. QED BY <1>2, <1>3

LEMMA RaiseKeeps ==
    ASSUME ScanInv, Raise, faults' \in 0 .. MaxFaults, provider' = provider
    PROVE  ScanInv'
BY DEF Raise, ScanInv, Covered, nextBlock

(* The two halves of a range.                                              *)
LEMMA HalvesTile ==
    ASSUME range \in Chunks, ~Single
    PROVE  /\ Tiles(Halves(1), range.from, range.to)
           /\ Within(Halves(1), range.from, range.to, range.depth + 1, ChunkSize)
           /\ \A i \in DOMAIN Halves(1) :
                 Halves(1)[i].to - Halves(1)[i].from <= (range.to - range.from) \div 2
<1> DEFINE mid == (range.from + range.to) \div 2
           first == Piece(range.from, mid, range.depth + 1)
           second == Piece(mid + 1, range.to, range.depth + 1)
<1>1. /\ range.from \in Int /\ range.to \in Int /\ range.depth \in Int
      /\ range.to < range.from + ChunkSize /\ range.from < range.to
  BY RangeAssumption DEF Chunks, Ranges, Single
<1>2. mid \in Int /\ range.from <= mid /\ mid < range.to
  BY <1>1
<1>3. /\ mid - range.from <= (range.to - range.from) \div 2
      /\ range.to - (mid + 1) <= (range.to - range.from) \div 2
  BY <1>1
<1>4. Halves(1) = << first, second >>
  BY DEF Halves
<1> HIDE DEF mid
<1>5. /\ first.from = range.from /\ first.to = mid /\ first.depth = range.depth + 1
      /\ second.from = mid + 1 /\ second.to = range.to /\ second.depth = range.depth + 1
      /\ first \in Spans /\ second \in Spans
  BY <1>1, <1>2 DEF Piece, Spans
<1> HIDE DEF first, second
<1>6. Tiles(<< first, second >>, range.from, range.to)
  BY <1>1, <1>2, <1>5 DEF Tiles
<1>7. ChunkSize \in Int
  BY RangeAssumption
<1>8. Within(<< first, second >>, range.from, range.to, range.depth + 1, ChunkSize)
  BY <1>1, <1>2, <1>5, <1>7 DEF Within
<1>9. \A i \in DOMAIN << first, second >> :
         << first, second >>[i].to - << first, second >>[i].from
            <= (range.to - range.from) \div 2
  BY <1>3, <1>5
<1>10. QED BY <1>4, <1>6, <1>8, <1>9

LEMMA BisectKeeps ==
    ASSUME ScanInv, Working, Bisect, faults' \in 0 .. MaxFaults, provider' = provider
    PROVE  ScanInv'
<1>1. CASE Single
  BY <1>1, RaiseKeeps DEF Bisect, BisectInto
<1>2. CASE ~Single
  <2>1. range \in Chunks
    BY AtFront
  <2>2. Split(Halves(1))
    BY <1>2 DEF Bisect, BisectInto
  <2>3. QED BY <1>2, <2>1, <2>2, HalvesTile, SplitKeeps
<1>3. QED BY <1>1, <1>2

(* A range that a limit rejects is longer than the limit of the provider,  *)
(* who names one.                                                          *)
LEMMA OnBlockRangeLimitKeeps == ASSUME ScanInv, OnBlockRangeLimit PROVE ScanInv'
<1>1. /\ Working /\ faults' = faults /\ provider' = provider /\ faults' \in 0 .. MaxFaults
      /\ range \in Chunks
  BY AtFront DEF OnBlockRangeLimit, ScanInv
<1>2. CASE Single
  BY <1>1, <1>2, RaiseKeeps DEF OnBlockRangeLimit
<1>3. CASE ~Single
  <2> DEFINE pieces == BlockRanges(range.from, range.to, provider.named, range.depth + 1)
  <2>1. /\ range.from \in Int /\ range.to \in Int /\ range.from <= range.to
        /\ range.depth + 1 \in Int /\ range.to < range.from + ChunkSize /\ ChunkSize \in Int
    BY <1>1, RangeAssumption DEF Chunks, Ranges
  <2>2. provider.named \in Nat \ {0}
    BY RangeAssumption DEF OnBlockRangeLimit, Answer, ScanInv
  <2>3. /\ Tiles(pieces, range.from, range.to)
        /\ Within(pieces, range.from, range.to, range.depth + 1, provider.named)
    BY <2>1, <2>2, BlockRangesTile
  <2>4. Split(pieces)
    BY <1>3 DEF OnBlockRangeLimit
  <2> HIDE DEF pieces
  <2>5. Within(pieces, range.from, range.to, range.depth + 1, ChunkSize)
    <3>1. ASSUME NEW i \in DOMAIN pieces PROVE pieces[i].to < pieces[i].from + ChunkSize
      <4>1. /\ range.from <= pieces[i].from /\ pieces[i].to <= range.to /\ pieces[i] \in Spans
        BY <2>3, LenProperties DEF Within
      <4>2. QED BY <2>1, <4>1 DEF Spans
    <3>2. QED BY <2>3, <3>1 DEF Within
  <2>6. QED BY <1>1, <2>3, <2>4, <2>5, SplitKeeps
<1>4. QED BY <1>2, <1>3

LEMMA ScanInvStep == ASSUME ScanInv, [Next]_vars PROVE ScanInv'
<1>1. CASE YieldRange
  BY <1>1, YieldRangeKeeps
<1>2. CASE OnBlockRangeLimit
  BY <1>2, OnBlockRangeLimitKeeps
<1>3. CASE OnRpcError
  BY <1>3, BisectKeeps DEF OnRpcError, ScanInv
<1>4. CASE Finish
  BY <1>4 DEF Finish, ScanInv, Covered, nextBlock
<1>5. faults < MaxFaults /\ faults' = faults + 1 /\ ScanInv => faults' \in 0 .. MaxFaults
  BY RangeAssumption DEF ScanInv
<1>6. CASE TransientError
  BY <1>5, <1>6, BisectKeeps DEF TransientError
<1>7. CASE UnsplitError
  BY <1>5, <1>7, RaiseKeeps DEF UnsplitError
<1>8. CASE UNCHANGED vars
  BY <1>8 DEF vars, ScanInv, Covered, nextBlock
<1>9. QED
  BY <1>1, <1>2, <1>3, <1>4, <1>6, <1>7, <1>8 DEF Next, Scan

LEMMA ScanInvAlways == Spec => []ScanInv
BY ScanInvInit, ScanInvStep, PTL DEF Spec

(* Every variable has its type: no range that is requested leaves the      *)
(* blocks asked for, and generators nest no deeper than they may.          *)
THEOREM TypeCorrect == Spec => []TypeOK
<1>1. ScanInv => TypeOK
  <2>1. Seq(Chunks) \subseteq Seq(Ranges)
    <3>1. Chunks \subseteq Ranges
      BY DEF Chunks
    <3>2. QED BY <3>1, SeqMonotonic
  <2>2. QED BY <2>1 DEF ScanInv, TypeOK
<1>2. QED BY <1>1, ScanInvAlways, PTL

(* However ranges are rejected and split, no block is lost, and none is    *)
(* yielded twice.                                                          *)
THEOREM NothingLost == Spec => []NoBlockLost
<1>1. ScanInv => NoBlockLost
  <2> SUFFICES ASSUME ScanInv, FromBlock <= ToBlock + 1
               PROVE  /\ Tiles(yielded \o work, FromBlock, ToBlock)
                      /\ status = "done" => Tiles(yielded, FromBlock, ToBlock)
    BY DEF NoBlockLost
  <2> DEFINE b == nextBlock - 1
  <2>1. /\ yielded \in Seq(Spans) /\ work \in Seq(Spans) /\ b \in Int /\ nextBlock = b + 1
        /\ FromBlock \in Int /\ ToBlock \in Int
    BY ChunksAreSpans, NextBlockIsInt, RangeAssumption DEF ScanInv
  <2>2. Tiles(yielded, FromBlock, b) /\ Tiles(work, nextBlock, ToBlock)
    BY DEF ScanInv, Covered
  <2> HIDE DEF b
  <2>3. Tiles(work, b + 1, ToBlock)
    BY <2>1, <2>2
  <2>4. Tiles(yielded \o work, FromBlock, ToBlock)
    BY <2>1, <2>2, <2>3, TilesConcat
  <2>5. ASSUME status = "done" PROVE Tiles(yielded, FromBlock, ToBlock)
    <3>1. work = << >>
      BY <2>5 DEF ScanInv
    <3>2. ToBlock = b
      BY <2>1, <2>3, <3>1 DEF Tiles
    <3>3. QED BY <2>2, <3>2
  <2>6. QED BY <2>4, <2>5
<1>2. QED BY <1>1, ScanInvAlways, PTL

-----------------------------------------------------------------------------
(* The refinement: a range that is yielded is a piece of the abstract      *)
(* scan; nothing else shows.                                               *)

LEMMA ConsumerStep == ASSUME ScanInv, [Next]_vars PROVE [Consumer!Next]_nextBlock
<1>1. CASE YieldRange
  <2>1. range \in Chunks /\ range.from = nextBlock /\ nextBlock \in Int
    BY <1>1, AtFront DEF YieldRange
  <2>2. nextBlock' = range.to + 1
    BY <1>1, YieldRangeKeeps
  <2>3. range.to \in nextBlock .. ToBlock /\ range.to < nextBlock + ChunkSize
    BY <2>1, RangeAssumption DEF Chunks, Ranges
  <2>4. QED BY <2>2, <2>3 DEF Consumer!Next, Consumer!Yield
<1>2. ASSUME yielded' = yielded PROVE UNCHANGED nextBlock
  BY <1>2 DEF nextBlock
<1>3. CASE ~YieldRange
  <2>1. yielded' = yielded
    BY <1>3 DEF Next, Scan, OnBlockRangeLimit, OnRpcError, Bisect, BisectInto, Split, Raise,
                Finish, TransientError, UnsplitError, vars
  <2>2. QED BY <1>2, <2>1
<1>4. QED BY <1>1, <1>3

(* A consumer sees the pieces of a contiguous scan in ascending order,     *)
(* none longer than a chunk, whatever the provider makes of the requests.  *)
THEOREM ScanIsContiguous == Spec => ImplementsContiguousScan
<1>1. Init => Consumer!Init
  BY DEF Init, Consumer!Init, nextBlock
<1>2. ScanInv /\ [Next]_vars => [Consumer!Next]_nextBlock
  BY ConsumerStep
<1>3. QED
  BY <1>1, <1>2, ScanInvAlways, PTL DEF Spec, ImplementsContiguousScan, Consumer!Spec

-----------------------------------------------------------------------------
(* Splitting is enough.  The length of a range is halved on every level    *)
(* but one, that of a split by a limit the provider names, so RecursionError *)
(* is out of the question when there is one level more than it takes to    *)
(* halve a chunk down to a block.                                          *)

(* room[d]: the longest distance, from the first block to the last, of a   *)
(* range that has been halved d - 1 times.                                 *)
HalvesInTime(room) ==
    /\ RecursionLimit > 1
    /\ room \in [1 .. RecursionLimit -> Nat]
    /\ room[1] = ChunkSize - 1
    /\ \A d \in 1 .. RecursionLimit - 1 : room[d + 1] = room[d] \div 2
    /\ room[RecursionLimit - 1] = 0

Bound(span, room, r) ==
    IF Size(r) <= span /\ r.depth > 1 THEN room[r.depth - 1] ELSE room[r.depth]

KeepsItsWord ==
    /\ provider.events > 0 /\ provider.span > 0
    /\ provider.named = NoLimit \/ provider.named <= provider.span

RoomLeft(room) ==
    faults = 0 /\ KeepsItsWord =>
        /\ status # "raised"
        /\ \A i \in DOMAIN work : work[i].to - work[i].from <= Bound(provider.span, room, work[i])

LEMMA RoomLeftInit ==
    ASSUME NEW room, HalvesInTime(room), Init, ScanInv
    PROVE  RoomLeft(room)
<1> SUFFICES ASSUME NEW i \in DOMAIN work
             PROVE  work[i].to - work[i].from <= Bound(provider.span, room, work[i])
  BY DEF Init, RoomLeft
<1>1. FromBlock \in Int /\ ToBlock \in Int /\ ChunkSize \in Nat \ {0}
  BY RangeAssumption
<1>2. CASE ToBlock < FromBlock
  <2>1. work = << >>
    BY <1>1, <1>2, NoBlockRanges DEF Init
  <2>2. QED BY <2>1
<1>3. CASE FromBlock <= ToBlock
  <2>1. Within(work, FromBlock, ToBlock, 1, ChunkSize)
    BY <1>1, <1>3, BlockRangesTile DEF Init
  <2>2. work[i].depth = 1 /\ work[i].to < work[i].from + ChunkSize /\ work[i] \in Spans
    BY <2>1, LenProperties DEF Within
  <2>3. work[i].to - work[i].from <= room[1]
    BY <1>1, <2>2 DEF Spans, HalvesInTime
  <2>4. Bound(provider.span, room, work[i]) = room[1]
    BY <2>2 DEF Bound
  <2>5. QED BY <2>3, <2>4
<1>4. QED BY <1>1, <1>2, <1>3

(* A block alone is served.                                                *)
LEMMA BlockIsServed ==
    ASSUME ScanInv, KeepsItsWord, range \in Chunks, Single
    PROVE  Answer(range) = "logs"
<1>1. range.from \in Int /\ range.to = range.from
  BY RangeAssumption DEF Chunks, Ranges, Single
<1>2. provider.span \in Nat /\ provider.events \in Nat
  BY RangeAssumption DEF ScanInv
<1>3. Size(range) <= provider.span
  BY <1>1, <1>2 DEF Size, KeepsItsWord
<1>4. Cardinality(provider.dense \cap (range.from .. range.to)) <= 1
  <2>1. provider.dense \cap (range.from .. range.to) \in SUBSET {range.from}
    BY <1>1
  <2>2. IsFiniteSet({range.from}) /\ Cardinality({range.from}) = 1
    BY FS_Singleton
  <2>3. QED BY <2>1, <2>2, FS_Subset
<1>5. Cardinality(provider.dense \cap (range.from .. range.to)) \in Nat
  <2>1. IsFiniteSet(range.from .. range.to)
    BY <1>1, FS_Interval
  <2>2. QED BY <2>1, FS_Subset, FS_CardinalityType
<1>6. ~(Size(range) > provider.span)
  BY <1>1, <1>2, <1>3 DEF Size
<1>7. ~(Cardinality(provider.dense \cap (range.from .. range.to)) > provider.events)
  BY <1>2, <1>4, <1>5 DEF KeepsItsWord
<1>8. QED BY <1>6, <1>7 DEF Answer

(* A rejected range has room for one more level; its pieces have room if   *)
(* they are halves, or if the limit was named and they keep to it.         *)
LEMMA SplitHasRoom ==
    ASSUME NEW room, HalvesInTime(room), ScanInv, RoomLeft(room), faults = 0, KeepsItsWord,
           Working, ~Single, NEW pieces, Split(pieces), provider' = provider,
           Within(pieces, range.from, range.to, range.depth + 1, ChunkSize),
           \A i \in DOMAIN pieces :
              \/ pieces[i].to - pieces[i].from <= (range.to - range.from) \div 2
              \/ Size(range) > provider.span /\ Size(pieces[i]) <= provider.span
    PROVE  /\ status' # "raised"
           /\ \A i \in DOMAIN work' : work'[i].to - work'[i].from <= Bound(provider.span, room, work'[i])
<1> DEFINE distance == range.to - range.from
           d == range.depth
<1>1. /\ range \in Chunks /\ range.from \in Int /\ range.to \in Int /\ d \in 1 .. RecursionLimit
      /\ distance \in Nat \ {0} /\ Size(range) = distance + 1
  <2>1. range \in Chunks
    BY AtFront
  <2>2. range.from \in Int /\ range.to \in Int /\ d \in 1 .. RecursionLimit
    BY <2>1, RangeAssumption DEF Chunks, Ranges
  <2>3. range.from < range.to
    BY <2>2 DEF Single
  <2>4. QED BY <2>1, <2>2, <2>3 DEF Size
<1>2. provider.span \in Nat /\ RecursionLimit \in Nat
  BY RangeAssumption DEF ScanInv
<1>3. /\ work \in Seq(Chunks) /\ work # << >> /\ range = work[1] /\ 1 \in DOMAIN work
      /\ status = "scanning"
  BY EmptySeq DEF ScanInv, Working, range
<1>4. distance <= Bound(provider.span, room, range)
  BY <1>3 DEF RoomLeft
<1>5. \A e \in 1 .. RecursionLimit : room[e] \in Nat
  BY DEF HalvesInTime
<1>6. \A e \in 1 .. RecursionLimit - 1 : room[e + 1] = room[e] \div 2 /\ e + 1 \in 1 .. RecursionLimit
  BY <1>2 DEF HalvesInTime
<1>7. d # RecursionLimit
  <2> SUFFICES ASSUME d = RecursionLimit PROVE FALSE
    OBVIOUS
  <2>1. RecursionLimit - 1 \in 1 .. RecursionLimit - 1 /\ room[RecursionLimit - 1] = 0
    BY <1>2 DEF HalvesInTime
  <2>2. room[RecursionLimit] = 0
    BY <1>2, <1>6, <2>1
  <2>3. Bound(provider.span, room, range) = 0
    BY <2>1, <2>2 DEF Bound
  <2>4. QED BY <1>1, <1>4, <2>3
<1>8. d \in 1 .. RecursionLimit - 1 /\ room[d + 1] = room[d] \div 2
  BY <1>1, <1>2, <1>6, <1>7
<1>9. /\ distance > provider.span - 1 => distance <= room[d]
      /\ distance \div 2 <= room[d]
  <2>1. CASE Size(range) <= provider.span /\ d > 1
    <3> DEFINE e == d - 1
    <3>1. e \in 1 .. RecursionLimit - 1 /\ e + 1 = d /\ distance <= room[e]
      BY <1>1, <1>2, <1>4, <2>1 DEF Bound
    <3> HIDE DEF e
    <3>2. room[d] = room[e] \div 2 /\ room[e] \in Nat
      BY <1>2, <1>5, <1>6, <3>1
    <3>3. QED BY <1>1, <1>2, <2>1, <3>1, <3>2
  <2>2. CASE ~(Size(range) <= provider.span /\ d > 1)
    <3>1. distance <= room[d] /\ room[d] \in Nat
      BY <1>1, <1>4, <1>5, <2>2 DEF Bound
    <3>2. QED BY <1>1, <3>1
  <2>3. QED BY <2>1, <2>2
<1>10. work' = pieces \o Tail(work) /\ status' = status
  BY <1>7 DEF Split
<1>11. ASSUME NEW i \in DOMAIN pieces
       PROVE  pieces[i].to - pieces[i].from <= Bound(provider.span, room, pieces[i])
  <2>1. /\ pieces[i] \in Spans /\ pieces[i].depth = d + 1
        /\ range.from <= pieces[i].from /\ pieces[i].to <= range.to
    BY LenProperties DEF Within
  <2> DEFINE length == pieces[i].to - pieces[i].from
  <2>2. length \in Int /\ Size(pieces[i]) = length + 1 /\ length <= distance
    BY <1>1, <2>1 DEF Spans, Size
  <2>3. Bound(provider.span, room, pieces[i]) = IF length + 1 <= provider.span THEN room[d] ELSE room[d + 1]
    <3>1. pieces[i].depth > 1 /\ pieces[i].depth - 1 = d
      BY <1>1, <2>1
    <3>2. QED BY <2>1, <2>2, <3>1 DEF Bound
  <2>4. \/ length <= distance \div 2
        \/ distance + 1 > provider.span /\ length + 1 <= provider.span
    BY <1>1, <2>2
  <2>5. room[d] \in Nat
    BY <1>2, <1>5, <1>8
  <2> HIDE DEF length, distance, d
  <2>6. CASE length + 1 <= provider.span
    <3>1. length <= room[d]
      BY <1>1, <1>2, <1>9, <2>2, <2>4, <2>5
    <3>2. QED BY <2>3, <2>6, <3>1 DEF length
  <2>7. CASE ~(length + 1 <= provider.span)
    <3>1. length <= distance \div 2 /\ distance <= room[d]
      BY <1>1, <1>2, <1>9, <2>2, <2>4, <2>7
    <3>2. length <= room[d + 1]
      BY <1>1, <1>8, <2>2, <2>5, <3>1
    <3>3. QED BY <2>3, <2>7, <3>2 DEF length
  <2>8. QED BY <2>6, <2>7
<1>12. ASSUME NEW i \in DOMAIN work'
       PROVE  work'[i].to - work'[i].from <= Bound(provider.span, room, work'[i])
  <2>1. pieces \in Seq(Spans) /\ Tail(work) \in Seq(Spans) /\ work \in Seq(Spans)
    BY <1>3, HeadTailProperties, ChunksAreSpans DEF Within
  <2>2. /\ i \in 1 .. Len(pieces) + Len(Tail(work))
        /\ work'[i] = IF i <= Len(pieces) THEN pieces[i] ELSE Tail(work)[i - Len(pieces)]
    BY <1>10, <2>1, ConcatProperties, LenProperties
  <2>3. Len(pieces) \in Nat /\ Len(Tail(work)) = Len(work) - 1
    BY <1>3, <2>1, HeadTailProperties
  <2>4. CASE i <= Len(pieces)
    <3>1. i \in DOMAIN pieces
      BY <2>1, <2>2, <2>4
    <3>2. QED BY <1>11, <2>2, <2>4, <3>1
  <2>5. CASE i > Len(pieces)
    <3> DEFINE j == i - Len(pieces)
    <3>1. j \in 1 .. Len(Tail(work)) /\ j + 1 \in DOMAIN work /\ work'[i] = Tail(work)[j]
      BY <2>1, <2>2, <2>3, <2>5
    <3>2. Tail(work)[j] = work[j + 1]
      BY <1>3, <2>1, <3>1, HeadTailProperties
    <3> HIDE DEF j
    <3>3. QED BY <3>1, <3>2 DEF RoomLeft
  <2>6. QED BY <2>2, <2>3, <2>4, <2>5
<1>13. QED BY <1>3, <1>10, <1>12

LEMMA RoomLeftStep ==
    ASSUME NEW room, HalvesInTime(room), ScanInv, RoomLeft(room), [Next]_vars
    PROVE  RoomLeft(room)'
<1> SUFFICES ASSUME faults' = 0, KeepsItsWord'
             PROVE  /\ status' # "raised"
                    /\ \A i \in DOMAIN work' : work'[i].to - work'[i].from
                                                  <= Bound(provider'.span, room, work'[i])
  BY DEF RoomLeft
<1>1. provider' = provider /\ faults = 0 /\ KeepsItsWord /\ faults' = faults
  BY DEF Next, Scan, YieldRange, OnBlockRangeLimit, OnRpcError, Finish, TransientError,
         UnsplitError, vars, ScanInv, KeepsItsWord
<1>2. /\ status # "raised" /\ work \in Seq(Spans)
      /\ \A i \in DOMAIN work : work[i].to - work[i].from <= Bound(provider.span, room, work[i])
  BY <1>1, ChunksAreSpans DEF RoomLeft, ScanInv
<1>3. CASE YieldRange
  <2>1. work # << >> /\ work' = Tail(work) /\ status' = status
    BY <1>3 DEF YieldRange, Working
  <2>2. ASSUME NEW i \in DOMAIN work'
        PROVE  work'[i] = work[i + 1] /\ i + 1 \in DOMAIN work
    BY <1>2, <2>1, HeadTailProperties
  <2>3. QED BY <1>1, <1>2, <2>1, <2>2
<1>4. CASE OnRpcError
  <2>1. Working /\ Bisect /\ range \in Chunks
    BY <1>4, AtFront DEF OnRpcError
  <2>2. ~Single
    BY <1>1, <1>4, <2>1, BlockIsServed DEF OnRpcError
  <2>3. Split(Halves(1))
    BY <2>1, <2>2 DEF Bisect, BisectInto
  <2>4. QED BY <1>1, <2>1, <2>2, <2>3, HalvesTile, SplitHasRoom
<1>5. CASE OnBlockRangeLimit
  <2> DEFINE pieces == BlockRanges(range.from, range.to, provider.named, range.depth + 1)
  <2>1. Working /\ range \in Chunks /\ Answer(range) = "BlockRangeLimitError"
    BY <1>5, AtFront DEF OnBlockRangeLimit
  <2>2. ~Single
    BY <1>1, <2>1, BlockIsServed
  <2>3. Size(range) > provider.span /\ provider.named # NoLimit
    BY <2>1 DEF Answer
  <2>4. /\ provider.span \in Nat /\ provider.named \in Nat \ {0}
        /\ provider.named <= provider.span
    BY <1>1, <2>3, RangeAssumption DEF ScanInv, KeepsItsWord
  <2>5. /\ range.from \in Int /\ range.to \in Int /\ range.from <= range.to
        /\ range.depth + 1 \in Int /\ range.to < range.from + ChunkSize /\ ChunkSize \in Int
    BY <2>1, RangeAssumption DEF Chunks, Ranges
  <2>6. Within(pieces, range.from, range.to, range.depth + 1, provider.named)
    BY <2>4, <2>5, BlockRangesTile
  <2>7. Split(pieces)
    BY <1>5, <2>2 DEF OnBlockRangeLimit
  <2> HIDE DEF pieces
  <2>8. ASSUME NEW i \in DOMAIN pieces
        PROVE  /\ pieces[i].to < pieces[i].from + ChunkSize
               /\ Size(pieces[i]) <= provider.span
    <3>1. /\ range.from <= pieces[i].from /\ pieces[i].to <= range.to /\ pieces[i] \in Spans
          /\ pieces[i].to < pieces[i].from + provider.named
      BY <2>6, LenProperties DEF Within
    <3>2. QED BY <2>4, <2>5, <3>1 DEF Spans, Size
  <2>9. Within(pieces, range.from, range.to, range.depth + 1, ChunkSize)
    BY <2>6, <2>8 DEF Within
  <2>10. QED BY <1>1, <2>1, <2>2, <2>3, <2>7, <2>8, <2>9, SplitHasRoom
<1>6. CASE Finish
  BY <1>1, <1>2, <1>6 DEF Finish
<1>7. CASE UNCHANGED vars
  BY <1>1, <1>2, <1>7 DEF vars
<1>8. ~TransientError /\ ~UnsplitError
  BY <1>1 DEF TransientError, UnsplitError
<1>9. QED
  BY <1>3, <1>4, <1>5, <1>6, <1>7, <1>8 DEF Next, Scan

(* A scan does not give up while the provider serves what it says and no   *)
(* call fails for another reason, if the interpreter lets generators nest  *)
(* one level deeper than it takes to halve a chunk down to a block.        *)
THEOREM SplittingIsEnough ==
    ASSUME NEW CONSTANT room, HalvesInTime(room)
    PROVE  Spec => []SplittingSucceeds
<1>1. Init => RoomLeft(room)
  BY RoomLeftInit, ScanInvInit
<1>2. ScanInv /\ RoomLeft(room) /\ [Next]_vars => RoomLeft(room)'
  BY RoomLeftStep
<1>3. RoomLeft(room) => SplittingSucceeds
  BY DEF RoomLeft, KeepsItsWord, SplittingSucceeds
<1>4. QED BY <1>1, <1>2, <1>3, ScanInvAlways, PTL DEF Spec
=============================================================================
