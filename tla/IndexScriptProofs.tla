------------------------- MODULE IndexScriptProofs -------------------------
(***************************************************************************)
(* Proofs about IndexScript, for every choice of its constants.            *)
(*                                                                         *)
(* TypeInv says of each place of the run how its variables lie, and        *)
(* DepthInv that the run and the checkpoint stay among the blocks that no  *)
(* fall-back reaches.  With these, each promise has an invariant of its    *)
(* own: CoverInv for the checkpoint, OnceInv for the lines, ShownInv for   *)
(* the events they show, TruthInv for the summaries.                       *)
(***************************************************************************)
EXTENDS IndexScript, BlockchainProofs

USE DEF jobVars, counts

Runs == [from : Nat, next : Nat, to : Nat, chunk_end : Nat, total : Nat, blocks : SUBSET Nat]

(* What a chunk writes: an event, or a block number.                       *)
Lines == Logs \cup Nat

(* The last block that the run has read.                                   *)
scanned == IF pc \in {"flush", "checkpoint"} THEN run.chunk_end ELSE run.next - 1

TypeInv ==
    /\ TypeOK
    /\ run \in Runs /\ buffer \in Seq(Lines)
    /\ pc # "idle" => run.from <= run.next
    /\ pc = "scan" => run.next <= run.to
    /\ pc \in {"flush", "checkpoint"} => run.next <= run.chunk_end
    /\ pc = "close" => run.next = run.to + 1
    /\ checkpoint # NoCheckpoint => job.checkpointing
    /\ (checkpoint # NoCheckpoint /\ pc \in {"scan", "flush"}) => checkpoint < run.next
    /\ ~job.to_file => since = job.from_block
    /\ job.checkpointing /\ pc # "flush" => buffer = << >>
    /\ job.format = "summary" => buffer = << >>

-----------------------------------------------------------------------------
(* The operators of the model.                                             *)

LEMMA Constants ==
    /\ FromBlocks \subseteq Nat /\ ToBlocks \subseteq Nat /\ Confirmations \in Nat
    /\ Depth \in Nat /\ ChunkSize \in Nat \ {0} /\ MaxFaults \in Nat
    /\ MaxFallBacks \in Nat /\ NoCheckpoint \notin Nat
BY ScriptAssumption, ChainAssumption

(* A listing of a finite set has all its elements, each once.              *)
LEMMA ListedOnce ==
    ASSUME NEW S, IsFiniteSet(S), NEW seq \in SetToSeqs(S)
    PROVE  seq \in Seq(S) /\ Range(seq) = S /\ IsInjective(seq)
<1> DEFINE n == Cardinality(S)
<1>1. n \in Nat
  BY FS_CardinalityType
<1>2. /\ seq \in [1 .. n -> S]
      /\ \A i, j \in 1 .. n : i # j => seq[i] # seq[j]
  BY DEF SetToSeqs
<1> HIDE DEF n
<1>3. seq \in Injection(1 .. n, S)
  BY <1>2 DEF Injection, IsInjective
<1>4. IsFiniteSet(1 .. n) /\ Cardinality(1 .. n) = n
  BY <1>1, FS_Interval
<1>5. seq \in Surjection(1 .. n, S)
  BY <1>3, <1>4, FS_Injection DEF n
<1>6. seq \in Seq(S)
  BY <1>1, <1>2, SeqDef
<1>7. Range(seq) = S
  BY <1>2, <1>5 DEF Surjection, Range
<1>8. QED BY <1>3, <1>6, <1>7 DEF Injection

LEMMA RangeConcat ==
    ASSUME NEW S, NEW s \in Seq(S), NEW t \in Seq(S)
    PROVE  Range(s \o t) = Range(s) \cup Range(t)
<1> DEFINE u == s \o t
<1>1. /\ DOMAIN s = 1 .. Len(s) /\ DOMAIN t = 1 .. Len(t)
      /\ DOMAIN u = 1 .. Len(s) + Len(t)
      /\ Len(s) \in Nat /\ Len(t) \in Nat
      /\ \A i \in 1 .. Len(s) : u[i] = s[i]
      /\ \A i \in 1 .. Len(s) + Len(t) : i > Len(s) => u[i] = t[i - Len(s)]
  OBVIOUS
<1> HIDE DEF u
<1>2. \A i \in DOMAIN u : \/ i \in DOMAIN s /\ u[i] = s[i]
                          \/ i - Len(s) \in DOMAIN t /\ u[i] = t[i - Len(s)]
  BY <1>1
<1>3. \A i \in DOMAIN s : i \in DOMAIN u /\ u[i] = s[i]
  BY <1>1
<1>4. \A i \in DOMAIN t : Len(s) + i \in DOMAIN u /\ u[Len(s) + i] = t[i]
  BY <1>1
<1>5. Range(u) \subseteq Range(s) \cup Range(t)
  BY <1>2 DEF Range
<1>6. Range(s) \subseteq Range(u) /\ Range(t) \subseteq Range(u)
  BY <1>3, <1>4 DEF Range
<1>7. QED BY <1>5, <1>6 DEF u

LEMMA EmptyListing == Range(<< >>) = {} /\ IsInjective(<< >>)
BY DEF Range, IsInjective

(* A run begins after the block of the checkpoint.                         *)
LEMMA FromBlockType ==
    ASSUME TypeInv
    PROVE  /\ FromBlock \in Nat /\ job.from_block <= FromBlock
           /\ checkpoint # NoCheckpoint => checkpoint < FromBlock
           /\ checkpoint = NoCheckpoint => FromBlock = job.from_block
           /\ \/ FromBlock = job.from_block
              \/ checkpoint # NoCheckpoint /\ FromBlock = checkpoint + 1
<1>1. job.from_block \in Nat /\ (checkpoint # NoCheckpoint => checkpoint \in Nat)
  BY Constants DEF TypeInv, TypeOK, Jobs
<1>2. CASE checkpoint = NoCheckpoint
  <2>1. FromBlock = job.from_block
    BY <1>2 DEF FromBlock, FromBlockAfter
  <2>2. QED BY <1>1, <1>2, <2>1
<1>3. CASE checkpoint # NoCheckpoint
  <2>1. FromBlock = Larger(job.from_block, checkpoint + 1)
    BY <1>3 DEF TypeInv, FromBlock, FromBlockAfter
  <2>2. QED BY <1>1, <1>3, <2>1 DEF Larger
<1>4. QED BY <1>2, <1>3

(* The blocks a run may read: those that have their confirmations.         *)
Limit == Larger(0, settled)

LEMMA LimitIsNat == ChainTypeOK => Limit \in Nat /\ settled \in Int /\ head \in Nat
BY Constants DEF ChainTypeOK, Blocks, head, settled, Limit, Larger

(* Every run is begun up to some block, and if all runs so far have        *)
(* stopped far enough below the head, up to one that stays.                *)
LEMMA BeginUpTo ==
    ASSUME TypeInv, BeginLatest \/ BeginGiven
    PROVE  \E to \in Nat : Begin(to) /\ (Confirmed' => to <= Limit)
<1>1. /\ head \in Nat /\ tip \in Nat /\ head <= tip /\ settled = tip - Depth
      /\ Confirmations \in Nat /\ Depth \in Nat
  BY Constants DEF TypeInv, TypeOK, ChainTypeOK, Blocks, head, settled
<1>2. Latest \in Nat /\ (Confirmations >= Depth => Latest <= Limit)
  BY <1>1 DEF Latest, Larger, Limit
<1>3. Limit \in Nat
  BY LimitIsNat DEF TypeInv, TypeOK
<1>4. PICK to \in Nat : Begin(to)
  BY <1>2, Constants DEF BeginLatest, BeginGiven
<1>5. Confirmed' => Confirmations >= Depth /\ ~(to > Latest)
  BY <1>4 DEF Begin, Confirmed
<1>6. Confirmed' => to <= Limit
  BY <1>2, <1>3, <1>5
<1>7. QED BY <1>4, <1>6

(* The lines of a chunk are finitely many events or block numbers, each    *)
(* written once.                                                           *)
LEMMA ChunkLines ==
    ASSUME TypeInv, NEW from \in Nat, NEW to \in Nat,
           NEW blocks, NEW lines \in InOrder(LinesOf(LogsIn(from, to), blocks))
    PROVE  /\ lines \in Seq(Lines) /\ IsInjective(lines)
           /\ Range(lines) = LinesOf(LogsIn(from, to), blocks)
<1> DEFINE S == LinesOf(LogsIn(from, to), blocks)
<1>1. S \subseteq Lines /\ IsFiniteSet(S)
  <2>1. LogsIn(from, to) \subseteq Logs
    BY DEF LogsIn, Logs, TypeInv, TypeOK, ChainTypeOK, Blocks
  <2>2. CASE job.format = "jsonl"
    BY <2>1, <2>2, LogsInFinite DEF LinesOf, Lines
  <2>3. CASE job.format = "blocks"
    <3>1. S \subseteq from .. to
      BY <2>3 DEF LinesOf, LogsIn
    <3>2. QED BY <3>1, FS_Interval, FS_Subset DEF Lines
  <2>4. CASE job.format \notin {"jsonl", "blocks"}
    BY <2>4, FS_EmptySet DEF LinesOf
  <2>5. QED BY <2>2, <2>3, <2>4
<1>2. lines \in SetToSeqs(S)
  BY DEF InOrder
<1> HIDE DEF S
<1>3. lines \in Seq(S) /\ Range(lines) = S /\ IsInjective(lines)
  BY <1>1, <1>2, ListedOnce
<1>4. QED BY <1>1, <1>3, SeqMonotonic DEF S

-----------------------------------------------------------------------------
(* Type correctness.                                                       *)

(* A run that was told to scan too far stays in the history.               *)
LEMMA ConfirmedBefore == [Next]_vars /\ Confirmed' => Confirmed
<1> SUFFICES ASSUME [Next]_vars, Confirmed' PROVE Confirmed
  OBVIOUS
<1>1. CASE BeginLatest \/ BeginGiven
  <2>1. PICK to : Begin(to)
    BY <1>1 DEF BeginLatest, BeginGiven
  <2>2. QED BY <2>1 DEF Begin, Confirmed
<1>2. CASE unconfirmed' = unconfirmed
  BY <1>2 DEF Confirmed
<1>3. QED
  BY <1>1, <1>2 DEF Next, Step, Chunk, ChunkWith, Flush, Checkpoint, Close, Fail, Kill, Stop,
                    Chain, vars

(* The arguments stay, and of the blocks that no fall-back reaches the     *)
(* chain always gives the same events.                                     *)
LEMMA WorldStep ==
    ASSUME TypeOK, [Next]_vars
    PROVE  /\ job' = job /\ ChainTypeOK' /\ Limit <= Limit'
           /\ \A from \in Int, to \in Int :
                 to <= Limit => LogsIn(from, to)' = LogsIn(from, to)
<1>1. job' = job
  BY DEF Next, BeginLatest, BeginGiven, Begin, Step, Chunk, ChunkWith, Flush, Checkpoint,
         Close, Fail, Kill, Stop, Chain, vars
<1>2. ChainTypeOK /\ settled \in Int
  BY LimitIsNat DEF TypeOK
<1>3. CASE Mine \/ FallBack
  <2>1. /\ ChainTypeOK' /\ settled <= settled'
        /\ \A b \in 1 .. settled :
              b \in DOMAIN chain /\ b \in DOMAIN chain' /\ chain'[b] = chain[b]
    BY <1>2, <1>3, ChainStep
  <2>2. settled' \in Int
    BY <2>1, Constants DEF ChainTypeOK, settled
  <2>3. Limit <= Limit' /\ \A to \in Int : to <= Limit => 1 .. to \subseteq 1 .. settled
    <3>1. \A m, n \in Int : m <= n => Larger(0, m) <= Larger(0, n)
      BY DEF Larger
    <3>2. \A m, to \in Int : to <= Larger(0, m) => 1 .. to \subseteq 1 .. m
      BY DEF Larger
    <3>3. settled \in Int /\ settled <= settled'
      BY <1>2, <2>1
    <3>4. Limit' = Larger(0, settled')
      BY DEF Limit
    <3>5. QED BY <2>2, <3>1, <3>2, <3>3, <3>4 DEF Limit
  <2>4. chain \in Blocks /\ chain' \in Blocks
    BY <1>2, <2>1 DEF ChainTypeOK
  <2>5. QED BY <1>1, <2>1, <2>3, <2>4, LogsInKept
<1>4. CASE UNCHANGED chainVars
  <2>1. ChainTypeOK' /\ Limit' = Limit
    BY <1>2, <1>4 DEF chainVars, ChainTypeOK, Blocks, head, settled, Limit, Larger
  <2>2. \A from \in Int, to \in Int : LogsIn(from, to)' = LogsIn(from, to)
    BY <1>4 DEF chainVars, LogsIn
  <2>3. Limit \in Int
    BY <1>2, LimitIsNat
  <2>4. QED BY <1>1, <2>1, <2>2, <2>3
<1>5. QED
  BY <1>3, <1>4 DEF Next, BeginLatest, BeginGiven, Begin, Step, Chunk, ChunkWith, Flush,
                    Checkpoint, Close, Fail, Kill, Stop, Chain, vars

LEMMA NoRunTyped == NoRun \in Runs /\ NoRun.next = 0 /\ NoRun.to = 0 /\ NoRun.chunk_end = 0
BY DEF NoRun, Runs

LEMMA BeginTyped ==
    ASSUME TypeInv, NEW to \in Nat, Begin(to), ChainTypeOK'
    PROVE  TypeInv'
<1>1. /\ pc = "idle" /\ buffer = << >> /\ run = NoRun
      /\ UNCHANGED <<job, checkpoint, buffer, counts>>
      /\ since' = IF job.to_file THEN FromBlock ELSE job.from_block
  BY DEF Begin, TypeInv, TypeOK
<1>2. /\ FromBlock \in Nat /\ job.from_block \in Nat
      /\ checkpoint # NoCheckpoint => checkpoint < FromBlock
  BY FromBlockType, Constants DEF TypeInv, TypeOK, Jobs
<1>3. since' \in Nat /\ (~job.to_file => since' = job.from_block)
  BY <1>1, <1>2
<1>4. twice' \in BOOLEAN /\ unconfirmed' \in BOOLEAN
  BY DEF Begin, Written, TypeInv, TypeOK
<1>5. CASE to < FromBlock
  <2>1. UNCHANGED <<pc, run>>
    BY <1>5 DEF Begin
  <2>2. QED BY <1>1, <1>3, <1>4, <2>1 DEF TypeInv, TypeOK
<1>6. CASE ~(to < FromBlock)
  <2>1. /\ pc' = "scan"
        /\ run' = [NoRun EXCEPT !.from = FromBlock, !.next = FromBlock, !.to = to]
    BY <1>6 DEF Begin
  <2>2. run' = [from |-> FromBlock, next |-> FromBlock, to |-> to, chunk_end |-> 0,
                total |-> 0, blocks |-> {}]
    BY <2>1 DEF NoRun
  <2>3. run' \in Runs
    BY <1>2, <2>2 DEF Runs
  <2>4. run'.from = FromBlock /\ run'.next = FromBlock /\ run'.to = to /\ run'.chunk_end = 0
    BY <2>2
  <2>5. FromBlock <= to /\ FromBlock <= to + 1 /\ 0 <= to /\ FromBlock <= FromBlock
    BY <1>2, <1>6
  <2>6. QED BY <1>1, <1>2, <1>3, <1>4, <2>1, <2>3, <2>4, <2>5 DEF TypeInv, TypeOK
<1>7. QED BY <1>5, <1>6

(* The next chunk: its end, its events and its lines.                      *)
LEMMA ChunkStep ==
    ASSUME TypeInv, Chunk
    PROVE  \E chunk_end \in Nat, lines \in Seq(Lines) :
              /\ run.next <= chunk_end /\ chunk_end <= run.to
              /\ IsInjective(lines)
              /\ Range(lines) = LinesOf(LogsIn(run.next, chunk_end), run.blocks)
              /\ buffer' = buffer \o lines
              /\ Range(buffer') = Range(buffer) \cup Range(lines)
              /\ run' = [run EXCEPT !.chunk_end = chunk_end,
                            !.total = run.total + Cardinality(LogsIn(run.next, chunk_end)),
                            !.blocks = run.blocks \cup
                                {l.block : l \in LogsIn(run.next, chunk_end)}]
<1>1. run.next \in Nat /\ run.to \in Nat /\ ChunkSize \in Nat /\ buffer \in Seq(Lines)
  BY Constants DEF TypeInv, Runs
<1>2. PICK chunk_end \in run.next .. Smaller(run.next + ChunkSize - 1, run.to) :
         /\ \E lines \in InOrder(LinesOf(LogsIn(run.next, chunk_end), run.blocks)) :
                buffer' = buffer \o lines
         /\ run' = [run EXCEPT !.chunk_end = chunk_end,
                       !.total = run.total + Cardinality(LogsIn(run.next, chunk_end)),
                       !.blocks = run.blocks \cup
                           {l.block : l \in LogsIn(run.next, chunk_end)}]
  BY DEF Chunk, ChunkWith
<1>3. chunk_end \in Nat /\ run.next <= chunk_end /\ chunk_end <= run.to
  BY <1>1 DEF Smaller
<1>4. PICK lines \in InOrder(LinesOf(LogsIn(run.next, chunk_end), run.blocks)) :
         buffer' = buffer \o lines
  BY <1>2
<1>5. /\ lines \in Seq(Lines) /\ IsInjective(lines)
      /\ Range(lines) = LinesOf(LogsIn(run.next, chunk_end), run.blocks)
  BY <1>1, <1>3, ChunkLines
<1>6. Range(buffer') = Range(buffer) \cup Range(lines)
  BY <1>1, <1>4, <1>5, RangeConcat
<1>7. QED BY <1>2, <1>3, <1>4, <1>5, <1>6

LEMMA ChunkTyped ==
    ASSUME TypeInv, Chunk, ChainTypeOK'
    PROVE  TypeInv'
<1>1. PICK chunk_end \in Nat, lines \in Seq(Lines) :
          /\ run.next <= chunk_end /\ chunk_end <= run.to
          /\ Range(lines) = LinesOf(LogsIn(run.next, chunk_end), run.blocks)
          /\ buffer' = buffer \o lines
          /\ Range(buffer') = Range(buffer) \cup Range(lines)
          /\ run' = [run EXCEPT !.chunk_end = chunk_end,
                        !.total = run.total + Cardinality(LogsIn(run.next, chunk_end)),
                        !.blocks = run.blocks \cup
                            {l.block : l \in LogsIn(run.next, chunk_end)}]
  BY ChunkStep
<1>2. /\ pc = "scan" /\ pc' = "flush"
      /\ UNCHANGED <<jobVars, checkpoint, sink, since, twice, counts>>
  BY DEF Chunk, ChunkWith, sinkVars
<1>3. run \in Runs /\ run.next \in Nat /\ run.to \in Nat /\ run.from \in Nat
  BY DEF TypeInv, Runs
<1>4. run.total + Cardinality(LogsIn(run.next, chunk_end)) \in Nat
  <2>1. IsFiniteSet(LogsIn(run.next, chunk_end))
    BY <1>3, LogsInFinite
  <2>2. Cardinality(LogsIn(run.next, chunk_end)) \in Nat
    BY <2>1, FS_CardinalityType
  <2>3. run.total \in Nat
    BY <1>3 DEF Runs
  <2>4. QED BY <2>2, <2>3
<1>5. run.blocks \cup {l.block : l \in LogsIn(run.next, chunk_end)} \in SUBSET Nat
  BY <1>3 DEF LogsIn, Runs
<1>6. /\ run' \in Runs /\ run'.from = run.from /\ run'.next = run.next /\ run'.to = run.to
      /\ run'.chunk_end = chunk_end
  BY <1>1, <1>3, <1>4, <1>5 DEF Runs
<1>7. buffer' \in Seq(Lines)
  BY <1>1 DEF TypeInv
<1>8. job.format = "summary" => buffer' = << >>
  <2>1. SUFFICES ASSUME job.format = "summary" PROVE buffer' = << >>
    OBVIOUS
  <2>2. buffer = << >> /\ Range(lines) = {}
    BY <1>1, <2>1 DEF TypeInv, LinesOf
  <2>3. lines = << >>
    <3>1. DOMAIN lines = 1 .. Len(lines) /\ Len(lines) \in Nat
      OBVIOUS
    <3>2. \A i \in DOMAIN lines : lines[i] \in Range(lines)
      BY DEF Range
    <3>3. 1 \notin DOMAIN lines
      BY <2>2, <3>2
    <3>4. QED BY <3>1, <3>3
  <2>4. QED BY <1>1, <2>2, <2>3
<1>9. QED
  BY <1>1, <1>2, <1>3, <1>6, <1>7, <1>8 DEF TypeInv, TypeOK

(* A run that ends leaves its variables as they were before it.            *)
LEMMA StopTyped ==
    ASSUME TypeInv, NEW lines, Stop(lines), ChainTypeOK',
           faults' \in 0 .. MaxFaults, fallBacks' = fallBacks
    PROVE  TypeInv'
<1>1. /\ pc' = "idle" /\ run' = NoRun /\ buffer' = << >>
      /\ UNCHANGED <<jobVars, checkpoint, since>>
      /\ twice' = (twice \/ Range(lines) \cap sink # {} \/ ~IsInjective(lines))
  BY DEF Stop, Written
<1>2. twice' \in BOOLEAN
  BY <1>1 DEF TypeInv, TypeOK
<1>3. << >> \in Seq(Lines)
  OBVIOUS
<1>4. QED BY <1>1, <1>2, <1>3, NoRunTyped DEF TypeInv, TypeOK

LEMMA TypeStep == TypeInv /\ [Next]_vars => TypeInv'
<1> SUFFICES ASSUME TypeInv, [Next]_vars PROVE TypeInv'
  OBVIOUS
<1>0. ChainTypeOK' /\ job' = job
  BY WorldStep DEF TypeInv
<1>1. CASE BeginLatest \/ BeginGiven
  BY <1>0, <1>1, BeginUpTo, BeginTyped
<1>2. CASE Chunk
  BY <1>0, <1>2, ChunkTyped
<1>3. CASE Flush
  <2>1. /\ pc = "flush" /\ pc' = "checkpoint"
        /\ UNCHANGED <<jobVars, checkpoint, since, run, counts>>
        /\ IF job.checkpointing THEN buffer' = << >> ELSE buffer' = buffer
    BY <1>3 DEF Flush
  <2>2. twice' \in BOOLEAN
    BY <1>3 DEF Flush, Written, TypeInv, TypeOK
  <2>3. << >> \in Seq(Lines)
    OBVIOUS
  <2>4. /\ buffer' \in Seq(Lines)
        /\ job.checkpointing \/ job.format = "summary" => buffer' = << >>
    BY <2>1, <2>3 DEF TypeInv
  <2>5. QED BY <1>0, <2>1, <2>2, <2>4 DEF TypeInv, TypeOK
<1>4. CASE Checkpoint
  <2>1. /\ pc = "checkpoint"
        /\ checkpoint' = IF job.checkpointing THEN run.chunk_end ELSE checkpoint
        /\ pc' = IF run.chunk_end = run.to THEN "close" ELSE "scan"
        /\ run' = [run EXCEPT !.next = run.chunk_end + 1]
        /\ UNCHANGED <<jobVars, sink, since, twice, buffer, counts>>
    BY <1>4 DEF Checkpoint, sinkVars
  <2>2. /\ run \in Runs /\ run.next \in Nat /\ run.chunk_end \in Nat /\ run.to \in Nat
        /\ run.from \in Nat /\ run.from <= run.next /\ run.next <= run.chunk_end
        /\ run.chunk_end <= run.to
    BY <2>1 DEF TypeInv, TypeOK, Runs
  <2>3. /\ run' \in Runs /\ run'.from = run.from /\ run'.next = run.chunk_end + 1
        /\ run'.to = run.to /\ run'.chunk_end = run.chunk_end
    BY <2>1, <2>2 DEF Runs
  <2>4. /\ run'.from <= run'.next /\ run'.next <= run'.to + 1 /\ run'.chunk_end <= run'.to
        /\ pc' = "scan" => run'.next <= run'.to
        /\ pc' = "close" => run'.next = run'.to + 1
    BY <2>1, <2>2, <2>3
  <2>5. /\ checkpoint' \in Nat \cup {NoCheckpoint}
        /\ checkpoint' # NoCheckpoint => job.checkpointing /\ checkpoint' < run'.next
    <3>1. run.chunk_end < run.chunk_end + 1
      BY <2>2
    <3>2. ~job.checkpointing => checkpoint = NoCheckpoint
      BY DEF TypeInv
    <3>3. QED BY <2>1, <2>2, <2>3, <3>1, <3>2
  <2>6. pc' \in {"scan", "close"}
    BY <2>1
  <2>7. QED BY <1>0, <2>1, <2>3, <2>4, <2>5, <2>6 DEF TypeInv, TypeOK
<1>5. CASE Close
  BY <1>0, <1>5, StopTyped DEF Close, TypeInv, TypeOK
<1>6. CASE Fail
  <2>1. faults' \in 0 .. MaxFaults /\ fallBacks' = fallBacks
    BY <1>6, Constants DEF Fail, Fault, TypeInv, TypeOK
  <2>2. QED BY <1>0, <1>6, <2>1, StopTyped DEF Fail
<1>7. CASE Kill
  <2>1. faults' \in 0 .. MaxFaults /\ fallBacks' = fallBacks
    BY <1>7, Constants DEF Kill, Fault, TypeInv, TypeOK
  <2>2. QED BY <1>0, <1>7, <2>1, StopTyped DEF Kill
<1>8. CASE Chain
  <2>1. faults' = faults /\ fallBacks' \in 0 .. MaxFallBacks
    BY <1>8, Constants DEF Chain, TypeInv, TypeOK
  <2>2. QED BY <1>0, <1>8, <2>1 DEF Chain, sinkVars, TypeInv, TypeOK
<1>9. CASE UNCHANGED vars
  BY <1>0, <1>9 DEF vars, sinkVars, TypeInv, TypeOK
<1>10. QED
  BY <1>1, <1>2, <1>3, <1>4, <1>5, <1>6, <1>7, <1>8, <1>9 DEF Next, Step

LEMMA TypeInvariant == Spec => []TypeInv
<1>1. Init => TypeInv
  <2>1. SUFFICES ASSUME Init PROVE TypeInv
    OBVIOUS
  <2>2. ChainTypeOK
    <3>1. chain = << >> /\ tip = 0 /\ Len(chain) = 0 /\ DOMAIN chain = {}
      BY <2>1 DEF Init, ChainInit
    <3>2. chain \in Blocks
      BY <3>1 DEF Blocks
    <3>3. QED BY <3>1, <3>2, Constants, ChainAssumption DEF ChainTypeOK, settled, head
  <2>3. job.from_block \in Nat
    BY <2>1, Constants DEF Init, Jobs
  <2>4. << >> \in Seq(Lines)
    OBVIOUS
  <2>5. /\ pc = "idle" /\ run = NoRun /\ buffer = << >> /\ checkpoint = NoCheckpoint
        /\ job \in Jobs /\ since = job.from_block /\ twice = FALSE
        /\ unconfirmed = FALSE /\ faults = 0 /\ fallBacks = 0
    BY <2>1 DEF Init
  <2>6. TypeOK
    <3>1. run.next <= run.to + 1 /\ run.chunk_end <= run.to
      BY <2>5, NoRunTyped
    <3>2. since \in Nat /\ twice \in BOOLEAN /\ unconfirmed \in BOOLEAN
      BY <2>3, <2>5
    <3>3. faults \in 0 .. MaxFaults /\ fallBacks \in 0 .. MaxFallBacks
      BY <2>5, Constants
    <3>4. QED BY <2>2, <2>5, <3>1, <3>2, <3>3 DEF TypeOK
  <2>7. QED BY <2>4, <2>5, <2>6, NoRunTyped DEF TypeInv
<1>2. QED BY <1>1, TypeStep, PTL DEF Spec

(* Every variable keeps its type, no run goes past its last block, and one *)
(* with a checkpoint works on blocks after it.                             *)
THEOREM TypeCorrect == Spec => []TypeOK
<1>1. TypeInv => TypeOK
  BY DEF TypeInv
<1>2. QED BY <1>1, TypeInvariant, PTL

-----------------------------------------------------------------------------
(* Lines.                                                                  *)

(* The lines of the buffer have their block, and none is older than the    *)
(* chunk; the lines of the output are older, or, when the checkpoint comes *)
(* next, not younger.                                                      *)
OnceInv ==
    faults = 0 /\ job.checkpointing /\ job.format # "summary" =>
        /\ ~twice
        /\ \A line \in sink :
              /\ BlockOf(line) \in Nat
              /\ IF pc = "checkpoint"
                 THEN BlockOf(line) <= run.chunk_end
                 ELSE checkpoint # NoCheckpoint /\ BlockOf(line) <= checkpoint
        /\ pc = "flush" =>
              /\ IsInjective(buffer)
              /\ \A line \in Range(buffer) :
                    BlockOf(line) \in Nat /\ run.next <= BlockOf(line)
                    /\ BlockOf(line) <= run.chunk_end

(* A summary is the only line written when a run begins or ends.           *)
LEMMA NoSummary ==
    ASSUME job.format # "summary"
    PROVE  \A from, to, total, blocks : Summary(from, to, total, blocks) = << >>
BY DEF Summary

(* To write nothing changes nothing.                                       *)
LEMMA WrittenNothing == Written(<< >>) /\ ~twice => sink' = sink /\ ~twice'
<1> SUFFICES ASSUME Written(<< >>), ~twice PROVE sink' = sink /\ ~twice'
  OBVIOUS
<1>1. /\ sink' = sink \cup Range(<< >>)
      /\ twice' = (twice \/ Range(<< >>) \cap sink # {} \/ ~IsInjective(<< >>))
  BY DEF Written
<1>2. sink' = sink
  BY <1>1, EmptyListing
<1>3. ~twice'
  BY <1>1, EmptyListing
<1>4. QED BY <1>2, <1>3

LEMMA OnceStep == TypeInv /\ TypeInv' /\ OnceInv /\ [Next]_vars => OnceInv'
<1> SUFFICES ASSUME TypeInv, TypeInv', OnceInv, [Next]_vars,
                    faults' = 0, job'.checkpointing, job'.format # "summary"
             PROVE  /\ ~twice'
                    /\ \A line \in sink' :
                          /\ BlockOf(line)' \in Nat
                          /\ IF pc' = "checkpoint"
                             THEN BlockOf(line)' <= run'.chunk_end
                             ELSE checkpoint' # NoCheckpoint /\ BlockOf(line)' <= checkpoint'
                    /\ pc' = "flush" =>
                          /\ IsInjective(buffer')
                          /\ \A line \in Range(buffer') :
                                BlockOf(line)' \in Nat /\ run'.next <= BlockOf(line)'
                                /\ BlockOf(line)' <= run'.chunk_end
  BY DEF OnceInv
<1>0. job' = job /\ job.checkpointing /\ job.format # "summary"
      /\ \A line : BlockOf(line)' = BlockOf(line)
  <2>1. job' = job
    BY WorldStep DEF TypeInv
  <2>2. QED BY <2>1 DEF BlockOf
<1>1. faults = 0
  <2>1. faults' = faults \/ faults' = faults + 1
    BY DEF Next, BeginLatest, BeginGiven, Begin, Step, Chunk, ChunkWith, Flush, Checkpoint,
           Close, Fail, Kill, Fault, Stop, Chain, vars
  <2>2. faults \in Nat
    BY Constants DEF TypeInv, TypeOK
  <2>3. QED BY <2>1, <2>2
<1>2. /\ ~twice
      /\ \A line \in sink :
            /\ BlockOf(line) \in Nat
            /\ IF pc = "checkpoint"
               THEN BlockOf(line) <= run.chunk_end
               ELSE checkpoint # NoCheckpoint /\ BlockOf(line) <= checkpoint
  BY <1>0, <1>1 DEF OnceInv
<1>3. CASE BeginLatest \/ BeginGiven
  <2>1. PICK to \in Nat : Begin(to)
    BY <1>3, BeginUpTo
  <2>2. /\ pc = "idle" /\ pc' \in {"idle", "scan"} /\ checkpoint' = checkpoint
    BY <2>1 DEF Begin
  <2>3. \/ sink' = Range(<< >>) /\ twice' = FALSE
        \/ Written(<< >>)
    <3>1. (IF to < FromBlock THEN Summary(FromBlock, to, 0, {}) ELSE << >>) = << >>
      BY <1>0, NoSummary
    <3>2. QED BY <2>1, <3>1 DEF Begin
  <2>4. sink' \subseteq sink /\ ~twice'
    BY <1>2, <2>3, EmptyListing, WrittenNothing
  <2>5. QED BY <1>0, <1>2, <2>2, <2>4
<1>4. CASE Chunk
  <2>1. PICK chunk_end \in Nat, lines \in Seq(Lines) :
            /\ IsInjective(lines)
            /\ Range(lines) = LinesOf(LogsIn(run.next, chunk_end), run.blocks)
            /\ buffer' = buffer \o lines
            /\ run' = [run EXCEPT !.chunk_end = chunk_end,
                          !.total = run.total + Cardinality(LogsIn(run.next, chunk_end)),
                          !.blocks = run.blocks \cup
                              {l.block : l \in LogsIn(run.next, chunk_end)}]
    BY <1>4, ChunkStep
  <2>2. /\ pc = "scan" /\ pc' = "flush" /\ UNCHANGED <<sink, twice, checkpoint>>
    BY <1>4 DEF Chunk, ChunkWith, sinkVars
  <2>3. /\ run'.next = run.next /\ run'.chunk_end = chunk_end /\ run.next \in Nat
    BY <2>1 DEF TypeInv, Runs
  <2>4. buffer' = lines
    <3>1. buffer = << >>
      BY <1>0, <2>2 DEF TypeInv
    <3>2. QED BY <2>1, <3>1
  <2>5. \A line \in Range(lines) :
           BlockOf(line) \in Nat /\ run.next <= BlockOf(line) /\ BlockOf(line) <= chunk_end
    BY <1>0, <2>1, <2>3 DEF LinesOf, LogsIn, BlockOf, TypeInv, TypeOK, Jobs
  <2>6. QED BY <1>0, <1>2, <2>1, <2>2, <2>3, <2>4, <2>5
<1>5. CASE Flush
  <2>1. /\ pc = "flush" /\ pc' = "checkpoint" /\ run' = run
        /\ sink' = sink \cup Range(buffer)
        /\ twice' = (twice \/ Range(buffer) \cap sink # {} \/ ~IsInjective(buffer))
    BY <1>0, <1>5 DEF Flush, Written
  <2>2. /\ IsInjective(buffer)
        /\ \A line \in Range(buffer) :
              BlockOf(line) \in Nat /\ run.next <= BlockOf(line)
              /\ BlockOf(line) <= run.chunk_end
    BY <1>0, <1>1, <2>1 DEF OnceInv
  <2>3. /\ run.next \in Nat /\ run.chunk_end \in Nat /\ run.next <= run.chunk_end
        /\ checkpoint # NoCheckpoint => checkpoint \in Nat /\ checkpoint < run.next
    BY <2>1 DEF TypeInv, TypeOK, Runs
  <2>4. \A line \in sink : BlockOf(line) \in Nat /\ BlockOf(line) < run.next
    BY <1>2, <2>1, <2>3
  <2>5. Range(buffer) \cap sink = {}
    BY <2>2, <2>3, <2>4
  <2>6. \A line \in sink' : BlockOf(line) \in Nat /\ BlockOf(line) <= run.chunk_end
    BY <2>1, <2>2, <2>3, <2>4
  <2>7. QED BY <1>0, <1>2, <2>1, <2>2, <2>5, <2>6
<1>6. CASE Checkpoint
  <2>1. /\ pc = "checkpoint" /\ pc' \in {"scan", "close"}
        /\ checkpoint' = run.chunk_end /\ sink' = sink /\ twice' = twice
    BY <1>0, <1>6 DEF Checkpoint, sinkVars
  <2>2. run.chunk_end # NoCheckpoint
    BY Constants DEF TypeInv, Runs
  <2>3. QED BY <1>0, <1>2, <2>1, <2>2
<1>7. CASE Close
  <2>1. /\ pc = "close" /\ pc' = "idle" /\ checkpoint' = checkpoint
        /\ Written(buffer \o Summary(run.from, run.to, run.total, run.blocks))
    BY <1>7 DEF Close, Stop
  <2>2. buffer \o Summary(run.from, run.to, run.total, run.blocks) = << >>
    <3>1. buffer = << >>
      BY <1>0, <2>1 DEF TypeInv
    <3>2. Summary(run.from, run.to, run.total, run.blocks) = << >>
      BY <1>0, NoSummary
    <3>3. << >> \o << >> = << >>
      OBVIOUS
    <3>4. QED BY <3>1, <3>2, <3>3
  <2>3. sink' = sink /\ ~twice'
    BY <1>2, <2>1, <2>2, WrittenNothing
  <2>4. QED BY <1>0, <1>2, <2>1, <2>3
<1>8. CASE Fail \/ Kill
  BY <1>1, <1>8 DEF Fail, Kill, Fault
<1>9. CASE Chain \/ UNCHANGED vars
  <2>1. UNCHANGED <<sink, twice, checkpoint, pc, run, buffer>>
    BY <1>9 DEF Chain, vars, sinkVars
  <2>2. QED BY <1>0, <1>1, <2>1 DEF OnceInv
<1>10. QED
  BY <1>3, <1>4, <1>5, <1>6, <1>7, <1>8, <1>9 DEF Next, Step

-----------------------------------------------------------------------------
(* The checkpoint.                                                         *)

DepthInv ==
    Confirmed =>
        /\ pc # "idle" => run.to <= Limit
        /\ checkpoint # NoCheckpoint => checkpoint <= Limit

LEMMA DepthStep == TypeInv /\ TypeInv' /\ DepthInv /\ [Next]_vars => DepthInv'
<1> SUFFICES ASSUME TypeInv, TypeInv', DepthInv, [Next]_vars, Confirmed'
             PROVE  /\ pc' # "idle" => run'.to <= Limit'
                    /\ checkpoint' # NoCheckpoint => checkpoint' <= Limit'
  BY DEF DepthInv
<1>0. /\ Limit <= Limit' /\ Limit \in Nat /\ Limit' \in Nat
      /\ run.to \in Nat /\ run.chunk_end \in Nat /\ run.chunk_end <= run.to
      /\ checkpoint \in Nat \cup {NoCheckpoint}
  <2>1. Limit' \in Nat
    <3>1. settled' \in Int
      BY Constants DEF TypeInv, TypeOK, ChainTypeOK, settled
    <3>2. \A n \in Int : Larger(0, n) \in Nat
      BY DEF Larger
    <3>3. Limit' = Larger(0, settled')
      BY DEF Limit
    <3>4. QED BY <3>1, <3>2, <3>3
  <2>2. QED BY <2>1, WorldStep, LimitIsNat DEF TypeInv, TypeOK, Runs
<1>1. /\ pc # "idle" => run.to <= Limit
      /\ checkpoint # NoCheckpoint => checkpoint <= Limit
  BY ConfirmedBefore DEF DepthInv
<1>2. CASE BeginLatest \/ BeginGiven
  <2>1. PICK to \in Nat : Begin(to) /\ to <= Limit
    BY <1>2, BeginUpTo
  <2>2. checkpoint' = checkpoint
    BY <2>1 DEF Begin
  <2>3. pc' # "idle" => run'.to = to
    BY <2>1 DEF Begin, NoRun
  <2>4. QED BY <1>0, <1>1, <2>1, <2>2, <2>3
<1>3. CASE Chunk
  <2>1. run'.to = run.to /\ checkpoint' = checkpoint /\ pc = "scan"
    BY <1>3 DEF Chunk, ChunkWith, TypeInv, Runs
  <2>2. QED BY <1>0, <1>1, <2>1
<1>4. CASE Checkpoint
  <2>1. /\ run'.to = run.to /\ checkpoint' \in {run.chunk_end, checkpoint}
        /\ pc = "checkpoint"
    BY <1>4 DEF Checkpoint, TypeInv, Runs
  <2>2. QED BY <1>0, <1>1, <2>1
<1>5. CASE Close \/ Fail \/ Kill
  <2>1. pc' = "idle" /\ checkpoint' = checkpoint
    BY <1>5 DEF Close, Fail, Kill, Stop
  <2>2. QED BY <1>0, <1>1, <2>1
<1>6. CASE Flush \/ Chain \/ UNCHANGED vars
  <2>1. run' = run /\ checkpoint' = checkpoint /\ (pc = "idle" => pc' = "idle")
    BY <1>6 DEF Flush, Chain, vars
  <2>2. QED BY <1>0, <1>1, <2>1
<1>7. QED BY <1>2, <1>3, <1>4, <1>5, <1>6 DEF Next, Step

OnChain(log) == log.block \in DOMAIN chain /\ log.key \in chain[log.block]

(* The line that shows an event.                                           *)
LineOf(log) == IF job.format = "jsonl" THEN log ELSE log.block

(* What the checkpoint covers is in the output; what the run has read is   *)
(* there or in the buffer, and so are the blocks it leaves out.            *)
CoverInv ==
    /\ Confirmed /\ Torn \notin sink /\ job.format # "summary" =>
          \A log \in Logs : OnChain(log) /\ since <= log.block =>
             /\ checkpoint # NoCheckpoint /\ log.block <= checkpoint =>
                   LineOf(log) \in sink
             /\ pc # "idle" /\ job.checkpointing /\ log.block <= scanned =>
                   LineOf(log) \in sink \cup Range(buffer)
    /\ pc # "idle" /\ job.format = "blocks" => run.blocks \subseteq sink \cup Range(buffer)

(* An event in a block that no fall-back reaches was there before.         *)
LEMMA OnChainBefore ==
    ASSUME TypeOK, [Next]_vars, NEW log \in Logs, log.block <= Limit, OnChain(log)'
    PROVE  OnChain(log)
<1>1. log.block \in Nat \ {0} /\ log.key \in Keys /\ ChainTypeOK /\ settled \in Int
  BY LimitIsNat DEF Logs, TypeOK
<1>2. log.block \in 1 .. settled
  BY <1>1 DEF Limit, Larger
<1>3. CASE Mine \/ FallBack
  BY <1>1, <1>2, <1>3, ChainStep DEF OnChain
<1>4. CASE UNCHANGED chainVars
  BY <1>4 DEF chainVars, OnChain
<1>5. QED
  BY <1>3, <1>4 DEF Next, BeginLatest, BeginGiven, Begin, Step, Chunk, ChunkWith, Flush,
                    Checkpoint, Close, Fail, Kill, Stop, Chain, vars

(* Only a run that empties its file takes lines from the output.           *)
LEMMA SinkGrows ==
    ASSUME TypeInv, [Next]_vars
    PROVE  \/ sink \subseteq sink' /\ since' = since
           \/ job.to_file /\ \E to \in Nat : Begin(to)
<1>1. CASE BeginLatest \/ BeginGiven
  <2>1. PICK to \in Nat : Begin(to)
    BY <1>1, BeginUpTo
  <2>2. ~job.to_file => sink \subseteq sink' /\ since' = since
    BY <2>1 DEF Begin, Written, TypeInv
  <2>3. QED BY <2>1, <2>2
<1>2. CASE Chunk \/ Flush \/ Checkpoint \/ Close \/ Fail \/ Kill \/ Chain \/ UNCHANGED vars
  BY <1>2 DEF Chunk, ChunkWith, Flush, Checkpoint, Close, Fail, Kill, Stop, Chain, Written,
              sinkVars, vars
<1>3. QED BY <1>1, <1>2 DEF Next, Step

LEMMA CoverStep ==
    TypeInv /\ TypeInv' /\ DepthInv /\ DepthInv' /\ CoverInv /\ [Next]_vars => CoverInv'
<1> SUFFICES ASSUME TypeInv, TypeInv', DepthInv, DepthInv', CoverInv, [Next]_vars
             PROVE  CoverInv'
  OBVIOUS
<1>0. job' = job
  BY WorldStep DEF TypeInv
<1>1. ASSUME Confirmed', Torn \notin sink', job.format # "summary",
             NEW log \in Logs, OnChain(log)', since' <= log.block
      PROVE  /\ checkpoint' # NoCheckpoint /\ log.block <= checkpoint' =>
                   LineOf(log) \in sink'
             /\ pc' # "idle" /\ job.checkpointing /\ log.block <= scanned' =>
                   LineOf(log) \in sink' \cup Range(buffer')
  <2>1. /\ log.block \in Nat /\ run \in Runs /\ run.next \in Nat /\ run.to \in Nat
        /\ run.chunk_end \in Nat /\ checkpoint \in Nat \cup {NoCheckpoint}
        /\ Limit \in Nat
    BY LimitIsNat DEF TypeInv, TypeOK, Runs, Logs
  <2>2. /\ pc # "idle" => run.to <= Limit
        /\ checkpoint # NoCheckpoint => checkpoint <= Limit
    BY <1>1, ConfirmedBefore DEF DepthInv
  <2>3. ASSUME log.block <= Limit, Torn \notin sink, since <= log.block
        PROVE  /\ OnChain(log)
               /\ checkpoint # NoCheckpoint /\ log.block <= checkpoint =>
                     LineOf(log) \in sink
               /\ pc # "idle" /\ job.checkpointing /\ log.block <= scanned =>
                     LineOf(log) \in sink \cup Range(buffer)
    <3>1. OnChain(log)
      BY <1>1, <2>3, OnChainBefore DEF TypeInv
    <3>2. QED BY <1>1, <2>3, <3>1, ConfirmedBefore DEF CoverInv
  <2>4. CASE BeginLatest \/ BeginGiven
    <3>1. PICK to \in Nat : Begin(to)
      BY <2>4, BeginUpTo
    <3>2. /\ checkpoint' = checkpoint /\ pc = "idle" /\ pc' \in {"idle", "scan"}
          /\ since' = IF job.to_file THEN FromBlock ELSE job.from_block
          /\ pc' = "scan" => run'.next = FromBlock
      BY <3>1 DEF Begin, NoRun
    <3>3. /\ FromBlock \in Nat
          /\ checkpoint # NoCheckpoint => checkpoint < FromBlock
          /\ \/ FromBlock = job.from_block
             \/ checkpoint # NoCheckpoint /\ FromBlock = checkpoint + 1
      BY FromBlockType
    <3>4. pc' # "idle" => scanned' = FromBlock - 1
      BY <3>2 DEF scanned
    <3>5. CASE since' = FromBlock
      BY <1>1, <2>1, <3>2, <3>3, <3>4, <3>5
    <3>6. CASE ~job.to_file /\ since' # FromBlock
      <4>1. /\ since' = since /\ Torn \notin sink /\ sink \subseteq sink'
        BY <1>1, <3>1, <3>2, <3>6 DEF Begin, Written, TypeInv
      <4>2. checkpoint # NoCheckpoint /\ FromBlock = checkpoint + 1
        BY <3>2, <3>3, <3>6
      <4>3. pc' # "idle" => scanned' = checkpoint
        BY <2>1, <3>4, <4>2
      <4>4. log.block <= checkpoint => LineOf(log) \in sink'
        <5>1. SUFFICES ASSUME log.block <= checkpoint PROVE LineOf(log) \in sink'
          OBVIOUS
        <5>2. log.block <= Limit
          BY <2>1, <2>2, <4>2, <5>1
        <5>3. QED BY <1>1, <2>3, <4>1, <4>2, <5>1, <5>2
      <4>5. QED BY <3>2, <4>3, <4>4
    <3>7. QED BY <3>2, <3>5, <3>6
  <2>5. CASE Chunk
    <3>1. PICK chunk_end \in Nat, lines \in Seq(Lines) :
              /\ run.next <= chunk_end /\ chunk_end <= run.to
              /\ Range(lines) = LinesOf(LogsIn(run.next, chunk_end), run.blocks)
              /\ Range(buffer') = Range(buffer) \cup Range(lines)
              /\ run' = [run EXCEPT !.chunk_end = chunk_end,
                            !.total = run.total + Cardinality(LogsIn(run.next, chunk_end)),
                            !.blocks = run.blocks \cup
                                {l.block : l \in LogsIn(run.next, chunk_end)}]
      BY <2>5, ChunkStep
    <3>2. /\ pc = "scan" /\ pc' = "flush" /\ UNCHANGED <<sink, since, checkpoint>>
      BY <2>5 DEF Chunk, ChunkWith, sinkVars
    <3>3. scanned = run.next - 1 /\ scanned' = chunk_end
      BY <2>1, <3>1, <3>2 DEF scanned
    <3>4. log.block <= chunk_end \/ (checkpoint # NoCheckpoint /\ log.block <= checkpoint) =>
             log.block <= Limit
      BY <2>1, <2>2, <3>1, <3>2
    <3>5. ASSUME run.next <= log.block, log.block <= chunk_end
          PROVE  LineOf(log) \in sink \cup Range(buffer')
      <4>1. OnChain(log)
        BY <1>1, <2>3, <3>2, <3>4, <3>5
      <4>2. log \in LogsIn(run.next, chunk_end)
        BY <2>1, <3>5, <4>1 DEF LogsIn, OnChain, Logs
      <4>3. LineOf(log) \in Range(lines) \/ (job.format = "blocks" /\ log.block \in run.blocks)
        BY <1>1, <3>1, <4>2 DEF LinesOf, LineOf, TypeInv, TypeOK, Jobs
      <4>4. job.format = "blocks" => run.blocks \subseteq sink \cup Range(buffer)
        BY <3>2 DEF CoverInv
      <4>5. QED BY <3>1, <4>3, <4>4 DEF LineOf
    <3>6. ASSUME job.checkpointing, log.block <= run.next - 1
          PROVE  LineOf(log) \in sink \cup Range(buffer')
      BY <1>1, <2>1, <2>3, <3>1, <3>2, <3>3, <3>4, <3>6
    <3>7. job.checkpointing /\ log.block <= chunk_end =>
             LineOf(log) \in sink \cup Range(buffer')
      BY <2>1, <3>1, <3>5, <3>6
    <3>8. checkpoint # NoCheckpoint /\ log.block <= checkpoint => LineOf(log) \in sink
      BY <1>1, <2>3, <3>2, <3>4
    <3>9. QED BY <3>2, <3>3, <3>7, <3>8
  <2>6. CASE Flush
    <3>1. /\ pc = "flush" /\ pc' = "checkpoint" /\ UNCHANGED <<run, since, checkpoint>>
          /\ job.checkpointing => sink' = sink \cup Range(buffer)
          /\ sink \subseteq sink'
      BY <2>6 DEF Flush, Written
    <3>2. scanned' = scanned /\ scanned = run.chunk_end
      BY <3>1 DEF scanned
    <3>3. run.chunk_end <= run.to
      BY DEF TypeInv, TypeOK
    <3>4. log.block <= scanned \/ (checkpoint # NoCheckpoint /\ log.block <= checkpoint) =>
             log.block <= Limit
      BY <2>1, <2>2, <3>1, <3>2, <3>3
    <3>5. QED BY <1>1, <2>3, <3>1, <3>2, <3>4
  <2>7. CASE Checkpoint
    <3>1. /\ pc = "checkpoint" /\ UNCHANGED <<sink, since, buffer>>
          /\ checkpoint' = IF job.checkpointing THEN run.chunk_end ELSE checkpoint
          /\ run' = [run EXCEPT !.next = run.chunk_end + 1]
          /\ pc' \in {"scan", "close"}
      BY <2>7 DEF Checkpoint, sinkVars
    <3>2. scanned = run.chunk_end /\ scanned' = run.chunk_end
      <4>1. run'.next = run.chunk_end + 1
        BY <2>1, <3>1 DEF Runs
      <4>2. QED BY <2>1, <3>1, <4>1 DEF scanned
    <3>3. run.chunk_end <= run.to
      BY DEF TypeInv, TypeOK
    <3>4. log.block <= run.chunk_end \/ (checkpoint # NoCheckpoint /\ log.block <= checkpoint) =>
             log.block <= Limit
      BY <2>1, <2>2, <3>1, <3>3
    <3>5. job.checkpointing => Range(buffer) = {}
      BY <3>1, EmptyListing DEF TypeInv
    <3>6. QED BY <1>1, <2>3, <3>1, <3>2, <3>4, <3>5
  <2>8. CASE Close \/ Fail \/ Kill
    <3>1. /\ pc' = "idle" /\ UNCHANGED <<checkpoint, since>> /\ sink \subseteq sink'
      BY <2>8 DEF Close, Fail, Kill, Stop, Written
    <3>2. checkpoint # NoCheckpoint /\ log.block <= checkpoint => log.block <= Limit
      BY <2>1, <2>2
    <3>3. QED BY <1>1, <2>3, <3>1, <3>2
  <2>9. CASE Chain \/ UNCHANGED vars
    <3>1. UNCHANGED <<sink, since, checkpoint, pc, run, buffer>>
      BY <2>9 DEF Chain, vars, sinkVars
    <3>2. scanned' = scanned /\ (pc # "idle" => scanned <= run.to)
      BY <2>1, <3>1 DEF scanned, TypeInv, TypeOK
    <3>3. (pc # "idle" /\ log.block <= scanned)
             \/ (checkpoint # NoCheckpoint /\ log.block <= checkpoint) => log.block <= Limit
      BY <2>1, <2>2, <3>2 DEF scanned
    <3>4. QED BY <1>1, <2>3, <3>1, <3>2, <3>3
  <2>10. QED BY <2>4, <2>5, <2>6, <2>7, <2>8, <2>9 DEF Next, Step
<1>2. ASSUME pc' # "idle", job.format = "blocks"
      PROVE  run'.blocks \subseteq sink' \cup Range(buffer')
  <2>1. pc # "idle" => run.blocks \subseteq sink \cup Range(buffer)
    BY <1>2 DEF CoverInv
  <2>2. CASE BeginLatest \/ BeginGiven
    <3>1. PICK to \in Nat : Begin(to)
      BY <2>2, BeginUpTo
    <3>2. run'.blocks = {}
      BY <1>2, <3>1 DEF Begin, NoRun
    <3>3. QED BY <3>2
  <2>3. CASE Chunk
    <3>1. PICK chunk_end \in Nat, lines \in Seq(Lines) :
              /\ Range(lines) = LinesOf(LogsIn(run.next, chunk_end), run.blocks)
              /\ Range(buffer') = Range(buffer) \cup Range(lines)
              /\ run' = [run EXCEPT !.chunk_end = chunk_end,
                            !.total = run.total + Cardinality(LogsIn(run.next, chunk_end)),
                            !.blocks = run.blocks \cup
                                {l.block : l \in LogsIn(run.next, chunk_end)}]
      BY <2>3, ChunkStep
    <3>2. run'.blocks = run.blocks \cup {l.block : l \in LogsIn(run.next, chunk_end)}
      BY <3>1 DEF TypeInv, Runs
    <3>3. Range(lines) = {l.block : l \in LogsIn(run.next, chunk_end)} \ run.blocks
      BY <1>2, <3>1 DEF LinesOf
    <3>4. pc = "scan" /\ sink' = sink
      BY <2>3 DEF Chunk, ChunkWith, sinkVars
    <3>5. QED BY <2>1, <3>1, <3>2, <3>3, <3>4
  <2>4. CASE Flush
    <3>1. /\ pc = "flush" /\ run' = run
          /\ \/ sink' = sink \cup Range(buffer)
             \/ sink' = sink /\ buffer' = buffer
      BY <2>4 DEF Flush, Written
    <3>2. QED BY <2>1, <3>1
  <2>5. CASE Checkpoint
    <3>1. pc = "checkpoint" /\ UNCHANGED <<sink, buffer>> /\ run'.blocks = run.blocks
      BY <2>5 DEF Checkpoint, sinkVars, TypeInv, Runs
    <3>2. QED BY <2>1, <3>1
  <2>6. CASE Close \/ Fail \/ Kill
    BY <1>2, <2>6 DEF Close, Fail, Kill, Stop
  <2>7. CASE Chain \/ UNCHANGED vars
    BY <1>2, <2>1, <2>7 DEF Chain, vars, sinkVars
  <2>8. QED BY <2>2, <2>3, <2>4, <2>5, <2>6, <2>7 DEF Next, Step
<1>3. \A log : LineOf(log)' = LineOf(log)
  BY <1>0 DEF LineOf
<1>4. QED BY <1>0, <1>1, <1>2, <1>3 DEF CoverInv

(* What a checkpoint covers has been written, whenever runs fail, are      *)
(* killed or find that the chain has fallen back.                          *)
THEOREM CheckpointPromise == Spec => []CheckpointMeansWritten
<1>1. Init => DepthInv /\ CoverInv
  BY DEF Init, DepthInv, CoverInv
<1>2. TypeInv /\ CoverInv => CheckpointMeansWritten
  <2>1. SUFFICES ASSUME TypeInv, CoverInv, Confirmed,
                        checkpoint # NoCheckpoint, Torn \notin sink,
                        NEW line \in LinesOf(LogsIn(since, checkpoint), {})
                 PROVE  line \in sink
    BY DEF CheckpointMeansWritten
  <2>2. job.format # "summary"
    BY <2>1 DEF LinesOf, TypeInv, TypeOK, Jobs
  <2>3. PICK log \in LogsIn(since, checkpoint) : line = LineOf(log)
    BY <2>1, <2>2 DEF LinesOf, LineOf, TypeInv, TypeOK, Jobs
  <2>4. log \in Logs /\ OnChain(log) /\ since <= log.block /\ log.block <= checkpoint
    BY <2>1, <2>3 DEF LogsIn, OnChain, Logs, TypeInv, TypeOK, ChainTypeOK, Blocks
  <2>5. QED BY <2>1, <2>2, <2>3, <2>4 DEF CoverInv
<1>3. QED BY <1>1, <1>2, CoverStep, DepthStep, TypeInvariant, PTL DEF Spec

-----------------------------------------------------------------------------
(* Events.                                                                 *)

(* Every event that is in the output or the buffer is on the chain, in a   *)
(* block that no fall-back reaches.                                        *)
ShownInv ==
    Confirmed /\ job.format = "jsonl" =>
        \A log \in (sink \cup Range(buffer)) \ {Torn} :
            log \in Logs /\ log.block <= Limit /\ OnChain(log)

(* Such an event stays there.                                              *)
LEMMA OnChainAfter ==
    ASSUME TypeOK, TypeOK', [Next]_vars, NEW log \in Logs, log.block <= Limit, OnChain(log)
    PROVE  log.block <= Limit' /\ OnChain(log)'
<1>1. /\ log.block \in Nat \ {0} /\ Limit \in Nat /\ Limit <= Limit'
      /\ LogsIn(log.block, log.block)' = LogsIn(log.block, log.block)
  BY WorldStep, LimitIsNat DEF Logs, TypeOK
<1>2. Limit' \in Int
  BY WorldStep, Constants DEF ChainTypeOK, Limit, Larger, settled
<1>3. log \in LogsIn(log.block, log.block)
  BY <1>1 DEF LogsIn, OnChain, Logs
<1>4. OnChain(log)'
  BY <1>1, <1>3 DEF LogsIn, OnChain
<1>5. QED BY <1>1, <1>2, <1>4

(* A kill adds nothing but a torn line to what was in the buffer.          *)
LEMMA KillLeaves ==
    ASSUME buffer \in Seq(Lines), NEW n \in 0 .. Len(buffer), NEW cut \in BOOLEAN
    PROVE  Range(SubSeq(buffer, 1, n) \o IF cut THEN << Torn >> ELSE << >>)
               \subseteq Range(buffer) \cup {Torn}
<1> DEFINE S == Lines \cup {Torn}
           part == SubSeq(buffer, 1, n)
           rest == IF cut THEN << Torn >> ELSE << >>
<1>1. /\ DOMAIN part = 1 .. n /\ Len(part) = n /\ part \in Seq(S)
      /\ \A i \in 1 .. n : i \in DOMAIN buffer /\ part[i] = buffer[i]
  OBVIOUS
<1>2. rest \in Seq(S) /\ Range(rest) \subseteq {Torn}
  <2>1. << Torn >> \in Seq(S) /\ << >> \in Seq(S)
    OBVIOUS
  <2>2. Range(<< Torn >>) \subseteq {Torn} /\ Range(<< >>) \subseteq {Torn}
    BY DEF Range
  <2>3. QED BY <2>1, <2>2
<1> HIDE DEF S, part, rest
<1>3. Range(part) \subseteq Range(buffer)
  BY <1>1 DEF Range
<1>4. Range(part \o rest) = Range(part) \cup Range(rest)
  BY <1>1, <1>2, RangeConcat
<1>5. QED BY <1>2, <1>3, <1>4 DEF part, rest

LEMMA ShownStep == TypeInv /\ TypeInv' /\ DepthInv /\ ShownInv /\ [Next]_vars => ShownInv'
<1> SUFFICES ASSUME TypeInv, TypeInv', DepthInv, ShownInv, [Next]_vars, Confirmed',
                    job'.format = "jsonl", NEW log \in (sink' \cup Range(buffer')) \ {Torn}
             PROVE  log \in Logs /\ log.block <= Limit' /\ OnChain(log)'
  BY DEF ShownInv
<1>1. job.format = "jsonl" /\ job.format # "summary" /\ Confirmed
  BY WorldStep, ConfirmedBefore DEF TypeInv
<1>2. SUFFICES \/ log \in (sink \cup Range(buffer)) \ {Torn}
               \/ log \in Logs /\ log.block <= Limit /\ OnChain(log)
  BY <1>1, OnChainAfter DEF TypeInv, ShownInv
<1>3. buffer \in Seq(Lines) /\ buffer \o << >> = buffer
  BY DEF TypeInv
<1>4. CASE BeginLatest \/ BeginGiven
  <2>1. PICK to \in Nat : Begin(to)
    BY <1>4, BeginUpTo
  <2>2. (IF to < FromBlock THEN Summary(FromBlock, to, 0, {}) ELSE << >>) = << >>
    BY <1>1, NoSummary
  <2>3. sink' \subseteq sink /\ buffer' = buffer
    BY <2>1, <2>2, EmptyListing DEF Begin, Written
  <2>4. QED BY <2>3
<1>5. CASE Chunk
  <2>1. PICK chunk_end \in Nat, lines \in Seq(Lines) :
            /\ run.next <= chunk_end /\ chunk_end <= run.to
            /\ Range(lines) = LinesOf(LogsIn(run.next, chunk_end), run.blocks)
            /\ Range(buffer') = Range(buffer) \cup Range(lines)
    BY <1>5, ChunkStep
  <2>2. sink' = sink /\ pc = "scan"
    BY <1>5 DEF Chunk, ChunkWith, sinkVars
  <2>3. Range(lines) = LogsIn(run.next, chunk_end)
    BY <1>1, <2>1 DEF LinesOf
  <2>4. ASSUME log \in LogsIn(run.next, chunk_end)
        PROVE  log \in Logs /\ log.block <= Limit /\ OnChain(log)
    <3>1. run.to <= Limit /\ run.to \in Nat /\ run.next \in Nat /\ Limit \in Nat
      BY <1>1, <2>2, LimitIsNat DEF DepthInv, TypeInv, TypeOK, Runs
    <3>2. OnChain(log) /\ log.key \in Keys /\ log.block \in run.next .. chunk_end
          /\ log = [key |-> log.key, block |-> log.block]
      BY <2>4 DEF LogsIn, OnChain
    <3>3. DOMAIN chain = 1 .. head /\ head \in Nat
      BY DEF TypeInv, TypeOK, ChainTypeOK, Blocks, head
    <3>4. log.block \in Nat \ {0} /\ log.block <= chunk_end
      BY <3>1, <3>2, <3>3 DEF OnChain
    <3>5. log \in Logs
      BY <3>2, <3>4 DEF Logs
    <3>6. QED BY <2>1, <3>1, <3>2, <3>4, <3>5
  <2>5. QED BY <2>1, <2>2, <2>3, <2>4
<1>6. CASE Flush
  <2>1. /\ sink' \subseteq sink \cup Range(buffer)
        /\ Range(buffer') \subseteq Range(buffer)
    BY <1>6, EmptyListing DEF Flush, Written
  <2>2. QED BY <2>1
<1>7. CASE Checkpoint \/ Chain \/ UNCHANGED vars
  BY <1>7 DEF Checkpoint, Chain, sinkVars, vars
<1>8. CASE Close
  <2>1. Stop(buffer)
    <3>1. Summary(run.from, run.to, run.total, run.blocks) = << >>
      BY <1>1, NoSummary
    <3>2. QED BY <1>3, <1>8, <3>1 DEF Close
  <2>2. QED BY <2>1, EmptyListing DEF Stop, Written
<1>9. CASE Fail
  BY <1>9, EmptyListing DEF Fail, Stop, Written
<1>10. CASE Kill
  <2>1. PICK n \in 0 .. Len(buffer), cut \in BOOLEAN :
            Stop(SubSeq(buffer, 1, n) \o IF cut THEN << Torn >> ELSE << >>)
    BY <1>10 DEF Kill
  <2>2. Range(SubSeq(buffer, 1, n) \o IF cut THEN << Torn >> ELSE << >>)
            \subseteq Range(buffer) \cup {Torn}
    BY <1>3, KillLeaves
  <2>3. sink' \subseteq sink \cup Range(buffer) \cup {Torn} /\ Range(buffer') = {}
    BY <2>1, <2>2, EmptyListing DEF Stop, Written
  <2>4. QED BY <2>3
<1>11. QED
  BY <1>4, <1>5, <1>6, <1>7, <1>8, <1>9, <1>10 DEF Next, Step

(* Runs that share a checkpoint and do not fail write no line twice, on    *)
(* all chains that fall back and whatever blocks they are told to scan.    *)
(* And of an event there are no two different lines, whatever fails, if    *)
(* the runs stop far enough below the head.                                *)
THEOREM EachLineOnce == Spec => []NoLineTwice
<1>1. Init => OnceInv /\ DepthInv /\ ShownInv
  BY EmptyListing DEF Init, OnceInv, DepthInv, ShownInv
<1>2. TypeInv /\ OnceInv /\ ShownInv => NoLineTwice
  <2>1. SUFFICES ASSUME TypeInv, ShownInv, Confirmed, job.format = "jsonl",
                        NEW l \in sink \ {Torn}, NEW m \in sink \ {Torn},
                        EventOf[l.key] = EventOf[m.key]
                 PROVE  l = m
    BY DEF OnceInv, NoLineTwice
  <2>2. l \in Logs /\ OnChain(l) /\ m \in Logs /\ OnChain(m)
    BY <2>1 DEF ShownInv
  <2>3. l.block = m.block /\ l.key = m.key
    BY <2>1, <2>2 DEF OnChain, TypeInv, TypeOK, ChainTypeOK
  <2>4. QED BY <2>2, <2>3 DEF Logs
<1>3. QED BY <1>1, <1>2, OnceStep, ShownStep, DepthStep, TypeInvariant, PTL DEF Spec

-----------------------------------------------------------------------------
(* Summaries.                                                              *)

Truthful(summary) ==
    LET logs == LogsIn(summary.fromBlock, summary.toBlock)
    IN  /\ summary.eventCount = Cardinality(logs)
        /\ summary.blocks = {l.block : l \in logs}

(* The run has counted what it has read.                                   *)
Counted ==
    LET logs == LogsIn(run.from, scanned)
    IN  /\ run.total = Cardinality(logs)
        /\ run.blocks = {l.block : l \in logs}

TruthInv ==
    Confirmed /\ job.format = "summary" =>
        /\ \A summary \in sink \ {Torn} :
              /\ summary.fromBlock \in Nat /\ summary.toBlock \in Nat
              /\ summary.toBlock <= Limit /\ Truthful(summary)
        /\ pc # "idle" => Counted

(* A summary of blocks that stay remains true.                             *)
LEMMA TruthKept ==
    ASSUME TypeOK, [Next]_vars, NEW summary,
           summary.fromBlock \in Nat, summary.toBlock \in Nat,
           summary.toBlock <= Limit, Truthful(summary)
    PROVE  summary.toBlock <= Limit' /\ Truthful(summary)'
<1>1. Limit \in Int /\ Limit' \in Int /\ Limit <= Limit'
  <2>1. Limit' \in Int
    BY WorldStep, Constants DEF ChainTypeOK, Limit, Larger, settled
  <2>2. QED BY <2>1, WorldStep, LimitIsNat DEF TypeOK
<1>2. LogsIn(summary.fromBlock, summary.toBlock)' = LogsIn(summary.fromBlock, summary.toBlock)
  BY WorldStep
<1>3. QED BY <1>1, <1>2 DEF Truthful

(* Nothing is on the chain between a block and an earlier one.             *)
LEMMA NoLogs ==
    ASSUME NEW from \in Int, NEW to \in Int, to < from
    PROVE  LogsIn(from, to) = {} /\ Cardinality(LogsIn(from, to)) = 0
           /\ {l.block : l \in LogsIn(from, to)} = {}
<1>1. LogsIn(from, to) = {}
  BY DEF LogsIn
<1>2. QED BY <1>1, FS_EmptySet

LEMMA CountedStep ==
    ASSUME TypeInv, TypeInv', DepthInv, [Next]_vars, Confirmed', Confirmed,
           pc # "idle" => Counted, pc' # "idle"
    PROVE  Counted'
<1>0. /\ run \in Runs /\ run.from \in Nat /\ run.next \in Nat /\ run.to \in Nat
      /\ run.chunk_end \in Nat
  BY DEF TypeInv, Runs
<1>1. CASE BeginLatest \/ BeginGiven
  <2>1. PICK to \in Nat : Begin(to)
    BY <1>1, BeginUpTo
  <2>2. /\ run'.from = FromBlock /\ run'.next = FromBlock /\ run'.total = 0
        /\ run'.blocks = {} /\ pc' = "scan" /\ chain' = chain
    BY <2>1 DEF Begin, NoRun, chainVars
  <2>3. FromBlock \in Nat /\ scanned' = FromBlock - 1
    BY <2>2, FromBlockType DEF scanned
  <2>4. LogsIn(run.from, scanned)' = {}
    BY <2>2, <2>3 DEF LogsIn
  <2>5. QED BY <2>2, <2>4, FS_EmptySet DEF Counted
<1>2. CASE Chunk
  <2>1. PICK chunk_end \in Nat, lines \in Seq(Lines) :
            /\ run.next <= chunk_end /\ chunk_end <= run.to
            /\ run' = [run EXCEPT !.chunk_end = chunk_end,
                          !.total = run.total + Cardinality(LogsIn(run.next, chunk_end)),
                          !.blocks = run.blocks \cup
                              {l.block : l \in LogsIn(run.next, chunk_end)}]
    BY <1>2, ChunkStep
  <2>2. /\ pc = "scan" /\ pc' = "flush" /\ chain' = chain
    BY <1>2 DEF Chunk, ChunkWith, chainVars
  <2>3. /\ run'.from = run.from /\ run'.chunk_end = chunk_end
        /\ run'.total = run.total + Cardinality(LogsIn(run.next, chunk_end))
        /\ run'.blocks = run.blocks \cup {l.block : l \in LogsIn(run.next, chunk_end)}
    BY <1>0, <2>1 DEF Runs
  <2>4. /\ run.total = Cardinality(LogsIn(run.from, run.next - 1))
        /\ run.blocks = {l.block : l \in LogsIn(run.from, run.next - 1)}
    BY <2>2 DEF Counted, scanned
  <2>5. run.from <= run.next /\ run.next - 1 \in Int /\ run.next - 1 + 1 = run.next
        /\ run.next - 1 <= chunk_end
    BY <1>0, <2>1, <2>2 DEF TypeInv
  <2>6. /\ LogsIn(run.from, chunk_end) =
              LogsIn(run.from, run.next - 1) \cup LogsIn(run.next, chunk_end)
        /\ Cardinality(LogsIn(run.from, chunk_end)) =
              Cardinality(LogsIn(run.from, run.next - 1)) + Cardinality(LogsIn(run.next, chunk_end))
    <3> DEFINE mid == run.next - 1
    <3>1. mid \in Int /\ mid + 1 = run.next /\ run.from <= mid + 1 /\ mid <= chunk_end
      BY <2>5
    <3> HIDE DEF mid
    <3>2. /\ LogsIn(run.from, chunk_end) =
                LogsIn(run.from, mid) \cup LogsIn(mid + 1, chunk_end)
          /\ Cardinality(LogsIn(run.from, chunk_end)) =
                Cardinality(LogsIn(run.from, mid)) + Cardinality(LogsIn(mid + 1, chunk_end))
      BY <1>0, <3>1, LogsInSplit
    <3>3. QED BY <3>1, <3>2 DEF mid
  <2>7. LogsIn(run.from, scanned)' = LogsIn(run.from, chunk_end)
    BY <2>2, <2>3 DEF LogsIn, scanned
  <2>8. /\ run'.total = Cardinality(LogsIn(run.from, chunk_end))
        /\ run'.blocks = {l.block : l \in LogsIn(run.from, chunk_end)}
    BY <2>3, <2>4, <2>6
  <2>9. QED BY <2>7, <2>8 DEF Counted
<1>3. CASE Flush \/ Checkpoint \/ Chain \/ UNCHANGED vars
  <2>1. /\ pc # "idle" /\ run'.from = run.from /\ run'.total = run.total
        /\ run'.blocks = run.blocks /\ scanned' = scanned
    <3>1. CASE Flush
      BY <3>1 DEF Flush, scanned
    <3>2. CASE Checkpoint
      <4>1. /\ pc = "checkpoint" /\ pc' \in {"scan", "close"}
            /\ run' = [run EXCEPT !.next = run.chunk_end + 1]
        BY <3>2 DEF Checkpoint
      <4>2. /\ run'.from = run.from /\ run'.total = run.total
            /\ run'.blocks = run.blocks /\ run'.next = run.chunk_end + 1
        BY <1>0, <4>1 DEF Runs
      <4>3. scanned = run.chunk_end /\ scanned' = run'.next - 1
        BY <4>1 DEF scanned
      <4>4. scanned' = scanned
        <5>1. run'.next - 1 = run.chunk_end
          BY <1>0, <4>2
        <5>2. QED BY <4>3, <5>1
      <4>5. pc # "idle"
        BY <4>1
      <4>6. QED BY <4>2, <4>4, <4>5
    <3>3. CASE Chain \/ UNCHANGED vars
      BY <3>3 DEF Chain, vars, scanned
    <3>4. QED BY <1>3, <3>1, <3>2, <3>3
  <2>2. scanned \in Int /\ scanned <= Limit
    <3>1. scanned \in Int /\ scanned <= run.to
      BY <1>0, <2>1 DEF scanned, TypeInv, TypeOK
    <3>2. run.to <= Limit /\ Limit \in Nat
      BY <2>1, LimitIsNat DEF DepthInv, TypeInv, TypeOK
    <3>3. QED BY <1>0, <3>1, <3>2
  <2>3. PICK f \in Int, n \in Int : f = run.from /\ n = scanned
    BY <1>0, <2>2
  <2>4. LogsIn(f, n)' = LogsIn(f, n)
    BY <2>2, <2>3, WorldStep DEF TypeInv
  <2>5. LogsIn(run.from, scanned)' = LogsIn(f, n)'
    BY <2>1, <2>3 DEF LogsIn
  <2>6. run.total = Cardinality(LogsIn(f, n)) /\ run.blocks = {l.block : l \in LogsIn(f, n)}
    BY <2>1, <2>3 DEF Counted
  <2>7. QED BY <2>1, <2>4, <2>5, <2>6 DEF Counted
<1>4. CASE Close \/ Fail \/ Kill
  BY <1>4 DEF Close, Fail, Kill, Stop
<1>5. QED BY <1>1, <1>2, <1>3, <1>4 DEF Next, Step

LEMMA TruthStep ==
    TypeInv /\ TypeInv' /\ DepthInv /\ TruthInv /\ [Next]_vars => TruthInv'
<1> SUFFICES ASSUME TypeInv, TypeInv', DepthInv, TruthInv, [Next]_vars,
                    Confirmed', job'.format = "summary"
             PROVE  /\ \A summary \in sink' \ {Torn} :
                          /\ summary.fromBlock \in Nat /\ summary.toBlock \in Nat
                          /\ summary.toBlock <= Limit' /\ Truthful(summary)'
                    /\ pc' # "idle" => Counted'
  BY DEF TruthInv
<1>0. job' = job /\ job.format = "summary" /\ Confirmed
  BY WorldStep, ConfirmedBefore DEF TypeInv
<1>1. pc' # "idle" => Counted'
  BY <1>0, CountedStep DEF TruthInv
<1>2. ASSUME NEW summary \in sink' \ {Torn},
             \/ summary \in sink
             \/ /\ summary.fromBlock \in Nat /\ summary.toBlock \in Nat
                /\ summary.toBlock <= Limit /\ Truthful(summary)
      PROVE  /\ summary.fromBlock \in Nat /\ summary.toBlock \in Nat
             /\ summary.toBlock <= Limit' /\ Truthful(summary)'
  <2>1. /\ summary.fromBlock \in Nat /\ summary.toBlock \in Nat
        /\ summary.toBlock <= Limit /\ Truthful(summary)
    BY <1>0, <1>2 DEF TruthInv
  <2>2. QED BY <2>1, TruthKept DEF TypeInv
<1>3. buffer = << >> /\ Range(buffer) = {}
  BY <1>0, EmptyListing DEF TypeInv
<1>4. CASE BeginLatest \/ BeginGiven
  <2>1. PICK to \in Nat : Begin(to) /\ to <= Limit
    BY <1>4, BeginUpTo
  <2>2. FromBlock \in Nat
    BY FromBlockType
  <2> DEFINE new == [fromBlock |-> FromBlock, toBlock |-> to, eventCount |-> 0, blocks |-> {}]
             lines == IF to < FromBlock THEN Summary(FromBlock, to, 0, {}) ELSE << >>
  <2>3. \/ to < FromBlock /\ lines = << new >>
        \/ lines = << >>
    BY <1>0 DEF Summary
  <2>4. sink' \subseteq sink \cup Range(lines)
    BY <2>1 DEF Begin, Written
  <2> HIDE DEF lines
  <2>5. \A summary \in Range(lines) : to < FromBlock /\ summary = new
    BY <2>3, EmptyListing DEF Range
  <2>6. to < FromBlock => Truthful(new)
    <3>1. SUFFICES ASSUME to < FromBlock PROVE Truthful(new)
      OBVIOUS
    <3>2. new.fromBlock = FromBlock /\ new.toBlock = to /\ new.eventCount = 0 /\ new.blocks = {}
      OBVIOUS
    <3> HIDE DEF new
    <3>3. QED BY <2>2, <3>1, <3>2, NoLogs DEF Truthful
  <2>7. new.fromBlock \in Nat /\ new.toBlock \in Nat /\ new.toBlock <= Limit
    BY <2>1, <2>2
  <2> HIDE DEF new
  <2>8. QED BY <1>1, <1>2, <2>4, <2>5, <2>6, <2>7
<1>5. CASE Close
  <2> DEFINE new == [fromBlock |-> run.from, toBlock |-> run.to, eventCount |-> run.total,
                     blocks |-> run.blocks]
  <2>1. pc = "close" /\ Written(buffer \o Summary(run.from, run.to, run.total, run.blocks))
    BY <1>5 DEF Close, Stop
  <2>2. Summary(run.from, run.to, run.total, run.blocks) = << new >>
    BY <1>0 DEF Summary
  <2>3. sink' = sink \cup {new}
    <3>1. << >> \o << new >> = << new >>
      OBVIOUS
    <3>2. buffer \o Summary(run.from, run.to, run.total, run.blocks) = << new >>
      BY <1>3, <2>2, <3>1
    <3> HIDE DEF new
    <3>3. Range(<< new >>) = {new}
      <4>1. DOMAIN << new >> = 1 .. 1 /\ << new >>[1] = new
        OBVIOUS
      <4>2. QED BY <4>1 DEF Range
    <3>4. QED BY <2>1, <3>2, <3>3 DEF Written
  <2>4. /\ run.from \in Nat /\ run.to \in Nat /\ run.next = run.to + 1 /\ run.to <= Limit
    BY <1>0, <2>1 DEF TypeInv, Runs, DepthInv
  <2>5. scanned = run.to
    BY <2>1, <2>4 DEF scanned
  <2>6. /\ run.total = Cardinality(LogsIn(run.from, run.to))
        /\ run.blocks = {l.block : l \in LogsIn(run.from, run.to)}
    BY <1>0, <2>1, <2>5 DEF TruthInv, Counted
  <2>7. new.fromBlock = run.from /\ new.toBlock = run.to /\ new.eventCount = run.total
        /\ new.blocks = run.blocks
    OBVIOUS
  <2> HIDE DEF new
  <2>8. QED BY <1>1, <1>2, <2>3, <2>4, <2>6, <2>7 DEF Truthful
<1>6. CASE Fail \/ Kill
  <2>1. sink' \subseteq sink \cup {Torn}
    <3>1. CASE Fail
      BY <1>3, <3>1 DEF Fail, Stop, Written
    <3>2. CASE Kill
      <4>1. PICK n \in 0 .. Len(buffer), cut \in BOOLEAN :
                Stop(SubSeq(buffer, 1, n) \o IF cut THEN << Torn >> ELSE << >>)
        BY <3>2 DEF Kill
      <4>2. n = 0 /\ SubSeq(buffer, 1, n) = << >>
        <5>1. Len(buffer) = 0
          BY <1>3
        <5>2. n = 0
          BY <5>1
        <5>3. QED BY <5>2, SubSeqEmpty
      <4>3. Range(<< >> \o IF cut THEN << Torn >> ELSE << >>) \subseteq {Torn}
        <5>1. << >> \o << Torn >> = << Torn >> /\ << >> \o << >> = << >>
          OBVIOUS
        <5>2. Range(<< Torn >>) = {Torn}
          BY DEF Range
        <5>3. QED BY <5>1, <5>2, EmptyListing
      <4>4. QED BY <4>1, <4>2, <4>3 DEF Stop, Written
    <3>3. QED BY <1>6, <3>1, <3>2
  <2>2. QED BY <1>1, <1>2, <2>1
<1>7. CASE Chunk \/ Flush \/ Checkpoint \/ Chain \/ UNCHANGED vars
  <2>1. sink' = sink
    BY <1>3, <1>7 DEF Chunk, ChunkWith, Flush, Checkpoint, Chain, Written, sinkVars, vars
  <2>2. QED BY <1>1, <1>2, <2>1
<1>8. QED BY <1>4, <1>5, <1>6, <1>7 DEF Next, Step

(* A summary counts the events of its range and names their blocks.        *)
THEOREM SummaryIsTrue == Spec => []SummaryTruthful
<1>1. Init => DepthInv /\ TruthInv
  BY DEF Init, DepthInv, TruthInv
<1>2. TruthInv => SummaryTruthful
  BY DEF TruthInv, SummaryTruthful, Truthful
<1>3. QED BY <1>1, <1>2, TruthStep, DepthStep, TypeInvariant, PTL DEF Spec
=============================================================================
