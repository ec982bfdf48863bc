-------------------------- MODULE EventStoreProofs --------------------------
(***************************************************************************)
(* Proofs about EventStore and StaticIndex, for every choice of their      *)
(* constants: that every variable keeps its type, what a single worker     *)
(* promises besides (no event twice, a checkpoint that only advances),     *)
(* what the checkpoint and the cache promise with any number of workers on *)
(* the same files, and that the index made of the cache is one of the      *)
(* chain.                                                                  *)
(***************************************************************************)
EXTENDS StaticIndex, BlockchainProofs

-----------------------------------------------------------------------------
(* The cache file.                                                         *)

(* Text written to a closed file is one more line.                         *)
LEMMA AppendRecords ==
    ASSUME NEW s \in Seq(Logs \cup {Torn}), NEW line
    PROVE  /\ Range(Append(s, line)) = Range(s) \cup {line}
           /\ Len(Append(s, line)) = Len(s) + 1
<1> DEFINE t == Append(s, line)
<1>1. /\ DOMAIN s = 1 .. Len(s) /\ DOMAIN t = 1 .. Len(s) + 1
      /\ Len(s) \in Nat /\ Len(t) = Len(s) + 1
      /\ \A i \in 1 .. Len(s) : t[i] = s[i]
      /\ t[Len(s) + 1] = line
  OBVIOUS
<1> HIDE DEF t
<1>2. \A i \in DOMAIN t : t[i] \in Range(s) \cup {line}
  BY <1>1 DEF Range
<1>3. \A i \in DOMAIN s : s[i] \in Range(t)
  BY <1>1 DEF Range
<1>4. Len(s) + 1 \in DOMAIN t
  BY <1>1
<1>5. line \in Range(t)
  BY <1>1, <1>4 DEF Range
<1>6. QED BY <1>1, <1>2, <1>3, <1>5 DEF t, Range

(* Text written to an open file spoils its last line.                      *)
LEMMA JoinRecords ==
    ASSUME NEW s \in Seq(Logs \cup {Torn}), s # << >>
    PROVE  LET t == [s EXCEPT ![Len(s)] = Torn]
           IN  /\ t \in Seq(Logs \cup {Torn}) /\ Len(t) = Len(s)
               /\ DOMAIN t = DOMAIN s
               /\ \A i \in DOMAIN s : t[i] = s[i] \/ t[i] = Torn
               /\ Torn \in Range(t)
               /\ Range(t) \subseteq Range(s) \cup {Torn}
<1> DEFINE t == [s EXCEPT ![Len(s)] = Torn]
<1>1. Len(s) \in Nat /\ Len(s) \in DOMAIN s /\ DOMAIN s = 1 .. Len(s)
  OBVIOUS
<1>2. /\ t \in Seq(Logs \cup {Torn}) /\ Len(t) = Len(s) /\ DOMAIN t = DOMAIN s
      /\ \A i \in DOMAIN s : t[i] = IF i = Len(s) THEN Torn ELSE s[i]
  BY <1>1
<1> HIDE DEF t
<1>3. Torn \in Range(t)
  BY <1>1, <1>2 DEF Range
<1>4. Range(t) \subseteq Range(s) \cup {Torn}
  BY <1>2 DEF Range
<1>5. QED BY <1>2, <1>3, <1>4 DEF t

-----------------------------------------------------------------------------
(* Type correctness.                                                       *)

Places == {"idle", "load", "scan"} \cup InPiece

InBounds(r, place) ==
    place \in InPiece => r.next <= r.chunk_end /\ r.chunk_end <= r.to

(* What TypeOK says of the workers, and of the files.                      *)
WorkersOK ==
    /\ pc \in [Workers -> Places] /\ run \in [Workers -> Runs]
    /\ \A w \in Workers : InBounds(run[w], pc[w])

FilesOK ==
    /\ cache \in Seq(Logs \cup {Torn}) /\ unended \in BOOLEAN
    /\ unended => cache # << >>
    /\ checkpoint \in Checkpoints \cup {NoCheckpoint, Torn}
    /\ tmp \in Checkpoints \cup {NoCheckpoint, Torn}
    /\ opened \in [Workers -> {"none", "tmp", "checkpoint", "lost"}]

LEMMA TypeParts ==
    /\ TypeOK => ChainTypeOK /\ FilesOK /\ WorkersOK /\ faults \in 0 .. MaxFaults
    /\ ChainTypeOK /\ FilesOK /\ WorkersOK /\ faults \in 0 .. MaxFaults => TypeOK
BY DEF TypeOK, FilesOK, WorkersOK, Places, InBounds

LEMMA NoRunTyped == NoRun \in Runs
<1>1. (CHOOSE c \in Contexts : TRUE) \in Contexts
  BY StoreAssumption
<1>2. QED BY <1>1 DEF NoRun, NewRun, Runs

LEMMA ExpectedTyped ==
    ASSUME ChainTypeOK, NEW context, NEW from, NEW to
    PROVE  /\ Expected(context, from, to) \subseteq Logs
           /\ \A log \in Expected(context, from, to) :
                 /\ log.block \in 1 .. head /\ log.block \in from .. to
                 /\ log.key \in chain[log.block] /\ log.key \in Matches[context]
<1>1. DOMAIN chain = 1 .. head /\ head \in Nat
  BY DEF ChainTypeOK, Blocks, head
<1>2. QED BY <1>1 DEF Expected, LogsIn, Logs

LEMMA TextTyped ==
    ASSUME FilesOK, NEW text \in Logs \cup {Torn}
    PROVE  /\ WithText(text) \in Seq(Logs \cup {Torn})
           /\ WithText(text) # << >>
<1>1. cache \in Seq(Logs \cup {Torn})
  BY DEF FilesOK
<1>2. CASE unended
  <2>1. cache # << >>
    BY <1>2 DEF FilesOK
  <2>2. Len(cache) # 0
    BY <1>1, <2>1
  <2>3. /\ WithText(text) = [cache EXCEPT ![Len(cache)] = Torn]
        /\ WithText(text) \in Seq(Logs \cup {Torn})
        /\ Len(WithText(text)) = Len(cache)
    BY <1>1, <1>2, <2>1, JoinRecords DEF WithText
  <2>4. QED BY <2>2, <2>3
<1>3. CASE ~unended
  <2>1. WithText(text) = Append(cache, text)
    BY <1>3 DEF WithText
  <2>2. /\ Append(cache, text) \in Seq(Logs \cup {Torn})
        /\ Len(Append(cache, text)) = Len(cache) + 1 /\ Len(cache) \in Nat
    BY <1>1
  <2>3. Append(cache, text) # << >>
    BY <2>2
  <2>4. QED BY <2>1, <2>2, <2>3
<1>4. QED BY <1>2, <1>3

(* A worker that moves to a place with a new record of its run.            *)
LEMMA Moved ==
    ASSUME WorkersOK, NEW w \in Workers, NEW r \in Runs, NEW place \in Places,
           Goto(w, place), Put(w, r), InBounds(r, place)
    PROVE  /\ WorkersOK'
           /\ pc'[w] = place /\ run'[w] = r
           /\ \A v \in Workers \ {w} : pc'[v] = pc[v] /\ run'[v] = run[v]
<1>1. /\ pc' = [pc EXCEPT ![w] = place] /\ run' = [run EXCEPT ![w] = r]
      /\ pc \in [Workers -> Places] /\ run \in [Workers -> Runs]
  BY DEF Goto, Put, WorkersOK
<1>2. /\ pc' \in [Workers -> Places] /\ run' \in [Workers -> Runs]
      /\ pc'[w] = place /\ run'[w] = r
      /\ \A v \in Workers \ {w} : pc'[v] = pc[v] /\ run'[v] = run[v]
  BY <1>1
<1>3. \A v \in Workers : InBounds(run'[v], pc'[v])
  BY <1>2 DEF WorkersOK
<1>4. QED BY <1>2, <1>3 DEF WorkersOK

LEMMA EndMoves ==
    ASSUME WorkersOK, NEW w \in Workers, End(w)
    PROVE  /\ WorkersOK'
           /\ pc'[w] = "idle" /\ run'[w] = NoRun
           /\ \A v \in Workers \ {w} : pc'[v] = pc[v] /\ run'[v] = run[v]
<1>1. Goto(w, "idle") /\ Put(w, NoRun) /\ "idle" \in Places /\ InBounds(NoRun, "idle")
  BY DEF End, Places, InBounds, InPiece
<1>2. QED BY <1>1, NoRunTyped, Moved

(* What the steps of a run make of its record.                             *)
StartedRun(context, from, checkpointing, to) ==
    NewRun(context, checkpointing, StartBlock(from, checkpointing), to)

LEMMA StartMoves ==
    ASSUME FilesOK, WorkersOK, NEW w \in Workers,
           NEW context \in Contexts, NEW from \in FromBlocks,
           NEW checkpointing \in Checkpointing, NEW to \in Nat,
           Start(w, context, from, checkpointing, to)
    PROVE  LET r == StartedRun(context, from, checkpointing, to)
           IN  /\ r \in Runs /\ Put(w, r) /\ Goto(w, "load")
               /\ checkpointing /\ checkpoint # NoCheckpoint =>
                     checkpoint \in Checkpoints /\ checkpoint.context = context
<1>1. from \in Nat /\ checkpointing \in BOOLEAN
  BY StoreAssumption
<1>2. checkpointing /\ checkpoint # NoCheckpoint =>
        checkpoint \in Checkpoints /\ checkpoint.context = context
  BY DEF Start, Acceptable, FilesOK
<1>3. StartBlock(from, checkpointing) \in Nat
  <2>1. CASE checkpointing /\ checkpoint # NoCheckpoint
    <3>1. checkpoint.last_block \in Nat
      BY <1>2, <2>1 DEF Checkpoints
    <3>2. QED BY <1>1, <2>1, <3>1 DEF StartBlock, StartAfter, Larger
  <2>2. CASE ~(checkpointing /\ checkpoint # NoCheckpoint)
    BY <1>1, <2>2 DEF StartBlock, StartAfter
  <2>3. QED BY <2>1, <2>2
<1>4. StartedRun(context, from, checkpointing, to) \in Runs
  BY <1>1, <1>3 DEF StartedRun, NewRun, Runs
<1>5. Put(w, StartedRun(context, from, checkpointing, to)) /\ Goto(w, "load")
  BY DEF Start, StartedRun
<1>6. QED BY <1>2, <1>4, <1>5

LEMMA LoadMoves ==
    ASSUME FilesOK, WorkersOK, NEW w \in Workers, LoadKeys(w)
    PROVE  \/ End(w)
           \/ /\ [run[w] EXCEPT !.known = EventKeys(cache)] \in Runs
              /\ Put(w, [run[w] EXCEPT !.known = EventKeys(cache)])
              /\ Goto(w, "scan")
<1>1. EventKeys(cache) \subseteq Keys
  BY DEF EventKeys, Records, Range, FilesOK, Logs
<1>2. run[w] \in Runs
  BY DEF WorkersOK
<1>3. [run[w] EXCEPT !.known = EventKeys(cache)] \in Runs
  BY <1>1, <1>2 DEF Runs
<1>4. QED BY <1>3 DEF LoadKeys, Load

(* The piece up to chunk_end, less the events that are known.              *)
Fresh(w, chunk_end) ==
    {log \in Expected(run[w].context, run[w].next, chunk_end) : log.key \notin run[w].known}

ScannedRun(w, chunk_end) ==
    [run[w] EXCEPT !.pending = Fresh(w, chunk_end), !.chunk_end = chunk_end,
                   !.known = run[w].known \cup {log.key : log \in Fresh(w, chunk_end)}]

LEMMA ScanMoves ==
    ASSUME ChainTypeOK, WorkersOK, NEW w \in Workers, Scan(w)
    PROVE  \E chunk_end \in Nat :
              /\ run[w].next <= chunk_end /\ chunk_end <= run[w].to
              /\ ScannedRun(w, chunk_end) \in Runs
              /\ InBounds(ScannedRun(w, chunk_end), "append")
              /\ Put(w, ScannedRun(w, chunk_end)) /\ Goto(w, "append")
<1>1. run[w] \in Runs
  BY DEF WorkersOK
<1>2. PICK chunk_end \in run[w].next .. Smaller(run[w].next + ChunkSize - 1, run[w].to) :
          Put(w, ScannedRun(w, chunk_end))
  BY DEF Scan, ScanWithin, ScannedRun, Fresh
<1>3. /\ chunk_end \in Nat /\ run[w].next <= chunk_end /\ chunk_end <= run[w].to
  <2>1. run[w].next \in Nat /\ run[w].to \in Nat
    BY <1>1 DEF Runs
  <2>2. QED BY <1>2, <2>1, StoreAssumption DEF Smaller
<1>4. Fresh(w, chunk_end) \in SUBSET Logs
  BY ExpectedTyped DEF Fresh
<1>5. run[w].known \cup {log.key : log \in Fresh(w, chunk_end)} \in SUBSET Keys
  BY <1>1, <1>4 DEF Runs, Logs
<1>6. ScannedRun(w, chunk_end) \in Runs
  BY <1>1, <1>3, <1>4, <1>5 DEF ScannedRun, Runs
<1>7. InBounds(ScannedRun(w, chunk_end), "append")
  <2>1. /\ ScannedRun(w, chunk_end).next = run[w].next
        /\ ScannedRun(w, chunk_end).to = run[w].to
        /\ ScannedRun(w, chunk_end).chunk_end = chunk_end
    BY <1>1 DEF ScannedRun, Runs
  <2>2. QED BY <1>3, <2>1 DEF InBounds
<1>8. Goto(w, "append")
  BY DEF Scan, ScanWithin
<1>9. QED BY <1>2, <1>3, <1>6, <1>7, <1>8

LEMMA TextMoves ==
    ASSUME WorkersOK, NEW w \in Workers, WriteText(w)
    PROVE  \E event \in run[w].pending :
              /\ event \in Logs /\ cache' = WithText(event) /\ unended' = TRUE
              /\ [run[w] EXCEPT !.pending = run[w].pending \ {event}] \in Runs
              /\ InBounds([run[w] EXCEPT !.pending = run[w].pending \ {event}], "newline")
              /\ Put(w, [run[w] EXCEPT !.pending = run[w].pending \ {event}])
              /\ Goto(w, "newline")
<1>1. run[w] \in Runs /\ InBounds(run[w], "append")
  BY DEF WorkersOK, WriteText
<1>2. PICK event \in run[w].pending :
          /\ cache' = WithText(event)
          /\ Put(w, [run[w] EXCEPT !.pending = run[w].pending \ {event}])
  BY DEF WriteText
<1>3. event \in Logs /\ run[w].pending \ {event} \in SUBSET Logs
  BY <1>1 DEF Runs
<1>4. [run[w] EXCEPT !.pending = run[w].pending \ {event}] \in Runs
  BY <1>1, <1>3 DEF Runs
<1>5. InBounds([run[w] EXCEPT !.pending = run[w].pending \ {event}], "newline")
  BY <1>1 DEF InBounds, InPiece, Runs
<1>6. QED BY <1>2, <1>3, <1>4, <1>5 DEF WriteText

LEMMA NextChunkMoves ==
    ASSUME WorkersOK, NEW w \in Workers, NextChunk(w)
    PROVE  \/ End(w)
           \/ /\ [run[w] EXCEPT !.next = run[w].chunk_end + 1] \in Runs
              /\ Put(w, [run[w] EXCEPT !.next = run[w].chunk_end + 1])
              /\ Goto(w, "scan")
<1>1. run[w] \in Runs /\ run[w].chunk_end + 1 \in Nat
  BY DEF WorkersOK, Runs
<1>2. [run[w] EXCEPT !.next = run[w].chunk_end + 1] \in Runs
  BY <1>1 DEF Runs
<1>3. QED BY <1>2 DEF NextChunk, GoOnAfter

(* The steps that leave the record of the run as it is.                    *)
LEMMA SameRunMoves ==
    ASSUME WorkersOK, NEW w \in Workers, NEW place \in InPiece,
           pc[w] \in InPiece, Goto(w, place), run' = run
    PROVE  /\ run[w] \in Runs /\ Put(w, run[w]) /\ place \in Places
           /\ InBounds(run[w], place)
<1>1. run \in [Workers -> Runs] /\ InBounds(run[w], pc[w])
  BY DEF WorkersOK
<1>2. run' = [run EXCEPT ![w] = run[w]]
  BY <1>1
<1>3. QED BY <1>1, <1>2 DEF Put, InBounds, Places

(* The record that fills the .tmp file.                                    *)
NewCheckpoint(w) == [context |-> run[w].context, last_block |-> run[w].chunk_end]

LEMMA FillWrites ==
    ASSUME WorkersOK, NEW w \in Workers, FillTmp(w)
    PROVE  /\ NewCheckpoint(w) \in Checkpoints
           /\ tmp' \in {tmp, NewCheckpoint(w), Torn}
           /\ checkpoint' \in {checkpoint, NewCheckpoint(w), Torn}
<1>1. run[w] \in Runs
  BY DEF WorkersOK
<1>2. NewCheckpoint(w) \in Checkpoints
  BY <1>1 DEF NewCheckpoint, Checkpoints, Runs
<1>3. QED BY <1>2 DEF FillTmp, FillTmpWith, Filled, NewCheckpoint

LEMMA PlacesKnown ==
    /\ {"idle", "load", "scan"} \subseteq Places /\ InPiece \subseteq Places
    /\ \A r : InBounds(r, "idle") /\ InBounds(r, "load") /\ InBounds(r, "scan")
    /\ {"append", "newline", "fill", "replace"} = InPiece
    /\ InPiece \cap {"idle", "load", "scan"} = {}
BY DEF Places, InPiece, InBounds

(* A step of one worker leaves the workers well typed, and the others      *)
(* where they are.                                                         *)
WorkerActs(w) == StartAny(w) \/ Step(w) \/ Crash(w) \/ TornAppend(w)

LEMMA WorkersStep ==
    ASSUME ChainTypeOK, FilesOK, WorkersOK, NEW w \in Workers, WorkerActs(w)
    PROVE  /\ WorkersOK'
           /\ \A v \in Workers \ {w} : pc'[v] = pc[v] /\ run'[v] = run[v]
<1> DEFINE Goal == /\ WorkersOK'
                   /\ \A v \in Workers \ {w} : pc'[v] = pc[v] /\ run'[v] = run[v]
<1>1. ASSUME NEW r \in Runs, NEW place \in Places, Put(w, r), Goto(w, place),
             InBounds(r, place)
      PROVE  Goal
  BY <1>1, Moved
<1>2. ASSUME End(w) PROVE Goal
  BY <1>2, EndMoves
<1> SUFFICES Goal
  OBVIOUS
<1> HIDE DEF Goal
<1>3. CASE StartAny(w)
  <2>1. PICK context \in Contexts, from \in FromBlocks, checkpointing \in Checkpointing,
             to \in 0 .. head - Confirmations : Start(w, context, from, checkpointing, to)
    BY <1>3 DEF StartAny, StartUpTo
  <2>2. to \in Nat
    BY StoreAssumption DEF ChainTypeOK, Blocks, head
  <2>3. QED BY <1>1, <2>1, <2>2, StartMoves, PlacesKnown
<1>4. CASE LoadKeys(w)
  BY <1>1, <1>2, <1>4, LoadMoves, PlacesKnown
<1>5. CASE Scan(w)
  BY <1>1, <1>5, ScanMoves, PlacesKnown
<1>6. CASE WriteText(w)
  BY <1>1, <1>6, TextMoves, PlacesKnown
<1>7. CASE WriteNewline(w)
  BY <1>1, <1>7, SameRunMoves, PlacesKnown DEF WriteNewline
<1>8. CASE NoCheckpointing(w)
  BY <1>1, <1>2, <1>8, NextChunkMoves, PlacesKnown DEF NoCheckpointing
<1>9. CASE OpenTmp(w)
  BY <1>1, <1>9, SameRunMoves, PlacesKnown DEF OpenTmp
<1>10. CASE FillTmp(w)
  BY <1>1, <1>10, SameRunMoves, PlacesKnown DEF FillTmp, FillTmpWith
<1>11. CASE ReplaceTmp(w)
  BY <1>1, <1>2, <1>11, NextChunkMoves, PlacesKnown DEF ReplaceTmp
<1>12. CASE Crash(w) \/ TornAppend(w)
  BY <1>2, <1>12 DEF Crash, TornAppend
<1>13. QED
  BY <1>3, <1>4, <1>5, <1>6, <1>7, <1>8, <1>9, <1>10, <1>11, <1>12 DEF WorkerActs, Step
LEMMA FilesStep ==
    ASSUME ChainTypeOK, FilesOK, WorkersOK, NEW w \in Workers, WorkerActs(w)
    PROVE  FilesOK'
<1> DEFINE Handles == [Workers -> {"none", "tmp", "checkpoint", "lost"}]
           Contents == Checkpoints \cup {NoCheckpoint, Torn}
           CacheKept == cache' = cache /\ (unended' = unended \/ unended' = FALSE)
           OneWritten == \E place \in {"none", "tmp"} : opened' = [opened EXCEPT ![w] = place]
           CheckpointKept == checkpoint' = checkpoint /\ tmp' = tmp /\ opened' = opened
<1>1. opened \in Handles /\ checkpoint \in Contents /\ tmp \in Contents
  BY DEF FilesOK
<1>2. CacheKept => /\ cache' \in Seq(Logs \cup {Torn}) /\ unended' \in BOOLEAN
                   /\ unended' => cache' # << >>
  <2>1. CASE unended' = unended
    BY <2>1 DEF FilesOK
  <2>2. CASE unended' = FALSE
    BY <2>2 DEF FilesOK
  <2>3. QED BY <2>1, <2>2
<1>3. OneWritten => opened' \in Handles
  BY <1>1
<1>4. CASE StartAny(w) \/ LoadKeys(w) \/ Scan(w) \/ WriteNewline(w) \/ NoCheckpointing(w)
  <2>1. CacheKept /\ CheckpointKept
    BY <1>4 DEF StartAny, StartUpTo, Start, LoadKeys, Load, Scan, ScanWithin,
                WriteNewline, NoCheckpointing, cacheVars, checkpointVars
  <2>2. QED BY <1>1, <1>2, <2>1 DEF FilesOK
<1>5. CASE WriteText(w) \/ TornAppend(w)
  <2>1. /\ \E text \in Logs \cup {Torn} : cache' = WithText(text)
        /\ unended' = TRUE /\ CheckpointKept
    BY <1>5, TextMoves DEF WriteText, TornAppend, checkpointVars
  <2>2. QED BY <1>1, <2>1, TextTyped DEF FilesOK
<1>6. CASE OpenTmp(w) \/ Crash(w)
  <2>1. /\ CacheKept /\ OneWritten /\ checkpoint' = checkpoint /\ tmp' \in {tmp, Torn}
    BY <1>6 DEF OpenTmp, Crash, cacheVars
  <2>2. QED BY <1>1, <1>2, <1>3, <2>1 DEF FilesOK
<1>7. CASE FillTmp(w)
  <2>1. CacheKept /\ OneWritten
    BY <1>7 DEF FillTmp, FillTmpWith, cacheVars
  <2>2. checkpoint' \in Contents /\ tmp' \in Contents
    BY <1>1, <1>7, FillWrites
  <2>3. QED BY <1>2, <1>3, <2>1, <2>2 DEF FilesOK
<1>8. CASE ReplaceTmp(w)
  <2>1. CacheKept
    BY <1>8 DEF ReplaceTmp, cacheVars
  <2>2. CASE tmp = NoCheckpoint
    BY <1>1, <1>2, <1>8, <2>1, <2>2 DEF ReplaceTmp, checkpointVars, FilesOK
  <2>3. CASE tmp # NoCheckpoint
    <3>1. /\ checkpoint' = tmp /\ tmp' = NoCheckpoint
          /\ opened' = [v \in Workers |-> Renamed(opened[v])]
      BY <1>8, <2>3 DEF ReplaceTmp
    <3>2. opened' \in Handles
      BY <1>1, <3>1 DEF Renamed
    <3>3. QED BY <1>1, <1>2, <2>1, <3>1, <3>2 DEF FilesOK
  <2>4. QED BY <2>2, <2>3
<1>9. QED BY <1>4, <1>5, <1>6, <1>7, <1>8 DEF WorkerActs, Step

(* A worker leaves the chain alone and counts a fault only below MaxFaults. *)
LEMMA WorkerLeaves ==
    ASSUME NEW w \in Workers, WorkerActs(w)
    PROVE  UNCHANGED chainVars /\ (faults' = faults \/ Fault)
BY DEF WorkerActs, Step, StartAny, StartUpTo, Start, LoadKeys, Load, Scan, ScanWithin,
       WriteText, WriteNewline, NoCheckpointing, OpenTmp, FillTmp, FillTmpWith, ReplaceTmp,
       Crash, TornAppend, chainVars

LEMMA SameChain == ChainTypeOK /\ UNCHANGED chainVars => ChainTypeOK'
BY DEF chainVars, ChainTypeOK, Blocks, head, settled

LEMMA FaultsCounted ==
    ASSUME faults \in 0 .. MaxFaults, faults' = faults \/ Fault
    PROVE  faults' \in 0 .. MaxFaults
BY StoreAssumption DEF Fault

LEMMA TypeStep == TypeOK /\ [Next]_vars => TypeOK'
<1> SUFFICES ASSUME TypeOK, [Next]_vars PROVE TypeOK'
  OBVIOUS
<1>0. ChainTypeOK /\ FilesOK /\ WorkersOK /\ faults \in 0 .. MaxFaults
  BY TypeParts
<1>1. CASE \E w \in Workers : WorkerActs(w)
  <2>1. ChainTypeOK' /\ faults' \in 0 .. MaxFaults
    BY <1>0, <1>1, WorkerLeaves, SameChain, FaultsCounted
  <2>2. FilesOK' /\ WorkersOK'
    BY <1>0, <1>1, WorkersStep, FilesStep
  <2>3. QED BY <2>1, <2>2 DEF TypeOK, FilesOK, WorkersOK, Places, InBounds
<1>2. CASE Chain
  <2>1. ChainTypeOK' /\ faults' \in 0 .. MaxFaults
    BY <1>0, <1>2, ChainStep, FaultsCounted DEF Chain
  <2>2. FilesOK' /\ WorkersOK'
    BY <1>0, <1>2 DEF Chain, Stores, cacheVars, checkpointVars, FilesOK, WorkersOK
  <2>3. QED BY <2>1, <2>2 DEF TypeOK, FilesOK, WorkersOK, Places, InBounds
<1>3. CASE UNCHANGED vars
  <2>1. ChainTypeOK' /\ faults' \in 0 .. MaxFaults
    BY <1>0, <1>3, SameChain DEF vars
  <2>2. FilesOK' /\ WorkersOK'
    BY <1>0, <1>3 DEF vars, cacheVars, checkpointVars, FilesOK, WorkersOK
  <2>3. QED BY <2>1, <2>2 DEF TypeOK, FilesOK, WorkersOK, Places, InBounds
<1>4. QED BY <1>1, <1>2, <1>3 DEF Next, WorkerActs

LEMMA TypeInit == Init => TypeOK
<1> SUFFICES ASSUME Init PROVE TypeOK
  OBVIOUS
<1>1. ChainTypeOK
  <2>1. chain = << >> /\ tip = 0 /\ head = 0 /\ DOMAIN chain = {}
    BY DEF Init, ChainInit, head
  <2>2. settled <= head /\ head <= tip /\ tip \in 0 .. MaxBlock
    BY <2>1, DepthIsNat DEF settled
  <2>3. chain \in Seq(SUBSET Keys)
    BY <2>1
  <2>4. QED BY <2>1, <2>2, <2>3 DEF ChainTypeOK, Blocks
<1>2. WorkersOK
  BY NoRunTyped, PlacesKnown DEF Init, WorkersOK
<1>3. faults \in 0 .. MaxFaults
  BY StoreAssumption DEF Init
<1>4. FilesOK
  <2>1. cache = << >> /\ unended = FALSE /\ checkpoint = NoCheckpoint
        /\ tmp = NoCheckpoint /\ opened = [w \in Workers |-> "none"]
    BY DEF Init
  <2>2. ~unended /\ unended \in BOOLEAN
    BY <2>1, Zenon
  <2>3. cache \in Seq(Logs \cup {Torn})
    BY <2>1
  <2>4. opened \in [Workers -> {"none", "tmp", "checkpoint", "lost"}]
    BY <2>1
  <2>5. QED BY <2>1, <2>2, <2>3, <2>4, Zenon DEF FilesOK
<1>5. QED BY <1>1, <1>2, <1>3, <1>4, TypeParts

(* Every variable keeps its type, for any number of workers on the same    *)
(* files: text of one run may spoil another's line or checkpoint, but only *)
(* into something a later run refuses to read.                             *)
THEOREM TypeCorrect == Spec => []TypeOK
BY TypeInit, TypeStep, PTL DEF Spec

-----------------------------------------------------------------------------
(***************************************************************************)
(* A single worker, for all chains, contexts, chunk sizes and faults.      *)
(* Neither invariant needs confirmations.                                  *)
(*                                                                         *)
(* No key twice: OnceInv relates the cache to what the run in progress     *)
(* takes for known.  Every key of the cache is known, and what is pending  *)
(* is known by now, but not in the cache, and pending once (PendingNew).   *)
(* That no event is there twice under two keys needs the truth of the      *)
(* cache, so the theorem comes after it.                                   *)
(*                                                                         *)
(* The checkpoint advances: MoveInv says that a run which keeps one works  *)
(* on blocks after it (Behind), and that the .tmp file holds what the run  *)
(* has put there, as nobody else opens or renames it (TmpOwn).             *)
(***************************************************************************)

Once(lines) ==
    \A i, j \in DOMAIN lines :
        lines[i] # Torn /\ lines[j] # Torn /\ lines[i].key = lines[j].key => i = j

PendingNew(r) ==
    /\ \A p \in r.pending : p.key \in r.known /\ p.key \notin EventKeys(cache)
    /\ \A p, q \in r.pending : p.key = q.key => p = q

RunOnce(r, place) ==
    /\ place = "load" => r.pending = {}
    /\ place \in {"scan"} \cup InPiece => EventKeys(cache) \subseteq r.known /\ PendingNew(r)

OnceInv == Once(cache) /\ \A w \in Workers : RunOnce(run[w], pc[w])

-----------------------------------------------------------------------------
(* Text written to the file adds no key but its own, and repeats none.     *)
LEMMA TextOnce ==
    ASSUME FilesOK, Once(cache), NEW text \in Logs \cup {Torn},
           text # Torn => text.key \notin EventKeys(cache)
    PROVE  /\ Once(WithText(text))
           /\ EventKeys(WithText(text)) \subseteq
                 EventKeys(cache) \cup {r.key : r \in {text} \ {Torn}}
<1>1. cache \in Seq(Logs \cup {Torn})
  BY DEF FilesOK
<1>2. CASE unended
  <2> DEFINE t == [cache EXCEPT ![Len(cache)] = Torn]
  <2>1. cache # << >> /\ WithText(text) = t
    BY <1>2 DEF FilesOK, WithText
  <2>2. /\ DOMAIN t = DOMAIN cache /\ Range(t) \subseteq Range(cache) \cup {Torn}
        /\ \A i \in DOMAIN cache : t[i] = cache[i] \/ t[i] = Torn
    BY <1>1, <2>1, JoinRecords
  <2> HIDE DEF t
  <2>3. Once(t)
    BY <2>2 DEF Once
  <2>4. EventKeys(t) \subseteq EventKeys(cache)
    BY <2>2 DEF EventKeys, Records
  <2>5. QED BY <2>1, <2>3, <2>4
<1>3. CASE ~unended
  <2> DEFINE t == Append(cache, text)
  <2>1. WithText(text) = t
    BY <1>3 DEF WithText
  <2>2. /\ DOMAIN cache = 1 .. Len(cache) /\ DOMAIN t = 1 .. Len(cache) + 1
        /\ Len(cache) \in Nat /\ t[Len(cache) + 1] = text
        /\ \A i \in 1 .. Len(cache) : t[i] = cache[i]
    BY <1>1
  <2>3. Range(t) = Range(cache) \cup {text}
    BY <1>1, AppendRecords
  <2> HIDE DEF t
  <2>4. \A i \in DOMAIN cache : cache[i] # Torn => cache[i].key \in EventKeys(cache)
    BY DEF EventKeys, Records, Range
  <2>5. \A i \in DOMAIN t : i \in DOMAIN cache \/ i = Len(cache) + 1
    BY <2>2
  <2>6. Once(t)
    BY <2>2, <2>4, <2>5 DEF Once
  <2>7. EventKeys(t) \subseteq EventKeys(cache) \cup {r.key : r \in {text} \ {Torn}}
    BY <2>3 DEF EventKeys, Records
  <2>8. QED BY <2>1, <2>6, <2>7
<1>4. QED BY <1>2, <1>3

(* A chain has an event once, so a piece of it has each key once.          *)
LEMMA PieceOnce ==
    ASSUME ChainTypeOK, NEW context, NEW from, NEW to,
           NEW p \in Expected(context, from, to), NEW q \in Expected(context, from, to),
           p.key = q.key
    PROVE  p = q
<1>1. p.block \in DOMAIN chain /\ q.block \in DOMAIN chain
  BY DEF Expected, LogsIn
<1>2. p.key \in chain[p.block] /\ q.key \in chain[q.block]
  BY DEF Expected, LogsIn
<1>3. p.block = q.block
  BY <1>1, <1>2 DEF ChainTypeOK
<1>4. QED BY <1>3 DEF Expected, LogsIn

-----------------------------------------------------------------------------
(* The steps of the worker that leave the cache alone.                     *)
LEMMA EndOnce ==
    ASSUME NEW w \in Workers, WorkersOK, End(w)
    PROVE  RunOnce(run[w], pc[w])'
BY DEF End, Goto, Put, WorkersOK, RunOnce, NoRun, NewRun, InPiece

LEMMA NextChunkOnce ==
    ASSUME NEW w \in Workers, WorkersOK, RunOnce(run[w], pc[w]), pc[w] \in InPiece,
           cache' = cache, NextChunk(w)
    PROVE  RunOnce(run[w], pc[w])'
<1>1. CASE End(w)
  BY <1>1, EndOnce
<1>2. CASE Goto(w, "scan") /\ Put(w, [run[w] EXCEPT !.next = run[w].chunk_end + 1])
  <2>1. pc'[w] = "scan" /\ run'[w].known = run[w].known /\ run'[w].pending = run[w].pending
    BY <1>2 DEF Goto, Put, WorkersOK, Runs
  <2>2. QED BY <2>1 DEF RunOnce, PendingNew, InPiece, EventKeys
<1>3. QED BY <1>1, <1>2 DEF NextChunk, GoOnAfter

LEMMA LoadOnce ==
    ASSUME NEW w \in Workers, WorkersOK, RunOnce(run[w], pc[w]), LoadKeys(w)
    PROVE  RunOnce(run[w], pc[w])'
<1>1. pc[w] = "load" /\ cache' = cache
  BY DEF LoadKeys, Load, cacheVars
<1>2. CASE End(w)
  BY <1>2, EndOnce
<1>3. CASE Goto(w, "scan") /\ Put(w, [run[w] EXCEPT !.known = EventKeys(cache)])
  <2>1. pc'[w] = "scan" /\ run'[w].known = EventKeys(cache) /\ run'[w].pending = {}
    BY <1>1, <1>3 DEF Goto, Put, WorkersOK, Runs, RunOnce
  <2>2. QED BY <1>1, <2>1 DEF RunOnce, PendingNew, EventKeys
<1>4. QED BY <1>2, <1>3 DEF LoadKeys, Load

LEMMA ScanOnce ==
    ASSUME NEW w \in Workers, WorkersOK, ChainTypeOK, RunOnce(run[w], pc[w]), Scan(w)
    PROVE  RunOnce(run[w], pc[w])'
<1>1. pc[w] = "scan" /\ cache' = cache /\ pc' = [pc EXCEPT ![w] = "append"]
  BY DEF Scan, ScanWithin, Goto, cacheVars
<1> DEFINE events(to) == {log \in Expected(run[w].context, run[w].next, to) :
                             log.key \notin run[w].known}
<1>2. PICK to : Put(w, [run[w] EXCEPT !.pending = events(to), !.chunk_end = to,
                                      !.known = @ \cup {log.key : log \in events(to)}])
  BY DEF Scan, ScanWithin
<1>3. /\ pc'[w] = "append" /\ run'[w].pending = events(to)
      /\ run'[w].known = run[w].known \cup {log.key : log \in events(to)}
  BY <1>1, <1>2 DEF Put, WorkersOK, Runs
<1>4. EventKeys(cache) \subseteq run[w].known
  BY <1>1 DEF RunOnce
<1>5. \A p, q \in events(to) : p.key = q.key => p = q
  BY PieceOnce
<1>6. QED BY <1>1, <1>3, <1>4, <1>5 DEF RunOnce, PendingNew, EventKeys

-----------------------------------------------------------------------------
(* The steps that write to the cache.                                      *)
LEMMA WriteOnce ==
    ASSUME NEW w \in Workers, WorkersOK, FilesOK, Once(cache), RunOnce(run[w], pc[w]),
           WriteText(w)
    PROVE  Once(cache') /\ RunOnce(run[w], pc[w])'
<1>1. PICK event \in run[w].pending :
         /\ cache' = WithText(event)
         /\ Put(w, [run[w] EXCEPT !.pending = @ \ {event}])
  BY DEF WriteText
<1>2. pc[w] = "append" /\ pc' = [pc EXCEPT ![w] = "newline"]
  BY DEF WriteText, Goto
<1>3. /\ pc'[w] = "newline" /\ run'[w].known = run[w].known
      /\ run'[w].pending = run[w].pending \ {event}
  BY <1>1, <1>2 DEF Put, WorkersOK, Runs
<1>4. EventKeys(cache) \subseteq run[w].known /\ PendingNew(run[w])
  BY <1>2 DEF RunOnce, InPiece
<1>5. event \in Logs /\ event # Torn
  BY StoreAssumption DEF WorkersOK, Runs
<1>6. event.key \in run[w].known /\ event.key \notin EventKeys(cache)
  BY <1>4 DEF PendingNew
<1>7. Once(cache') /\ EventKeys(cache') \subseteq EventKeys(cache) \cup {event.key}
  BY <1>1, <1>5, <1>6, TextOnce
<1>8. RunOnce(run[w], pc[w])'
  <2>1. EventKeys(cache') \subseteq run'[w].known
    BY <1>3, <1>4, <1>6, <1>7
  <2>2. \A p \in run'[w].pending : p.key \in run'[w].known /\ p.key \notin EventKeys(cache')
    BY <1>3, <1>4, <1>7 DEF PendingNew
  <2>3. \A p, q \in run'[w].pending : p.key = q.key => p = q
    BY <1>3, <1>4 DEF PendingNew
  <2>4. QED BY <1>3, <2>1, <2>2, <2>3 DEF RunOnce, PendingNew
<1>9. QED BY <1>7, <1>8

LEMMA TornOnce ==
    ASSUME NEW w \in Workers, WorkersOK, FilesOK, Once(cache), TornAppend(w)
    PROVE  Once(cache') /\ RunOnce(run[w], pc[w])'
BY TextOnce, EndOnce DEF TornAppend

-----------------------------------------------------------------------------
LEMMA StepOnce ==
    ASSUME NEW w, Workers = {w}, TypeOK, OnceInv, [Next]_vars
    PROVE  OnceInv'
<1> USE DEF OnceInv
<1>1. FilesOK /\ WorkersOK /\ ChainTypeOK /\ w \in Workers /\ RunOnce(run[w], pc[w])
  BY TypeParts
<1>2. SUFFICES Once(cache') /\ RunOnce(run[w], pc[w])'
  BY DEF RunOnce
<1>3. ASSUME UNCHANGED <<cache, pc, run>> PROVE Once(cache') /\ RunOnce(run[w], pc[w])'
  BY <1>1, <1>3 DEF RunOnce, PendingNew, EventKeys
<1>4. CASE Chain \/ UNCHANGED vars
  BY <1>3, <1>4 DEF Chain, Stores, cacheVars, vars
<1>5. CASE StartAny(w)
  <2>1. PICK context \in Contexts, from \in FromBlocks, checkpointing \in Checkpointing,
             to \in 0 .. head - Confirmations : Start(w, context, from, checkpointing, to)
    BY <1>5 DEF StartAny, StartUpTo
  <2>2. cache' = cache /\ pc'[w] = "load" /\ run'[w].pending = {}
    BY <1>1, <2>1 DEF Start, Goto, Put, NewRun, WorkersOK, cacheVars
  <2>3. QED BY <1>1, <2>2 DEF RunOnce, InPiece
<1>6. CASE LoadKeys(w)
  BY <1>1, <1>6, LoadOnce DEF LoadKeys, Load, cacheVars
<1>7. CASE Scan(w)
  BY <1>1, <1>7, ScanOnce DEF Scan, ScanWithin, cacheVars
<1>8. CASE WriteText(w)
  BY <1>1, <1>8, WriteOnce
<1>9. CASE WriteNewline(w) \/ OpenTmp(w) \/ FillTmp(w)
  <2>1. /\ cache' = cache /\ run' = run /\ pc[w] \in InPiece
        /\ pc'[w] \in {"append", "fill", "replace"}
    BY <1>1, <1>9 DEF WriteNewline, OpenTmp, FillTmp, FillTmpWith, Goto, WorkersOK,
                      cacheVars, InPiece
  <2>2. QED BY <1>1, <2>1 DEF RunOnce, PendingNew, EventKeys, InPiece
<1>10. CASE NoCheckpointing(w) \/ ReplaceTmp(w)
  <2>1. cache' = cache /\ pc[w] \in InPiece /\ (End(w) \/ NextChunk(w))
    BY <1>10 DEF NoCheckpointing, ReplaceTmp, cacheVars, InPiece
  <2>2. QED BY <1>1, <2>1, EndOnce, NextChunkOnce
<1>11. CASE Crash(w)
  BY <1>1, <1>11, EndOnce DEF Crash, cacheVars
<1>12. CASE TornAppend(w)
  BY <1>1, <1>12, TornOnce
<1>13. QED
  BY <1>4, <1>5, <1>6, <1>7, <1>8, <1>9, <1>10, <1>11, <1>12 DEF Next, Step

LEMMA InitOnce == Init => OnceInv
BY DEF Init, OnceInv, Once, RunOnce, InPiece

-----------------------------------------------------------------------------
(* The checkpoint.                                                         *)

Behind(r, place) ==
    (place # "idle" /\ r.checkpointing /\ checkpoint # NoCheckpoint) =>
        checkpoint.context = r.context /\ checkpoint.last_block < r.next

TmpOwn(r, place, file) ==
    /\ file = IF place = "fill" THEN "tmp" ELSE "none"
    /\ place \in {"fill", "replace"} => r.checkpointing
    /\ place = "fill" => tmp = Torn
    /\ place = "replace" => tmp = [context |-> r.context, last_block |-> r.chunk_end]

MoveInv ==
    /\ checkpoint # Torn
    /\ \A w \in Workers : Behind(run[w], pc[w]) /\ TmpOwn(run[w], pc[w], opened[w])

(* What holds of a worker after a step, and of the checkpoint over it.     *)
Moves(w) ==
    /\ checkpoint' # Torn
    /\ Behind(run[w], pc[w])'
    /\ TmpOwn(run[w], pc[w], opened[w])'
    /\ CheckpointMoves

LEMMA SameCheckpoint ==
    ASSUME FilesOK, checkpoint # Torn, checkpoint' = checkpoint
    PROVE  CheckpointMoves
<1>1. checkpoint # NoCheckpoint => checkpoint \in Checkpoints /\ checkpoint.last_block \in Nat
  BY DEF FilesOK, Checkpoints
<1>2. QED BY <1>1 DEF CheckpointMoves

LEMMA EndKeepsCheckpoint ==
    ASSUME NEW w \in Workers, WorkersOK, FilesOK, MoveInv, End(w),
           checkpoint' = checkpoint, opened'[w] = "none"
    PROVE  Moves(w)
<1>1. pc'[w] = "idle"
  BY DEF End, Goto, WorkersOK
<1>2. QED BY <1>1, SameCheckpoint DEF Moves, MoveInv, Behind, TmpOwn

(* A step that leaves the files of the checkpoint alone, and keeps the run *)
(* on the blocks it works on.                                              *)
LEMMA SameFiles ==
    ASSUME NEW w \in Workers, FilesOK, MoveInv, UNCHANGED checkpointVars,
           pc[w] \notin {"fill", "replace"}, pc'[w] \notin {"fill", "replace"},
           Behind(run[w], pc[w])'
    PROVE  Moves(w)
BY SameCheckpoint DEF Moves, MoveInv, TmpOwn, checkpointVars

LEMMA StartKeepsCheckpoint ==
    ASSUME NEW w \in Workers, WorkersOK, FilesOK, MoveInv, StartAny(w)
    PROVE  Moves(w)
<1>1. PICK context \in Contexts, from \in FromBlocks, checkpointing \in Checkpointing,
           to \in 0 .. head - Confirmations : Start(w, context, from, checkpointing, to)
  BY DEF StartAny, StartUpTo
<1>2. /\ pc[w] = "idle" /\ pc'[w] = "load"
      /\ run'[w] = NewRun(context, checkpointing, StartBlock(from, checkpointing), to)
  BY <1>1 DEF Start, Goto, Put, WorkersOK
<1>3. UNCHANGED checkpointVars /\ (checkpointing => Acceptable(context))
  BY <1>1 DEF Start
<1>4. Behind(run[w], pc[w])'
  <2>0. /\ run'[w].context = context /\ run'[w].checkpointing = checkpointing
        /\ run'[w].next = StartBlock(from, checkpointing)
        /\ checkpoint' = checkpoint
    BY <1>2, <1>3 DEF NewRun, checkpointVars
  <2>1. SUFFICES ASSUME checkpointing, checkpoint # NoCheckpoint
                 PROVE  checkpoint.context = context
                        /\ checkpoint.last_block < StartBlock(from, checkpointing)
    BY <2>0, Zenon DEF Behind
  <2>2. checkpoint.last_block \in Nat /\ from \in Nat
    BY <2>1, StoreAssumption DEF FilesOK, MoveInv, Checkpoints
  <2>3. QED BY <1>3, <2>1, <2>2 DEF Acceptable, StartBlock, StartAfter, Larger
<1>5. QED BY <1>2, <1>3, <1>4, SameFiles

LEMMA RunKeepsCheckpoint ==
    ASSUME NEW w \in Workers, WorkersOK, FilesOK, MoveInv,
           LoadKeys(w) \/ Scan(w) \/ WriteText(w) \/ WriteNewline(w)
    PROVE  Moves(w)
<1>1. UNCHANGED checkpointVars /\ pc[w] \notin {"idle", "fill", "replace"}
  BY DEF LoadKeys, Load, Scan, ScanWithin, WriteText, WriteNewline
<1>2. CASE End(w)
  BY <1>1, <1>2, EndKeepsCheckpoint DEF MoveInv, TmpOwn, checkpointVars
<1>3. CASE ~End(w)
  <2>1. /\ run'[w].checkpointing = run[w].checkpointing /\ run'[w].next = run[w].next
        /\ run'[w].context = run[w].context
        /\ pc'[w] \notin {"idle", "fill", "replace"}
    <3>1. CASE LoadKeys(w)
      BY <1>3, <3>1 DEF LoadKeys, Load, Goto, Put, WorkersOK, Runs
    <3>2. CASE Scan(w)
      <4>1. PICK events, to, known :
               Put(w, [run[w] EXCEPT !.pending = events, !.chunk_end = to, !.known = known])
        BY <3>2 DEF Scan, ScanWithin
      <4>2. Goto(w, "append")
        BY <3>2 DEF Scan, ScanWithin
      <4>3. QED BY <4>1, <4>2 DEF Goto, Put, WorkersOK, Runs
    <3>3. CASE WriteText(w)
      BY <3>3 DEF WriteText, Goto, Put, WorkersOK, Runs
    <3>4. CASE WriteNewline(w)
      BY <3>4 DEF WriteNewline, Goto, WorkersOK
    <3>5. QED BY <3>1, <3>2, <3>3, <3>4
  <2>2. Behind(run[w], pc[w])'
    BY <1>1, <2>1 DEF Behind, MoveInv, checkpointVars
  <2>3. QED BY <1>1, <2>1, <2>2, SameFiles
<1>4. QED BY <1>2, <1>3

LEMMA NoCheckpointingKeepsCheckpoint ==
    ASSUME NEW w \in Workers, WorkersOK, FilesOK, MoveInv, NoCheckpointing(w)
    PROVE  Moves(w)
<1>1. UNCHANGED checkpointVars /\ pc[w] = "append" /\ ~run[w].checkpointing
  BY DEF NoCheckpointing
<1>2. CASE End(w)
  BY <1>1, <1>2, EndKeepsCheckpoint DEF MoveInv, TmpOwn, checkpointVars
<1>3. CASE Goto(w, "scan") /\ Put(w, [run[w] EXCEPT !.next = run[w].chunk_end + 1])
  <2>1. pc'[w] = "scan" /\ ~run'[w].checkpointing
    BY <1>1, <1>3 DEF Goto, Put, WorkersOK, Runs
  <2>2. QED BY <1>1, <2>1, SameFiles DEF Behind
<1>4. QED BY <1>2, <1>3 DEF NoCheckpointing, NextChunk, GoOnAfter

LEMMA OpenKeepsCheckpoint ==
    ASSUME NEW w \in Workers, WorkersOK, FilesOK, MoveInv, OpenTmp(w)
    PROVE  Moves(w)
<1>1. /\ pc[w] = "append" /\ pc'[w] = "fill" /\ run' = run /\ run[w].checkpointing
      /\ tmp' = Torn /\ checkpoint' = checkpoint /\ opened'[w] = "tmp"
  BY DEF OpenTmp, Goto, WorkersOK, FilesOK
<1>2. QED BY <1>1, SameCheckpoint DEF Moves, MoveInv, Behind, TmpOwn

LEMMA FillKeepsCheckpoint ==
    ASSUME NEW w \in Workers, WorkersOK, FilesOK, MoveInv, FillTmp(w)
    PROVE  Moves(w)
<1>1. pc[w] = "fill" /\ opened[w] = "tmp" /\ tmp = Torn /\ run[w].checkpointing
  BY DEF FillTmp, FillTmpWith, MoveInv, TmpOwn
<1>2. /\ pc'[w] = "replace" /\ run' = run /\ opened'[w] = "none"
      /\ checkpoint' = checkpoint
      /\ tmp' = [context |-> run[w].context, last_block |-> run[w].chunk_end]
  BY <1>1 DEF FillTmp, FillTmpWith, Filled, Goto, WorkersOK, FilesOK
<1>3. QED BY <1>1, <1>2, SameCheckpoint DEF Moves, MoveInv, Behind, TmpOwn

(* The checkpoint names the last block of the piece, the run goes on with  *)
(* the one after it.                                                       *)
LEMMA ReplaceMovesCheckpoint ==
    ASSUME NEW w \in Workers, WorkersOK, FilesOK, MoveInv, ReplaceTmp(w)
    PROVE  Moves(w)
<1>1. /\ pc[w] = "replace" /\ opened[w] = "none" /\ run[w].checkpointing
      /\ tmp = [context |-> run[w].context, last_block |-> run[w].chunk_end]
  BY DEF ReplaceTmp, MoveInv, TmpOwn
<1>2. /\ run[w] \in Runs /\ run[w].chunk_end \in Nat /\ run[w].next \in Nat
      /\ run[w].next <= run[w].chunk_end
  BY <1>1 DEF WorkersOK, InBounds, InPiece, Runs
<1>3. tmp \in Checkpoints /\ tmp # NoCheckpoint /\ tmp # Torn
  BY <1>1, <1>2, StoreAssumption DEF Runs, Checkpoints
<1>4. checkpoint' = tmp /\ NextChunk(w) /\ opened'[w] = "none"
  BY <1>1, <1>3 DEF ReplaceTmp, Renamed
<1>5. CheckpointMoves
  <2>1. SUFFICES ASSUME checkpoint # NoCheckpoint
                 PROVE  /\ tmp.context = checkpoint.context
                        /\ tmp.last_block >= checkpoint.last_block
    BY <1>3, <1>4 DEF CheckpointMoves
  <2>2. checkpoint.context = run[w].context /\ checkpoint.last_block < run[w].next
    BY <1>1, <2>1 DEF MoveInv, Behind
  <2>3. checkpoint.last_block \in Nat
    BY <2>1 DEF FilesOK, MoveInv, Checkpoints
  <2>4. QED BY <1>1, <1>2, <2>2, <2>3
<1>6. CASE End(w)
  <2>1. pc'[w] = "idle"
    BY <1>6 DEF End, Goto, WorkersOK
  <2>2. QED BY <1>3, <1>4, <1>5, <2>1 DEF Moves, Behind, TmpOwn
<1>7. CASE Goto(w, "scan") /\ Put(w, [run[w] EXCEPT !.next = run[w].chunk_end + 1])
  <2>1. /\ pc'[w] = "scan" /\ run'[w].next = run[w].chunk_end + 1
        /\ run'[w].context = run[w].context
    BY <1>7 DEF Goto, Put, WorkersOK, Runs
  <2>2. checkpoint'.context = run'[w].context /\ checkpoint'.last_block < run'[w].next
    BY <1>1, <1>2, <1>4, <2>1
  <2>3. QED BY <1>3, <1>4, <1>5, <2>1, <2>2 DEF Moves, Behind, TmpOwn
<1>8. QED BY <1>4, <1>6, <1>7 DEF NextChunk, GoOnAfter

LEMMA StepMoves ==
    ASSUME NEW w, Workers = {w}, TypeOK, MoveInv, [Next]_vars
    PROVE  MoveInv' /\ [CheckpointMoves]_vars
<1>1. FilesOK /\ WorkersOK /\ w \in Workers
  BY TypeParts
<1>2. SUFFICES Moves(w)
  BY DEF Moves, MoveInv
<1>3. CASE Chain \/ UNCHANGED vars
  <2>1. UNCHANGED <<checkpoint, tmp, opened, pc, run>>
    BY <1>3 DEF Chain, Stores, checkpointVars, vars
  <2>2. QED BY <1>1, <2>1, SameCheckpoint DEF Moves, MoveInv, Behind, TmpOwn
<1>4. CASE Crash(w)
  <2>1. checkpoint' = checkpoint /\ opened'[w] = "none" /\ End(w)
    BY <1>1, <1>4 DEF Crash, FilesOK
  <2>2. QED BY <1>1, <2>1, EndKeepsCheckpoint
<1>5. CASE TornAppend(w)
  <2>1. checkpoint' = checkpoint /\ opened' = opened /\ End(w) /\ pc[w] = "append"
    BY <1>5 DEF TornAppend, checkpointVars
  <2>2. opened'[w] = "none"
    BY <1>1, <2>1 DEF MoveInv, TmpOwn
  <2>3. QED BY <1>1, <2>1, <2>2, EndKeepsCheckpoint
<1>6. QED
  BY <1>1, <1>3, <1>4, <1>5, StartKeepsCheckpoint, RunKeepsCheckpoint,
     NoCheckpointingKeepsCheckpoint, OpenKeepsCheckpoint, FillKeepsCheckpoint,
     ReplaceMovesCheckpoint DEF Next, Step

LEMMA InitMoves == Init => MoveInv
BY StoreAssumption DEF Init, MoveInv, Behind, TmpOwn

(* With one worker at a time the checkpoint never moves back, changes      *)
(* hands or is seen half written, however runs fail and whatever contexts  *)
(* and first blocks later ones are started with.                           *)
THEOREM SingleWorkerAdvances ==
    ASSUME NEW CONSTANT w, Workers = {w}
    PROVE  Spec => CheckpointAdvances
<1>1. Init => TypeOK /\ MoveInv
  BY TypeInit, InitMoves
<1>2. TypeOK /\ MoveInv /\ [Next]_vars => (TypeOK /\ MoveInv)' /\ [CheckpointMoves]_vars
  BY TypeStep, StepMoves
<1>3. QED BY <1>1, <1>2, PTL DEF Spec, CheckpointAdvances

-----------------------------------------------------------------------------
(* Any number of workers.                                                  *)
(*                                                                         *)
(* The inductive invariant says of the cache that its records lie in       *)
(* settled blocks of the chain (Sound), of each run where it is and what   *)
(* it has made sure of so far (RunInv), and of every checkpoint in either  *)
(* file that the cache covers it (CheckInv).  All three are stated of a    *)
(* value, so that one lemma each shows that what the chain and the other   *)
(* workers do (World) cannot take them away.                               *)

Safe(log) == log.block <= settled /\ log.key \in chain[log.block]

Sound == \A r \in Records(cache) : Safe(r)

KnownBy(key, logs) == \E r \in logs : r.key = key

RunInv(r, place) ==
    /\ place # "idle" => r.to <= settled
    /\ place \notin {"append", "newline"} => r.pending = {}
    /\ \A log \in r.pending : Safe(log)
    /\ Loadable =>
          /\ (place # "idle" /\ r.checkpointing /\ r.next <= r.to) =>
                Covered(r.context, r.next - 1)
          /\ place \in {"append", "newline"} =>
                Expected(r.context, r.next, r.chunk_end) \subseteq Records(cache) \cup r.pending
          /\ place \in {"fill", "replace"} => Covered(r.context, r.chunk_end)
          /\ place \in InPiece \cup {"scan"} =>
                \A key \in r.known : KnownBy(key, Records(cache) \cup r.pending)

CheckInv(c) == c.last_block <= settled /\ (Loadable => Covered(c.context, c.last_block))

IInv ==
    /\ Sound
    /\ \A c \in Checkpoints \cap {checkpoint, tmp} : CheckInv(c)
    /\ \A w \in Workers : RunInv(run[w], pc[w])

-----------------------------------------------------------------------------
(* What a step can do to the chain and to the cache, whoever takes it.     *)

World ==
    /\ ChainTypeOK /\ ChainTypeOK'
    /\ settled <= settled'
    /\ \A b \in 1 .. settled :
          b \in DOMAIN chain /\ b \in DOMAIN chain' /\ chain'[b] = chain[b]
    /\ Loadable' => Loadable /\ Records(cache) \subseteq Records(cache')

LEMMA SettledIsInt == ChainTypeOK => settled \in Int /\ head \in Nat
BY DepthIsNat DEF ChainTypeOK, settled, head, Blocks

(* Of settled blocks the chain always gives the same events.               *)
LEMMA ExpectedKept ==
    ASSUME World, NEW context, NEW from \in Nat \ {0}, NEW to \in Int, to <= settled
    PROVE  Expected(context, from, to)' = Expected(context, from, to)
<1>1. \A b \in from .. to : b \in 1 .. settled
  BY SettledIsInt DEF World
<1>2. \A b \in from .. to : b \in DOMAIN chain /\ b \in DOMAIN chain' /\ chain'[b] = chain[b]
  BY <1>1 DEF World
<1>3. QED BY <1>2 DEF Expected, LogsIn

LEMMA CoveredKept ==
    ASSUME World, NEW context, NEW n \in Int, n <= settled,
           Loadable', Covered(context, n)
    PROVE  Covered(context, n)'
<1> SUFFICES ASSUME NEW from \in FromBlocks, \A f \in FromBlocks : f <= from
             PROVE  Expected(context, from, n)' \subseteq Records(cache')
  BY DEF Covered
<1>1. from \in Nat \ {0}
  BY StoreAssumption
<1>2. Expected(context, from, n) \subseteq Records(cache)
  BY DEF Covered
<1>3. QED BY <1>1, <1>2, ExpectedKept DEF World

LEMMA SafeKept ==
    ASSUME World, NEW log \in Logs, Safe(log)
    PROVE  Safe(log)'
<1>1. log.block \in 1 .. settled /\ settled <= settled' /\ settled \in Int /\ settled' \in Int
  <2>1. settled' \in Int
    BY SettledIsInt, DepthIsNat DEF World, ChainTypeOK, settled, head, Blocks
  <2>2. QED BY <2>1, SettledIsInt DEF Safe, Logs, World
<1>2. QED BY <1>1 DEF World, Safe

LEMMA CheckKept ==
    ASSUME World, NEW c \in Checkpoints, CheckInv(c)
    PROVE  CheckInv(c)'
<1>1. c.last_block \in Nat /\ c.last_block <= settled
  BY DEF Checkpoints, CheckInv
<1>2. settled \in Int /\ settled' \in Int /\ settled <= settled'
  <2>1. settled' \in Int
    BY DepthIsNat DEF World, ChainTypeOK, settled, head, Blocks
  <2>2. QED BY <2>1, SettledIsInt DEF World
<1>3. c.last_block <= settled'
  BY <1>1, <1>2
<1>4. ASSUME Loadable' PROVE Covered(c.context, c.last_block)'
  <2>1. Covered(c.context, c.last_block)
    BY <1>4 DEF World, CheckInv
  <2>2. QED BY <1>1, <1>4, <2>1, CoveredKept
<1>5. QED BY <1>3, <1>4 DEF CheckInv

LEMMA RunKept ==
    ASSUME World, NEW r \in Runs, NEW place, InBounds(r, place), RunInv(r, place)
    PROVE  RunInv(r, place)'
<1>1. /\ r.next \in Nat /\ r.to \in Nat /\ r.chunk_end \in Nat /\ r.pending \subseteq Logs
      /\ r.next - 1 \in Int /\ settled \in Int /\ settled' \in Int /\ settled <= settled'
  <2>1. settled' \in Int
    BY DepthIsNat DEF World, ChainTypeOK, settled, head, Blocks
  <2>2. QED BY <2>1, SettledIsInt DEF World, Runs
<1>2. place # "idle" => r.to <= settled /\ r.to <= settled'
  BY <1>1 DEF RunInv
<1>3. \A log \in r.pending : Safe(log)'
  BY <1>1, SafeKept DEF RunInv
<1>4. ASSUME Loadable'
      PROVE  /\ (place # "idle" /\ r.checkpointing /\ r.next <= r.to) =>
                   Covered(r.context, r.next - 1)'
             /\ place \in {"append", "newline"} =>
                   Expected(r.context, r.next, r.chunk_end)'
                      \subseteq Records(cache') \cup r.pending
             /\ place \in {"fill", "replace"} => Covered(r.context, r.chunk_end)'
             /\ place \in InPiece \cup {"scan"} =>
                   \A key \in r.known : KnownBy(key, Records(cache') \cup r.pending)
  <2>0. Loadable /\ Records(cache) \subseteq Records(cache')
    BY <1>4 DEF World
  <2>1. ASSUME place # "idle", r.checkpointing, r.next <= r.to
        PROVE  Covered(r.context, r.next - 1)'
    <3>1. Covered(r.context, r.next - 1)
      BY <2>0, <2>1 DEF RunInv
    <3>2. r.next - 1 <= settled
      BY <1>1, <1>2, <2>1
    <3>3. QED BY <1>1, <1>4, <3>1, <3>2, CoveredKept
  <2>2. ASSUME place \in {"append", "newline"}
        PROVE  Expected(r.context, r.next, r.chunk_end)'
                  \subseteq Records(cache') \cup r.pending
    <3>1. r.chunk_end <= settled
      BY <1>1, <1>2, <2>2 DEF InBounds, InPiece
    <3>2. Expected(r.context, r.next, r.chunk_end)' \subseteq
             Expected(r.context, r.next, r.chunk_end)
      <4>1. \A b \in DOMAIN chain' : b \in Nat \ {0}
        BY DEF World, ChainTypeOK, Blocks
      <4>2. \A b \in r.next .. r.chunk_end :
               b \in DOMAIN chain' => b \in DOMAIN chain /\ chain'[b] = chain[b]
        BY <1>1, <3>1, <4>1 DEF World
      <4>3. QED BY <4>2 DEF Expected, LogsIn
    <3>3. QED BY <2>0, <2>2, <3>2 DEF RunInv
  <2>3. ASSUME place \in {"fill", "replace"}
        PROVE  Covered(r.context, r.chunk_end)'
    <3>1. r.chunk_end <= settled
      BY <1>1, <1>2, <2>3 DEF InBounds, InPiece
    <3>2. Covered(r.context, r.chunk_end)
      BY <2>0, <2>3 DEF RunInv
    <3>3. QED BY <1>1, <1>4, <3>1, <3>2, CoveredKept
  <2>4. ASSUME place \in InPiece \cup {"scan"}
        PROVE  \A key \in r.known : KnownBy(key, Records(cache') \cup r.pending)
    BY <2>0, <2>4 DEF RunInv, KnownBy
  <2>5. QED BY <2>1, <2>2, <2>3, <2>4
<1>5. QED BY <1>2, <1>3, <1>4 DEF RunInv

LEMMA RunNamed ==
    ASSUME NEW w, NEW r, NEW place, run'[w] = r, pc'[w] = place, RunInv(r, place)'
    PROVE  RunInv(run[w], pc[w])'
BY DEF RunInv

(* Text written to the cache file adds a record, or makes it unloadable.   *)
LEMMA TextRecords ==
    ASSUME FilesOK, NEW text \in Logs \cup {Torn}, cache' = WithText(text)
    PROVE  /\ Records(cache') \subseteq Records(cache) \cup ({text} \ {Torn})
           /\ Loadable' => Loadable /\ Records(cache') = Records(cache) \cup {text}
<1>1. cache \in Seq(Logs \cup {Torn})
  BY DEF FilesOK
<1>2. CASE unended
  <2>1. cache # << >> /\ cache' = [cache EXCEPT ![Len(cache)] = Torn]
    BY <1>2 DEF FilesOK, WithText
  <2>2. Torn \in Range(cache') /\ Range(cache') \subseteq Range(cache) \cup {Torn}
    BY <1>1, <2>1, JoinRecords
  <2>3. QED BY <2>2 DEF Records, Loadable
<1>3. CASE ~unended
  <2>1. Range(cache') = Range(cache) \cup {text}
    BY <1>1, <1>3, AppendRecords DEF WithText
  <2>2. QED BY <2>1 DEF Records, Loadable
<1>4. QED BY <1>2, <1>3

LEMMA WorldStep == TypeOK /\ TypeOK' /\ [Next]_vars => World
<1> SUFFICES ASSUME TypeOK, TypeOK', [Next]_vars PROVE World
  OBVIOUS
<1>0. ChainTypeOK /\ ChainTypeOK' /\ FilesOK /\ WorkersOK
  BY TypeParts DEF TypeOK
<1>1. ASSUME UNCHANGED chainVars
      PROVE  /\ settled <= settled'
             /\ \A b \in 1 .. settled :
                   b \in DOMAIN chain /\ b \in DOMAIN chain' /\ chain'[b] = chain[b]
  <2>1. \A b \in 1 .. settled : b \in DOMAIN chain
    BY <1>0, DepthIsNat DEF ChainTypeOK, settled, head, Blocks
  <2>2. settled' = settled
    BY <1>1 DEF chainVars, settled
  <2>3. QED BY <1>0, <1>1, <2>1, <2>2, SettledIsInt DEF chainVars
<1>2. ASSUME cache' = cache
      PROVE  Loadable' => Loadable /\ Records(cache) \subseteq Records(cache')
  BY <1>2 DEF Loadable, Records
<1>3. ASSUME NEW w \in Workers, WorkerActs(w) PROVE World
  <2>1. CASE WriteText(w) \/ TornAppend(w)
    <3>1. \E text \in Logs \cup {Torn} : cache' = WithText(text)
      BY <1>0, <2>1, TextMoves DEF TornAppend
    <3>2. QED BY <1>0, <1>1, <1>3, <3>1, TextRecords, WorkerLeaves DEF World
  <2>2. CASE ~(WriteText(w) \/ TornAppend(w))
    <3>1. cache' = cache
      BY <1>3, <2>2 DEF WorkerActs, Step, StartAny, StartUpTo, Start, LoadKeys, Load, Scan,
         ScanWithin, WriteNewline, NoCheckpointing, OpenTmp, FillTmp, FillTmpWith,
         ReplaceTmp, Crash, cacheVars
    <3>2. QED BY <1>0, <1>1, <1>2, <1>3, <3>1, WorkerLeaves DEF World
  <2>3. QED BY <2>1, <2>2
<1>4. CASE Chain
  <2>1. cache' = cache /\ (Mine \/ FallBack)
    BY <1>4 DEF Chain, Stores, cacheVars
  <2>2. QED BY <1>0, <1>2, <2>1, ChainStep DEF World
<1>5. CASE UNCHANGED vars
  BY <1>0, <1>1, <1>2, <1>5 DEF World, vars, cacheVars
<1>6. QED BY <1>3, <1>4, <1>5 DEF Next, WorkerActs

-----------------------------------------------------------------------------
(* What a run does keeps its own promises.                                 *)

(* Two settled places of one key are the same.                             *)
LEMMA SafeOnce ==
    ASSUME ChainTypeOK, NEW a \in Logs, NEW b \in Logs, Safe(a), Safe(b), a.key = b.key
    PROVE  a = b
<1>1. a.block \in DOMAIN chain /\ b.block \in DOMAIN chain
  BY DepthIsNat DEF Safe, Logs, ChainTypeOK, settled, head, Blocks
<1>2. a.block = b.block
  BY <1>1 DEF Safe, ChainTypeOK
<1>3. QED BY <1>2 DEF Logs

(* A piece that is in the cache moves on what is covered.                  *)
LEMMA PieceCovered ==
    ASSUME NEW r \in Runs, Covered(r.context, r.next - 1),
           Expected(r.context, r.next, r.chunk_end) \subseteq Records(cache)
    PROVE  Covered(r.context, r.chunk_end)
<1> SUFFICES ASSUME NEW from \in FromBlocks, \A f \in FromBlocks : f <= from,
                    NEW log \in Expected(r.context, from, r.chunk_end)
             PROVE  log \in Records(cache)
  BY DEF Covered
<1>0. /\ r.next \in Nat /\ r.chunk_end \in Nat /\ from \in Nat
      /\ log.block \in from .. r.chunk_end
  BY StoreAssumption DEF Runs, Expected, LogsIn
<1>1. CASE log.block <= r.next - 1
  <2>1. log \in Expected(r.context, from, r.next - 1)
    BY <1>0, <1>1 DEF Expected, LogsIn
  <2>2. QED BY <2>1 DEF Covered
<1>2. CASE log.block >= r.next
  <2>1. log \in Expected(r.context, r.next, r.chunk_end)
    BY <1>0, <1>2 DEF Expected, LogsIn
  <2>2. QED BY <2>1
<1>3. QED BY <1>0, <1>1, <1>2

(* A run that stops, or has not begun, promises nothing.                   *)
LEMMA NoRunInv == RunInv(NoRun, "idle")
BY DEF RunInv, NoRun, NewRun, InPiece

LEMMA StartBlockIs ==
    ASSUME NEW from, NEW checkpointing \in BOOLEAN
    PROVE  LET next == StartBlock(from, checkpointing)
           IN  next = from \/ (checkpoint # NoCheckpoint /\ next = checkpoint.last_block + 1)
<1>1. CASE checkpointing /\ checkpoint # NoCheckpoint
  BY <1>1 DEF StartBlock, StartAfter, Larger
<1>2. CASE ~(checkpointing /\ checkpoint # NoCheckpoint)
  BY <1>2 DEF StartBlock, StartAfter
<1>3. QED BY <1>1, <1>2

LEMMA StartInv ==
    ASSUME TypeOK, IInv, Confirmations >= Depth,
           NEW w \in Workers, NEW context \in Contexts, NEW from \in FromBlocks,
           NEW checkpointing \in Checkpointing, NEW to \in 0 .. head - Confirmations,
           Start(w, context, from, checkpointing, to)
    PROVE  RunInv(StartedRun(context, from, checkpointing, to), "load")
<1> DEFINE r == StartedRun(context, from, checkpointing, to)
           next == StartBlock(from, checkpointing)
<1>0. ChainTypeOK /\ FilesOK /\ WorkersOK
  BY TypeParts
<1>1. to \in Nat /\ to <= settled
  BY <1>0, DepthIsNat, StoreAssumption DEF ChainTypeOK, settled, head, Blocks
<1>2. checkpointing /\ checkpoint # NoCheckpoint =>
        checkpoint \in Checkpoints /\ checkpoint.context = context
  BY <1>0, <1>1, StartMoves
<1>3. /\ r.context = context /\ r.checkpointing = checkpointing /\ r.next = next
      /\ r.to = to /\ r.pending = {} /\ r.known = {}
  BY DEF StartedRun, NewRun
<1>4. ASSUME Loadable, checkpointing
      PROVE  Covered(context, next - 1)
  <2>1. CASE checkpoint # NoCheckpoint /\ next = checkpoint.last_block + 1
    <3>1. checkpoint \in Checkpoints /\ checkpoint.context = context
      BY <1>2, <1>4, <2>1
    <3>2. CheckInv(checkpoint) /\ checkpoint.last_block \in Nat
      BY <3>1 DEF IInv, Checkpoints
    <3>3. next - 1 = checkpoint.last_block
      BY <2>1, <3>2
    <3>4. QED BY <1>4, <3>1, <3>2, <3>3 DEF CheckInv
  <2>2. CASE next = from
    <3>1. ASSUME NEW last \in FromBlocks, from <= last
          PROVE  Expected(context, last, from - 1) = {}
      <4>1. last .. from - 1 = {}
        BY <3>1, StoreAssumption
      <4>2. QED BY <4>1 DEF Expected, LogsIn
    <3>2. QED BY <2>2, <3>1 DEF Covered
  <2>3. next = from \/ (checkpoint # NoCheckpoint /\ next = checkpoint.last_block + 1)
    BY StartBlockIs, StoreAssumption
  <2>4. QED BY <2>1, <2>2, <2>3
<1> HIDE DEF r, next
<1>5. RunInv(r, "load")
  BY <1>1, <1>3, <1>4 DEF RunInv, InPiece
<1>6. QED BY <1>5 DEF r

LEMMA LoadInv ==
    ASSUME WorkersOK, NEW w \in Workers, pc[w] = "load", RunInv(run[w], pc[w])
    PROVE  RunInv([run[w] EXCEPT !.known = EventKeys(cache)], "scan")
<1> DEFINE r == run[w]
           s == [run[w] EXCEPT !.known = EventKeys(cache)]
<1>1. r \in Runs
  BY DEF WorkersOK
<1>2. /\ s.context = r.context /\ s.checkpointing = r.checkpointing /\ s.next = r.next
      /\ s.to = r.to /\ s.pending = r.pending /\ s.known = EventKeys(cache)
  BY <1>1 DEF Runs
<1>3. \A key \in EventKeys(cache) : KnownBy(key, Records(cache) \cup s.pending)
  BY DEF EventKeys, KnownBy
<1>4. RunInv(r, "load")
  OBVIOUS
<1> HIDE DEF r, s
<1>5. RunInv(s, "scan")
  BY <1>2, <1>3, <1>4 DEF RunInv, InPiece
<1>6. QED BY <1>5 DEF s

LEMMA ScanInv ==
    ASSUME TypeOK, Sound, NEW w \in Workers, pc[w] = "scan", RunInv(run[w], pc[w]),
           NEW chunk_end \in Nat,
           run[w].next <= chunk_end, chunk_end <= run[w].to
    PROVE  RunInv(ScannedRun(w, chunk_end), "append")
<1> DEFINE r == run[w]
           s == ScannedRun(w, chunk_end)
           all == Expected(r.context, r.next, chunk_end)
           fresh == Fresh(w, chunk_end)
<1>0. ChainTypeOK /\ WorkersOK /\ FilesOK /\ r \in Runs
  BY TypeParts DEF WorkersOK
<1>1. /\ s.context = r.context /\ s.checkpointing = r.checkpointing /\ s.next = r.next
      /\ s.to = r.to /\ s.chunk_end = chunk_end /\ s.pending = fresh
      /\ s.known = r.known \cup {log.key : log \in fresh}
  BY <1>0 DEF Runs, ScannedRun
<1>2. RunInv(r, "scan")
  OBVIOUS
<1>3. all \subseteq Logs /\ \A log \in all : Safe(log)
  <2>1. chunk_end <= settled /\ settled \in Int
    BY <1>0, <1>2, SettledIsInt DEF RunInv, Runs
  <2>2. all \subseteq Logs
    BY <1>0, ExpectedTyped
  <2>3. \A log \in all : log.block \in Nat /\ log.block <= chunk_end /\ log.key \in chain[log.block]
    BY <1>0, ExpectedTyped
  <2>4. \A log \in all : log.block <= settled
    BY <2>1, <2>3
  <2>5. QED BY <2>2, <2>3, <2>4 DEF Safe
<1>4. fresh = {log \in all : log.key \notin r.known}
  BY DEF Fresh
<1>5. ASSUME Loadable PROVE all \subseteq Records(cache) \cup fresh
  <2>1. SUFFICES ASSUME NEW log \in all, log \notin fresh PROVE log \in Records(cache)
    OBVIOUS
  <2>2. log.key \in r.known
    BY <1>4, <2>1
  <2>3. PICK other \in Records(cache) : other.key = log.key
    BY <1>2, <1>5, <2>2 DEF RunInv, KnownBy, InPiece
  <2>4. other \in Logs /\ Safe(other)
    BY <1>0 DEF Sound, Records, Range, FilesOK
  <2>5. QED BY <1>0, <1>3, <2>1, <2>3, <2>4, SafeOnce
<1>6. ASSUME Loadable, NEW key \in r.known \cup {log.key : log \in fresh}
      PROVE  KnownBy(key, Records(cache) \cup fresh)
  BY <1>2, <1>6 DEF RunInv, KnownBy, InPiece
<1> HIDE DEF r, s, all, fresh
<1>7. RunInv(s, "append")
  <2>1. s.to <= settled /\ \A log \in s.pending : Safe(log)
    BY <1>1, <1>2, <1>3, <1>4 DEF RunInv
  <2>2. ASSUME Loadable
        PROVE  /\ (s.checkpointing /\ s.next <= s.to) => Covered(s.context, s.next - 1)
               /\ Expected(s.context, s.next, s.chunk_end) \subseteq Records(cache) \cup s.pending
               /\ \A key \in s.known : KnownBy(key, Records(cache) \cup s.pending)
    BY <1>1, <1>2, <1>5, <1>6, <2>2 DEF RunInv, all
  <2>3. QED BY <2>1, <2>2 DEF RunInv
<1>8. QED BY <1>7 DEF s

(* The text of a new event goes from what is pending to the cache.         *)
LEMMA TextInv ==
    ASSUME FilesOK, World, NEW r \in Runs, InBounds(r, "append"), RunInv(r, "append"),
           NEW event \in r.pending, event \in Logs, cache' = WithText(event)
    PROVE  RunInv([r EXCEPT !.pending = r.pending \ {event}], "newline")'
<1> DEFINE s == [r EXCEPT !.pending = r.pending \ {event}]
<1>1. RunInv(r, "append")'
  BY RunKept
<1>2. /\ s.context = r.context /\ s.checkpointing = r.checkpointing /\ s.next = r.next
      /\ s.to = r.to /\ s.chunk_end = r.chunk_end /\ s.known = r.known
      /\ s.pending = r.pending \ {event}
  BY DEF Runs
<1>3. Loadable' => Records(cache') \cup r.pending = Records(cache') \cup s.pending
  BY <1>2, TextRecords
<1> HIDE DEF s
<1>4. RunInv(s, "newline")'
  <2>1. s.to <= settled' /\ \A log \in s.pending : Safe(log)'
    BY <1>1, <1>2 DEF RunInv
  <2>2. ASSUME Loadable'
        PROVE  /\ (s.checkpointing /\ s.next <= s.to) => Covered(s.context, s.next - 1)'
               /\ Expected(s.context, s.next, s.chunk_end)'
                     \subseteq Records(cache') \cup s.pending
               /\ \A key \in s.known : KnownBy(key, Records(cache') \cup s.pending)
    BY <1>1, <1>2, <1>3, <2>2 DEF RunInv, InPiece
  <2>3. QED BY <2>1, <2>2 DEF RunInv
<1>5. QED BY <1>4 DEF s

LEMMA NextChunkInv ==
    ASSUME WorkersOK, NEW w \in Workers, NEW place \in InPiece, RunInv(run[w], place),
           run[w].pending = {},
           run[w].checkpointing => (Loadable => Covered(run[w].context, run[w].chunk_end))
    PROVE  RunInv([run[w] EXCEPT !.next = run[w].chunk_end + 1], "scan")
<1> DEFINE r == run[w]
           s == [run[w] EXCEPT !.next = run[w].chunk_end + 1]
<1>1. r \in Runs
  BY DEF WorkersOK
<1>2. /\ s.context = r.context /\ s.checkpointing = r.checkpointing
      /\ s.next - 1 = r.chunk_end /\ s.to = r.to /\ s.known = r.known /\ s.pending = {}
  BY <1>1 DEF Runs
<1>3. RunInv(r, place) /\ place # "idle"
  BY DEF InPiece
<1>4. r.checkpointing => (Loadable => Covered(r.context, r.chunk_end))
  OBVIOUS
<1>5. r.pending = {}
  OBVIOUS
<1> HIDE DEF r, s
<1>6. RunInv(s, "scan")
  BY <1>2, <1>3, <1>4, <1>5 DEF RunInv, InPiece
<1>7. QED BY <1>6 DEF s

(* Between the last event of a piece and the next piece.                   *)
LEMMA PieceDone ==
    ASSUME WorkersOK, NEW w \in Workers, pc[w] = "append", RunInv(run[w], pc[w]),
           run[w].pending = {}, run[w].checkpointing, Loadable
    PROVE  Covered(run[w].context, run[w].chunk_end)
<1>1. run[w] \in Runs /\ run[w].next <= run[w].to
  BY DEF WorkersOK, InBounds, InPiece, Runs
<1>2. /\ Covered(run[w].context, run[w].next - 1)
      /\ Expected(run[w].context, run[w].next, run[w].chunk_end) \subseteq Records(cache)
  BY <1>1 DEF RunInv
<1>3. QED BY <1>1, <1>2, PieceCovered

LEMMA WorkerInv ==
    ASSUME TypeOK, TypeOK', IInv, Confirmations >= Depth, World,
           NEW w \in Workers, WorkerActs(w)
    PROVE  RunInv(run[w], pc[w])'
<1>0. /\ ChainTypeOK /\ FilesOK /\ WorkersOK /\ Sound /\ RunInv(run[w], pc[w])
      /\ run[w] \in Runs /\ InBounds(run[w], pc[w])
  BY TypeParts DEF IInv, WorkersOK
<1>1. ASSUME NEW r \in Runs, NEW place \in Places, Put(w, r), Goto(w, place),
             InBounds(r, place), RunInv(r, place)
      PROVE  RunInv(run[w], pc[w])'
  <2>1. run'[w] = r /\ pc'[w] = place
    BY <1>0, <1>1, Moved
  <2>2. RunInv(r, place)'
    BY <1>1, RunKept
  <2>3. QED BY <2>1, <2>2, RunNamed
<1>2. ASSUME End(w) PROVE RunInv(run[w], pc[w])'
  <2>1. Put(w, NoRun) /\ Goto(w, "idle")
    BY <1>2 DEF End
  <2>2. QED BY <1>1, <2>1, NoRunTyped, NoRunInv, PlacesKnown
<1>3. CASE StartAny(w)
  <2>1. PICK context \in Contexts, from \in FromBlocks, checkpointing \in Checkpointing,
             to \in 0 .. head - Confirmations : Start(w, context, from, checkpointing, to)
    BY <1>3 DEF StartAny, StartUpTo
  <2>2. to \in Nat
    BY <1>0, StoreAssumption DEF ChainTypeOK, Blocks, head
  <2> DEFINE r == StartedRun(context, from, checkpointing, to)
  <2>3. r \in Runs /\ Put(w, r) /\ Goto(w, "load")
    BY <1>0, <2>1, <2>2, StartMoves
  <2>4. RunInv(r, "load")
    BY <2>1, StartInv
  <2> HIDE DEF r
  <2>5. \E s \in Runs : s = r
    BY <2>3
  <2>6. QED BY <1>1, <2>3, <2>4, <2>5, PlacesKnown
<1>4. CASE LoadKeys(w)
  <2>1. pc[w] = "load"
    BY <1>4 DEF LoadKeys, Load
  <2>2. RunInv([run[w] EXCEPT !.known = EventKeys(cache)], "scan")
    BY <1>0, <2>1, LoadInv
  <2>3. QED BY <1>0, <1>1, <1>2, <1>4, <2>2, LoadMoves, PlacesKnown
<1>5. CASE Scan(w)
  <2>1. PICK chunk_end \in Nat :
           /\ run[w].next <= chunk_end /\ chunk_end <= run[w].to
           /\ ScannedRun(w, chunk_end) \in Runs
           /\ InBounds(ScannedRun(w, chunk_end), "append")
           /\ Put(w, ScannedRun(w, chunk_end)) /\ Goto(w, "append")
    BY <1>0, <1>5, ScanMoves
  <2>2. pc[w] = "scan"
    BY <1>5 DEF Scan, ScanWithin
  <2>3. RunInv(ScannedRun(w, chunk_end), "append")
    BY <1>0, <2>1, <2>2, ScanInv
  <2>4. QED BY <1>1, <2>1, <2>3, PlacesKnown
<1>6. CASE WriteText(w)
  <2>1. PICK event \in run[w].pending :
           /\ event \in Logs /\ cache' = WithText(event)
           /\ [run[w] EXCEPT !.pending = run[w].pending \ {event}] \in Runs
           /\ InBounds([run[w] EXCEPT !.pending = run[w].pending \ {event}], "newline")
           /\ Put(w, [run[w] EXCEPT !.pending = run[w].pending \ {event}])
           /\ Goto(w, "newline")
    BY <1>0, <1>6, TextMoves
  <2>2. PICK r \in Runs : r = run[w]
    BY <1>0
  <2>3. RunInv(r, "append") /\ InBounds(r, "append")
    BY <1>0, <1>6, <2>2 DEF WriteText
  <2>4. RunInv([r EXCEPT !.pending = r.pending \ {event}], "newline")'
    BY <1>0, <2>1, <2>2, <2>3, TextInv
  <2>5. run'[w] = [r EXCEPT !.pending = r.pending \ {event}] /\ pc'[w] = "newline"
    BY <1>0, <2>1, <2>2, Moved, PlacesKnown
  <2>6. QED BY <2>4, <2>5, RunNamed
<1>7. CASE WriteNewline(w)
  <2>1. pc[w] = "newline" /\ Goto(w, "append") /\ run' = run
    BY <1>7 DEF WriteNewline
  <2>2. RunInv(run[w], "append")
    BY <1>0, <2>1 DEF RunInv, InPiece
  <2>3. QED BY <1>0, <1>1, <2>1, <2>2, SameRunMoves, PlacesKnown
<1>8. CASE NoCheckpointing(w)
  <2>1. pc[w] = "append" /\ run[w].pending = {} /\ ~run[w].checkpointing /\ NextChunk(w)
    BY <1>8 DEF NoCheckpointing
  <2>2. RunInv([run[w] EXCEPT !.next = run[w].chunk_end + 1], "scan")
    BY <1>0, <2>1, NextChunkInv, PlacesKnown
  <2>3. QED BY <1>0, <1>1, <1>2, <2>1, <2>2, NextChunkMoves, PlacesKnown
<1>9. CASE OpenTmp(w)
  <2>1. /\ pc[w] = "append" /\ run[w].pending = {} /\ run[w].checkpointing
        /\ Goto(w, "fill") /\ run' = run
    BY <1>9 DEF OpenTmp
  <2>2. Loadable => Covered(run[w].context, run[w].chunk_end)
    BY <1>0, <2>1, PieceDone
  <2>3. RunInv(run[w], "fill")
    BY <1>0, <2>1, <2>2 DEF RunInv, InPiece
  <2>4. QED BY <1>0, <1>1, <2>1, <2>3, SameRunMoves, PlacesKnown
<1>10. CASE FillTmp(w)
  <2>1. pc[w] = "fill" /\ Goto(w, "replace") /\ run' = run
    BY <1>10 DEF FillTmp, FillTmpWith
  <2>2. RunInv(run[w], "replace")
    BY <1>0, <2>1 DEF RunInv, InPiece
  <2>3. QED BY <1>0, <1>1, <2>1, <2>2, SameRunMoves, PlacesKnown
<1>11. CASE ReplaceTmp(w)
  <2>1. pc[w] = "replace" /\ (End(w) \/ NextChunk(w))
    BY <1>11 DEF ReplaceTmp
  <2>2. /\ run[w].pending = {}
        /\ Loadable => Covered(run[w].context, run[w].chunk_end)
    BY <1>0, <2>1 DEF RunInv
  <2>3. RunInv([run[w] EXCEPT !.next = run[w].chunk_end + 1], "scan")
    BY <1>0, <2>1, <2>2, NextChunkInv, PlacesKnown
  <2>4. QED BY <1>0, <1>1, <1>2, <2>1, <2>3, NextChunkMoves, PlacesKnown
<1>12. CASE Crash(w) \/ TornAppend(w)
  BY <1>2, <1>12 DEF Crash, TornAppend
<1>13. QED
  BY <1>3, <1>4, <1>5, <1>6, <1>7, <1>8, <1>9, <1>10, <1>11, <1>12 DEF WorkerActs, Step

LEMMA FilesInv ==
    ASSUME TypeOK, IInv, World, NEW w \in Workers, WorkerActs(w)
    PROVE  (\A c \in Checkpoints \cap {checkpoint, tmp} : CheckInv(c))'
<1>0. WorkersOK /\ RunInv(run[w], pc[w]) /\ run[w] \in Runs /\ InBounds(run[w], pc[w])
  BY TypeParts DEF IInv, WorkersOK
<1>1. FillTmp(w) => CheckInv(NewCheckpoint(w)) /\ NewCheckpoint(w) \in Checkpoints
  <2>1. SUFFICES ASSUME FillTmp(w) PROVE CheckInv(NewCheckpoint(w))
    BY <1>0, FillWrites
  <2>2. pc[w] = "fill"
    BY <2>1 DEF FillTmp, FillTmpWith
  <2>3. run[w].chunk_end <= settled
    BY <1>0, <2>2, SettledIsInt, TypeParts DEF RunInv, InBounds, InPiece, Runs
  <2>4. QED BY <1>0, <2>2, <2>3 DEF RunInv, CheckInv, NewCheckpoint
<1>2. \A c \in Checkpoints \cap {checkpoint', tmp'} :
         c \in {checkpoint, tmp} \/ (FillTmp(w) /\ c = NewCheckpoint(w))
  <2>1. CASE FillTmp(w)
    BY <1>0, <2>1, FillWrites, StoreAssumption DEF Checkpoints
  <2>2. CASE ~FillTmp(w)
    <3>1. {checkpoint', tmp'} \subseteq {checkpoint, tmp, Torn, NoCheckpoint}
      BY <2>2 DEF WorkerActs, Step, StartAny, StartUpTo, Start, LoadKeys, Load, Scan,
         ScanWithin, WriteText, WriteNewline, NoCheckpointing, OpenTmp, ReplaceTmp,
         Crash, TornAppend, checkpointVars
    <3>2. QED BY <3>1, StoreAssumption DEF Checkpoints
  <2>3. QED BY <2>1, <2>2
<1>3. \A c \in Checkpoints \cap {checkpoint', tmp'} : CheckInv(c)
  BY <1>1, <1>2 DEF IInv
<1>4. \A c \in Checkpoints \cap {checkpoint', tmp'} : CheckInv(c)'
  BY <1>3, CheckKept
<1>5. QED BY <1>4

LEMMA SoundStep ==
    ASSUME TypeOK, IInv, World, [Next]_vars
    PROVE  Sound'
<1>0. FilesOK /\ WorkersOK /\ \A r \in Records(cache) : r \in Logs
  BY TypeParts DEF FilesOK, Records, Range
<1>1. ASSUME NEW r \in Records(cache') PROVE r \in Logs /\ Safe(r)
  <2>1. CASE cache' = cache
    BY <1>0, <1>1, <2>1 DEF IInv, Sound
  <2>2. CASE \E w \in Workers : WriteText(w) \/ TornAppend(w)
    <3>1. PICK w \in Workers : WriteText(w) \/ TornAppend(w)
      BY <2>2
    <3>2. PICK text \in Logs \cup {Torn} :
             cache' = WithText(text) /\ (text = Torn \/ text \in run[w].pending)
      BY <1>0, <3>1, TextMoves DEF TornAppend
    <3>3. r \in Records(cache) \/ (r = text /\ r # Torn)
      BY <1>0, <1>1, <3>2, TextRecords
    <3>4. QED BY <1>0, <3>2, <3>3 DEF IInv, Sound, RunInv
  <2>3. QED
    BY <2>1, <2>2 DEF Next, Step, StartAny, StartUpTo, Start, LoadKeys, Load, Scan,
       ScanWithin, WriteNewline, NoCheckpointing, OpenTmp, FillTmp, FillTmpWith,
       ReplaceTmp, Crash, Chain, Stores, cacheVars, vars
<1>2. \A r \in Records(cache') : Safe(r)'
  BY <1>1, SafeKept
<1>3. QED BY <1>2 DEF Sound

LEMMA InvStep ==
    ASSUME TypeOK, TypeOK', IInv, Confirmations >= Depth, [Next]_vars
    PROVE  IInv'
<1>0. World /\ Sound' /\ WorkersOK
  BY WorldStep, SoundStep, TypeParts
<1>1. ASSUME NEW v \in Workers, pc'[v] = pc[v], run'[v] = run[v]
      PROVE  RunInv(run[v], pc[v])'
  <2>1. PICK r \in Runs : r = run[v]
    BY <1>0 DEF WorkersOK
  <2>2. PICK place \in Places : place = pc[v]
    BY <1>0 DEF WorkersOK
  <2>3. InBounds(r, place) /\ RunInv(r, place)
    BY <1>0, <2>1, <2>2 DEF WorkersOK, IInv
  <2>4. RunInv(r, place)'
    BY <1>0, <2>3, RunKept
  <2>5. QED BY <1>1, <2>1, <2>2, <2>4, RunNamed
<1>2. CASE \E w \in Workers : WorkerActs(w)
  <2>1. PICK w \in Workers : WorkerActs(w)
    BY <1>2
  <2>2. \A v \in Workers \ {w} : pc'[v] = pc[v] /\ run'[v] = run[v]
    BY <2>1, WorkersStep, TypeParts
  <2>3. \A v \in Workers : RunInv(run[v], pc[v])'
    BY <1>0, <1>1, <2>1, <2>2, WorkerInv
  <2>4. QED BY <1>0, <2>1, <2>3, FilesInv DEF IInv
<1>3. CASE Chain \/ UNCHANGED vars
  <2>1. pc' = pc /\ run' = run /\ checkpoint' = checkpoint /\ tmp' = tmp
    BY <1>3 DEF Chain, Stores, vars, checkpointVars
  <2>2. \A v \in Workers : RunInv(run[v], pc[v])'
    BY <1>1, <2>1
  <2>3. \A c \in Checkpoints \cap {checkpoint', tmp'} : CheckInv(c)'
    BY <1>0, <2>1, CheckKept DEF IInv
  <2>4. QED BY <1>0, <2>2, <2>3 DEF IInv
<1>4. QED BY <1>2, <1>3 DEF Next, WorkerActs

LEMMA InvInit == Init => IInv
<1> SUFFICES ASSUME Init PROVE IInv
  OBVIOUS
<1>1. cache = << >> /\ checkpoint = NoCheckpoint /\ tmp = NoCheckpoint
  BY DEF Init
<1>2. \A w \in Workers : run[w] = NoRun /\ pc[w] = "idle"
  BY DEF Init
<1>3. Sound
  BY <1>1 DEF Sound, Records, Range
<1>4. Checkpoints \cap {checkpoint, tmp} = {}
  BY <1>1, StoreAssumption DEF Checkpoints
<1>5. QED BY <1>2, <1>3, <1>4, NoRunInv DEF IInv

LEMMA CacheAlways == Spec => [](RecordsOnChain /\ CheckpointCovered)
<1>1. CASE Confirmations >= Depth
  <2>1. Init => TypeOK /\ IInv
    BY TypeInit, InvInit
  <2>2. TypeOK /\ IInv /\ [Next]_vars => (TypeOK /\ IInv)'
    BY <1>1, TypeStep, InvStep
  <2>3. TypeOK /\ IInv => RecordsOnChain /\ CheckpointCovered
    <3>1. SUFFICES ASSUME TypeOK, IInv PROVE RecordsOnChain /\ CheckpointCovered
      OBVIOUS
    <3>2. settled \in Int /\ head \in Nat /\ settled <= head
      BY <3>1, TypeParts, SettledIsInt DEF ChainTypeOK
    <3>3. \A r \in Records(cache) : r.block \in Nat
      BY <3>1, TypeParts DEF FilesOK, Records, Range, Logs
    <3>4. RecordsOnChain
      BY <3>1, <3>2, <3>3 DEF RecordsOnChain, IInv, Sound, Safe
    <3>5. CheckpointCovered
      BY <3>1 DEF CheckpointCovered, IInv, CheckInv
    <3>6. QED BY <3>4, <3>5
  <2>4. QED BY <2>1, <2>2, <2>3, PTL DEF Spec
<1>2. CASE ~(Confirmations >= Depth)
  <2>1. RecordsOnChain /\ CheckpointCovered
    BY <1>2 DEF RecordsOnChain, CheckpointCovered
  <2>2. QED BY <2>1, PTL
<1>3. QED BY <1>1, <1>2

(* The cache holds no event that is not on the chain, for any number of    *)
(* workers on the same files, any contexts, any chain, and runs that fail  *)
(* or are killed at any point, provided that the callers stop far enough   *)
(* below the head.                                                         *)
THEOREM CacheIsTrue == Spec => []RecordsOnChain
BY CacheAlways, PTL

(* Under the same circumstances the cache holds every event that a         *)
(* checkpoint claims.                                                      *)
THEOREM CheckpointPromise == Spec => []CheckpointCovered
BY CacheAlways, PTL

-----------------------------------------------------------------------------
(* An event whose key cannot change any more is cached under one key.      *)
LEMMA TrueOnce ==
    ASSUME ChainTypeOK, cache \in Seq(Logs \cup {Torn}), RecordsOnChain, Once(cache),
           Confirmations >= Depth,
           NEW i \in DOMAIN cache, NEW j \in DOMAIN cache,
           cache[i] # Torn, cache[j] # Torn, EventOf[cache[i].key] = EventOf[cache[j].key]
    PROVE  i = j
<1>1. /\ cache[i] \in Logs /\ cache[j] \in Logs
      /\ cache[i] \in Records(cache) /\ cache[j] \in Records(cache)
  BY DEF Records, Range
<1>2. DOMAIN chain = 1 .. head /\ head \in Nat
  BY DEF ChainTypeOK, Blocks, head
<1>3. /\ cache[i].block \in DOMAIN chain /\ cache[i].key \in chain[cache[i].block]
      /\ cache[j].block \in DOMAIN chain /\ cache[j].key \in chain[cache[j].block]
  BY <1>1, <1>2 DEF RecordsOnChain, Logs
<1>4. cache[i].key = cache[j].key
  BY <1>3 DEF ChainTypeOK
<1>5. QED BY <1>4 DEF Once

(* One worker at a time caches no key twice, whatever the chain does and   *)
(* however few confirmations are kept: not when a piece is scanned again   *)
(* after a kill, not when a run of another context or after a              *)
(* reorganisation finds it again, and not after a torn write.  With enough *)
(* confirmations it caches no event twice either, though an event that is  *)
(* mined again may get another key.                                        *)
THEOREM SingleWorkerOnce ==
    ASSUME NEW CONSTANT w, Workers = {w}
    PROVE  Spec => []NoDuplicateRecords
<1>1. Init => TypeOK /\ OnceInv
  BY TypeInit, InitOnce
<1>2. TypeOK /\ OnceInv /\ [Next]_vars => (TypeOK /\ OnceInv)'
  BY TypeStep, StepOnce
<1>3. TypeOK /\ OnceInv /\ RecordsOnChain => NoDuplicateRecords
  <2>1. SUFFICES ASSUME TypeOK, OnceInv, RecordsOnChain, NEW i \in DOMAIN cache,
                        NEW j \in DOMAIN cache, cache[i] # Torn, cache[j] # Torn
                 PROVE  /\ cache[i].key = cache[j].key => i = j
                        /\ ((/\ Confirmations >= Depth
                             /\ EventOf[cache[i].key] = EventOf[cache[j].key]) => i = j)
    BY DEF NoDuplicateRecords
  <2>2. Once(cache) /\ ChainTypeOK /\ cache \in Seq(Logs \cup {Torn})
    BY <2>1 DEF OnceInv, TypeOK
  <2>3. QED BY <2>1, <2>2, TrueOnce DEF Once
<1>4. Spec => []RecordsOnChain
  BY CacheIsTrue
<1>5. QED BY <1>1, <1>2, <1>3, <1>4, PTL DEF Spec

-----------------------------------------------------------------------------
(* The index: elements in an order, a set of pairs.                        *)

Linear(order, S) ==
    /\ \A x \in S : <<x, x>> \notin order
    /\ \A x, y \in S : x # y => <<x, y>> \in order \/ <<y, x>> \in order
    /\ \A x, y, z \in S : <<x, y>> \in order /\ <<y, z>> \in order => <<x, z>> \in order

(* The elements of a set, each once and in the order.                      *)
Lists(t, S, order) ==
    /\ t \in Seq(S) /\ Range(t) = S
    /\ \A m, n \in DOMAIN t : m < n => <<t[m], t[n]>> \in order

Below(S, order, x) == {y \in S : <<y, x>> \in order}

LEMMA BelowIsFinite ==
    ASSUME NEW S, IsFiniteSet(S), NEW order, NEW x
    PROVE  /\ IsFiniteSet(Below(S, order, x)) /\ Below(S, order, x) \subseteq S
           /\ Cardinality(Below(S, order, x)) \in Nat
<1>1. Below(S, order, x) \subseteq S
  BY DEF Below
<1>2. IsFiniteSet(Below(S, order, x))
  BY <1>1, FS_Subset
<1>3. QED BY <1>1, <1>2, FS_CardinalityType

LEMMA BelowGrows ==
    ASSUME NEW S, IsFiniteSet(S), NEW order, Linear(order, S), NEW x \in S, NEW y \in S,
           <<x, y>> \in order
    PROVE  Cardinality(Below(S, order, x)) < Cardinality(Below(S, order, y))
<1> DEFINE A == Below(S, order, x)
           B == Below(S, order, y)
<1>1. A \subseteq B /\ x \in B /\ x \notin A
  BY DEF Linear, Below
<1>2. IsFiniteSet(A) /\ IsFiniteSet(B) /\ Cardinality(A) \in Nat /\ Cardinality(B) \in Nat
  BY BelowIsFinite
<1> HIDE DEF A, B
<1>3. Cardinality(A) <= Cardinality(B) /\ (Cardinality(A) = Cardinality(B) => A = B)
  BY <1>1, <1>2, FS_Subset
<1>4. Cardinality(A) < Cardinality(B)
  BY <1>1, <1>2, <1>3
<1>5. QED BY <1>4 DEF A, B

(* An element is told by how many are before it.                           *)
LEMMA BelowTells ==
    ASSUME NEW S, IsFiniteSet(S), NEW order, Linear(order, S), NEW x \in S, NEW y \in S,
           Cardinality(Below(S, order, x)) = Cardinality(Below(S, order, y))
    PROVE  x = y
<1>1. Cardinality(Below(S, order, x)) \in Nat
  BY BelowIsFinite
<1>2. <<x, y>> \notin order /\ <<y, x>> \notin order
  BY <1>1, BelowGrows
<1>3. QED BY <1>2 DEF Linear

LEMMA BelowIsReached ==
    ASSUME NEW S, IsFiniteSet(S), NEW order, Linear(order, S), NEW n \in 1 .. Cardinality(S)
    PROVE  \E x \in S : Cardinality(Below(S, order, x)) = n - 1
<1> DEFINE size == Cardinality(S)
           T == 0 .. size - 1
           rank == [x \in S |-> Cardinality(Below(S, order, x))]
<1>1. size \in Nat
  BY FS_CardinalityType
<1>2. ASSUME NEW x \in S PROVE Cardinality(Below(S, order, x)) \in T
  <2> DEFINE A == Below(S, order, x)
  <2>1. A \subseteq S /\ IsFiniteSet(A) /\ Cardinality(A) \in Nat
    BY BelowIsFinite
  <2>2. x \notin A
    BY DEF Linear, Below
  <2> HIDE DEF A
  <2>3. Cardinality(A) <= size /\ (Cardinality(A) = size => A = S)
    BY <2>1, FS_Subset
  <2>4. Cardinality(A) \in T
    BY <1>1, <2>1, <2>2, <2>3
  <2>5. QED BY <2>4 DEF A
<1>3. IsFiniteSet(T) /\ Cardinality(T) = size
  <2>1. 0 \in Int /\ size - 1 \in Int
    BY <1>1
  <2>2. IsFiniteSet(T) /\ Cardinality(T) = IF 0 > size - 1 THEN 0 ELSE (size - 1) - 0 + 1
    BY <2>1, FS_Interval
  <2>3. QED BY <1>1, <2>2
<1>4. rank \in [S -> T] /\ \A x, y \in S : rank[x] = rank[y] => x = y
  BY <1>2, BelowTells
<1> HIDE DEF rank, T
<1>5. rank \in Injection(S, T)
  BY <1>4 DEF Injection, IsInjective
<1>6. rank \in Surjection(S, T)
  BY <1>3, <1>5, FS_Injection
<1>7. n - 1 \in T
  BY <1>1 DEF T
<1>8. PICK x \in S : rank[x] = n - 1
  BY <1>6, <1>7 DEF Surjection
<1>9. QED BY <1>8 DEF rank

(* InOrder gives each element its place.                                   *)
LEMMA InOrderIs ==
    ASSUME NEW S, IsFiniteSet(S), NEW order, Linear(order, S), NEW at, at = InOrder(S, order)
    PROVE  /\ Lists(at, S, order)
           /\ \A n \in DOMAIN at : Cardinality(Below(S, order, at[n])) = n - 1
<1> DEFINE size == Cardinality(S)
<1>1. size \in Nat
  BY FS_CardinalityType
<1>2. at = [n \in 1 .. size |-> CHOOSE x \in S : Cardinality(Below(S, order, x)) = n - 1]
  BY DEF InOrder, Below
<1>3. DOMAIN at = 1 .. size
  BY <1>2
<1>4. ASSUME NEW n \in 1 .. size
      PROVE  at[n] \in S /\ Cardinality(Below(S, order, at[n])) = n - 1
  <2>1. \E x \in S : Cardinality(Below(S, order, x)) = n - 1
    BY BelowIsReached
  <2>2. at[n] = CHOOSE x \in S : Cardinality(Below(S, order, x)) = n - 1
    BY <1>2
  <2>3. QED BY <2>1, <2>2
<1>5. ASSUME NEW x \in S PROVE \E n \in 1 .. size : at[n] = x
  <2> DEFINE A == Below(S, order, x)
  <2>1. A \subseteq S /\ IsFiniteSet(A) /\ Cardinality(A) \in Nat /\ x \notin A
    BY BelowIsFinite DEF Linear, Below
  <2> HIDE DEF A
  <2>2. Cardinality(A) <= size /\ (Cardinality(A) = size => A = S)
    BY <2>1, FS_Subset
  <2>3. Cardinality(A) + 1 \in 1 .. size /\ (Cardinality(A) + 1) - 1 = Cardinality(A)
    BY <1>1, <2>1, <2>2
  <2>4. /\ at[Cardinality(A) + 1] \in S
        /\ Cardinality(Below(S, order, at[Cardinality(A) + 1])) = Cardinality(A)
    BY <1>4, <2>3
  <2>5. at[Cardinality(A) + 1] = x
    BY <2>4, BelowTells DEF A
  <2>6. QED BY <2>3, <2>5
<1>6. ASSUME NEW m \in 1 .. size, NEW n \in 1 .. size, m < n
      PROVE  <<at[m], at[n]>> \in order
  <2>1. /\ at[m] \in S /\ Cardinality(Below(S, order, at[m])) = m - 1
        /\ at[n] \in S /\ Cardinality(Below(S, order, at[n])) = n - 1
    BY <1>4
  <2>2. at[m] # at[n]
    BY <1>1, <1>6, <2>1
  <2>3. ~(n - 1 < m - 1)
    BY <1>1, <1>6
  <2>4. <<at[n], at[m]>> \notin order
    BY <2>1, <2>3, BelowGrows
  <2>5. QED BY <2>1, <2>2, <2>4 DEF Linear
<1>7. at \in Seq(S) /\ Len(at) = size
  <2>1. at \in [1 .. size -> S]
    BY <1>2, <1>4
  <2>2. QED BY <1>1, <2>1
<1>8. Range(at) = S
  BY <1>3, <1>4, <1>5 DEF Range
<1>9. QED BY <1>3, <1>4, <1>6, <1>7, <1>8 DEF Lists

(* There is no other way to list them.                                     *)
LEMMA ListedOnce ==
    ASSUME NEW S, NEW order, Linear(order, S), NEW f, Lists(f, S, order)
    PROVE  IsFiniteSet(S) /\ Cardinality(S) = Len(f) /\ f = InOrder(S, order)
<1> DEFINE k == Len(f)
<1>1. /\ k \in Nat /\ DOMAIN f = 1 .. k /\ f = [n \in 1 .. k |-> f[n]]
      /\ \A n \in 1 .. k : f[n] \in S
      /\ \A m, n \in 1 .. k : m < n => <<f[m], f[n]>> \in order
  BY DEF Lists
<1>2. \A x \in S : \E n \in 1 .. k : f[n] = x
  BY <1>1 DEF Lists, Range
<1> HIDE DEF k
<1>3. ASSUME NEW m \in 1 .. k, NEW n \in 1 .. k, f[m] = f[n] PROVE m = n
  <2>1. <<f[m], f[n]>> \notin order /\ <<f[n], f[m]>> \notin order
    BY <1>1, <1>3 DEF Linear
  <2>2. ~(m < n) /\ ~(n < m)
    BY <1>1, <2>1
  <2>3. QED BY <2>2
<1>4. f \in Bijection(1 .. k, S)
  BY <1>1, <1>2, <1>3 DEF Bijection, Injection, IsInjective, Surjection
<1>5. IsFiniteSet(1 .. k) /\ Cardinality(1 .. k) = k
  BY <1>1, FS_Interval
<1>6. IsFiniteSet(S) /\ Cardinality(S) = k
  BY <1>4, <1>5, FS_Bijection DEF ExistsBijection
<1> DEFINE at == InOrder(S, order)
<1>7. Lists(at, S, order) /\ \A n \in DOMAIN at : Cardinality(Below(S, order, at[n])) = n - 1
  BY <1>6, InOrderIs
<1>8. DOMAIN at = 1 .. k
  BY <1>6 DEF InOrder
<1> HIDE DEF at
<1>9. at = [n \in 1 .. k |-> at[n]] /\ \A n \in 1 .. k : at[n] \in S
  <2>1. at \in Seq(S)
    BY <1>7 DEF Lists
  <2>2. at \in [1 .. Len(at) -> S] /\ DOMAIN at = 1 .. Len(at)
    BY <2>1
  <2>3. at \in [1 .. k -> S]
    BY <1>8, <2>2
  <2>4. QED BY <2>3
<1>10. ASSUME NEW n \in 1 .. k PROVE f[n] = at[n]
  <2> DEFINE B == Below(S, order, f[n])
             g == [m \in 1 .. n - 1 |-> f[m]]
  <2>1. \A m \in 1 .. n - 1 : m \in 1 .. k /\ m < n
    BY <1>1
  <2>2. \A m \in 1 .. n - 1 : f[m] \in B
    BY <1>1, <2>1 DEF Below
  <2>3. ASSUME NEW y \in B PROVE \E m \in 1 .. n - 1 : f[m] = y
    <3>1. y \in S /\ <<y, f[n]>> \in order
      BY DEF Below
    <3>2. PICK m \in 1 .. k : f[m] = y
      BY <1>2, <3>1
    <3>3. m # n /\ <<f[n], f[m]>> \notin order
      <4>1. f[n] \in S /\ <<f[m], f[n]>> \in order /\ f[m] \in S
        BY <1>1, <3>1, <3>2
      <4>2. QED BY <4>1 DEF Linear
    <3>4. ~(n < m)
      BY <1>1, <3>3
    <3>5. m \in 1 .. n - 1
      BY <1>1, <3>3, <3>4
    <3>6. QED BY <3>2, <3>5
  <2> HIDE DEF B
  <2>4. g \in Bijection(1 .. n - 1, B)
    BY <1>3, <2>1, <2>2, <2>3 DEF Bijection, Injection, IsInjective, Surjection
  <2>5. n - 1 \in Nat /\ IsFiniteSet(1 .. n - 1) /\ Cardinality(1 .. n - 1) = n - 1
    <3>1. n - 1 \in Nat
      BY <1>1
    <3>2. QED BY <3>1, FS_Interval
  <2>6. Cardinality(B) = n - 1
    BY <2>4, <2>5, FS_Bijection DEF ExistsBijection
  <2>7. QED BY <1>1, <1>6, <1>7, <1>8, <1>9, <2>6, BelowTells DEF B
<1>11. QED BY <1>1, <1>6, <1>9, <1>10 DEF at, k

(* What is taken of a sequence, and how it then is ordered.                *)
At(s, places) == {s[i] : i \in places}

(* Nearer the front in one sequence is before in the order of the other.   *)
Ordered(t, s, places, order) ==
    \A m, n \in DOMAIN t : m < n =>
        \E i, j \in places : <<i, j>> \in order /\ t[m] = s[i] /\ t[n] = s[j]

LEMMA TakenIs ==
    ASSUME NEW X, NEW s \in Seq(X), NEW places, places \subseteq DOMAIN s,
           NEW order, Linear(order, places), NEW t, t = Taken(s, places, order)
    PROVE  t \in Seq(X) /\ Range(t) = At(s, places) /\ Ordered(t, s, places, order)
<1> DEFINE at == InOrder(places, order)
<1>1. /\ Len(s) \in Nat /\ DOMAIN s = 1 .. Len(s) /\ \A i \in DOMAIN s : s[i] \in X
  OBVIOUS
<1>2. IsFiniteSet(places)
  <2>1. 1 \in Int /\ Len(s) \in Int /\ places \subseteq 1 .. Len(s)
    BY <1>1
  <2>2. QED BY <2>1, FS_Interval, FS_Subset
<1>3. Lists(at, places, order)
  BY <1>2, InOrderIs
<1>4. t = [n \in DOMAIN at |-> s[at[n]]]
  BY DEF Taken
<1> HIDE DEF at
<1>5. /\ Len(at) \in Nat /\ DOMAIN at = 1 .. Len(at)
      /\ \A n \in DOMAIN at : at[n] \in places
      /\ \A m, n \in DOMAIN at : m < n => <<at[m], at[n]>> \in order
  BY <1>3 DEF Lists
<1>6. \A i \in places : \E n \in DOMAIN at : at[n] = i
  BY <1>3 DEF Lists, Range
<1>7. DOMAIN t = DOMAIN at /\ \A n \in DOMAIN t : t[n] = s[at[n]]
  BY <1>4
<1>8. t \in Seq(X)
  <2>1. t \in [1 .. Len(at) -> X]
    BY <1>1, <1>4, <1>5
  <2>2. QED BY <1>5, <2>1
<1>9. Range(t) = At(s, places)
  BY <1>5, <1>6, <1>7 DEF Range, At
<1>10. QED BY <1>5, <1>7, <1>8, <1>9 DEF Ordered

Rising(places) == {p \in places \X places : p[1] < p[2]}

LEMMA OnlyIs ==
    ASSUME NEW X, NEW s \in Seq(X), NEW places, places \subseteq DOMAIN s,
           NEW t, t = Only(s, places)
    PROVE  t \in Seq(X) /\ Range(t) = At(s, places) /\ Ordered(t, s, places, Rising(places))
<1>1. places \subseteq Nat
  <2>1. DOMAIN s \subseteq Nat
    OBVIOUS
  <2>2. QED BY <2>1
<1>2. \A i, j \in places : <<i, j>> \in Rising(places) <=> i < j
  BY DEF Rising
<1>3. t = Taken(s, places, Rising(places))
  BY DEF Only, Rising
<1>4. Linear(Rising(places), places)
  BY <1>1, <1>2 DEF Linear
<1>5. QED BY <1>3, <1>4, TakenIs

LEMMA OnlyLists ==
    ASSUME NEW S, NEW order, NEW s, Lists(s, S, order), NEW places, places \subseteq DOMAIN s,
           NEW kept, kept = At(s, places)
    PROVE  Lists(Only(s, places), kept, order)
<1> DEFINE t == Only(s, places)
<1>1. s \in Seq(S) /\ DOMAIN s \subseteq Nat
  BY DEF Lists
<1>2. t \in Seq(S) /\ Range(t) = kept /\ Ordered(t, s, places, Rising(places))
  BY <1>1, OnlyIs
<1> HIDE DEF t
<1>3. \A i, j \in places : <<i, j>> \in Rising(places) => <<s[i], s[j]>> \in order
  BY DEF Lists, Rising
<1>4. \A m, n \in DOMAIN t : m < n => <<t[m], t[n]>> \in order
  BY <1>2, <1>3 DEF Ordered
<1>5. t \in Seq(kept)
  <2>1. Len(t) \in Nat /\ t \in [1 .. Len(t) -> S] /\ DOMAIN t = 1 .. Len(t)
    BY <1>2
  <2>2. \A n \in 1 .. Len(t) : t[n] \in kept
    BY <1>2, <2>1 DEF Range
  <2>3. t \in [1 .. Len(t) -> kept]
    BY <2>1, <2>2
  <2>4. QED BY <2>1, <2>3
<1>6. QED BY <1>2, <1>4, <1>5 DEF t, Lists

(* A listing by one order is one by another that goes the same way.        *)
LEMMA ListsFiner ==
    ASSUME NEW S, NEW order, NEW s, Lists(s, S, order), NEW finer,
           \A x, y \in S : <<x, y>> \in order => <<x, y>> \in finer
    PROVE  Lists(s, S, finer)
<1>1. \A n \in DOMAIN s : s[n] \in S
  BY DEF Lists
<1>2. QED BY <1>1 DEF Lists

-----------------------------------------------------------------------------
(* The orders of the index.                                                *)

LEMMA KeysAreInts ==
    ASSUME NEW log \in Logs
    PROVE  log.key \in Keys /\ log.block \in Nat /\ LogOrder[log.key] \in Nat /\ DocRef[log.key] \in Nat
BY IndexAssumption DEF Logs

LEMMA StableBefore ==
    ASSUME NEW s \in Seq(Logs)
    PROVE  Linear(Stable(s, ChainOrder(Range(s))), DOMAIN s)
<1> DEFINE b == [i \in DOMAIN s |-> s[i].block]
           l == [i \in DOMAIN s |-> LogOrder[s[i].key]]
           earlier(i, j) == \/ b[i] < b[j]
                            \/ b[i] = b[j] /\ l[i] < l[j]
           same(i, j) == b[i] = b[j] /\ l[i] = l[j]
           order == Stable(s, ChainOrder(Range(s)))
<1>1. \A i \in DOMAIN s : i \in Nat /\ b[i] \in Nat /\ l[i] \in Nat
  <2>1. \A i \in DOMAIN s : i \in Nat /\ s[i] \in Logs
    OBVIOUS
  <2>2. QED BY <2>1, KeysAreInts
<1>2. \A i, j \in DOMAIN s :
         <<i, j>> \in order <=> (earlier(i, j) \/ (~earlier(j, i) /\ i < j))
  BY DEF Stable, ChainOrder, Range, Before
<1> HIDE DEF b, l, order
<1>3. /\ \A i \in DOMAIN s : ~earlier(i, i)
      /\ \A i, j \in DOMAIN s : earlier(i, j) \/ earlier(j, i) \/ same(i, j)
      /\ \A i, j \in DOMAIN s : earlier(i, j) => ~earlier(j, i)
  BY <1>1
<1>4. ASSUME NEW i \in DOMAIN s, NEW j \in DOMAIN s, NEW k \in DOMAIN s
      PROVE  /\ earlier(i, j) /\ earlier(j, k) => earlier(i, k)
             /\ same(i, j) /\ earlier(j, k) => earlier(i, k)
             /\ earlier(i, j) /\ same(j, k) => earlier(i, k)
             /\ same(i, j) /\ same(j, k) => same(i, k)
             /\ same(i, j) => ~earlier(i, j) /\ ~earlier(j, i)
  BY <1>1
<1> HIDE DEF earlier, same
<1>5. \A i, j \in DOMAIN s : <<i, j>> \in order <=> (earlier(i, j) \/ (same(i, j) /\ i < j))
  BY <1>2, <1>3, <1>4
<1>6. \A i \in DOMAIN s : <<i, i>> \notin order
  BY <1>1, <1>3, <1>5
<1>7. \A i, j \in DOMAIN s : i # j => <<i, j>> \in order \/ <<j, i>> \in order
  BY <1>1, <1>2, <1>3
<1>8. ASSUME NEW i \in DOMAIN s, NEW j \in DOMAIN s, NEW k \in DOMAIN s,
             <<i, j>> \in order, <<j, k>> \in order
      PROVE  <<i, k>> \in order
  <2>1. earlier(i, j) \/ (same(i, j) /\ i < j)
    BY <1>5, <1>8
  <2>2. earlier(j, k) \/ (same(j, k) /\ j < k)
    BY <1>5, <1>8
  <2>3. i < j /\ j < k => i < k
    BY <1>1
  <2>4. earlier(i, k) \/ (same(i, k) /\ i < k)
    BY <1>4, <2>1, <2>2, <2>3
  <2>5. QED BY <1>5, <2>4
<1>9. QED BY <1>6, <1>7, <1>8 DEF order, Linear

LEMMA StableByDocument ==
    ASSUME NEW s \in Seq(Logs)
    PROVE  Linear(Stable(s, DocumentOrder(Range(s))), DOMAIN s)
<1> DEFINE d == [i \in DOMAIN s |-> DocRef[s[i].key]]
           b == [i \in DOMAIN s |-> s[i].block]
           l == [i \in DOMAIN s |-> LogOrder[s[i].key]]
           earlier(i, j) == \/ d[i] < d[j]
                            \/ /\ d[i] = d[j]
                               /\ \/ b[i] < b[j]
                                  \/ b[i] = b[j] /\ l[i] < l[j]
           same(i, j) == d[i] = d[j] /\ b[i] = b[j] /\ l[i] = l[j]
           order == Stable(s, DocumentOrder(Range(s)))
<1>1. \A i \in DOMAIN s : i \in Nat /\ d[i] \in Nat /\ b[i] \in Nat /\ l[i] \in Nat
  <2>1. \A i \in DOMAIN s : i \in Nat /\ s[i] \in Logs
    OBVIOUS
  <2>2. QED BY <2>1, KeysAreInts
<1>2. \A i, j \in DOMAIN s :
         <<i, j>> \in order <=> (earlier(i, j) \/ (~earlier(j, i) /\ i < j))
  BY DEF Stable, DocumentOrder, Range, ByDocument, Before
<1> HIDE DEF b, l, d, order
<1>3. /\ \A i \in DOMAIN s : ~earlier(i, i)
      /\ \A i, j \in DOMAIN s : earlier(i, j) \/ earlier(j, i) \/ same(i, j)
      /\ \A i, j \in DOMAIN s : earlier(i, j) => ~earlier(j, i)
  BY <1>1
<1>4. ASSUME NEW i \in DOMAIN s, NEW j \in DOMAIN s, NEW k \in DOMAIN s
      PROVE  /\ earlier(i, j) /\ earlier(j, k) => earlier(i, k)
             /\ same(i, j) /\ earlier(j, k) => earlier(i, k)
             /\ earlier(i, j) /\ same(j, k) => earlier(i, k)
             /\ same(i, j) /\ same(j, k) => same(i, k)
             /\ same(i, j) => ~earlier(i, j) /\ ~earlier(j, i)
  BY <1>1
<1> HIDE DEF earlier, same
<1>5. \A i, j \in DOMAIN s : <<i, j>> \in order <=> (earlier(i, j) \/ (same(i, j) /\ i < j))
  BY <1>2, <1>3, <1>4
<1>6. \A i \in DOMAIN s : <<i, i>> \notin order
  BY <1>1, <1>3, <1>5
<1>7. \A i, j \in DOMAIN s : i # j => <<i, j>> \in order \/ <<j, i>> \in order
  BY <1>1, <1>2, <1>3
<1>8. ASSUME NEW i \in DOMAIN s, NEW j \in DOMAIN s, NEW k \in DOMAIN s,
             <<i, j>> \in order, <<j, k>> \in order
      PROVE  <<i, k>> \in order
  <2>1. earlier(i, j) \/ (same(i, j) /\ i < j)
    BY <1>5, <1>8
  <2>2. earlier(j, k) \/ (same(j, k) /\ j < k)
    BY <1>5, <1>8
  <2>3. i < j /\ j < k => i < k
    BY <1>1
  <2>4. earlier(i, k) \/ (same(i, k) /\ i < k)
    BY <1>4, <2>1, <2>2, <2>3
  <2>5. QED BY <1>5, <2>4
<1>9. QED BY <1>6, <1>7, <1>8 DEF order, Linear

(* No key has two events, in a set or in a sequence.                       *)
OnePerKey(S) == \A r, q \in S : r.key = q.key => r = q

KeyOnce(t) == \A m, n \in DOMAIN t : t[m].key = t[n].key => m = n

LEMMA OrdersLinear ==
    ASSUME NEW S, S \subseteq Logs, OnePerKey(S)
    PROVE  Linear(ChainOrder(S), S) /\ Linear(DocumentOrder(S), S)
<1> DEFINE d == [x \in S |-> DocRef[x.key]]
           b == [x \in S |-> x.block]
           l == [x \in S |-> LogOrder[x.key]]
           before(x, y) == \/ b[x] < b[y]
                           \/ b[x] = b[y] /\ l[x] < l[y]
           byDocument(x, y) == \/ d[x] < d[y]
                               \/ d[x] = d[y] /\ before(x, y)
<1>1. \A x \in S : d[x] \in Nat /\ b[x] \in Nat /\ l[x] \in Nat
  BY KeysAreInts
<1>2. \A x, y \in S : l[x] = l[y] => x = y
  <2>1. \A x, y \in S : l[x] = l[y] => x.key = y.key
    BY KeysAreInts, IndexAssumption
  <2>2. QED BY <2>1 DEF OnePerKey
<1>3. \A x, y \in S : <<x, y>> \in ChainOrder(S) <=> before(x, y)
  BY DEF ChainOrder, Before
<1>4. \A x, y \in S : <<x, y>> \in DocumentOrder(S) <=> byDocument(x, y)
  BY DEF DocumentOrder, ByDocument, Before
<1> HIDE DEF b, l, d
<1>5. \A x \in S : ~before(x, x) /\ ~byDocument(x, x)
  BY <1>1
<1>6. ASSUME NEW x \in S, NEW y \in S, x # y
      PROVE  (before(x, y) \/ before(y, x)) /\ (byDocument(x, y) \/ byDocument(y, x))
  <2>1. l[x] # l[y]
    BY <1>2, <1>6
  <2>2. QED BY <1>1, <2>1
<1>7. ASSUME NEW x \in S, NEW y \in S, NEW z \in S
      PROVE  /\ before(x, y) /\ before(y, z) => before(x, z)
             /\ byDocument(x, y) /\ byDocument(y, z) => byDocument(x, z)
  BY <1>1
<1> HIDE DEF before, byDocument
<1>8. QED BY <1>3, <1>4, <1>5, <1>6, <1>7 DEF Linear

LEMMA SeqOfItsRange ==
    ASSUME NEW X, NEW t \in Seq(X)
    PROVE  t \in Seq(Range(t)) /\ Range(t) \subseteq X
<1>1. Len(t) \in Nat /\ t \in [1 .. Len(t) -> X] /\ DOMAIN t = 1 .. Len(t)
  OBVIOUS
<1>2. \A n \in 1 .. Len(t) : t[n] \in Range(t)
  BY <1>1 DEF Range
<1>3. t \in [1 .. Len(t) -> Range(t)]
  BY <1>1, <1>2
<1>4. t \in Seq(Range(t))
  BY <1>1, <1>3
<1>5. Range(t) \subseteq X
  BY <1>1 DEF Range
<1>6. QED BY <1>4, <1>5

(* A place in a sequence comes first among those of its kind.              *)
LEMMA FirstOfPlaces ==
    ASSUME NEW k \in Nat, NEW places, places \subseteq 1 .. k, places # {}
    PROVE  \E i \in places : \A j \in places : i <= j
<1> DEFINE at == InOrder(places, Rising(places))
<1>1. \A i, j \in places : <<i, j>> \in Rising(places) <=> i < j
  BY DEF Rising
<1>2. IsFiniteSet(places)
  <2>1. 1 \in Int /\ k \in Int
    OBVIOUS
  <2>2. QED BY <2>1, FS_Interval, FS_Subset
<1>3. Linear(Rising(places), places)
  BY <1>1 DEF Linear
<1>4. Lists(at, places, Rising(places))
  BY <1>2, <1>3, InOrderIs
<1> HIDE DEF at
<1>5. /\ Len(at) \in Nat /\ DOMAIN at = 1 .. Len(at)
      /\ \A n \in DOMAIN at : at[n] \in places
      /\ \A m, n \in DOMAIN at : m < n => <<at[m], at[n]>> \in Rising(places)
  BY <1>4 DEF Lists
<1>6. \A j \in places : \E n \in DOMAIN at : at[n] = j
  BY <1>4 DEF Lists, Range
<1>7. 1 \in DOMAIN at
  <2>1. PICK j \in places : TRUE
    OBVIOUS
  <2>2. PICK n \in 1 .. Len(at) : at[n] = j
    BY <1>5, <1>6
  <2>3. QED BY <1>5, <2>2
<1>8. ASSUME NEW j \in places PROVE at[1] <= j
  <2>1. PICK n \in DOMAIN at : at[n] = j
    BY <1>6
  <2>2. n = 1 \/ 1 < n
    BY <1>5
  <2>3. n = 1 \/ at[1] < j
    BY <1>1, <1>5, <1>7, <2>1, <2>2
  <2>4. at[1] \in places /\ places \subseteq Nat
    BY <1>5, <1>7
  <2>5. at[1] \in Nat
    BY <2>4
  <2>6. QED BY <2>1, <2>3, <2>5
<1>9. QED BY <1>5, <1>7, <1>8

LEMMA DedupeIs ==
    ASSUME NEW s \in Seq(Logs), OnePerKey(Range(s)), NEW t, t = Dedupe(s)
    PROVE  t \in Seq(Logs) /\ Range(t) = Range(s) /\ KeyOnce(t)
<1> DEFINE sorted == SortEvents(s)
           first(i) == \A j \in 1 .. i - 1 : sorted[j].key # sorted[i].key
           firsts == {i \in DOMAIN sorted : first(i)}
<1>1. sorted \in Seq(Logs) /\ Range(sorted) = Range(s)
  <2> DEFINE order == Stable(s, ChainOrder(Range(s)))
  <2>1. Linear(order, DOMAIN s) /\ sorted = Taken(s, DOMAIN s, order)
    BY StableBefore DEF SortEvents
  <2> HIDE DEF order, sorted
  <2>2. sorted \in Seq(Logs) /\ Range(sorted) = At(s, DOMAIN s)
    BY <2>1, TakenIs
  <2>3. At(s, DOMAIN s) = Range(s)
    BY DEF At, Range
  <2>4. QED BY <2>2, <2>3
<1>2. t = Only(sorted, firsts)
  BY DEF Dedupe
<1> HIDE DEF sorted
<1>3. firsts \subseteq DOMAIN sorted /\ DOMAIN sorted = 1 .. Len(sorted) /\ Len(sorted) \in Nat
  BY <1>1
<1>4. \A i, j \in firsts : i < j => sorted[i].key # sorted[j].key
  BY <1>3
<1>5. ASSUME NEW r \in Range(s) PROVE \E i \in firsts : sorted[i] = r
  <2> DEFINE places == {i \in DOMAIN sorted : sorted[i].key = r.key}
  <2>1. places \subseteq 1 .. Len(sorted) /\ places # {}
    BY <1>1, <1>3 DEF Range
  <2>2. PICK i \in places : \A j \in places : i <= j
    BY <1>3, <2>1, FirstOfPlaces
  <2>3. i \in firsts
    BY <1>3, <2>1, <2>2
  <2>4. sorted[i] \in Range(s)
    BY <1>1, <2>2 DEF Range
  <2>5. sorted[i] = r
    BY <2>2, <2>4 DEF OnePerKey
  <2>6. QED BY <2>3, <2>5
<1> HIDE DEF firsts
<1>6. t \in Seq(Logs) /\ Range(t) = At(sorted, firsts) /\ Ordered(t, sorted, firsts, Rising(firsts))
  BY <1>1, <1>2, <1>3, OnlyIs
<1>7. Range(t) = Range(s)
  <2>1. At(sorted, firsts) \subseteq Range(sorted)
    BY <1>3 DEF At, Range
  <2>2. Range(s) \subseteq At(sorted, firsts)
    BY <1>5 DEF At
  <2>3. At(sorted, firsts) = Range(s)
    BY <1>1, <1>5, <2>1, <2>2
  <2>4. QED BY <1>6, <2>3
<1>8. \A m, n \in DOMAIN t : m < n => t[m].key # t[n].key
  <2>1. \A i, j \in firsts : <<i, j>> \in Rising(firsts) => sorted[i].key # sorted[j].key
    BY <1>4 DEF Rising
  <2>2. ASSUME NEW m \in DOMAIN t, NEW n \in DOMAIN t, m < n PROVE t[m].key # t[n].key
    <3>1. PICK i \in firsts, j \in firsts :
             <<i, j>> \in Rising(firsts) /\ t[m] = sorted[i] /\ t[n] = sorted[j]
      BY <1>6, <2>2 DEF Ordered
    <3>2. sorted[i].key # sorted[j].key
      BY <2>1, <3>1
    <3>3. QED BY <3>1, <3>2
  <2>3. QED BY <2>2
<1>9. DOMAIN t \subseteq Nat
  BY <1>6
<1>10. KeyOnce(t)
  BY <1>8, <1>9 DEF KeyOnce
<1>11. QED BY <1>6, <1>7, <1>10

LEMMA SortRecordsIs ==
    ASSUME NEW s \in Seq(Logs), KeyOnce(s), NEW S, S = Range(s)
    PROVE  Lists(SortRecords(s), S, DocumentOrder(S))
<1> DEFINE t == SortRecords(s)
           order == Stable(s, DocumentOrder(Range(s)))
<1>1. Linear(order, DOMAIN s) /\ t = Taken(s, DOMAIN s, order)
  BY StableByDocument DEF SortRecords
<1>2. \A i, j \in DOMAIN s : <<i, j>> \in order => ByDocument(s[i], s[j]) \/ ~ByDocument(s[j], s[i])
  BY DEF Stable, DocumentOrder, Range
<1> HIDE DEF t, order
<1>3. t \in Seq(Logs) /\ Range(t) = At(s, DOMAIN s) /\ Ordered(t, s, DOMAIN s, order)
  BY <1>1, TakenIs
<1>4. At(s, DOMAIN s) = S /\ \A i \in DOMAIN s : s[i] \in S
  BY DEF At, Range
<1>5. ASSUME NEW i \in DOMAIN s, NEW j \in DOMAIN s, <<i, j>> \in order
      PROVE  <<s[i], s[j]>> \in DocumentOrder(S)
  <2>1. i # j
    BY <1>1, <1>5 DEF Linear
  <2>2. s[i].key # s[j].key
    BY <2>1 DEF KeyOnce
  <2>3. s[i] \in Logs /\ s[j] \in Logs
    OBVIOUS
  <2>4. LogOrder[s[i].key] # LogOrder[s[j].key]
    BY <2>2, <2>3, KeysAreInts, IndexAssumption
  <2> DEFINE x == s[i]
             y == s[j]
  <2>5. ByDocument(x, y) \/ ~ByDocument(y, x)
    BY <1>2, <1>5
  <2>6. /\ x.block \in Nat /\ LogOrder[x.key] \in Nat /\ DocRef[x.key] \in Nat
        /\ y.block \in Nat /\ LogOrder[y.key] \in Nat /\ DocRef[y.key] \in Nat
        /\ LogOrder[x.key] # LogOrder[y.key]
    BY <2>3, <2>4, KeysAreInts
  <2> HIDE DEF x, y
  <2>7. ByDocument(x, y)
    BY <2>5, <2>6 DEF ByDocument, Before
  <2>8. <<x, y>> \in DocumentOrder(S)
    BY <1>4, <2>7 DEF x, y, DocumentOrder
  <2>9. QED BY <2>8 DEF x, y
<1>6. \A m, n \in DOMAIN t : m < n => <<t[m], t[n]>> \in DocumentOrder(S)
  BY <1>3, <1>5 DEF Ordered
<1>7. t \in Seq(S)
  BY <1>3, <1>4, SeqOfItsRange
<1>8. QED BY <1>3, <1>4, <1>6, <1>7 DEF t, Lists

About(S, ref) == {r \in S : DocRef[r.key] = ref}

LEMMA GroupIs ==
    ASSUME NEW S, S \subseteq Logs, NEW records, Lists(records, S, DocumentOrder(S)), NEW ref,
           NEW group, group = Group(records, ref)
    PROVE  Lists(group, About(S, ref), ChainOrder(About(S, ref)))
<1> DEFINE places == {i \in DOMAIN records : DocRef[records[i].key] = ref}
           A == About(S, ref)
<1>1. group = Only(records, places) /\ places \subseteq DOMAIN records
  BY DEF Group
<1>2. (\A i \in DOMAIN records : records[i] \in S) /\ Range(records) = S
  BY DEF Lists
<1>3. A = At(records, places)
  BY <1>2 DEF About, At, Range
<1>4. \A x, y \in A : <<x, y>> \in DocumentOrder(S) => <<x, y>> \in ChainOrder(A)
  <2>1. \A x \in A : x \in S /\ DocRef[x.key] = ref
    BY DEF About
  <2>2. ASSUME NEW x \in A, NEW y \in A, <<x, y>> \in DocumentOrder(S) PROVE Before(x, y)
    <3>1. ByDocument(x, y)
      BY <2>1, <2>2 DEF DocumentOrder
    <3>2. DocRef[x.key] = DocRef[y.key] /\ DocRef[x.key] \in Nat
      BY <2>1, KeysAreInts
    <3>3. QED BY <3>1, <3>2 DEF ByDocument
  <2>3. QED BY <2>2 DEF ChainOrder
<1> HIDE DEF places, A
<1>5. Lists(group, A, DocumentOrder(S))
  BY <1>1, <1>3, OnlyLists
<1>6. Lists(group, A, ChainOrder(A))
  BY <1>4, <1>5, ListsFiner
<1>7. QED BY <1>6 DEF A

(* What the index of sound lines has.                                      *)
LEMMA IndexIs ==
    ASSUME NEW lines \in Seq(Logs), NEW S, S = Range(lines), OnePerKey(S),
           NEW index, index = Index(lines), NEW ref
    PROVE  /\ index.eventCount = Cardinality(S)
           /\ ref \in DOMAIN index.docRefs =>
                 Lists(index.docRefs[ref].events, About(S, ref), ChainOrder(About(S, ref)))
           /\ ref \notin DOMAIN index.docRefs => About(S, ref) = {}
<1> DEFINE records == SortRecords(Dedupe(lines))
           refs == {DocRef[r.key] : r \in Range(records)}
<1>1. /\ index.eventCount = Len(records)
      /\ DOMAIN index.docRefs = refs
      /\ ref \in refs => index.docRefs[ref].events = Group(records, ref)
  BY DEF Index, Entry
<1>2. Lists(records, S, DocumentOrder(S))
  <2>1. Dedupe(lines) \in Seq(Logs) /\ Range(Dedupe(lines)) = S /\ KeyOnce(Dedupe(lines))
    BY DedupeIs
  <2>2. QED BY <2>1, SortRecordsIs
<1>3. S \subseteq Logs
  BY SeqOfItsRange
<1> HIDE DEF records
<1>4. Cardinality(S) = Len(records)
  BY <1>2, <1>3, OrdersLinear, ListedOnce
<1>5. ref \in refs => Lists(index.docRefs[ref].events, About(S, ref), ChainOrder(About(S, ref)))
  BY <1>1, <1>2, <1>3, GroupIs
<1>6. ref \notin refs => About(S, ref) = {}
  BY <1>2 DEF About, Lists
<1> HIDE DEF refs
<1>7. QED BY <1>1, <1>4, <1>5, <1>6

(* Part of a listed set is listed in but one way.                          *)
LEMMA PartIs ==
    ASSUME NEW S, S \subseteq Logs, OnePerKey(S), NEW t, Lists(t, S, ChainOrder(S)),
           NEW places, places \subseteq DOMAIN t, NEW T, T = At(t, places)
    PROVE  Only(t, places) = InOrder(T, ChainOrder(T))
<1>1. T \subseteq S
  BY DEF At, Lists
<1>2. OnePerKey(T) /\ T \subseteq Logs
  BY <1>1 DEF OnePerKey
<1>3. Lists(Only(t, places), T, ChainOrder(S))
  BY OnlyLists
<1>4. \A x, y \in T : <<x, y>> \in ChainOrder(S) => <<x, y>> \in ChainOrder(T)
  BY <1>1 DEF ChainOrder
<1>5. Lists(Only(t, places), T, ChainOrder(T))
  BY <1>3, <1>4, ListsFiner
<1>6. QED BY <1>2, <1>5, OrdersLinear, ListedOnce

LEMMA NothingListed ==
    ASSUME NEW order
    PROVE  Lists(<< >>, {}, order)
<1>1. << >> \in Seq({}) /\ DOMAIN << >> = {}
  OBVIOUS
<1>2. Range(<< >>) = {}
  BY <1>1 DEF Range
<1>3. QED BY <1>1, <1>2 DEF Lists

(* A cache that tells the truth has one event of a key.                    *)
LEMMA RecordsOncePerKey ==
    ASSUME TypeOK, Loadable, RecordsOnChain, Confirmations >= Depth
    PROVE  /\ cache \in Seq(Logs) /\ Records(cache) = Range(cache)
           /\ OnePerKey(Range(cache)) /\ Range(cache) \subseteq Logs
<1>1. cache \in Seq(Logs \cup {Torn}) /\ ChainTypeOK
  BY DEF TypeOK
<1>2. Records(cache) = Range(cache)
  BY DEF Records, Loadable
<1>3. /\ cache \in Seq(Range(cache)) /\ Range(cache) \subseteq Logs \cup {Torn}
  BY <1>1, SeqOfItsRange
<1>4. Range(cache) \subseteq Logs
  BY <1>3 DEF Loadable
<1>5. cache \in Seq(Logs)
  BY <1>3, <1>4
<1>6. ASSUME NEW r \in Range(cache), NEW q \in Range(cache), r.key = q.key PROVE r = q
  <2>1. /\ r \in Logs /\ r.block <= head /\ r.key \in chain[r.block]
        /\ q \in Logs /\ q.block <= head /\ q.key \in chain[q.block]
    BY <1>2, <1>4 DEF RecordsOnChain
  <2>2. DOMAIN chain = 1 .. head /\ head \in Nat
    BY <1>1 DEF ChainTypeOK, Blocks, head
  <2>3. r.block \in DOMAIN chain /\ q.block \in DOMAIN chain
    BY <2>1, <2>2 DEF Logs
  <2>4. r.block = q.block
    BY <1>1, <1>6, <2>1, <2>3 DEF ChainTypeOK
  <2>5. QED BY <1>6, <2>1, <2>4 DEF Logs
<1>7. QED BY <1>2, <1>4, <1>5, <1>6 DEF OnePerKey

(* The index follows from what the cache and the checkpoint promise.       *)
LEMMA IndexFollows == TypeOK /\ RecordsOnChain /\ CheckpointCovered => IndexIsOfChain
<1> SUFFICES ASSUME TypeOK, RecordsOnChain, CheckpointCovered,
                    Confirmations >= Depth, Loadable, checkpoint \in Checkpoints
             PROVE  IndexIsOfChain
  BY DEF IndexIsOfChain
<1> DEFINE index == Index(cache)
           context == checkpoint.context
           last == checkpoint.last_block
           S == Range(cache)
           Events(ref) == IF ref \in DOMAIN index.docRefs THEN index.docRefs[ref].events
                                                         ELSE << >>
           Claimed(from, r) == r.key \in Matches[context] /\ r.block \in from .. last
           OnChain(from, ref) == {log \in Expected(context, from, last) : DocRef[log.key] = ref}
           kept(from, ref) == {i \in DOMAIN Events(ref) : Claimed(from, Events(ref)[i])}
<1>1. cache \in Seq(Logs) /\ Records(cache) = S /\ OnePerKey(S) /\ S \subseteq Logs
  BY RecordsOncePerKey
<1>2. /\ index.eventCount = Cardinality(S)
      /\ \A ref : Lists(Events(ref), About(S, ref), ChainOrder(About(S, ref)))
  <2> HIDE DEF index
  <2>1. index = Index(cache)
    BY DEF index
  <2>2. index.eventCount = Cardinality(S)
    BY <1>1, <2>1, IndexIs
  <2>3. ASSUME NEW ref PROVE Lists(Events(ref), About(S, ref), ChainOrder(About(S, ref)))
    <3>1. CASE ref \in DOMAIN index.docRefs
      BY <1>1, <2>1, <3>1, IndexIs
    <3>2. CASE ref \notin DOMAIN index.docRefs
      <4>1. About(S, ref) = {} /\ Events(ref) = << >>
        BY <1>1, <2>1, <3>2, IndexIs
      <4>2. QED BY <4>1, NothingListed
    <3>3. QED BY <3>1, <3>2
  <2>4. QED BY <2>2, <2>3
<1> HIDE DEF index, context, last, Events, Claimed, OnChain
<1>3. ASSUME NEW from \in FromBlocks, NEW ref, \A f \in FromBlocks : f <= from
      PROVE  Only(Events(ref), kept(from, ref))
                 = InOrder(OnChain(from, ref), ChainOrder(OnChain(from, ref)))
  <2> DEFINE A == About(S, ref)
  <2>1. A \subseteq Logs /\ OnePerKey(A)
    BY <1>1 DEF About, OnePerKey
  <2>2. Lists(Events(ref), A, ChainOrder(A))
    BY <1>2
  <2>3. At(Events(ref), kept(from, ref)) = {r \in A : Claimed(from, r)}
    BY <2>2 DEF At, Lists, Range
  <2>4. ASSUME NEW r \in A, Claimed(from, r) PROVE r \in OnChain(from, ref)
    <3>1. r \in Logs /\ r.block <= head /\ r.key \in chain[r.block] /\ DocRef[r.key] = ref
      BY <1>1 DEF About, RecordsOnChain
    <3>2. DOMAIN chain = 1 .. head /\ head \in Nat
      BY DEF TypeOK, ChainTypeOK, Blocks, head
    <3>3. r.block \in DOMAIN chain /\ r.key \in Keys
      BY <3>1, <3>2 DEF Logs
    <3>4. r.key \in Matches[context] /\ r.block \in from .. last
      BY <2>4 DEF Claimed
    <3>5. r \in [key : Keys, block : from .. last]
      BY <3>1, <3>3, <3>4 DEF Logs
    <3>6. r \in LogsIn(from, last)
      BY <3>1, <3>3, <3>5 DEF LogsIn
    <3>7. QED BY <3>1, <3>4, <3>6 DEF OnChain, Expected
  <2>5. ASSUME NEW log \in OnChain(from, ref) PROVE log \in A /\ Claimed(from, log)
    <3>1. log \in Expected(context, from, last) /\ DocRef[log.key] = ref
      BY DEF OnChain
    <3>2. Expected(context, from, last) \subseteq Records(cache)
      BY <1>3 DEF CheckpointCovered, Covered, context, last
    <3>3. log \in A
      BY <1>1, <3>1, <3>2 DEF About
    <3>4. log.key \in Matches[context] /\ log.block \in from .. last
      BY <3>1 DEF Expected, LogsIn
    <3>5. QED BY <3>3, <3>4 DEF Claimed
  <2>6. OnChain(from, ref) = At(Events(ref), kept(from, ref))
    <3>1. OnChain(from, ref) \subseteq {r \in A : Claimed(from, r)}
      BY <2>5
    <3>2. {r \in A : Claimed(from, r)} \subseteq OnChain(from, ref)
      BY <2>4
    <3>3. QED BY <2>3, <3>1, <3>2
  <2>7. kept(from, ref) \subseteq DOMAIN Events(ref)
    OBVIOUS
  <2> HIDE DEF A, kept
  <2>8. QED BY <2>1, <2>2, <2>6, <2>7, PartIs
<1>4. QED
  BY <1>1, <1>2, <1>3
  DEF IndexIsOfChain, index, context, last, Events, Claimed, OnChain, kept

(* The index made of any cache that can be loaded is an index of the       *)
(* chain: from the latest first block asked for up to the checkpoint it    *)
(* has the events its context selects once each, by document and in chain  *)
(* order, whatever order and however often runs of any contexts that       *)
(* overlapped, failed or resumed put them into the cache.                  *)
THEOREM IndexIsTrue == Spec => []IndexIsOfChain
<1>1. Spec => []TypeOK /\ []RecordsOnChain /\ []CheckpointCovered
  BY TypeCorrect, CacheIsTrue, CheckpointPromise
<1>2. QED BY <1>1, IndexFollows, PTL
=============================================================================
