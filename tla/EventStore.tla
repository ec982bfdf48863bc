----------------------------- MODULE EventStore -----------------------------
(***************************************************************************)
(* reference/docchain/store.py: update_event_cache and the two files it    *)
(* keeps, a JSONL cache of events and a checkpoint.                        *)
(*                                                                         *)
(* A run scans the chain upwards in contiguous pieces (how pieces come     *)
(* about is RangeScan.tla's subject) and for each piece appends the new    *)
(* events to the cache and then replaces the checkpoint.  Each of Workers  *)
(* is a process that makes one run after the other; nothing keeps two of   *)
(* them apart, and each finds in the files what the others left there.     *)
(* A run may end at any point by an error or a kill, with any prefix of    *)
(* what it was writing in the file; the next run starts from the files.    *)
(*                                                                         *)
(* A cache line is the event whose JSON it holds, or Torn when what it     *)
(* holds does not parse: a part of an event, or two texts run together.    *)
(* A checkpoint file that is empty or does not parse is Torn as well.      *)
(***************************************************************************)
EXTENDS Blockchain, FiniteSets

CONSTANTS
    Workers,            \* processes that run update_event_cache
    Contexts,           \* ScanContext: contract address and filters
    Matches,            \* Matches[ctx]: the keys of the logs its filters select
    FromBlocks,         \* from_block arguments in use
    Checkpointing,      \* subset of BOOLEAN: runs with a checkpoint_path or not
    Confirmations,      \* how far below the head the callers stop
    ChunkSize,
    Torn, NoCheckpoint, \* unparseable content; absent file
    MaxFaults           \* bound: failed calls, kills and chain fall-backs

ASSUME StoreAssumption ==
    /\ Contexts # {} /\ Matches \in [Contexts -> SUBSET Keys]
    /\ FromBlocks \subseteq Nat \ {0} /\ FromBlocks # {}
    /\ Checkpointing \subseteq BOOLEAN
    /\ Confirmations \in Nat /\ ChunkSize \in Nat \ {0} /\ MaxFaults \in Nat
    /\ Torn \notin Logs /\ Torn # NoCheckpoint
    /\ {Torn, NoCheckpoint} \cap [context : Contexts, last_block : Nat] = {}

VARIABLES
    cache,              \* lines of the cache file
    unended,            \* the last cache line has no newline yet
    checkpoint, tmp,    \* the checkpoint file and its .tmp file
    opened,             \* where the file is that a worker has open for writing
    pc,                 \* where each worker's run is, "idle" between runs
    run,                \* its arguments and local variables
    faults

cacheVars == <<cache, unended>>
checkpointVars == <<checkpoint, tmp, opened>>
vars == <<chainVars, cacheVars, checkpointVars, pc, run, faults>>

Larger(a, b) == IF a > b THEN a ELSE b
Smaller(a, b) == IF a < b THEN a ELSE b

-----------------------------------------------------------------------------
(* The files.                                                              *)

Checkpoints == [context : Contexts, last_block : Nat]

Records(lines) == Range(lines) \ {Torn}
EventKeys(lines) == {r.key : r \in Records(lines)}

(* load_event_cache raises on the first line it cannot parse.              *)
Loadable == Torn \notin Range(cache)

(* Text goes to the end of the file, onto the last line if that is open.   *)
WithText(text) ==
    IF unended THEN [cache EXCEPT ![Len(cache)] = Torn] ELSE Append(cache, text)

(* The events of blocks from .. to that a context selects.                 *)
Expected(context, from, to) ==
    {log \in LogsIn(from, to) : log.key \in Matches[context]}

(* Seeded fault: the context of the checkpoint is not checked.             *)
AcceptableToAll(context) == checkpoint # Torn

(* checkpoint_from_block: raises unless the context is the run's own.      *)
Acceptable(context) ==
    checkpoint # NoCheckpoint => checkpoint # Torn /\ checkpoint.context = context

StartAfter(n, from, checkpointing) ==
    IF checkpointing /\ checkpoint # NoCheckpoint
    THEN Larger(from, checkpoint.last_block + n)
    ELSE from

(* Seeded fault: the checkpoint taken for the next block.                  *)
StartBlockSkipsOne(from, checkpointing) == StartAfter(2, from, checkpointing)

StartBlock(from, checkpointing) == StartAfter(1, from, checkpointing)

-----------------------------------------------------------------------------
(* A run of update_event_cache by worker w.                                *)

NewRun(context, checkpointing, next, to) ==
    [context |-> context, checkpointing |-> checkpointing, next |-> next, to |-> to,
     known |-> {}, pending |-> {}, chunk_end |-> 0]

NoRun == NewRun(CHOOSE c \in Contexts : TRUE, FALSE, 1, 0)

Goto(w, place) == pc' = [pc EXCEPT ![w] = place]
Put(w, r) == run' = [run EXCEPT ![w] = r]
End(w) == Goto(w, "idle") /\ Put(w, NoRun)

(* Read and validate the checkpoint; a run that fails here changes nothing. *)
Start(w, context, from, checkpointing, to) ==
    /\ pc[w] = "idle"
    /\ checkpointing => Acceptable(context)
    /\ Put(w, NewRun(context, checkpointing, StartBlock(from, checkpointing), to))
    /\ Goto(w, "load")
    /\ UNCHANGED <<chainVars, cacheVars, checkpointVars, faults>>

Load(w, keys) ==
    /\ pc[w] = "load"
    /\ IF Loadable /\ run[w].next <= run[w].to
       THEN Goto(w, "scan") /\ Put(w, [run[w] EXCEPT !.known = keys])
       ELSE End(w)
    /\ UNCHANGED <<chainVars, cacheVars, checkpointVars, faults>>

(* Seeded fault: the keys of the cache are not read.                       *)
LoadNoKeys(w) == Load(w, {})

(* Read the keys of the cache, then see whether anything is left to scan.  *)
LoadKeys(w) == Load(w, EventKeys(cache))

(* The next piece of the scan comes in; events with a known key are left.  *)
ScanWithin(w, last) ==
    /\ pc[w] = "scan"
    /\ \E chunk_end \in run[w].next .. last :
          LET events == {log \in Expected(run[w].context, run[w].next, chunk_end) :
                            log.key \notin run[w].known}
          IN  Put(w, [run[w] EXCEPT !.pending = events, !.chunk_end = chunk_end,
                                    !.known = @ \cup {log.key : log \in events}])
    /\ Goto(w, "append")
    /\ UNCHANGED <<chainVars, cacheVars, checkpointVars, faults>>

(* Seeded fault: a piece is not cut at the end of the scan.                *)
ScanUncut(w) == ScanWithin(w, run[w].next + ChunkSize - 1)

Scan(w) == ScanWithin(w, Smaller(run[w].next + ChunkSize - 1, run[w].to))

(* append_event_cache writes the new events in chain order, each as text   *)
(* and newline.                                                            *)
WriteText(w) ==
    /\ pc[w] = "append"
    /\ \E event \in run[w].pending :
          /\ \A other \in run[w].pending : event.block <= other.block
          /\ cache' = WithText(event)
          /\ Put(w, [run[w] EXCEPT !.pending = @ \ {event}])
    /\ unended' = TRUE
    /\ Goto(w, "newline")
    /\ UNCHANGED <<chainVars, checkpointVars, faults>>

WriteNewline(w) ==
    /\ pc[w] = "newline"
    /\ unended' = FALSE
    /\ Goto(w, "append")
    /\ UNCHANGED <<chainVars, cache, checkpointVars, run, faults>>

GoOnAfter(w, n) ==
    IF run[w].chunk_end = run[w].to
    THEN End(w)
    ELSE Goto(w, "scan") /\ Put(w, [run[w] EXCEPT !.next = run[w].chunk_end + n])

(* Seeded fault: a block between two pieces is left out.                   *)
NextChunkSkipsOne(w) == GoOnAfter(w, 2)

(* The loop goes on with the block after the piece.                        *)
NextChunk(w) == GoOnAfter(w, 1)

NoCheckpointing(w) ==
    /\ pc[w] = "append" /\ run[w].pending = {} /\ ~run[w].checkpointing
    /\ NextChunk(w)
    /\ UNCHANGED <<chainVars, cacheVars, checkpointVars, faults>>

(* Seeded fault: no .tmp file, the checkpoint is written in place.         *)
OpenInPlace(w) ==
    /\ pc[w] = "append" /\ run[w].pending = {} /\ run[w].checkpointing
    /\ checkpoint' = Torn
    /\ opened' = [opened EXCEPT ![w] = "checkpoint"]
    /\ Goto(w, "fill")
    /\ UNCHANGED <<chainVars, cacheVars, tmp, run, faults>>

(* write_checkpoint makes an empty .tmp file (or empties the one there is), *)
(* fills it, and puts what is then called .tmp in place of the checkpoint. *)
OpenTmp(w) ==
    /\ pc[w] = "append" /\ run[w].pending = {} /\ run[w].checkpointing
    /\ tmp' = Torn
    /\ opened' = [opened EXCEPT ![w] = "tmp"]
    /\ Goto(w, "fill")
    /\ UNCHANGED <<chainVars, cacheVars, checkpoint, run, faults>>

(* Over the longer text of another run what is filled in does not parse.   *)
Filled(old, new) == IF old = Torn THEN {new} ELSE {new, Torn}

FillTmpWith(w, last_block) ==
    /\ pc[w] = "fill"
    /\ LET new == [context |-> run[w].context, last_block |-> last_block]
       IN  /\ tmp' \in IF opened[w] = "tmp" THEN Filled(tmp, new) ELSE {tmp}
           /\ checkpoint' \in IF opened[w] = "checkpoint"
                              THEN Filled(checkpoint, new) ELSE {checkpoint}
    /\ opened' = [opened EXCEPT ![w] = "none"]
    /\ Goto(w, "replace")
    /\ UNCHANGED <<chainVars, cacheVars, run, faults>>

(* Seeded fault: the checkpoint names the last block of the run.           *)
FillTmpToEnd(w) == FillTmpWith(w, run[w].to)

FillTmp(w) == FillTmpWith(w, run[w].chunk_end)

(* A file stays open under its new name, and without one.                  *)
Renamed(file) == CASE file = "tmp" -> "checkpoint"
                   [] file = "checkpoint" -> "lost"
                   [] OTHER -> file

(* os.replace raises if another run has taken the .tmp file away.          *)
ReplaceTmp(w) ==
    /\ pc[w] = "replace"
    /\ IF tmp = NoCheckpoint
       THEN End(w) /\ UNCHANGED checkpointVars
       ELSE /\ checkpoint' = tmp
            /\ tmp' = NoCheckpoint
            /\ opened' = [v \in Workers |-> Renamed(opened[v])]
            /\ NextChunk(w)
    /\ UNCHANGED <<chainVars, cacheVars, faults>>

-----------------------------------------------------------------------------
(* Faults: a failed RPC call or write raises out of the run, a kill ends   *)
(* it.  What was being written may be in the file up to any byte.          *)

Fault == faults < MaxFaults /\ faults' = faults + 1

Crash(w) ==
    /\ Fault /\ pc[w] # "idle" /\ End(w)
    /\ opened' = [opened EXCEPT ![w] = "none"]
    /\ UNCHANGED <<chainVars, cacheVars, checkpoint, tmp>>

TornAppend(w) ==
    /\ Fault /\ pc[w] = "append" /\ run[w].pending # {} /\ End(w)
    /\ cache' = WithText(Torn)
    /\ unended' = TRUE
    /\ UNCHANGED <<chainVars, checkpointVars>>

-----------------------------------------------------------------------------
Init ==
    /\ ChainInit
    /\ cache = << >> /\ unended = FALSE
    /\ checkpoint = NoCheckpoint /\ tmp = NoCheckpoint
    /\ opened = [w \in Workers |-> "none"]
    /\ pc = [w \in Workers |-> "idle"] /\ run = [w \in Workers |-> NoRun]
    /\ faults = 0

StartUpTo(w, last) ==
    \E context \in Contexts, from \in FromBlocks, checkpointing \in Checkpointing,
       to \in 0 .. last :
        Start(w, context, from, checkpointing, to)

(* Seeded fault: confirmations are not subtracted.                         *)
StartAtHead(w) == StartUpTo(w, head)

StartAny(w) == StartUpTo(w, head - Confirmations)

(* The run a job repeats: to the newest block with enough confirmations.   *)
StartLatest(w) ==
    \E context \in Contexts, from \in FromBlocks, checkpointing \in Checkpointing :
        /\ head >= Confirmations
        /\ Start(w, context, from, checkpointing, head - Confirmations)

Step(w) == LoadKeys(w) \/ Scan(w) \/ WriteText(w) \/ WriteNewline(w) \/ NoCheckpointing(w)
           \/ OpenTmp(w) \/ FillTmp(w) \/ ReplaceTmp(w)

Stores == <<cacheVars, checkpointVars, pc, run>>

Chain ==
    \/ Mine /\ UNCHANGED <<Stores, faults>>
    \/ Fault /\ FallBack /\ UNCHANGED Stores

Next == Chain \/ \E w \in Workers : StartAny(w) \/ Step(w) \/ Crash(w) \/ TornAppend(w)

Spec == Init /\ [][Next]_vars

(* The chain grows, a run goes on until it ends, and each worker starts    *)
(* another one again and again.                                            *)
Fairness ==
    /\ WF_vars(Mine /\ UNCHANGED <<Stores, faults>>)
    /\ \A w \in Workers : WF_vars(Step(w)) /\ SF_vars(StartLatest(w))

FairSpec == Spec /\ Fairness

-----------------------------------------------------------------------------
(* Properties.                                                             *)

Runs == [context : Contexts, checkpointing : BOOLEAN,
         next : Nat, to : Nat, known : SUBSET Keys, pending : SUBSET Logs,
         chunk_end : Nat]

(* Where a run has a piece at hand.                                        *)
InPiece == {"append", "newline", "fill", "replace"}

(* Every variable has its type, an open last line is there, and a piece    *)
(* lies within the blocks its run scans.                                   *)
TypeOK ==
    /\ ChainTypeOK
    /\ cache \in Seq(Logs \cup {Torn}) /\ unended \in BOOLEAN
    /\ unended => cache # << >>
    /\ {checkpoint, tmp} \subseteq Checkpoints \cup {NoCheckpoint, Torn}
    /\ opened \in [Workers -> {"none", "tmp", "checkpoint", "lost"}]
    /\ pc \in [Workers -> {"idle", "load", "scan"} \cup InPiece]
    /\ run \in [Workers -> Runs]
    /\ \A w \in Workers : pc[w] \in InPiece =>
          run[w].next <= run[w].chunk_end /\ run[w].chunk_end <= run[w].to
    /\ faults \in 0 .. MaxFaults

(* Failed and concurrent runs lose nothing, if the callers stop far enough *)
(* below the head: as long as the cache can be loaded at all, every event  *)
(* its context selects, from the last of the first blocks asked for up to  *)
(* the checkpoint, is in the cache, however runs failed, were killed       *)
(* between two writes, resumed half a piece later or took each other's     *)
(* files away, and whatever the chain did in the meantime.  (Of an earlier *)
(* first block nothing can be said: the checkpoint does not tell from      *)
(* where it counts.)                                                       *)
Covered(context, last_block) ==
    \A from \in FromBlocks :
        (\A f \in FromBlocks : f <= from) =>
            Expected(context, from, last_block) \subseteq Records(cache)

CheckpointCovered ==
    (Confirmations >= Depth /\ Loadable /\ checkpoint \in Checkpoints) =>
        Covered(checkpoint.context, checkpoint.last_block)

(* The cache tells the truth: each of its events is on the chain, in the   *)
(* block it names, even after reorganisations and re-mined events.         *)
RecordsOnChain ==
    Confirmations >= Depth =>
        \A r \in Records(cache) : r.block <= head /\ r.key \in chain[r.block]

(* One worker at a time: no key is cached twice, whatever pieces a resumed *)
(* run scans again and however the chain fell back; and no event is, if    *)
(* the callers stop far enough below the head that its key cannot change.  *)
NoDuplicateRecords ==
    \A i, j \in DOMAIN cache :
        cache[i] # Torn /\ cache[j] # Torn =>
            /\ cache[i].key = cache[j].key => i = j
            /\ Confirmations >= Depth /\ EventOf[cache[i].key] = EventOf[cache[j].key] => i = j

(* One worker at a time: a checkpoint is never half written, never moves   *)
(* back and never changes hands, so no run scans on another context's      *)
(* progress.                                                               *)
CheckpointMoves ==
    checkpoint # NoCheckpoint =>
        /\ checkpoint' \in Checkpoints
        /\ checkpoint'.context = checkpoint.context
        /\ checkpoint'.last_block >= checkpoint.last_block

CheckpointAdvances == [][CheckpointMoves]_vars

(* Jobs that are run again and again catch up, even two of them on the     *)
(* same files: an event that can no longer be reorganised is cached in the *)
(* end, unless an interrupted or mixed write has left a cache or a         *)
(* checkpoint that no run can read.                                        *)
EventuallyCached ==
    \A context \in Contexts, key \in Keys :
        LET event == {log \in Expected(context, 1, settled) : log.key = key}
        IN  event # {} ~> (event \cap Records(cache) # {} \/ ~Loadable \/ checkpoint = Torn)

(* What the documentation says and the code does not do.                   *)

(* store.py 62-64: "Failed runs can therefore resume without losing        *)
(* discovered logs": after a failed run the next one can load the cache.   *)
FailedRunsCanResume == (\A w \in Workers : pc[w] = "idle") => Loadable
=============================================================================
