---------------------------- MODULE IndexScript ----------------------------
(***************************************************************************)
(* scripts/index_events.py: the command line indexer, repeated by a job    *)
(* with the same arguments.  Unlike update_event_cache (EventStore.tla) it *)
(* writes to a buffered stream, a file it opens anew or the standard       *)
(* output, and leaves out nothing that an earlier run has written.         *)
(*                                                                         *)
(* A line is the event, the block number or the summary it shows, or Torn  *)
(* when a kill has cut it off.  Replacing the checkpoint is one step here. *)
(* Of the output it matters which lines it has and whether one comes       *)
(* twice.  That the stream may also flush when its buffer is full cannot   *)
(* be told from a flush of the same lines later, or by the kill.           *)
(***************************************************************************)
EXTENDS Blockchain, FiniteSets

CONSTANTS
    FromBlocks, ToBlocks, Confirmations, ChunkSize,   \* arguments in use
    Torn, NoCheckpoint,
    MaxFaults,          \* bound: runs that fail or are killed
    MaxFallBacks        \* bound: how often the chain falls back

ASSUME ScriptAssumption ==
    /\ FromBlocks \subseteq Nat /\ ToBlocks \subseteq Nat
    /\ Confirmations \in Nat /\ ChunkSize \in Nat \ {0}
    /\ MaxFaults \in Nat /\ MaxFallBacks \in Nat /\ NoCheckpoint \notin Nat

VARIABLES
    job,                \* the arguments: from_block, format, out, checkpoint
    checkpoint,         \* last_block of the checkpoint file
    sink, buffer,       \* the lines in the output; those not flushed yet
    since, twice,       \* history: the block from which the output counts,
                        \* and whether it has a line twice
    unconfirmed,        \* history: a run was told to scan blocks that do not
                        \* have their confirmations
    pc, run,            \* where the run is, "idle" between runs; its variables
    faults, fallBacks

jobVars == <<job, unconfirmed>>
sinkVars == <<sink, since, twice>>
counts == <<faults, fallBacks>>
vars == <<chainVars, jobVars, checkpoint, sinkVars, buffer, pc, run, counts>>

Jobs == [from_block : FromBlocks, format : {"jsonl", "blocks", "summary"},
         to_file : BOOLEAN, checkpointing : BOOLEAN]

Larger(m, n) == IF m > n THEN m ELSE n
Smaller(m, n) == IF m < n THEN m ELSE n

NoRun == [from |-> 0, next |-> 0, to |-> 0, chunk_end |-> 0, total |-> 0, blocks |-> {}]

-----------------------------------------------------------------------------
Written(lines) ==
    /\ sink' = sink \cup Range(lines)
    /\ twice' = (twice \/ Range(lines) \cap sink # {} \/ ~IsInjective(lines))

FromBlockAfter(n) ==
    IF job.checkpointing /\ checkpoint # NoCheckpoint
    THEN Larger(job.from_block, checkpoint + n)
    ELSE job.from_block

(* Seeded fault: the last block of the checkpoint is scanned again.        *)
FromBlockAgain == FromBlockAfter(0)

FromBlock == FromBlockAfter(1)

(* _write_summary, if the format asks for it.                              *)
Summary(from, to, total, blocks) ==
    IF job.format = "summary"
    THEN << [fromBlock |-> from, toBlock |-> to, eventCount |-> total, blocks |-> blocks] >>
    ELSE << >>

(* Seeded fault: the confirmations are not subtracted.                     *)
LatestAtHead == head

(* --to-block latest: the head less the confirmations.                     *)
Latest == Larger(0, head - Confirmations)

(* Resolve the range, open (and for --out, empty) the output, and see      *)
(* whether there is anything to scan.                                      *)
Begin(to) ==
    /\ pc = "idle"
    /\ since' = IF job.to_file THEN FromBlock ELSE job.from_block
    /\ LET summary == IF to < FromBlock THEN Summary(FromBlock, to, 0, {}) ELSE << >>
       IN  IF job.to_file
           THEN sink' = Range(summary) /\ twice' = FALSE
           ELSE Written(summary)
    /\ IF to < FromBlock
       THEN UNCHANGED <<pc, run>>
       ELSE /\ pc' = "scan"
            /\ run' = [NoRun EXCEPT !.from = FromBlock, !.next = FromBlock, !.to = to]
    /\ unconfirmed' = (unconfirmed \/ to > Latest)
    /\ UNCHANGED <<chainVars, job, checkpoint, buffer, counts>>

BeginLatest == Begin(Latest)

(* A given --to-block is taken as it is, even one beyond the head.         *)
BeginGiven == \E to \in ToBlocks : Begin(to)

-----------------------------------------------------------------------------
(* _write_event: the lines for the events of a chunk, and the orders they  *)
(* can be written in, which are those of the chain.                        *)
LinesOf(logs, blocks) ==
    CASE job.format = "jsonl" -> logs
      [] job.format = "blocks" -> {l.block : l \in logs} \ blocks
      [] OTHER -> {}

BlockOf(line) == IF job.format = "jsonl" THEN line.block ELSE line

InOrder(lines) ==
    {seq \in SetToSeqs(lines) :
        \A i, j \in DOMAIN seq : i < j => BlockOf(seq[i]) <= BlockOf(seq[j])}

ChunkWith(total) ==
    /\ pc = "scan"
    /\ \E chunk_end \in run.next .. Smaller(run.next + ChunkSize - 1, run.to) :
          LET logs == LogsIn(run.next, chunk_end)
          IN  /\ \E lines \in InOrder(LinesOf(logs, run.blocks)) : buffer' = buffer \o lines
              /\ run' = [run EXCEPT !.chunk_end = chunk_end,
                            !.total = total + Cardinality(logs),
                            !.blocks = @ \cup {l.block : l \in logs}]
    /\ pc' = "flush"
    /\ UNCHANGED <<chainVars, jobVars, checkpoint, sinkVars, counts>>

(* Seeded fault: the events of earlier chunks are not counted.             *)
ChunkUncounted == ChunkWith(0)

Chunk == ChunkWith(run.total)

(* Seeded fault: the checkpoint is written without a flush.                *)
FlushLater ==
    /\ pc = "flush" /\ pc' = "checkpoint"
    /\ UNCHANGED <<chainVars, jobVars, checkpoint, sinkVars, buffer, run, counts>>

(* Without --checkpoint nothing is flushed between two chunks.             *)
Flush ==
    /\ pc = "flush"
    /\ IF job.checkpointing
       THEN Written(buffer) /\ buffer' = << >>
       ELSE UNCHANGED <<sink, twice, buffer>>
    /\ pc' = "checkpoint"
    /\ UNCHANGED <<chainVars, jobVars, checkpoint, since, run, counts>>

(* Write the checkpoint; go on with the next chunk.                        *)
Checkpoint ==
    /\ pc = "checkpoint"
    /\ checkpoint' = IF job.checkpointing THEN run.chunk_end ELSE checkpoint
    /\ pc' = IF run.chunk_end = run.to THEN "close" ELSE "scan"
    /\ run' = [run EXCEPT !.next = run.chunk_end + 1]
    /\ UNCHANGED <<chainVars, jobVars, sinkVars, buffer, counts>>

Stop(lines) ==
    /\ Written(lines) /\ buffer' = << >> /\ pc' = "idle" /\ run' = NoRun
    /\ UNCHANGED <<chainVars, jobVars, checkpoint, since>>

Close ==
    /\ pc = "close" /\ Stop(buffer \o Summary(run.from, run.to, run.total, run.blocks))
    /\ UNCHANGED counts

-----------------------------------------------------------------------------
Fault == faults < MaxFaults /\ faults' = faults + 1 /\ UNCHANGED fallBacks

(* An error ends the run and closes the stream, which flushes it.          *)
Fail == Fault /\ pc # "idle" /\ Stop(buffer)

(* A kill leaves any part of what was not flushed.                         *)
Kill ==
    /\ Fault /\ pc # "idle"
    /\ \E n \in 0 .. Len(buffer), cut \in BOOLEAN :
          /\ cut => n < Len(buffer)
          /\ Stop(SubSeq(buffer, 1, n) \o IF cut THEN << Torn >> ELSE << >>)

Chain ==
    /\ \/ Mine /\ UNCHANGED fallBacks
       \/ FallBack /\ fallBacks < MaxFallBacks /\ fallBacks' = fallBacks + 1
    /\ UNCHANGED <<jobVars, checkpoint, sinkVars, buffer, pc, run, faults>>

Init ==
    /\ ChainInit
    /\ job \in Jobs /\ unconfirmed = FALSE /\ checkpoint = NoCheckpoint
    /\ sink = {} /\ twice = FALSE /\ buffer = << >> /\ since = job.from_block
    /\ pc = "idle" /\ run = NoRun /\ faults = 0 /\ fallBacks = 0

Step == Chunk \/ Flush \/ Checkpoint \/ Close

Next == BeginLatest \/ BeginGiven \/ Step \/ Fail \/ Kill \/ Chain

Spec == Init /\ [][Next]_vars

-----------------------------------------------------------------------------
(* Properties.                                                             *)

(* Every variable has its type; between runs nothing is left in the        *)
(* buffer, and in a run the checkpoint stays behind what was scanned.      *)
TypeOK ==
    /\ ChainTypeOK /\ job \in Jobs /\ unconfirmed \in BOOLEAN
    /\ checkpoint \in Nat \cup {NoCheckpoint} /\ since \in Nat /\ twice \in BOOLEAN
    /\ pc \in {"idle", "scan", "flush", "checkpoint", "close"}
    /\ pc = "idle" => buffer = << >> /\ run = NoRun
    /\ run.next <= run.to + 1 /\ run.chunk_end <= run.to
    /\ (checkpoint # NoCheckpoint /\ pc = "scan" /\ job.checkpointing) => checkpoint < run.next
    /\ faults \in 0 .. MaxFaults /\ fallBacks \in 0 .. MaxFallBacks

(* The runs have stopped far enough below the head.                        *)
Confirmed == Confirmations >= Depth /\ ~unconfirmed

(* What a checkpoint covers has been written: each event, or its block,    *)
(* from the first block asked for (for --out, whose file is emptied by the *)
(* next run, from the block where the last run began) is in the output,    *)
(* whenever runs fail or are killed, unless a kill has torn a line.        *)
CheckpointMeansWritten ==
    (Confirmed /\ checkpoint # NoCheckpoint /\ Torn \notin sink) =>
        LinesOf(LogsIn(since, checkpoint), {}) \subseteq sink

(* Runs that do not fail and share a checkpoint write no line twice, also  *)
(* when the chain falls back between or under them and whatever blocks     *)
(* they are told to scan.  And however often runs repeat a line, no event  *)
(* is shown in two places of the chain or under two keys, if they stop far *)
(* enough below the head.                                                  *)
NoLineTwice ==
    /\ (faults = 0 /\ job.checkpointing /\ job.format # "summary") => ~twice
    /\ (Confirmed /\ job.format = "jsonl") =>
          \A l, m \in sink \ {Torn} : EventOf[l.key] = EventOf[m.key] => l = m

(* A summary tells what is on the chain between the blocks it names, be it *)
(* made in many chunks, in a run that resumed, or of nothing.              *)
SummaryTruthful ==
    (Confirmed /\ job.format = "summary") =>
        \A summary \in sink \ {Torn} :
            LET logs == LogsIn(summary.fromBlock, summary.toBlock)
            IN  /\ summary.eventCount = Cardinality(logs)
                /\ summary.blocks = {l.block : l \in logs}
=============================================================================
