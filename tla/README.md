# Doc Chain in TLA+

Specifications of the Doc Chain repository: the contract that keeps an
append-only log of signed publication claims, the scripts that bring a claim to
it, the codecs in between, and the indexers that copy the log into files. TLC checks them on small instances,
and the theorems in the `*Proofs` modules are checked by the TLA+ proof system.
Paths below are relative to the repository's root.

## The system

| Part | State | Operations |
|---|---|---|
| `contracts/src/DocChain.sol` | `attested`, the event log, the cached domain separator | `attestDoc`, `attestBatch` |
| `reference/docchain/store.py` | a JSONL event cache, a checkpoint file and its `.tmp` | `update_event_cache`, `build_docchain_index` |
| `reference/docchain/indexer.py`, scan | suspended generators | `iter_doc_attested_chunks` |
| `reference/docchain/indexer.py`, client | request id, time of the last `eth_getLogs` | `call`, `block_number`, `get_logs` |
| `reference/docchain/logs.py`, `abi.py` | none | `decode_doc_attested_log` |
| `reference/docchain/attestation.py`, `scripts/*_attestation.py` | prepared and signed artifact files | prepare, sign, submit |
| `scripts/index_events.py` | an output stream and its buffer, a checkpoint file | one scan per invocation |
| `reference/docchain/model.py`, `scripts/_docchain_script.py`, `scripts/check_abi.py`, deployment script, Makefile, CI | none | conversions, build steps |

How they interact. An attester signs an attestation prepared from files; a
courier encodes it as calldata and sends the transaction; the contract checks
it and emits `DocAttested`. An indexer asks a provider for logs through
`EthereumRpc`; `iter_doc_attested_chunks` asks range by range and splits a range
the provider rejects; `logs.py` decodes each log; `update_event_cache` appends
new events to the cache and then moves the checkpoint, piece by piece, and
`build_docchain_index` makes a static index of the cache. `index_events.py` does
the scan on its own and writes to a stream. No process has threads; but every step can fail or be
killed, the next run starts from the files, and nothing keeps two processes off the same files.

What is hard, and what must hold:

* Contract: one claim must have at most one event however it comes back (other
  deadline, twice in a batch, resubmitted); only what its attester authorised,
  for this chain and now, may be witnessed; a batch is all or nothing on
  validity and idempotent on duplicates. The order of the checks decides it.
* Cache and checkpoint: nothing below the checkpoint may be missing from the
  cache, nothing may be in it twice or that is not on the chain, through kills at
  any byte, resumed pieces and reorganisations; with two processes on the files,
  the first of these must survive still.
* Static index: the same for the same chain, whatever order the cache is in.
* Command line indexer: the checkpoint must not run ahead of what is written;
  summaries must be true of the range they name.
* Attestation workflow: four processes that share files, overridden by arguments and
  environment; what is recorded must be what was prepared, for that contract and chain, and
  a refusal must have one of a few known causes.
* Scan: however ranges are split, each block is asked for once and in order.
* Client: when to retry, for how long, and what to report at the end, since the
  scan splits ranges for some errors and not for others.
* Codecs: offsets, padding and word boundaries, written by hand on one side
  only of each exchange.

`PROJECT.json` lists the components and, under `hazards`, these points at their
lines with the properties that cover them.

## The modules

| Module | Models | Uses |
|---|---|---|
| `WitnessLog` | what the contract promises: an append-only log of distinct claims | |
| `DocChain` | the contract and the chain that executes it | implements `WitnessLog` |
| `DocChainProofs` | theorems about `DocChain` | |
| `Blockchain` | the chain as an indexer sees it | |
| `EventStore` | `update_event_cache` and its files, for any set of workers | extends `Blockchain` |
| `BlockchainProofs` | lemmas about the chain and its logs | |
| `StaticIndex` | `build_docchain_index` | extends `EventStore` |
| `EventStoreProofs` | theorems about `EventStore` and `StaticIndex` | |
| `IndexScript` | `scripts/index_events.py` | extends `Blockchain` |
| `IndexScriptProofs` | theorems about `IndexScript` | |
| `AttestationFlow` | prepare, sign and submit, over shared files | |
| `AttestationFlowProofs` | theorems about `AttestationFlow` | |
| `ContiguousScan` | what a consumer of the scan relies on | |
| `RangeScan` | the range scan | implements `ContiguousScan` |
| `RangeScanProofs` | theorems about `RangeScan` | |
| `RpcClient` | `EthereumRpc` | |
| `RpcClientProofs` | theorems about `RpcClient` | |
| `AbiWire` | calldata encoders, log decoder, topic filters | |
| `AbiWireProofs` | theorems about `AbiWire` | |
| `MC*` | instances for TLC, one `.cfg` for each run | |

Definitions named like `StoreUnmarked` under a comment "Seeded fault" are no part of any
specification: each is a plausible bug of a definition below it, and
`PROJECT.json` says which property notices when it takes that definition's place.

### DocChain

A transaction runs in a frame (`tx`) with its own writes, as in the EVM: each
turn of `attestBatch`'s loop is a step on the frame, `Return` commits, a revert
drops the frame. `Verdict` is `_attestOne`'s sequence of checks in the code's
order. `attestDoc` and `attestBatch` start a frame or revert at once; `Store`,
`SkipDuplicate` and `Revert` are the outcomes of one turn; `OutOfGas` may end a
frame anywhere. `Sign`, `Approve`, `SetCode`, `Tick` and `Fork` are the world
between transactions: anyone signs, wallets give and withdraw consent, accounts
gain and lose code (deployment, EIP-7702), time passes, a fork changes the chain
id once. Transactions are serial and the EIP-1271 call is static, so nothing
moves within one.

Hashes are injective (the tuple of what is hashed). A signature is who signed
which digest and the shape of its encoding: length, `v`, and whether `s` is
high; `ecrecover` gives the signer exactly when digest and parity fit, else a
stranger. One parity stands for both. A wallet that accepts answers with the magic
value; one that does not reverts with any data, gives too few bytes or another value.

### EventStore

`pc[w]` and `run[w]` are the position and the local variables of worker `w`'s run. `Start` reads and
validates the checkpoint, `LoadKeys` reads the cache, `Scan` takes the next piece
of the scan (any piece within the chunk size: `RangeScan` shows that pieces
are contiguous), `WriteText`/`WriteNewline` append event by event,
`OpenTmp`/`FillTmp`/`ReplaceTmp` move the checkpoint: open the `.tmp` file (which
empties it), fill it, rename it. The workers share the files and the name of
the `.tmp` file. `opened[w]` is where the file went that a worker has open: when another one
renames it, it is filled in as the checkpoint; when that is replaced in turn, in a file
without a name. Text written over the text of another worker is `Torn` or not,
depending on lengths. A rename that finds no file raises and ends the run.

`Crash` ends a run at any step, and `TornAppend` in the middle of a write, so any
prefix of what is written can be in a file, whatever the buffering; a part of a checkpoint
is `Torn` as the empty file is. A cache line is the event it holds or `Torn` when it does not parse;
text appended after an open line is glued to it. The chain may fall back by
`Depth` blocks under the highest head, by a reorganisation or because a provider
lags, and an event may be mined again in another block and under another key: the cache's key is
the transaction's hash with the log's place in its block, so one event (`EventOf`) may come under several of
the `Keys`. `Confirmations` is the callers'
discipline (`index_events.py` subtracts it); the properties that
need it say `Confirmations >= Depth`.

The decoding of logs and the client are not part of this module: a failed call is
`Crash`, and a log that cannot be decoded is `AbiWire`'s subject.

### StaticIndex

`Index` is the index as a function of the cache's lines: sort, keep the first
event of each key, sort by document, group. An order is a set of pairs: `InOrder` lists a set by how many
of its elements go before each, `Taken` and `Only` pick places of a sequence, and `Stable` is the order of places
that Python's `sorted` makes of an order of elements. `IndexIsOfChain` compares the index with the
chain on every cache that runs leave behind, repeated and
disordered lines and events of other contexts included: restricted to the checkpoint's
context and to the blocks it covers, the events of a document are the events on the chain,
in chain order. (`Confirmations >= Depth`, a cache that loads and a checkpoint are its conditions, as with
`CheckpointCovered`.) The metadata the index copies from its arguments is left out.

### IndexScript

A job repeats `index_events.py` with one list of arguments (`job`). `Begin` resolves the range and opens the
output; `Chunk` puts the lines of a piece, in chain order, into the stream's buffer, `Flush` and `Checkpoint`
follow, `Close` writes the summary. `Fail` is an error, on which the file is closed and so flushed;
`Kill` loses any part of the buffer and may tear a line. The standard output is the
output that goes on over runs (`--out` empties its file at each run). Replacing the
checkpoint is one step here, since `EventStore` has it in all its steps. `BeginGiven` is an explicit
`--to-block`, which the script takes as it is, with or without confirmations and beyond the head too.

`since` is the block from which the output counts. For a file it moves up with
each resumed run: the script opens the file with `"w"`, so with `--out` and
`--checkpoint` only the events of the last run are in the file. No document promises more,
and `CheckpointMeansWritten` says what is there. A `--to-block`
beyond the head is scanned and checkpointed as given; what is mined there later
is never scanned. `unconfirmed` remembers whether a job was ever given a block without its confirmations:
`CheckpointMeansWritten`, `SummaryTruthful` and the part of `NoLineTwice` that is about events hold of jobs that
were not (`Confirmed`), the rest of `NoLineTwice` of all.

### AttestationFlow

`prepared` and `signed` are the files, `signer` is the process that signs, `asked` remembers what
was prepared. `Prepare` applies the overrides, each in its own right: an address from the
environment may meet a chain id from the registry. `Read`, `CheckAddress` and `Sign` are
the signer: `sign_attestation.py` goes from `Read` to `Sign`, `sign_prepared_with_cast` compares the
wallet's address first, in another run of `cast` than the one that signs, so a keystore may be
replaced in between. One signer suffices: a signer reads one file, once, and
writes one, and two of them do the same as one after the other with the
prepared file written in between. `Submit` is a transaction that lands: any list of the signed
files, with or without an explicit address, at any endpoint (`submit_attestation.py` does not compare chain ids), and so perhaps
at an address without a contract: there it succeeds and records nothing (`Succeeds`, `RecordsAfter`). `registered` remembers the
artifacts that were prepared without an override, whose deployment exists. The contract is
here what `DocChain` makes of an item: deadline, signature over the domain and the message, duplicates.
A transaction that is lost changes nothing; one that lands late is one that was
sent late, as its contents depend on neither the chain nor the clock; sending again
is another `Submit`.

A file that is being written parses for no reader, so it is `Nothing` like an absent one. Wallets with code, whose
signatures the scripts pass on, are `DocChain`'s subject.

### RangeScan

`work` is the list of ranges that all suspended generators still have to ask
for, the innermost first, with the depth each is nested at; `yielded` is what the
consumer got. `Answer` is the provider: it serves `span` blocks at a time, names
a limit (`named`) in its error or not, and rejects more than `events` dense
blocks. The providers of the instance include inconsistent ones.
`TransientError` and `UnsplitError` are calls that fail though the range is fine.

### RpcClient

One object and one caller, so a call is a sequence of `Send` and `Receive`. `Answer`
is all that can come back: no connection, HTTP statuses, bodies that are
oversized, broken or of the wrong type, and what the error in the body mentions. `Result`
classifies the last answer in the code's order. Time is in ticks, in three ages. `since_call` is the
time since `_last_get_logs_at`; `since_first` and `since_request` only observe the first request of the last
`get_logs` and the last request of any call. Each stops growing at the longest time it is compared
with, because nothing depends on more.

### AbiWire

Bytes, because the properties are about offsets and padding. An address or a
hash is one byte repeated, numbers stay below 2^16 (`TooLarge`; a word with more in it reads as that, and `Put`
sends nothing longer), hexadecimal text is left out. One exchange is an
item list encoded as calldata and read by the contract's ABI decoder, or an event
emitted as a log (either shape), perhaps cut off by a provider, and decoded. The
far ends (`ReadCall`, `EmittedLog`, `Selected`) follow the ABI specification and
`eth_getLogs`. A log's topics and data may be cut off, but the fields in which the node says where it is (`blockNumber`,
`blockHash`, `transactionHash`, `logIndex`) are taken to be there.

## The runs

| Run | Shows | Bounds |
|---|---|---|
| `contract_single` | `OnlyAuthorisedClaims`, `SingleOutcome`, `LogMatchesStorage`, the refinement | 2 accounts of which 1 may be a wallet, 3 attestations of 2 claims, 6 signature shapes, 2 chain ids, 2 signatures, 2 times |
| `contract_batch` | `BatchOutcome` and the above for batches | batches of 0 to 3 items out of 5 attestations, 2 signatures |
| `store_resume` | `CheckpointCovered`, `RecordsOnChain`, `NoDuplicateRecords`, `IndexIsOfChain`, `CheckpointAdvances` | 1 worker, 2 events of which one has 2 keys, 4 blocks, first blocks 1 and 2, chunks of 2, 2 contexts, 2 faults, with and without a checkpoint |
| `store_shared` | `CheckpointCovered`, `IndexIsOfChain`, `EventuallyCached` | 2 workers on the same files, 2 events, 2 blocks, chunks of 1, 1 fault, a chain that does not fall back |
| `range_scan` | `NoBlockLost`, `SplittingSucceeds`, `ImplementsContiguousScan`, `ScanEnds` | 9 blocks, chunks of 4, 216 providers, 2 transient faults, 6 levels of generators |
| `rpc_calls` | `GivesUpOnlyWhenExhausted`, `Paced` | 3 retries, a delay of 2 ticks, backoff of 4 to 10, `Retry-After` of 0 and 20 |
| `abi_codec` | `CallCarriesItems`, `DecodesOrRejects`, `FiltersSelect` | batches of 1 to 3 of 16 items, uris of 0, 1, 32, 33 bytes, signatures of 64 and 65, logs cut at every byte |
| `attestation_flow` | `SignedIsOfOnePrepared`, `RecordedAsPrepared`, `SuccessMeansRecorded`, `RefusedForCause` | 2 keys, 2 chains and an address with a contract on both, another with none, 2 signed files, 2 preparations, 2 times; symmetric in keys and files |
| `index_script` | `CheckpointMeansWritten`, `NoLineTwice`, `SummaryTruthful` | 24 argument lists, 2 events of which one has 2 keys, 3 blocks, chunks of 2, up to the newest confirmed block or block 2, 2 faults, 1 fall-back, 1 confirmation |

Each also checks its module's `TypeOK`, except `store_shared`, whose module `store_resume` covers. Why the bounds are enough: a claim needs two copies with different deadlines, and
a third item, to be repeated with an invalid one in between; a checkpoint needs a
second piece and a second run to be wrong; two events in one block give an
append of two lines; an event needs a second key and a fall-back to be cached twice under one checkpoint; a chunk of 4 splits twice; a retry needs a first, a middle
and a last attempt; word boundaries are at 32. Two workers need two pieces each, so that one can
be at any step of moving a checkpoint while the other is at another piece; that the
chain stands firm under them costs nothing, since `store_resume` has it move and `CheckpointPromise` is
proved for both at once. Two signed files make a batch that repeats an item, mixes
contracts, or mixes chains. The clock of two times makes a deadline pass.

`CHECK_DEADLOCK FALSE` is set where the system stops:
a scan ends, an exchange is over when it has been read, and on shared files a
checkpoint that two workers have torn turns every later run away.

Runs that TLC must find violated, each against a sentence of the repository
(`findings` in `PROJECT.json` quotes it):

| Run | What happens |
|---|---|
| `store_torn` | A run killed while it appends leaves a line that no later run can load: a failed run cannot resume without repair by hand. |
| `range_shrink` | A provider that names a limit not below the rejected size is asked for the same range until the recursion limit. |
| `abi_text` | A log whose uri is not UTF-8 does not decode, and ends every scan that meets it. |

Three more sentences of the repository are not quite what the code does; no run is spent on them.

* `docs/ethereum.md:144-147` has the indexer pause "between `eth_getLogs` requests". `get_logs` measures
  its pause from the time the last call began (`indexer.py:136-141`), so after a call that was retried the next request may go out
  at once. `Paced` says what does hold: the first requests of two calls are the delay apart, and each retry waits out its own delay.
* The same sentence has ranges split "for non-rate-limit RPC errors" only. A rate limit in the body of an HTTP
  error other than 429 is not retried, becomes an `RpcError` or a `BlockRangeLimitError` (`RpcClient!Result`), and splits the range.
* `reference/docchain/store.py:22` calls `ScanContext` a "stable context used to
  validate checkpoints and event caches", but the cache carries none: a run of
  another context without a checkpoint extends it, with true events, and the index of such a cache has the events of both
  contexts; `IndexIsOfChain` shows that those of the checkpoint's own context are none the worse for it.

Two workers on the same files may cache an event twice, move the checkpoint back
to an earlier one, or leave a checkpoint that does not parse; `IndexIsOfChain` shows
that the first does no harm to the index, `CheckpointCovered` that the second
loses nothing, and `EventuallyCached` excuses the third.

Some properties are worded around what the code leaves to its callers. A checkpoint
does not say from which block it counts: a run from an earlier first block
with the same filters resumes after it and leaves the earlier blocks out, so
`CheckpointCovered` speaks of the latest first block in use. What needs confirmations (`Confirmations >= Depth`) says so:
with fewer, an event that is mined again elsewhere may be missing from the cache, or be there under two
keys, and only the first part of `NoDuplicateRecords`, that no key is there twice, is left, which is proved without any.
`RefusedForCause` excuses a keystore that was replaced under a signer, which the signer cannot notice.

## Fairness

* `EventStore!FairSpec`: the chain grows (weak); the steps of each worker's run go on (weak for each worker:
  the process runs, and a failed call is a fault, of which there are `MaxFaults`);
  each job is started again, to the newest confirmed block, again and again (strong for each worker, because the head may fall
  back below the confirmations in between). That is how `docs/ethereum.md` runs it ("For
  long-running jobs, use confirmations and a checkpoint"). `EventuallyCached` excuses a
  cache or a checkpoint that a torn or mixed write has made unreadable.
* `RangeScan!FairSpec`: the consumer goes on iterating (weak). No fairness is
  assumed of transient errors.
* The contract and the two scripts' modules are checked for safety only: nothing in them must happen.

## The proofs

`DocChainProofs` proves for all sets of addresses, attestations, chain ids and
signatures and all batch lengths, from the assumptions that `DocChain` states:

* `TypeCorrect`: `TypeOK`, which pairs items with signatures and counts events. It is inductive with
  one lemma per kind of step.
* `StorageMatchesLog`: `LogMatchesStorage`. Alone it is not inductive, because
  `Return` commits what the frame gathered; `FrameInv` says of the frame what
  must hold to commit it: what it wrote are the claims it emitted, distinct, and none of
  them attested before. `IInv` is the conjunction. `Store` keeps `FrameInv`
  because `Recorded` looks at the frame too: this is where a batch that did
  not see its own writes would break.
* `WitnessedIsAuthorised`: `OnlyAuthorisedClaims`. Its invariant adds that
  every event of a frame is the claim of an authorised item; the world
  stands still while a frame runs, so what was authorised in a turn still is
  when the frame commits.
* `Refinement`: `ImplementsWitnessLog`. Every step but a `Return` with new events is
  a stutter; that one extends the log, and the new log is injective because of
  `FrameInv` and `LogMatchesStorage`.
* `BatchIsAtomic` and `SingleIsRecorded`: `BatchOutcome` and `SingleOutcome`. `PassedInv` is what
  a frame knows at the loop index: the items before it are authorised or repeat an earlier claim and are
  recorded, the frame recorded nothing else, and `stored` counts it. So `Return` finds every item in
  order. For the other direction an item at which a frame reverts is one that no batch may contain
  (`RevertCause`): an authorised new claim passes every check, in the code's order (`AuthorisedIsValid`).

`EventStoreProofs` proves `TypeCorrect` for `EventStore`, all chains, contexts, chunk
sizes, fault counts and sets of workers: `TypeOK` is inductive, with the lemma that the chain's
steps keep `ChainTypeOK` (in `BlockchainProofs`) and one per kind of worker's step (`...Moves`), which say
that only that worker's entry of `pc` and `run` changes and is typed. It goes on with what
holds only when one worker at a time uses the files, from
`Workers = {w}` and with any number of confirmations:

* `SingleWorkerOnce` (`NoDuplicateRecords`): every key of the cache is known to the run in
  progress, and what is pending is known, not cached, and pending
  once (`OnceInv`); a torn write only takes keys away. So no key is cached twice, whatever the confirmations.
  That no event is, which needs `Confirmations >= Depth`, follows from `RecordsOnChain`, because the
  chain has each event once (`TrueOnce`).
* `SingleWorkerAdvances` (`CheckpointAdvances`): a run that keeps a checkpoint works on blocks
  behind it, and `.tmp` holds what the run has put there (`MoveInv`), which is what fails with two workers.

And it proves `CheckpointPromise` (`CheckpointCovered`) and `CacheIsTrue`
(`RecordsOnChain`) for any number of workers on the same files. Neither is inductive, because
a run that is half way through a piece has made sure of things that show in no file yet. `IInv` has three parts:

* `Sound`: each record of the cache lies in a settled block, where no fall-back reaches it;
* `RunInv` of each run where it is: it stops at settled blocks; if it keeps a checkpoint, the cache covers what lies before
  its piece; its piece is in the cache or pending while it appends, and in the cache once it moves the checkpoint; what it takes
  for known is in the cache or pending;
* `CheckInv` of a checkpoint in either file, `.tmp` included: the cache covers it. This is
  where shared files enter: whichever worker's text is renamed, it is true.

Each part speaks of a value (a run, a checkpoint), so one lemma each (`RunKept`, `CheckKept`, `SafeKept`) shows
that it survives whatever the chain and other workers do. That is `World`: settled blocks stay, records are only
added, and a cache that cannot be loaded never can again. What is left are the
worker's own steps, one lemma each (`StartInv` to `PieceDone`).

Last, `IndexIsTrue` (`IndexIsOfChain`): the index made of any cache that can be loaded. This one needs no invariant of its
own; `IndexFollows` derives it from `TypeOK`, `RecordsOnChain` and `CheckpointCovered` in any one state. The argument is that
there is but one way to list a set in a linear order (`ListedOnce`, by counting how many elements come before each, without
induction), so it is enough to show that both sides list the same set:

* A stable sort is by a linear order of places, even if events compare equal (`StableBefore`, `StableByDocument`);
  what is taken of a sequence in an order keeps the elements and has the order (`TakenIs`, `OnlyIs`).
* Keys do not have two events in a cache that tells the truth (`RecordsOncePerKey`: a key is on the chain
  once), so `Dedupe` loses none (`DedupeIs`; the first of equals exists by `FirstOfPlaces`), and the count is that of the set.
* A group of the records sorted by document is in chain order (`GroupIs`, `PartIs`), and its part below the checkpoint is what is on the
  chain: nothing else by `RecordsOnChain`, all of it by `CheckpointCovered`.

`IndexScriptProofs` proves what `index_events.py` promises, for all argument lists, keys, chunk sizes,
faults and fall-backs. `TypeInv` strengthens `TypeOK` by where the run's variables lie at each place, and `DepthInv` says that with
enough confirmations (`ConfirmedBefore`: a job that has them always had) the run and the checkpoint stay among the blocks that no fall-back reaches. Then:

* `EachLineOnce` (`NoLineTwice`): while no run has failed, everything in the output and the buffer is of a block that the
  run has read (`OnceInv`), and a chunk's lines are of later ones, however the chain falls back in between. With
  `Confirmed`, what is shown is on the chain as shown, also after runs that failed (`ShownInv`), so no event is there in two
  different lines.
* `CheckpointPromise` (`CheckpointMeansWritten`): unless a line is torn, the output and the buffer together have every line from
  `since` to what has been read, and the output alone has them up to the checkpoint
  (`CoverInv`): this is where the flush before the checkpoint matters.
* `SummaryIsTrue` (`SummaryTruthful`): the running totals are those of the blocks read (`TruthInv`), and the
  count of a range is the sum of the counts of its parts (`LogsInSplit`).

`RangeScanProofs` proves for all block ranges, chunk sizes, providers and recursion limits:

* `TypeCorrect` and `NothingLost` (`NoBlockLost`), from `ScanInv`: `yielded` tiles the blocks up to some block, `work` tiles the rest.
  A tiling survives when its first range is replaced by ranges that tile that one (`TilesConcat`), and halves and pieces of a size
  do (`BlockRangesTile`).
* `ScanIsContiguous` (`ImplementsContiguousScan`): yielding a range is the abstract step, everything else a stutter.
* `SplittingIsEnough` (`SplittingSucceeds`), from a hypothesis on the interpreter, `HalvesInTime`: generators may nest one
  level deeper than it takes to halve a chunk down to a block (13 levels for the default of 2000 blocks, where Python
  allows about a thousand). One level deeper, because a named limit takes a level without halving anything, but only
  once: its pieces are never rejected for their size again (`RoomLeft`).

`RpcClientProofs` proves for any number of retries, all delays and latencies `TypeCorrect`,
`GivesUpLate` (`GivesUpOnlyWhenExhausted`: a call in progress has met retryable answers only, `CallInv`) and
`KeepsThePace` (`Paced`: from the first request of a call for logs on, `since_call` is the age of that request, `AgeInv`; a
retry adds its delay to what the answer took). Powers of
two enter through the assumption `PowersOfTwo`, which the run evaluates and
which holds of every exponent: it is there because they are beyond the provers.

`AttestationFlowProofs` proves for all keys, files, deployments, preparations and times, besides `TypeCorrect`:

* `OfOnePrepared` (`SignedIsOfOnePrepared`) and `Recorded` (`RecordedAsPrepared`). `Flow` follows an artifact
  through the files: the prepared file, what the signer holds and what is in the signed
  files was asked for, and a signature lies next to what it is over.
* `SuccessIsRecord` (`SuccessMeansRecorded`): what was prepared with the registry's own values is for a deployment that exists
  (`Registered`), and an item goes to the contract that it names (`NamedIsTarget`), so the contract was there and accepted the
  transaction. A claim that an accepted transaction skips repeats an earlier item, and the first item with
  a claim is skipped only if the claim is recorded (`AcceptedIsRecorded`). The first is there by `First` (every set of numbers has
  a least member), which stands in for induction over the items.
* `RefusalHasCause` (`RefusedForCause`): with `Typed` and `Compared` (a compared wallet's artifact is signed by its attester) an item
  that is refused for none of the causes is valid.

`AbiWireProofs` proves the codecs right for all items, events, filters and lengths that fit below `TooLarge`. The argument is about which part
data holds at which offset (`Holds`), and how that carries over to longer data (`HoldsLeft`, `HoldsRight`, `HoldsWithin`):

* `EncodeBytesIs`, `EncodeAttestationIs`, `ArrayIs` and `EmittedDataIs` say where each word and string of an encoding lies, and that encodings
  are whole words. An array's elements lie where the elements before them end (`FlatHolds`); `FlattenSeq` is a recursive
  function, and facts about its first `k` parts are proved by `CountUp`, which steps through a set of numbers and rests on every
  set of them having a least member.
* `ReadsNumber`, `ReadsBytes`, `ReadsItem` and `ReadsArray` say what a reader finds there. Together: `CallArrives` (`CallCarriesItems`).
* `LogIsDecoded` (`DecodesOrRejects`): what is left of a log holds the same parts as far as it reaches (`StartOf`), so a string
  whose end is missing does not fit (`StringOfStart`), and what fits is the event's.
* `FilterIsExact` (`FiltersSelect`): topics of different fields differ (`TopicsTell`), and so do the topics of the two shapes.
* `TypeCorrect`, from the same `WireInv`: what is on the wire is the encoding of what was sent, or a part of the log.

Assumptions. Every theorem stands on the named ASSUMEs of its module, which TLC evaluates on every run: that constants are of their kind,
that keys are finitely many and each is of an event (`KeysAssumption`), that the value for an unset filter field is no set of topics (`NoneIsNoTopic`) and what each module says of its own. Two theorems have hypotheses of their own,
`Workers = {w}` and `HalvesInTime`.

Model-checked only:

* liveness, which is out of the prover's reach: `EventuallyCached`, `ScanEnds`;
* the three runs that TLC finds violated.

## Not modelled

* Hexadecimal text, JSON types, argument parsing, secrets in the environment, what the `cast`
  processes do inside: input and output without state of their own.
* Power loss: neither the cache nor the checkpoint is synced, so the order in which
  they reach the disk is the file system's.
* The metadata of the static index.
* `model.py` (records and conversions; an event that does not convert is a
  line that does not load) and `_docchain_script.py` beyond its reading and writing of files.
* `check_abi.py`, the deployment script, the Makefile and CI: build steps.

## Plan

Written, in this order: contract, cache and checkpoint, range scan, client, codecs,
shared files, static index, command line indexer and attestation workflow; then the proofs, in the order of the modules.

What could follow:

* `RangeScan` over `RpcClient`: how many requests a scan may take, and which of a provider's answers split a range.
