# Verification of libbitcoin-system

TLA+ models of parts of libbitcoin-system, the TLC instances that check them, and
TLAPS proofs of what holds for every instance. Paths are relative to the root of
the repository (`include/...` is `include/bitcoin/system/...`).

`PROJECT.json` holds the machine readable side: components, runs, the mutant with
which each property is shown to depend on the code, the lines each definition
translates, hazards, findings and theorems.

## 1. The system and its parts

libbitcoin-system is the library under a bitcoin node: consensus rules, scripts,
cryptography, wallets and serialization. Most of it is pure functions over values.
The parts that keep state across steps, or are reached from several threads, are
where tests are weakest, and are what this project models.

| part | state | operations | interacts with | correct when |
|---|---|---|---|---|
| script machine (`include/machine`, `include/impl/machine`) | primary and alternate stack, conditional stack and its count of false conditions, operation count, signature budget, subscript offset, multisig hash cache | `run`: one handler per opcode | transaction (hashes, locktimes), signature capture | branches not taken touch nothing, limits hold on every path, a cached hash is the hash that is due, the budget is that of bip342 |
| script connection (`interpreter_connect.ipp`, `chain/script.cpp`, `chain/witness_extract.cpp`, `chain/taproot.cpp`) | stacks handed from one run to the next, the subscript position kept in script objects | `connect` | runs the script machine up to four times | what newer rules accept older ones accept; a signature is made from the separator its own run has met |
| signature capture (`program_batch.ipp`, `chain/batch`, `chain/signatures.cpp`) | a cursor per script, per thread accumulators of rows and groups | open, write, append, purge | script machine, batch verification | a deferred script is valid exactly if immediate verification would be |
| batch verification (`crypto/secp256k1/batch`) | results, failed flag, stopper | `verify` on device or processor | thread pool, device | empty results mean all valid or canceled |
| batch scan (`batch/scan.cpp`) | block, resume position, callbacks made | `scan`, `scan_gpu` | device, thread pool | each payment is reported once, all unless canceled |
| device turns (`cuda/turns.hpp`) | three counters and a busy flag | `acquire`, `release`, `contended` | every caller of the device | one holder, urgent ones (in no order) first, then queued ones in order of arrival; nobody sleeps through its turn |
| device pipeline (`cuda/context.hpp`) | two staging halves and streams, failed flag | `verify`, `pipeline` (stage, collect, yield) | turns, driver | own results, nothing left running, failure is final |
| thread pool (`execution.hpp`, `src/execution.cpp`) | task queue, stopped flag, futures | `submit`, `chunked`, `sort`, destructor | all parallel algorithms | fork and join, no idle worker, drained at the end |
| chain state (`chain/chain_state.cpp`) | windows of bits, timestamps and versions, activation hashes | promotion to the next header | headers, settings | promotion equals computation from the whole chain |
| block and transaction rules (`chain/block.cpp`, `chain/transaction.cpp`, `chain/input.cpp`) | lazily cached hashes and sizes, metadata of prevouts | `identify`, `check`, `populate`, `accept`, `connect`, `confirm`, guards of a pool | script connection, chain state, a store and peers outside | only what was mined decides on a header, the confirmed chain can be replayed as an account book, rules are soft forks |
| readers, writers, json, psbt, wallet, ciphers, hashes, curve, radix, configuration | cursors; otherwise none | conversions | all | round trips, test vectors |

What is hard here: interleavings of callers in `turns`, `pipeline` and the pool (a
notification after an unlock, a flag tested before a wait and used after it); failure
and cancellation in the middle of several steps (device, tasks that throw); counters at
their limits (budget, operations, tickets that wrap, task boundaries); summaries that
must follow what they summarise over any sequence of operations (count of false
conditions, hash cache, window promotion); decisions put off and taken later from rows that
were stored, in part or not at all; and state that is read long before it is used
(prevouts at validation, heights at confirmation, a reorganization in between). Nothing is
persisted by this library and it sends no messages: a restart shows only as a chain state
that is populated from the store where it would have been promoted, a peer as the blocks
that are checked, and a store as the prevouts, metadata and rows that it is asked for.

The hazards are listed in `PROJECT.json` at the line where each bites, with the
properties that would catch it, or the reason why none does yet.

## 2. Plan

Built, in this order, each with the abstract specification in parentheses:

1. Script machine: `ScriptElement`, `ScriptMachine` (`ConditionalScope`), with proofs.
2. Device: `Turns` (`TurnQueue`), with proofs, and `DevicePipeline`, which composes `Turns`
   with the pipeline.
3. `ThreadPool` and `BatchScan`.
4. `ChainState`.
5. `BatchVerify` and `SignatureCapture`, which composes capture, batches and the threads
   that connect blocks.
6. `MerkleTree`, `BlockRules` and `Confirmation` (`Ledger`), which composes the rules with
   peers, a store and reorganizations.
7. `ScriptConnection`.

The state machines are proved about in eight modules: `Turns` and `DevicePipeline` share
`DevicePipelineProofs`, `BatchVerify` and `SignatureCapture` share `SignatureCaptureProofs`, and
`ConfirmationProofs` is also about the operators of `MerkleTree` and `BlockRules`. To come:

- the refinement of `Ledger`: the coins are the outputs of the confirmed chain that no input of
  it spends;
- then the hash accumulator, json parser and stream readers, and psbt roles.

## 3. Modules

Variables and operators keep the names of the source where TLA+ allows it. Each action is
one handler, or the part of a handler between two points where another thread may step in.
Operators under a comment "Mutant" are deliberate bugs and are used by no specification.

### ScriptElement, ScriptMachine (abstract: ConditionalScope)

`ScriptElement` is the stack element (`stack_variant`): a number in minimal or padded form,
or a blob, with what `peek_signed`, `peek_bool` and the conversions of `number_*` make of it,
and the stack primitives. `ScriptMachine` is one run: the constructors (`Init`),
`initialize`, the run loop (`Oversized`, `OverCount`, `Skip`, `Run`, `Return`, `Finish`) and
one action per operation handler. The script is not fixed: each iteration takes any code
that its family of scripts (`program.scripts`) has, so TLC explores all scripts of a family up
to its length. The loop of
`op_check_multisig_verify` is a sequence of steps, with its locals in `trial`. A signature
hash is what it commits to (offset of the subscript, stripped endorsements, flags). A failing
run ends at once with its error, as its caller discards the program. `verified` and
`charged` are history variables.

`ConditionalScope` states what the conditional stack is for without a stack: the depth of
nesting, the depth of the outermost branch not taken, and whether operations run.
`ScriptMachine` implements it under `depth = Len(condition_)`, `notTaken` = the position
of the first false condition, `executing = is_success`.

### Turns (abstract: TurnQueue), DevicePipeline

`Turns` has one action per critical section of `turns::mutex_`: `acquire` up to its wait,
`Recheck` of the predicate after a wakeup, `Unlock` and, apart from it, `notify_all`, and
spurious wakeups. An uncontended urgent caller raises and lowers `urgent_` within one
critical section, which is no step. `TurnQueue` is the promise: a holder, a crowd of urgent
callers, a line of queued ones. `Turns` implements it by reading the line off the tickets.

`DevicePipeline` extends `Turns` with `context::verify` and `context::pipeline`: each
iteration of the loop is a step (`Yield`, `Stage`), as are the wait within the yield,
`Finish`, `Fail` and the return. Rows are chunks, and a chunk of results is the name of the
chunk it was computed from, which is what tells whose rows were in the half. Any driver call
may fail. The calls of one half are atomic in `Stage`: only the holder touches the device.
`ahead` is a history variable: those that waited when a queued caller yielded and have not
been served since.

### ThreadPool

Workers (`Sleep`, `Exit`, `Take`, `Finish`), callers (`Begin`, `submit`, `Forked`, `Get`,
`RoundEnds`) and the destructor (`Stop`, `Join`). A range is its number of elements; a task
is the part of the range that it reads and writes. `bounds` is the source's loop as a
recursive function. A caller makes one call: `submit` (futures dropped), `each` (any
algorithm that is one `chunked`), or `sort`. `ordered` is a history
variable, the ranges that tasks have put in order: a merge takes its two parts out of it while
it runs, and puts their union in. A task
may throw at the elements that `Throwing` names: in `pool` the last one of a call, when all
other tasks have been joined, in `pool_throw` the first.

### BatchScan

`scan` and `scan_gpu` of one caller: the blocks on the device, and the chunks on the
processor from `resume` on. `for_each` takes its elements in any order, which `ThreadPool`
justifies. A transaction either pays the receiver or does not.

### ChainState

The constructors of `chain_state`: `Header` (parent to header), `Pool` (top to pool),
`PoolBlock` (pool to block) and `Restart` (from scratch, with what the store answers to
`get_map`). `data` is `chain_state::data`, `settings` the network: its forks (a set of
names), limit, checkpoints and exceptions, and what is explored of it (constructors, versions,
delays, height). One run covers many networks, as each behaviour has its own. `chain` is the whole chain, which the code does not have; a header joins it if
`check` and `accept` let it. The header's bits are free and `accept` decides on them. A
compact number is an index into the increasing function `Expand` (its mantissa has one bit
in the instances, so compression loses precision), and `compress` its lower inverse. A hash
is the height of its block and whether it is the one that checkpoints name; the explored
headers take both branches where a hash is compared. Reorganization continues from the state of
an ancestor, which is a chain and state already reached, so it is no action. A network
leaves out `PoolBlock` or `Restart` where a finding is about it. `sort_copy` gives the sorted
arrangement of a window, by what sorting promises and not by an algorithm; `CumulativeWork` is
the sum over a chain, as a recursive function of height. What is assumed of the constants is
named after what they are: times (`ChainConstants`), that compact numbers are ordered as their
targets (`CompactConstants`), that versions are ordered as their rules (`VersionConstants`) and
what the settings of a network are (`NetworkConstants`).

The references are simpler than the code, which is what makes them worth comparing: between
retargets the work is the bits of the first block of the period, however many limit blocks
came since, and no window is mentioned.

### ScriptConnection

`interpreter::connect` on several threads: `connect` starts the input script, `InputEnds`,
`OutputEnds`, `EmbeddedEnds` and `WitnessEnds` are the tests between two programs, in the order
of `connect`, `connect_embedded` and `connect_witness`, and `Operation` is one iteration of
`run` with the few operations that tell connections apart. `offset` is `script::offset`, a
member of the script object that `set_subscript` moves and constructors and destructor of a
program reset; `checksig_script` and `success_script` are objects that live as long as the
process, for all threads. A thread connects its spend under each set of rules in turn, as nodes
of different ages would; before bip141 a node is sent no witness. A commitment of taproot opens
or does not, and a pattern is a type. `ScriptsAssumption` says what patterns mean (a script of
the type `script_hash` is the hash operation) and that the static scripts have no separator;
`WorksAssumption` says in which order rules are activated: bip16 before bip141, and bip341 with
bip342, as `chain_state.cpp` does it.

### BatchVerify, SignatureCapture

`BatchVerify` is one call of `ecdsa::batch::verify`, `schnorr::batch::verify` or
`silent::batch::compute`: the device, lost at any time, the chunks of `batch_verify_` and
`cpu_compute` (the look at the stopper, and the result, are two steps), the join, the write of
the caller beside them, and correlation (`get_failures`, `meets_threshold`, `push_fail`).
`SignatureCapture` extends it with what decides which signatures are put off
(`program_batch.ipp`, `chain/batch`): single ones, multisigs as banded rows, and thresholds of
tapscript with their cursor, one action for each signature operation. The node is external:
it stores the rows of a block whose scripts have passed, falls back to verification in place
(`verify_group`) if that fails, drains the tables, and marks blocks. The pool's chunks
are taken in any order, as `ThreadPool` justifies. `IsScript` and `IsBlock` say what the blocks
of an instance may be: a single signature, a multisig with its counts and matches and no more
signatures than keys (with more, the operation fails before a signature is tried), a threshold
script with its stack (a chain of verifications asks for as many signatures as it has keys, as
`script_extract.cpp` matches it). `Terminal` is the id of no block.

### MerkleTree, BlockRules, Confirmation (abstract: Ledger)

`MerkleTree` and `BlockRules` are operators, named after the methods, with the conditions of
each method in its order. A hash is what was hashed, so it is equal to another exactly if its
preimage is. Prevouts are a function from points to values, and metadata functions from
points, as the store sets them (`prevout.hpp`). `Confirmation` is the node around them:
`Announce`, `Download` (`identify`, then `check`), `Validate` (`populate`, `accept`,
`connect`), `Confirm` and `Reorganize`. Peers offer the list that was mined, with clones
appended, cut, folded into transactions of 64 bytes, or with other witnesses. A failure of
identity discards what was sent; any other is held against the header.
The loops over depths, positions, digits and values are recursive functions (`Depths`, `Ascents`,
`Ascended`, `merkle_index`, `Doubled`, and the sums of `BlockRules`), one step of the source's
loop each; that of `merkle_index`, which halves its width, is a function of the width.
`IsTransaction` and `IsInput` say what a transaction is, `RulesAssumption` that the limits of the
rules are numbers, and `ConfirmationAssumption` what is known of what was mined (`Mined`): lists
of transactions, of which two with one hash make the same outputs, and times at every height with
blocks later than the median before them.
The hash of what was mined is a leaf of the tree, not a node (`is_malleated64` is for what is a
node, which peers do fold). `OnlyGenuine` is about headers whose own list has their identity
(`HasIdentity`): a header whose list is malleated or breaks its witness commitment is never
decided by that list, and `identify_context` does not commit to the witness of a second
coinbase, because the hash of a coinbase with a witness is null by convention.
`Ledger` is what the rules are for: a book of transfers that is replayed against a set of coins,
without heights of spenders, without internal spends apart from others, and with sums that
do not saturate. `Confirmation` implements it, the book being the confirmed chain.

## 4. Runs

| run | shows |
|---|---|
| `script` | every script of four families: conditional, push, verify and alternate stack operations; stack, number, hash and locktime operations over several stacks; tapscripts of signature operations, witness sizes 0 to 3 at a signature cost of 2; legacy and v0 scripts with two multisigs: the count and the scope rule, the limits, handlers are the documented rearrangements, the unsigned budget is the signed one, the cached hash is the one that is due |
| `turns` | three queued and two urgent callers, 6 tickets: exclusion, counts, wakeups, the refinement of the queue, and that no queued caller is starved once urgent callers stop coming |
| `pipeline` | two queued and one urgent caller, driver failures and cancellation anywhere |
| `pool` | two callers of any kind (sorts of 0 to 9 elements), one of whose tasks may throw, on four workers, and destruction |
| `pool_throw` | violation: a call whose task throws does not wait for its other tasks |
| `scan` | seven transactions, blocks of three, chunks of two, failure at any block |
| `chain` | eight networks, up to ten blocks in periods of three: mainnet, testnet3, testnet4 and regtest through all constructors, litecoin without restarts (patched timespan, overflow patch), versions 1 to 4 and a negative one without and with bip90, and both branches at each checkpoint with bip30 deactivated, reactivated and excepted: work, median, versions and rules are those of the whole chain, and a restart changes nothing |
| `chain_pool_block` | violation: a block state made from the pool loses the checkpoint |
| `chain_warp_restart` | violation: a populated state is without the patch of litecoin |
| `ledger` | up to four blocks, two branches at the third, two sets of rules: only genuine lists count, malleation is found exactly, branches prove, the chain is a book, rules are soft forks, the pool's guards are no weaker than the block's |
| `batch` | one block or two on two threads: singles, every match of 1 of 2, 2 of 2 and 2 of 3, thresholds with each operator; partial stores, a lost device, chunks and cancellation: verdicts, results, cursors, and that all is decided |
| `connect` | every kind of output with good and bad inputs and witnesses, under five stages of the rules, beside another thread |

Each property has a mutant of the code that violates it under the same configuration.

**Bounds.** Each family of scripts has a length; five or six operations nest two conditionals
with an ELSE and what they guard, and the counter's drift needs two; they charge and
exceed every budget of the tapscript instances (witness sizes 0 to 3), and two multisigs
exceed the operation limit of 5 by their keys. `MaxStack`, `MaxCountedOps`, `MaxKeys`,
`SignatureCost` and the ranges of script numbers are constants of the consensus rules made
small, so that the limits are met on both sides. `Tickets` (2^64 in the code) is just above
the number of callers, so that the tickets wrap many times; the refinement needs only
that there are more tickets than callers. Three queued callers give an order that can be
got wrong while one holds; two urgent ones compete. In `pipeline` a caller has three
chunks, so that both halves are used again, and `Stoppable` names who may be canceled.
Nine elements on four workers give every remainder, and odd and even numbers of runs in two
rounds of merges. In `scan` the last block and the last chunk are short and the edges of
blocks and chunks differ.
Ten blocks are three periods and the block after, so that a state is promoted over two
retargets; the delays -4, 1 and 5 reach a timespan below zero, both clamps and a late block
(more than twice the spacing of 2); the windows of three timestamps and three versions slide
many times; `MaxTime` is met. The networks about versions have seven blocks (one sample before
and one after a change of minimum) and the one about branches eight (every checkpoint, and
the reactivation of bip30, with a block above). `TargetSpan` is 512: no product of target
and timespan of bitcoin's limit exceeds it, those of litecoin's higher limit do. `chain`
ends at `max_height`, hence no check for deadlock.
In `ledger` values have three bits, so that sums of two outputs saturate; subsidies are 2, 1,
0 and then 2 again or nothing, as bip42 has it, and maturity is 2 blocks, so that the first
coinbase is mature at the third block and one of the third never is. Lists of five and six
transactions with up to two clones give malleation at two depths and a last node that is
padded. `MaxHeaders` bounds the headers at each height: two branches at the third and a
block above either. `batch` has chunks of two rows, so that groups are cut by chunks, and
ordinals 0 and 1, so that the third group is declined. `connect` has two threads: a
third would share nothing more. All three end when everything is connected, hence no check
for deadlock.

**Fairness.** `FairTurns`: each caller that is awake or holds the turn takes its next step,
since it is a thread that is scheduled and a chunk takes finite time. Nothing makes a
caller come (`acquire`), so nothing is assumed of it. `DevicePipeline` and `ThreadPool`: every
thread takes its next step, driver calls and tasks return, and in `ThreadPool` the process
ends at last. `SignatureCapture`: threads run, chunks are tasks of the pool, and the node
drains what is stored; nothing makes the stopper be set. `Confirmation` and `ScriptConnection`
state no liveness. Starvation of queued callers by urgent ones is by design, hence the
premise of `QueuedServed`.

**Findings.** (1) `chunked` is to "wait for all" tasks; when one throws it does not. (2)
`to_block` caches a null hash at checkpoint heights, so the rules "activated" there stay off.
(3) Under the time warp patch of litecoin `get_map` requests another block than the one whose
timestamp is promoted. (4) The comments of `activation` (`chain_state.cpp:301`, 309, 317, 324)
have the rules of a checkpoint, and the end of bip30, enforced "above" it, and 328 its
return "above" the reactivation height; those of `get_map` (627, 632, 637, 642) say "at/above".
The code enforces at and above: `to_header` caches the hash of the block before activation
compares it (838-851), so the block of the checkpoint has the rules itself. `CheckpointActivates`
takes the side of the code and of `get_map`, passes in `chain`, and is violated by the mutant
`BuriedAbove`, the other reading. Two further observations have no run: of two urgent callers, the one
that yields may take the turn again ahead of the other, having collected its chunk early
for nothing; and `to_header` caches the hash at a checkpoint height also when its rules are not
configured (a hazard with a note in `PROJECT.json`). Met while modelling the later parts:

- `block::check` without a preceding `identify` reports `forward_reference`, not the
  commitment failure, for a malleated block whose cloned node holds a transaction and its
  spender (`src/chain/block.cpp:1000`), where a comment in `test/chain/block.cpp` says that a
  malleated block reports the commitment failure. With `identify` first, as in `Download`, it
  does no harm: `OnlyGenuine` holds.
- `cursor.hpp` says that an opened cursor always completes. A script that fails between two
  signature operations leaves it open; its rows belong to a block that is invalid already.
- The gate of `is_threshold_batchable` is not needed for `DeferredAgrees`, as the comparison at
  the end of the script runs all the same; it is needed for `CursorConsumed`.
- The static scripts of `witness_extract.cpp` are one instance for all threads, where
  `program_verify.ipp` says that one instance is not to be executed concurrently. They have no
  separator, so all threads write the same position (`SubscriptOwn`).
- `OldNodesAgree` needs that bip341 and bip342 are activated together, which they are
  (`chain_state.cpp`), and that nodes without bip141 are sent no witness.

## 5. Proofs

Each theorem holds for every value of the constants that the named assumptions of its module
allow, which TLC evaluates on the instances of the runs. A proof of an invariant has the form:
the initial states have the inductive invariant, every step keeps it (one lemma or step for each
action), and it implies what is stated. The provers cannot apply a principle of induction to a
formula, so induction over numbers is done with sets: a set of naturals with zero and all
successors has them all (`SuccessorsFill`, `InductionOnSet`, `SuccessorsReach`), because the
rest, were there one, would have a least element.

**`ScriptMachineProofs`**, for all codes, programs, limits (`BoundsAssumption`, `PushAssumption`,
`ProgramAssumption`) and scripts of any length.

- `TypeCorrect` and `CountCorrect` (`TypeOK`, `NegativeCount`) by `IndInv`: types, and the count.
  Neither is inductive alone: that `negative_conditions_` stays natural when ENDIF or ELSE
  lowers it needs the count to be right, and the count is about a sequence of Booleans, which
  is a type. Lemmas say what push, drop, swap and the parts of a stack are, and how the set of
  false positions changes when a condition is appended, flipped or removed.
- `BudgetCorrect` (`BudgetIsSigned`) by `BudgetInv`: the budget and what was charged add up to
  what was given, and the budget is never 0, because a charge that would empty it fails. Signed
  and floored subtraction could differ only at 0.
- `LimitsCorrect` (`LimitsKept`) by `LimitsInv`: the stacks are measured only after an operation
  that executes, so that a stack that is given too large would pass a script that starts in a
  branch not taken; there is none, as the first operation of a run always executes.
- `CacheCorrect` (`CacheFresh`) by `CacheInv`: a cached hash is one of the current subscript, and
  during a multisig one that strips the endorsements of that multisig.
- `RearrangedCorrect` (`RearrangedAsDocumented`): the handlers' swaps, copies and drops give the
  documented rearrangement of a stack of any depth.
- `ScopeRefined` (`Spec => ScopeImplemented`): initial states map to initial states, and each
  step to a step of the scope or a stutter. The first false position exists when there is a
  false condition, is kept by an append, and moves only when the last condition is it or
  none is false.

**`DevicePipelineProofs`**, for any finite set of callers, more tickets than callers
(`CallersAssumption`) and any numbers of chunks (`ChunksAssumption`). Of `Turns`:

- `TurnsExclusive`, `TurnsCounted`, `TurnsWakeups` (`Exclusive`, `UrgentCounted`,
  `NoLostWakeup`), together inductive as `TurnsInv`. The type needs the count (`urgent_` is
  lowered only by a caller in the crowd it counts), exclusion needs the flag, and a wakeup is
  not lost because whatever makes a predicate true is the unlock, after which somebody
  notifies.
- `TurnsImplementQueue` (`Spec => QueueImplemented`) by `LineInv`: the waiting queued callers
  have, one each, the tickets from `serving_` to `next_`, counted modulo `Tickets`, so that the
  line read off the tickets loses its head when one is served and grows at its end when one
  comes, across the wrap of the counters.

Of the pipeline:

- `PipelineOwnRows`, `PipelineEmptyMeansValid`, `PipelineQuiet` (`OwnRows`, `EmptyMeansValid`,
  `QuietWhenFree`) by `PipeInv`: who uses the device has the turn, what a half holds is what the
  holder staged last, and how far the results are collected at each place of the loop. A
  half may be read a step after it was staged only because the turn was not given away in
  between, or nothing was left in it when it was.
- `PipelineTakesTurns` (`Spec => TurnsSpec`): the steps of the pipeline on the counters are those
  of `Turns`, so that all of the above holds of its callers.
- `PipelineGivesWay` (`YieldGivesWay`, an action property) by `AheadInv`: those that a caller
  yielded to wait, with tickets before its own.

**`ThreadPoolProofs`**, for any workers, callers, calls and elements that throw
(`PoolAssumption`), by `PoolInv`: no task is queued, runs or has run twice (`TasksRunOnce`); the
bounds of a call increase from 0 to its count; its tasks are those of the round it is in or
parts of its runs; those not yet joined are the only ones outstanding; and each run is in order
unless a task takes it apart.

- `ResultsComplete` (`ResultComplete`): the balanced bounds cover the range, and rounds of merges,
  odd runs included, end with the whole range in order.
- `WaitsUnlessThrown`: `WaitsForAll` as long as no exception has left a call. Without that
  premise it does not hold, which `pool_throw` shows.
- `NoIdle` (`NoIdleWorker`): one notification for each task is enough, although a notified worker
  may find its task taken by one that was awake.

**`BatchScanProofs`**, for any count, block and chunk size (`ScanAssumption`): `ScanCallsOnce`
(`CalledOnce`) and `ScanReportsAll` (`ScanComplete`) by `ScanInv`: between two blocks exactly the
transactions before `base` are reported, within a block those of the matched part too, and on
the processor those before `resume` and those of the chunks begun.

**`SignatureCaptureProofs`**, for any blocks, groups and chunk sizes (`CaptureAssumption`,
`BatchAssumption`), by `CaptureInv`.

- `BatchResultsTrue` (`ResultsTrue`): a chunk that ended and was not canceled has the results of
  its rows, `failed` says no more than the rows do, and once the stopper is set nothing is
  claimed. The chunks cover the rows, whatever is left for the last one. It is proved of calls
  within `SignatureCapture`, on any rows that capture can store.
- `CursorsConsumed` (`CursorConsumed`): the rows that an open cursor expects are the elements from
  the current one on that are not empty, and what lies below the script's own.
- `TrialDecides`, `GroupDecides`, `ThresholdDecides`: three greedy algorithms with different loops
  (over keys, over keys with an early end, over signatures with the rows of a band) say the same
  of any number of keys and signatures, namely whether the signatures can be given keys
  in ascending order (`Assigns`).
- `DeferralAgrees` (`DeferredAgrees`) by `DeferInv`, on top of `CaptureInv`. What a thread has
  accumulated and counted says of the part of the block behind it what verification in place
  would have said (`ProgressOf`). Once stored, the rows of a block stand together and in order in
  its table, and go to a batch all or not at all (`Stands`, `FrontRows`), although a batch
  takes several blocks and a write may have failed in the middle. When a batch is resolved, a
  block is failed exactly if a row, or a group by its rows, says so (`FailingVerdict`); with the
  three algorithms that is what the script said.

**`ChainStateProofs`**, for chains of any length and any periods, windows, samples and thresholds
(`ChainConstants`, `CompactConstants`, `VersionConstants`, `NetworkConstants`), by `ChainInv`:
the windows of a state are the last entries of the chain, timestamps and versions of the length
that its height has, bits of a length that reaches what is read. Lengths differ because a
promoted window is popped by one entry at a time, where a populated one has what `get_map`
requests.

- `VersionNeverRelaxed` (`VersionRatchet`, an action property) by `VersionsMet`: where the sample
  enforces a version, the block that is pushed has it, which makes up for the one that is
  popped.
- `MedianFollows` (`MedianFollowsChain`): the middle of the sorted window splits the last blocks
  in halves.
- `CheckpointsActivate` (`CheckpointActivates`) by `CacheInv`, for networks that configure the
  rules of each checkpoint and promote by header (`Caches`): the rules are on in the state of the
  block that the checkpoint names and in those above it, and in no other. `chain_pool_block` shows that it
  fails when block states are made from pool states.
- `RestartsAgree` (`RestartAgrees`), for networks that, if they restart, are of that kind and
  without the time warp patch. `chain_warp_restart` shows that it fails with the patch.
- `WorkFollows` (`WorkFollowsChain`) by `GoodBits`: the bits of a period are those of its first
  block, or the limit where late blocks may have it, so that the search through the window ends
  at a block with the bits of the period. For networks without the overflow patch, without
  the combination of time warp patch and restarts, and in which the product of limit and longest
  timespan fits (`Exact`), as it does in bitcoin's; TLC checks litecoin's.

**`ScriptConnectionProofs`**, for any scripts, threads, spends and sets of rules
(`ScriptsAssumption`, `ThreadsAssumption`, `WorksAssumption`).

- `SubscriptsOwned` (`SubscriptOwn`) by `ConnectionInv`: an object is of one thread, where one
  program runs at a time and resets the position at both ends, or it is static and its position
  is never moved, as it has no separator.
- `RulesAreSoftForks` (`OldNodesAgree`) by `DecisionInv`: each result is what rules and spend
  decide (`Connects`, defined without threads, by the traces of the programs), because a
  program of given script, stack and rules ends in one way (`ExecutesAlike`); and the lemma
  `SoftFork` shows, rule by rule, that what newer rules accept the older ones do. This
  is where the order of activation is needed.

**`ConfirmationProofs`**, for any lists, peers, heights, rules and values (`RulesAssumption`,
`ConfirmationAssumption`).

- `StoreCorrect` (`StoreInv`): each header has a list of mined transactions, what is kept of
  a block is a list of what peers can send, and what is archived, valid or invalid has passed the
  checks of its context. The theorems below use it.
- `BranchesProve` (`BranchProves`): by induction over depth, the branch that was collected from the
  first d levels leads from the leaf to the node above it in the next one. The one case that
  is not a sibling is a node that is last in a level of odd length, which is its own.
- `PoolAdmits` (`PoolConfirms`): the metadata that the store answers for the next block differ from
  those of the pool only in the spender, for the block itself and for transactions that are not
  confirmed, and each guard implies the rule that it stands for.
- `RulesSoften` (`SoftForkOnly`): rule by rule, for each method in the order of validation. Where
  bip141 goes the block loses its witnesses, which changes sizes, sigops (scaled by
  `HeavyFactor`, with sums that saturate) and roots, but no value, so that what passed
  with the rule passes without.
- `MalleationIs` is the comment of `is_malleated32`: a list has the root of a shorter one exactly
  if, at some depth, its nodes are even and more than two and the last two of them are equal.
  Levels that are equal are made of equal nodes but for one that may be the last again
  (`LevelsDiffer`), so that two towers of levels with one root differ at some depth and agree
  above it, there only in a clone (`LongerIsMalleated`); that depth is not where one tower has
  ended, because a leaf would be a node of its own tree (`TreesEnd`). The leaves beneath a node
  are at the positions that `merkle_index` finds (`BeneathSplits`, `NodesAgree`), by induction
  over widths that double, so that comparing them compares the nodes.
- `MalleationsDetected` (`MalleationDetected`) applies that to whatever peers make of a list, and
  `GenuineOnly` (`OnlyGenuine`) by `GenuineInv`: lists of one length with one root are one list
  (`RootIdentifies`, of hashes and of witness hashes), what is appended or cut has the root of a
  shorter list and is discarded, what is folded has the size of two hashes, and a witness that
  was changed is not what the coinbase commits to.

**Only model-checked.** Liveness (`QueuedServed`, `AllReturn`, `PoolStops`, `AllDecided`) is out of
reach of the prover. `LedgerImplemented` needs the account of the whole chain and is not proved.
The cases that the
hypotheses of the theorems about `ChainState` leave out, litecoin above all, are checked by `chain`.

## 6. Not modelled

Components with status `not_modelled` in `PROJECT.json`, with the reason: those of the plan
above, and those that stay out: curve and field arithmetic, hash functions and ciphers
(256 bit arithmetic and word mixing with test vectors), device kernels (the same, and
generated code), encodings of keys, addresses, mnemonics and certificates, radix and
unicode conversion, configuration. Within modelled parts: the bytes of numbers (an element is
its value and form), lengths of pushes but for being oversized, results of elliptic curve
verification (an input), the arithmetic of compact numbers and of proofs of work, the
clock (`is_futuristic_timestamp`), lazily cached hashes and sizes of transactions, patterns of
scripts beyond their type, serialization and construction of blocks, sizing of device memory, and the combination of partial results in
`reduce` and `all_of`.
