# A TLA+ model of the vw learner in rvowpalwabbit

`rvowpalwabbit` is an R package around Vowpal Wabbit 5.x: one C++ function,
`vw(args)` (`src/src/R_vw.cpp`), parses options, starts a parser thread and N
learning threads, joins them and writes a model. This directory holds TLA+
specifications of the program, the TLC configurations that check them on small
instances, and theorems checked by TLAPS.

Paths below are relative to `src/src/`.

## 1. Inventory

| Component | Code | State | Operations | Talks to |
|---|---|---|---|---|
| Parser thread, example ring | `parser.cc`, `example.h` | `examples[ring_size]`, `parsed_index`, `used_index[]`, `done`, `passes_complete`, `pass_length` | `main_parse_loop`, `get_unused_example`, `setup_example`, `get_example`, `free_example`, `parser_done` | learners, by `examples_lock`, `example_available`, `example_unused` |
| Gradient descent threads | `gd.cc` | one weight vector and one pass number per thread; `ex->lock`, `ex->done`, `ex->threads_to_finish`, `ex->partial_prediction`; `global.eta`, `global.sum_loss` | `gd_thread`, `predict`, `local_predict`, `inline_train`, `finish_example`, `output_and_account_example`, `command_example` | parser, delay ring, each other by `ex->finished_sum` |
| Delay ring | `delay_ring.cc` | `delay_ring[]`, `threads_to_use[]`, `delay_indices[]`, `local_index`, `global_index` | `delay_example`, `return_example`, `get_delay_example`, `thread_done`, `delay_global_example` | learners, relay |
| Entry points, options | `R_vw.cpp`, `vw.cc`, `parse_args.cc`, `global_data.cc` | `global` | `vw`, `parse_args` | everything; some of `global` survives from one call to the next |
| Regressor files | `parse_regressor.cc` | files `<name>` and `<name>.writing` | `initialize_regressor`, `dump_regressor`, `save_predictor`, `finalize_regressor` | learners (saving per pass) |
| Cache | `cache.cc` | the byte stream of a cache | `cache_features`, `read_cached_features`, run-length and zig-zag coding | parser, `io_buf` |
| Buffered I/O | `io.cc`, `io.h` | `space`, `endloaded`, `current`, `files` | `buf_read`, `readto`, `buf_write`, `flush` | parser, cache |
| Text parsing | `parse_example.cc`, `parse_primitives.cc`, `hash.cc`, `unique_sort.cc`, `simple_label.cc` | none across lines | `read_features` | parser |
| BFGS | `bfgs.cc` | phase of the pass, `mem` and `rho` (rings of past points), `predictions`, the diagonal | `setup_bfgs`, `work_on_weights`, `bfgs_iter_start`, `bfgs_iter_middle` | parser (one thread takes the examples), the nodes' BFGS by `all_reduce` |
| LDA | `lda_core.cc` | the minibatch, `decay_levels`, the last minibatch of each word | `start_lda`, `lda_loop` | parser |
| Matrix factorisation | `gd_mf.cc` | `topic_predictions` of a slot of the ring | `mf_inline_predict`, `mf_inline_train` | parser |
| Cache-only learner | `noop.cc` | none | `start_noop` | parser |
| Cluster, sharded | `sender.cc`, `message_relay.cc` | sockets, `global_index` and the relay's place in the delay ring | `send_thread`, `mesg_relay` | delay ring with `mesg = 1` |
| Cluster, averaging | `allreduce.cc`, `accumulate.cc` | `socks`, `fds`, the positions read and sent | `all_reduce`, `accumulate_avg` | learners at the end of a pass |
| Numerics | `loss_functions.cc`, `sparse_dense.cc` | none | | |

What is hard in it, and what makes it correct:

* **The learners.** Every example is predicted by all N threads, each adding a
  share; the last one completes the sum, and if the example has a label all of
  them train on it later, when it comes back through the delay ring. Nothing
  but `threads_to_finish`, used twice per example, says who is last.
  Correctness: the outcome is that of one sequential learner; whoever frees
  an example is the last to use it.
* **Two rings and three waits.** The parser waits for a used slot, learners wait
  for a parsed example and for the sum of an example, and `delay_example` waits for
  a slot with a lock held that others need. Correctness: no deadlock, no lost
  wake-up, no slot refilled too early, the program ends.
* **The end.** `thread_done` combines an unlocked `parser_done` with the delay
  ring. Correctness: nobody leaves with training owed.
* **Passes.** End of input, empty lines and `--initial_pass_length` all end a
  pass; a last pass that was cut short restarts all of them. Correctness: the
  last P passes are complete.
* **Shared numbers without locks**: `global.eta`, the statistics, `ec->loss`.
* **Files**: a model is written in place of the old one, a cache becomes input
  in the middle of a run, formats must read back what was written. Correctness: a name
  always stands for a whole file, also after a crash.
* **Many calls in one process**: options come from the command line, a model, a cache and what
  earlier calls left in `global`. Correctness: the weights, the mask and the model agree on the number of
  bits, and a call works as it would in a new process.
* **Memory of the batch learners**: rings whose origin moves (`mem`, `decay_levels`), predictions
  replayed by position, a diagonal that is zeroed and inverted, all spread over passes.
* **Small algorithms with edges**: n-grams with skips, a search for boundaries, integer coding, line
  buffers that move and double, losses defined in pieces.
* **Averaging over a cluster**: buffers are summed up and passed down a tree of sockets in
  pieces, with reads that end anywhere. Correctness: all nodes get the same sums, each number
  in them once, and nobody waits for ever.
* **Cluster mode**: answers come back late, while learners, relay and parser share the delay ring.

The complete list, each hazard at its line with the properties that cover it, is
`hazards` in `PROJECT.json`.

## 2. What is modelled

### LearnerPipeline

The parser thread, the example ring, the learners, the delay ring and the
accounting in one module, because the code that makes them correct is spread over
all of them. One action is the code between two points where another thread can
interfere: a critical section with the thread-local code around it. `ppc` and
`pc[i]` are program counters; a thread inside `pthread_cond_wait` is at
`"unusedWait"` (parser), `"availWait"` (`example_available`) or `"sumWait"`
(`ex->finished_sum`), and a broadcast moves it on. `"sumWake"` is a thread that was
woken and must get `ex->lock` back. `ex->lock` is a variable because `predict` keeps
it while it delays, reports and frees the example.

| Action | Code |
|---|---|
| `ClaimSlot`, `AwaitSlot` | `get_unused_example` |
| `ParseExample` | `parse_atomic_example`, `setup_example` |
| `PublishExample` | `parsed_index++` and the broadcast |
| `EndPass`, `ReleaseSlot` | the else branch of `main_parse_loop`, with `reset_source` |
| `FetchDelayed`, `ReturnExample`, `NothingDelayed` | `get_delay_example`, `return_example` |
| `LoadEta`, `StoreEta`, `Train`, `FinishExample` | the first branch of `gd_thread`, `finish_example` |
| `GetExample`, `GetNothing` | `get_example` |
| `SaveRegressor`, `CommandDone` | `command_example` and the command branch |
| `Contribute`, `CompleteSum`, `ResumePredict`, `DelayExample` | `predict`, `local_predict`, `delay_example` |
| `Output`, `FreeExample`, `Unlock` | `output_and_account_example`, `free_example`, end of `predict` |
| `Exit` | `thread_done` and the busy wait |
| `WakeLearner`, `WakeParser` | spurious returns of `pthread_cond_wait` |

How data is abstracted:

* A line of input is one of four `Kinds`. A label and `-t` matter to the threads
  only through "train or not".
* A weight vector is the sequence of examples it has learned from. So
  two vectors are equal exactly if they learned the same examples in the same order.
* `ex->partial_prediction` is the set of shares added up, each with the weight
  vector that computed it; floating-point addition is taken to commute.
* A loss is the number of the example it is the loss of.
* `global.eta` is the number of times it was decayed.
* `size_t` is 64 bits wide. Only the pass length gets near the limit, since its
  default is `(size_t)-1`; it is computed modulo `SizeMax + 1`. The other counters
  are unbounded.

Unlocked reads and writes. `global.eta` and `threads_to_finish` of a command are
updated by several threads at once, so their update is a load and a store of
its own (`LoadEta`/`StoreEta`, `SaveRegressor`/`CommandDone`). `local_index` and
`delay_ring` are read without a lock by `get_delay_example`; the read is a single
step because (this is the part `AtDelay` of the invariant) all other learners
are waiting for `ex->lock` while somebody writes them. `parser_done` reads `done`
and `parsed_index` unlocked: the first only turns true, the second no longer
changes when it has. The statistics of `output_and_account_example` are one step
because `OneAccountant` says that no two threads are in it.

Left out of this module: cluster options (so `mesg = 0`, `global_index` unused; see `ClusterNode`),
the cache being written during the first pass (module `Session`; here a job with passes reads a cache
that exists), `save_predictor` at a new pass, l1 truncation at thread exit, the
dump to the screen.

### SequentialLearner

What the pipeline promises: examples are reported one at a time in the order they
were parsed, each predicted by every thread's weight vector after exactly the
trainable examples before it were learned. `LearnerPipeline` implements it under
the refinement mapping `model <- ModelAfter(sink)`: the abstract weight vector is the one
the last report was predicted with, and that example itself if it is one to train on.

### LearnerPipelineInv

The inductive invariants (section 5): `IInv` for what the rings and counters hold, `ReportInv` for what has been
reported and learned, `PassInv` and `EtaInv` for passes and the learning rate. It extends `LearnerPipeline`.

### AllReduce

`all_reduce` on a tree of nodes, for a sequence of calls. `Node`, `Trees` (the trees the
master may form), `Calls` (the number of floats of each call), `FloatSize`, `BufSize`,
`Capacity` (of a socket), `IntMax`, `MaxCrashes` and `Signals` (the system calls a signal may
end) are constants. `up[n]` and `down[n]` are the bytes in the socket between n and its parent.

A step is the code between two system calls, or what one call of `write` or `read` moves.
`pc[n]` is where a node is: `"passUp"` in `pass_up`, `"select"`, `"readLeft"`/`"readRight"`
at the look at each child after `select`, `"passLeft"`/`"passRight"` in `pass_down`, `"readDown"`
at the read from the parent, `"caller"` outside.

| Action | Code |
|---|---|
| `Call` | `accumulate*`, and the start of `reduce` |
| `PassUp`, `PassedUp`, `NothingToPassUp` | `pass_up`: bytes handed over, the end of `write`, no piece to send |
| `Select`, `ReadChild`, `ReArm` | `select`, the read and `addbufs`, the `else if` with `FD_SET` |
| `KeepPassing`, `LeaveReduce` | the loop of `reduce` and its end |
| `PassDown`, `PassedDown` | `pass_down`, for each child |
| `ReadParent`, `KeepSpreading`, `Return` | the loop of `broadcast` and its end |
| `Fail` | `Rf_error` |
| `Crash` | a process dies and its sockets close |

A `write` blocks while the socket is full, so it may take several steps. A `read` gives
any number of bytes there are, so it may end inside a float. A byte is the float it is part of and
its place in it; bytes that do not belong together make `Garbage`. A float is the bag of
the numbers in it and the order in which they were added: two floats are equal
only if they were added up in the same order, since the children are added
as they come and floating-point addition is not associative. `n` is an `int`, so the number of
bytes wraps (`ToInt`).

A dead neighbour shows as an end of file (`read` gives 0), as a failed `write` that is logged, or as an
`Rf_error`; the model allows each. `all_reduce_init` is replaced by its
outcome, a tree of connected sockets: it talks to a master that is not in the repository.

### SumService

What the nodes are promised: in each call one vector of sums is agreed on when every node has entered,
each node's number is in it once, and every node returns with exactly that vector. `AllReduce`
implements it, with the agreement at the moment the root leaves `reduce`.

### AllReduceInv

The inductive invariants of `AllReduce` (section 5): `BooksInv` for what a node keeps in its variables, `PositionsInv`,
which adds that all positions are in the buffer, and `IInv`, which adds what the bytes in the sockets and the floats in the
buffers are (`BytesInv`).

### Session

One call of `vw()` after another in an R process, and the files they share. `global` is what calls of a
process share, `own` the parser and the regressor of the present call, `disk` the files
(`disk.writing[f]` is the file `f.writing`). The content of a model or a cache is what its weights stand for
(bits, pairs, kind of learner), what they stood for when they were trained (`under`), and whether the file was
written to its end. `pairs` stands for pairs, n-grams and skips; `noop_mm` for what `--testonly` and the bounds of
predictions install, which no later call takes back.

| Action | Code |
|---|---|
| `ParseOptions` | `parse_args`: what is reset, then the options |
| `ReadVector`, `InitializeRegressor` | `parse_regressor_args`, `read_vector`, `initialize_regressor` |
| `OpenSource` | `parse_source_args`, `parse_cache`, `make_write_cache`, and the rest of `parse_args` |
| `FlushCache`, `ResetSource` | `reset_source` at the end of a pass: flush and close, rename and read |
| `EndParser` | `end_parser`; which models are to be saved |
| `LearnerError` | an `Rf_error` of the learner |
| `OpenWriting`, `WriteModel`, `RenameModel` | `dump_regressor` |
| `NoModel` | the same without weights (`--noop`, `--sendto`): the process ends |
| `ReturnToR` | `finalize_source`, end of `vw` |
| `ProcessEnds` | a crash, or R quits |

### Bfgs

`setup_bfgs` on the nodes of a cluster, each with a shard of the examples. Numbers are what they were computed from: a
point is the sequence of the steps taken along each direction so far, a sum the bag of the terms (node, example,
point) in it. What a comparison of two sums gives is arbitrary, but the same wherever the sums
are the same (variable `answers`): this is what makes nodes that decide by themselves decide alike.
`mem` is the ring of the code, with `origin` and the shift by two, `rho` the array that is shifted by one.

| Action | Code |
|---|---|
| `TakeExample` | an example in a gradient pass (`predict_and_gradient`, `update_preconditioner`) or in a curvature pass (`dot_with_direction`) |
| `NextBfgsPass` | the parser begins the next pass |
| `EndBfgsPass` | the first example of another pass, or no more: which calls of `accumulate` follow |
| `BfgsReduce` | `accumulate`, `accumulate_scalar` (as `SumService` promises) |
| `Decide`, `NothingToDecide` | `work_on_weights` and the end of the pass: `FirstPass`, `StepBack` (`wolfe_eval`), `NextDirection` (`bfgs_iter_middle`), `NewtonStep`, or an `Rf_error` |
| `BfgsDone` | `preconditioner_to_regularizer` |

### Lda

`start_lda`: a minibatch is collected from the ring, the words in it are brought up to date, learned from and the
documents given back. A weight is the bag of minibatches it was decayed for, a level of `decay_levels` the
number of minibatches in it. `ParseDoc` and `ParserEnds` are the parser, `GetDoc` and `CutBatch` the loop
that collects a minibatch, `ProcessBatch` the rest, with the final decay of all words. `RingSizeFor` is the ring that
`--minibatch` asks for (`parse_args.cc`). `lda_loop` leaves no trace.

### ClusterNode

A node of the sharded cluster mode: one or two learners, or the sender, the relay and the delay ring with `mesg = 1`. An
operation of a ring is a step here, as `LearnerPipeline` has the locks. `TakeGlobal`, `AwaitGlobal`, `TakeLocal`,
`NoneDelayed` are the branches of `get_delay_example`; `Predict` is `predict` or `send_thread` with `delay_example`;
`TrainOn` is the first branch of `gd_thread`, `inline_train` and `finish_example`; `RelayTake`, `RelayFinish`, `RelayEnds` are
`mesg_relay`, with `delay_global_example`, which signals one of the waiting threads only.

### IoBuf

`--noop` with a cache: `readto`, `fill` and the files one after another on the way in (`ReadLine`, `Fill`, `NextFile`),
`buf_write` and `flush` on the way out (`BufWrite`, `MakeRoom`, `NextLine`, `LastFlush`). A byte is its file
and position; `read()` returns any part of what is there. Calls may fail (`MaxIoFailures`): a `read()` that does is
taken for the end of its file (`ReadFails`, `io.h:98`), and a `write()` that fails or ends early leaves the rest of the
buffer unwritten and forgotten (`Flush`, `io.h:108`), with a message (`complaints`). `failed` keeps which files were
cut and which bytes were lost, for the properties to speak of.

### CacheCodec, Features, LossFunctions, MatrixFactor

Pure algorithms as operators: the coding of indexes in a cache with the width of the integers (`cache.cc`); n-grams,
their hash, `unique_sort_features`, the boundaries found by `search`, and what each host of `--sendto` gets
(`parser.cc`, `unique_sort.cc`, `sender.cc`); losses, derivatives and updates over fixed-point numbers
(`loss_functions.cc`); which factor each weight of `--rank` is trained with (`gd_mf.cc`).

### Example

One example in one of the stages it goes through, chosen with all that matters in this stage: `"grams"` and
`"parts"` in `setup_example`, `"cache"` between two passes, `"loss"` in a linear learner, `"factors"` in `gd_mf`.
`ReadExample` chooses any, so that its properties compare the operators above with a definition of what they
should compute, over all inputs within the bounds.

### Vw

The composition: `Session`, and in the call that is looked at in detail the learner `vw.cc` hands the parser to.
The variable `detail` says which: `"files"` (no learner in detail, but three calls and processes
that die), `"bfgs"`, `"lda"`, `"node"` (learners or sender with a relay), `"noop"` or `"example"`. The
learner runs while the call is at `"run"`. The parser ends a pass (`PassIsOver`) when the learner's module says the input is
read, a BFGS node goes on to its next pass when the source has been reset, `LearnerReturns` when the learner has returned, and
`LearnerFails` when BFGS gave up. Learners not looked at rest in an initial state, so the reachable states are the union,
not the product, of the modules'.

## 3. The runs

`MCLearnerPipeline` defines the jobs the first three runs read, `MCAllReduce` the trees and
calls of the next four, `MCVw` the calls and jobs of the rest.

| Run | Expect | Properties | What it shows |
|---|---|---|---|
| `Online` | pass | `TypeOK`, `ExamplesAvailable`, `LastUser`, `OneAccountant`, `DelaySlotFree`, `EveryPassComplete`, `IInv`, `ImplementsSequentialLearner`, `Termination` | three threads are one sequential learner, never use an example after its end, and always terminate |
| `SingleThread` | pass | `OutputWhenFinished`, `EtaDecaysOncePerPass`, `ImplementsSequentialLearner` | what fails below works with one thread, the default |
| `ActiveSimulation` | violation | `LastUser` | an example is reported and freed under a waiting thread |
| `AllReduce` | pass | `TypeOK`, `NoFalseAlarm`, `Watermarks`, `IInv`, `ImplementsSumService`, `Termination` | a call on four nodes, an inner one of them with two children, sums what it should and returns |
| `AllReduceFaults` | pass | `NoFalseAlarm`, `ImplementsSumService` | two calls on three nodes, as a fork and as a chain; a node dies, signals end `write` and `select`: nobody gets a wrong sum |
| `ShortWrite` | violation | `Termination` | an interrupted `write` loses bytes and all wait for ever |
| `WideBuffer` | violation | `ImplementsSumService` | a buffer of 2^31 bytes is not summed at all |
| `Vw` | pass | the 19 invariants below, `Termination` | sessions over shared files with crashes, and each learner in detail: every call returns, and files, weights, memories and streams are what they should be |
| `CacheRoundTrip` | violation | `CacheRoundTrip` | the reader of a cache does not find the features that were written |
| `UnsortedCache` | violation | `UnsortedRoundTrip` | features out of order come back from a cache with other indexes |
| `Grams` | violation | `GramsAsDescribed` | in the comment's example of 1-skip-3-grams two grams are missing, and the others get the index of their first feature |
| `SharedCache` | violation | `WeightsFit` | indexes of a cache are wider than the weights |

The properties of the pipeline and of `all_reduce`:

* `ExamplesAvailable`: everything a learner has still to take is in its slot,
  in use, with the right number. It is the assertion of `get_example` for all gets to come.
* `LastUser`: who reports and frees an example is alone with it; nobody has it in hand, has
  yet to take it or has yet to fetch it from the delay ring.
* `OutputWhenFinished`: `assert(ex->threads_to_finish == 0)`.
* `OneAccountant`: the unlocked statistics have one writer at a time.
* `DelaySlotFree`: `delay_example` never has to wait with `ex->lock` held.
* `EveryPassComplete`: at the end the last P passes were over the whole input (up to its
  first empty line), in order, each example reported once, and every weight vector has
  learned every trainable example once.
* `EtaDecaysOncePerPass`: the learning rate has been decayed once per pass read, if passes are complete. When a last
  pass that was cut short makes all of them start over, they are counted from 0 again, and the decays are not taken back.
* `ImplementsSequentialLearner`: the refinement of section 2.
* `Termination`: all threads return. In `AllReduce`: every call returns on every node.
* `NoFalseAlarm`: neither of `all_reduce`'s two complaints about a neighbour that "has no data to
  send" can be reached.
* `Watermarks`: the comment at `allreduce.cc:263`. What is passed up are whole floats both
  children have added to.
* `ImplementsSumService`: the refinement of section 2. It is a barrier (nobody returns before
  all have called), a sum (each number once), and an agreement (the same float everywhere).

Those of `Vw`:

* `DirectionFromPath` (BFGS): a direction is made of the gradient summed over all nodes at the last
  accepted point, and of the m latest pairs of differences, newest first, each with its own `rho`.
* `LineSearchPoint`: however often a line search steps back, the weights are where it began plus `step_size` times the direction.
* `PredictionsReplayed`: a prediction that a curvature pass looks up by position is that of the same example at the accepted point.
* `BfgsLockstep`: nodes never meet in `all_reduce` with different calls, and hold the same weights.
* `RegularizerComplete`: the diagonal that is saved counts every example of the cluster once, all at one point.
* `DecayedOncePerBatch` (LDA): the lazy decay amounts to one decay per minibatch.
* `EveryDocOnce`: documents are given back once each, in order, in full minibatches but for the last.
* `AnswersInOrder` (cluster node): the k-th answer meets the k-th prediction, nobody is handed `NULL` by the delay ring.
* `FinishedAfterAll`: an example is output when everyone has trained on it as often as the options say and the relay is done with it.
* `WholeFiles` (files): under its own name there is always a whole file, whenever a process dies.
* `WeightsFit`: weights, mask and saved model have the same number of bits, and what was learnt before was learnt alike.
* `SettingsOfTheCall`: a call works with the settings of a new process, but for what is listed as never reset.
* `StreamsKept` (buffers): lines come through byte for byte, however `read` cuts them. An
  unterminated last line is dropped, and files are joined: the property says so, as the code does. A `read` that fails
  takes the rest of its file away, and nothing else; nobody is told (finding 13).
* `LossesReported`: the cache is the records of these lines, byte for byte, but for what a failed or short
  `write` was left with; when nothing was printed, nothing was lost.
* `IndexRoundTrip`: features that come to a cache in order come back as they were. Of others, what comes before the first
  that is out of order does, and the reader notices (`ae->sorted`); that the rest does not is finding 11.
* `EveryGramOnce`: addgrams makes each k-skip-n-gram once, with up to k skips in a gram. The lists in the comment at
  `parser.cc:542` have up to k skips in each gap of a gram, which is the same for 2-grams, and not for 3-grams: finding 12.
* `EachPartOnce`, `EachPartOnce`, `LossesAndUpdates`, `FactorsMatched`: the algorithms of
  section 2 against their definitions (`Example.tla`).
* `Termination`: every call returns to R, or its process ends. It takes that parser, learners and relay do not all wait for each
  other, that the ring holds a minibatch, that the nodes agree on the calls of `all_reduce`, and that a buffer
  grows when a line does not fit.

**Bounds of the pipeline.** `Thread` has three members: with two, "the last but one" and "the first"
contributor are the same thread. `RingSize = 2` is the least size at which two examples
are in the ring together; with three examples it wraps, the parser must wait, and learners
get a whole ring apart over unlabelled examples. `Online` reads every labelled and unlabelled
sequence of at most three examples, a text with an empty line, two passes over a
cache, and two jobs whose passes are cut short and start over (`--initial_pass_length` 0
and 1). `SizeMax = 15` is larger than any pass, so that the default length
`SizeMax` never cuts one, as `(size_t)-1` does not. Spurious wake-ups are on in the two
passing runs. The threads are not declared symmetric, because `Termination` is checked
in the same run. The proofs below need none of these bounds.

**Bounds of all_reduce.** `FloatSize = 2` is the least size at which a read can end inside a float, `BufSize` is
one float (the code's is a multiple of a float, too), and a socket holds one piece and a half
(`Capacity = 3`; in `AllReduce` one piece, 2), so that writes block half way. The calls are those of
`accumulate_avg`: a scalar and then a vector, here of two floats, so that pieces of one vector overlap
in the tree and the second call meets the leftovers of the first (`AllReduceFaults`, whose behaviours include those without a fault).
`AllReduce`, with four nodes and liveness, makes one call of two floats, so that returning from a second call is not checked; `IInv`, which
relates what is in every socket to the calls of its two ends, is proved for any tree and any calls.
`AllReduceFaults` has one crash, `CHECK_DEADLOCK` is off there and in the two violation runs, as
nodes do hang after a fault. `IntMax = 7` is larger than any buffer but the one of `WideBuffer`, whose
8 bytes wrap to -8 as 2^31 wraps to -2^31.

**Bounds of Vw.**

* Files: three calls, which is what it takes to train, go on from a model, and go on from that; one process that
  dies. `DefaultBits = 2`, `-b` 1 or 3, so that a cache may have fewer or more bits than a call. Calls without `-b` use the
  cache `d`, those with `-b` or a model `c`: `WeightsFit` does not hold when they share one (finding 9).
* BFGS: two nodes with two and one examples, or none; two to five passes, with and without curvature passes and
  `--output_feature_regularizer`; `--mem` 0, 1, 2, so that `mem` wraps. `FullStep = 2` gives a line search a step
  between nothing and all. An empty node in a cluster with others that are not makes fewer calls of `all_reduce`, and all
  wait: this is left out (see section 6).
* LDA: up to four documents over two words, minibatches of 1 to 3, so that there are full, short and empty last
  minibatches, and words missed for several of them. The first minibatch has a word: `lda_core.cc:562`
  reads the first element of an array that is not there otherwise.
* Cluster node: a ring of two, one or two learners, three or four examples; the ring wraps and half of it is one example.
* Buffers: a size of two bytes, files of up to five, so that a line spans several loads and the buffer doubles twice;
  one call of `read` or `write` fails (`MaxIoFailures`).
* Examples: up to six features in n-grams of up to 4 with up to 3 skips; up to four sorted features out of eight indexes, 1 to 8 parts
  and hosts; caches of 6 bits in integers of 9, just the widest that fit (29 of 32 in the code), runs in base 4 instead
  of 128; losses at 13 predictions and 8 labels. `DrawUnit = 2`: `drand48` gives 0 or 1/2; any fraction of 1 is cut to 0.

`CHECK_DEADLOCK` is off in the runs of `Vw`, as R need not call again and BFGS may give up; that nobody waits for ever is `Termination`.

**Fairness.** `FairSpec` assumes weak fairness of the parser and of each learner: the
operating system runs every thread that is not waiting. No fairness is assumed between
the actions of a thread, for spurious wake-ups, or for getting a lock that
others keep taking. Waiting for `ex->lock` disables a thread, but weak fairness is
enough: an example is locked for one stretch only, by the thread that completes its sum.

For `AllReduce`, weak fairness of `Step(n)`: each process runs, and the network delivers. A signal or a crash
need not happen.

In `Vw` (`VwFairness`), weak fairness of each thread as a whole: the parser, the thread that runs `vw()`, each learner, each
node, `all_reduce` (as `AllReduce.Termination` shows), and the relay with the cluster that answers it.
Nobody has to call `vw()` again, and no process has to die.

**Deadlock** is checked in the other runs; the finished states loop (`Terminated`, `Stop`).

## 4. Findings

Shown by a run:

1. *`--active_simulation` with several threads* (`gd.cc:758`, run `ActiveSimulation`). `local_predict` may drop the
   label in the last thread, after the others have seen it and wait for the sum. `predict`
   then reports and frees the example at once, under the comment "We are the last thread using
   this example": the waiting threads still use it.
2. *"save" commands with several threads* (`gd.cc:75`). The first thread to get the command
   calls `delay_example(ec,0)` with `threads_to_finish` not zero, against
   the assertion at `delay_ring.cc:146`, and frees an example the others have yet to take. `SingleThread.cfg` with
   `Thread = {t1, t2}` violates `OutputWhenFinished` for this reason.
3. *Decay of the learning rate* (`gd.cc:49`). Documented as "between passes" (`parse_args.cc:77`) but done by each
   thread, without a lock: the same configuration violates `EtaDecaysOncePerPass`.
4. *A write that is interrupted* (`allreduce.cc:225`, run `ShortWrite`). `pass_up` and `pass_down` log a short
   `write` and go on as if it had been complete. The bytes are never sent: the receiver waits for them and, after
   it, the whole cluster. A signal (an interrupt typed at R) is enough, no failure of a node
   is needed. Nobody gets a wrong sum (`AllReduceFaults`).
5. *Large models* (`allreduce.cc:378`, run `WideBuffer`). `-b 29` is allowed (`parse_args.cc:300`), but 2^29 floats are
   2^31 bytes, negative as the `int` that `all_reduce` takes: it returns at once, and each node
   goes on with its own numbers. `accumulate_weighted_avg`, with two floats per weight, fails from `-b 28`.
6. *Average loss* (`gd.cc:191`). `ec->loss` is not reset, so an unlabelled example adds the
   loss of the example that had its slot before. The model does so; no run states the contrary.
7. *The size of a namespace in a cache* (`cache.cc:191`, run `CacheRoundTrip`). It is copied over the local pointer to where it
   belongs, so that the bytes in the cache stay what the buffer held. The other modules describe what passes over a
   cache do when it holds what was written.
8. *The hash of n-grams* (`parser.cc:839`, run `Grams`). `(size_t) drand48()*RAND_MAX` is always 0.
9. *A call without `-b` and a cache of another size* (`parser.cc:228`, run `SharedCache`). The weights are allocated
   (`parse_args.cc:395`) before the cache is opened (`parse_args.cc:396`), which then sets `num_bits` and `mask`: the indexes
   and the model that is saved are those of the cache, the weights those of the default.

10. *Answers to examples without a label* (`message_relay.cc:25`). `delay_global_example` is "only called by delayed
   backprop or delayed_global when there is training to do" (`delay_ring.cc:173`), but the relay calls it for every answer.
   For an example without a label `delay_example(ex,0)` has counted no second training, so the slot of the delay ring is
   free when the learners are told to fetch it: with `"test"` in the sources of its `"backprop"` jobs the run `Vw` violates
   `AnswersInOrder`, a learner is handed `NULL`. The jobs of the run have labels.

11. *Features out of order in a cache* (`cache.cc:144`, run `UnsortedCache`). `n >> 31` is a logical shift here, as `n` is
   unsigned: the zig-zag code of a difference -d is read back as d - 1, modulo 2^29. Without `--sort_features`, the default,
   features are cached in the order of the text. The indexes 5, 2, 9 come back as 5, 7, 14. (As long as finding 7
   stands no feature comes back at all.)
12. *The comment on k-skip-n-grams* (`parser.cc:544`, run `Grams`). It lists "ace" and "bdf" among the 1-skip-3-grams, with a
   skip in each gap; `addgrams` allows k skips in all, and does not make them. `GramsAsDescribed` is violated by this
   and by finding 8 in the same state: with one of the two repaired it still is, with both it holds.

Not shown by a run of its own:

13. *Input and output that fail* (`io.h:98`, `io.h:108`). A `read()` that fails (a disk error, a signal on a pipe) ends the file
   silently: the pass is shorter, and a line may be joined to the next file. A failed or short `write()` of a cache is
   printed, the bytes are dropped, and `reset_source` renames the cache to its own name all the same (`parser.cc:112`).
   Nothing in the repository says otherwise, so this is what `IoBuf` models and its two properties bound. The writes of
   models (`parse_regressor.cc:322-424`) are not checked at all: `WholeFiles` is about processes that die, not about full disks.
14. *The assertion at `delay_ring.cc:146`* does not hold for `send_thread` without a relay either (`sender.cc:137`):
   `setup_example` sets `threads_to_finish` (`parser.cc:657`), and nobody counts it down. Packages of R are built with `NDEBUG`;
   `ClusterNode` leaves it out.

Findings 1 to 3 need more than one learning thread (`--thread_bits`).

## 5. What is proved

`tlapm` checks every proof to the last leaf. First the pipeline, without assumptions other than
`PipelineAssumption` (the types of the constants: a finite set of threads, a ring of at least
one slot, and passes only over a resettable source, which `parser.cc:476` enforces) and, in
each theorem, `\A j \in Jobs : PlainJob(j)`: no "save" command and no
`--active_simulation`. Findings 1 and 2 show that the theorems do not hold without
it. Nothing is assumed of the number of threads, the ring size, the input, the
number of passes or the pass length.

| Theorem (`LearnerPipelineProofs`) | Statement |
|---|---|
| `Invariance` | `Spec => []IInv` |
| `TypeCorrect` | `Spec => []TypeOK` |
| `ParserStaysBehind` | `Spec => []ExamplesAvailable` |
| `NoUseAfterFree` | `Spec => []LastUser` |
| `OnlyFinishedOutput` | `Spec => []OutputWhenFinished` |
| `StatisticsUnshared` | `Spec => []OneAccountant` |
| `DelayNeverWaits` | `Spec => []DelaySlotFree` |

None of these properties is inductive. `IInv` is, and it is a description of how the pipeline
works, in terms of the index n of an example rather than its slot:

* `TakenInv`: a learner has at most one example in hand, the last it has taken.
* `WindowInv`: the parser is at most `RingSize` examples ahead of what the slowest
  learner is done with, so examples still live are in different slots.
* `LiveInv`: what the counters of an example count. Before its sum is complete,
  `threads_to_finish` is the number of learners missing from the sum; if it is to be
  trained on, it holds back all who have contributed. Afterwards `threads_to_finish` is the number of
  learners that have yet to train.
* `StepInv`: what a learner may rely on at each step. In particular (`AtDelay`),
  while one learner puts an example in the delay ring, *all* others wait for its lock, having
  fetched all that was in the ring: this is why `delay_example` never waits and why
  at most one example is ever in the delay ring.
* `DelayInv`: the one example in the delay ring, and `threads_to_use`.

The argument. A trainable example is a barrier: nobody passes it before its sum is complete, and
nobody predicts the next before having trained on it, because the select loop of
`gd_thread` looks into the delay ring first. Between barriers threads may be a whole ring
apart. An example ends with the thread that brings `threads_to_finish` to zero, and
`LiveInv` says that then nobody else can be at or before it.

**The refinement.** `ReportInv` says in which sense the threads are one sequential learner. `Front` is the
number of the next example to be reported, and the abstract state changes only when it is (`Output`).

* `FrontInv`: nobody is behind `Front`, and somebody is not past it.
* `WeightsInv`: a weight vector is `Model`, the one the last report stands for, or, once its learner has trained on
  example `Front`, that one with `Front` appended.
* `SumInv`: the sum of each example from `Front` on has the share of every learner that is not missing from it, each with the
  model of its place in the sequence.

So the sum that is reported has one share of every thread, all with the weights after exactly the trainable examples before
(`OutputStep`), which is a step of `SequentialLearner`; every other step leaves `sink` alone (`StepRefines`).

| Theorem (`LearnerPipelineRefinement`) | Statement |
|---|---|
| `ReportsInOrder` | `Spec => [](IInv /\ ReportInv)` |
| `SequentialRefinement` | `Spec => ImplementsSequentialLearner` |

**The learning rate.** With one learner and less than `SizeMax` (which is `(size_t)-1`) examples in the input,
`OneDecayPerPass` (`LearnerPipelineProofs`) proves `Spec => []EtaDecaysOncePerPass`. `PassInv`, for any number of learners:
the reader has counted fewer examples than it has read, so that with the default length no pass is cut short and
`passes_complete` never goes back (`ReaderInv`); the live examples are of passes in ascending order, none before that of a
learner that has yet to train on it (`PassOrder`). `EtaInv`, for one: each decay (`LoadEta`, `StoreEta`) comes with a step of
`current_pass`. The proof is how the condition on passes that are cut short came into the property: without it the property
is not true of the code, even with one thread.

The proofs about the pipeline are laid out in two modules:

* `LearnerPipelineProofs`: arithmetic of the rings (`SlotWrap`, `SlotApart`), counting sets of
  threads, consequences of `IInv` in one state; every step preserves `TypeOK`; steps that leave every learner in
  the same phase (`SamePhase`) preserve `IInv`, which covers most actions. Then the steps in which an example moves on
  (parsed, taken, contributed to, completed, delayed, finished, freed), the induction, the theorems, passes and learning rate.
* `LearnerPipelineRefinement`: `ReportInv` and the refinement.

**AllReduce.** The assumptions are `AllReduceAssumption` (the types of the constants), `TreeAssumption` (the nodes are one
tree: one of them has no parent, and of any set of nodes one is highest and one lowest, which is true of every finite tree) and
`FitsInt`: no call has more bytes than an `int` counts (finding 5). The number of nodes, the trees, the
calls, the sizes, the crashes and the signals are arbitrary.

| Theorem (`AllReduceProofs`) | Statement |
|---|---|
| `PositionsStayRight` | `Spec => []PositionsInv` |
| `ComplaintsUnreachable` | `Spec => []NoFalseAlarm` |
| `SentBehindRead` | `Spec => []Watermarks` |
| `PositionsWithinBuffer` | `Spec => []TypeOK` |

`PositionsInv` is a conjunction of facts of each node by itself, so a step keeps it at all nodes but its own
(`OneNode`). `FdsInv`: at `select`, `fds` holds exactly the children with more to send. It is what `FD_CLR` and
the `else if` with `FD_SET` maintain together, one child at a time (`ChildStep`). `DownInv`: a node has passed
down all it has read whenever it is about to read, because it reads no more than one piece at a time;
so when all is read all is passed on, and the second complaint is not reached. `UpInv`: the
position sent is behind both children's whole floats. `ExtentInv` bounds each position by the number of bytes of the call
and what is kept between two reads by the size of a float, which is what `TypeOK` needs: a read asks for what is left of the
buffer at most.

| Theorem (`AllReduceRefinement`) | Statement |
|---|---|
| `Invariance` | `Spec => []IInv` |
| `SumServiceRefinement` | `Spec => ImplementsSumService` |

The refinement needs what the bytes are. `BytesInv` says it of the two ends of each socket (`LinkOK`) and of each buffer,
and it holds also when bytes are lost and nodes die.

* `LinkInv`: the call a child is in is that of its parent, the next one (`Ahead`: it has been given the whole
  vector, and has read it) or the one before (`Behind`: it has given all of its own, and the parent, back in a new
  call, has read nothing yet). Whatever is in a socket belongs to the call of the child, and there is never more of it than was sent,
  counting as sent the bytes a `write` that ended early has skipped.
* `UpStreamInv`, `DownStreamInv`: if the count is exact (`UpExact`, `DownExact`), no byte has been lost, and those in the socket, and
  the start of a float kept in `child_read_buf`, are bytes of the child's buffer, or of the vector agreed on (`Wire`).
* `FloatsInv`: the buffer of a node that has read nothing from above holds whole floats.
* `SumInv`: each of them is the node's own number and the sums of those children that it has been read from, if no byte was lost on
  the way and the children's floats were right.
* `AgreedInv`: what has been returned so far is what was agreed on.

The bytes that are lost are never noticed by the code; the theorem says that it does not matter for what is returned, because a lost byte
means that the reader can never have read as many as it must. So when the root has read all (`RootReady`), every node has, from the
root downwards, sent and read all (`EverybodyUp`, by `Highest`), no byte is lost, and from the leaves upwards each float is the sum of its
subtree (`EverybodysSum`, by `Lowest`): a step `Agree` of `SumService`. When a node has read all from above, so have those above it,
and its buffer holds the vector agreed on (`Delivered`, `Returned`): a step `Return`. Every other step but `Call` is a
stutter (`StepRefines`). For the induction there is a lemma per action; most change one node's view of one socket and are instances of
`MovingStep` or, if they move no bytes, of `QuietStep`.

**Session.** `SessionAssumption` gives the types of the constants; calls, files and crashes are arbitrary.

| Theorem (`SessionProofs`) | Statement |
|---|---|
| `FilesAreWhole` | `SessionSpec => []WholeFiles` |
| `WeightsAlwaysFit` | `ASSUME CachesApart PROVE SessionSpec => []WeightsFit` |
| `SettingsAreTheCalls` | `SessionSpec => []SettingsOfTheCall` |

`WholeFiles` is not inductive: a renamed file must have been complete before. `FilesInv` adds that (`DumpInv`), with
the types; for a cache the guard of `ResetSource` says it, as `FlushCache` comes first.
`WeightsFit` takes what each stage of a call may rely on: where the number of bits comes from until the source is open
(`OptionsHold`), that what is in a file was learnt with what it is stored with (`FilesConsistent`), that weights follow `num_bits`
(`LearntAlike`) and the mask follows both (`MaskFits`). The assumption `CachesApart`: a cache that is used by a call with
neither `-b` nor a model is used by no call with another number of bits, and is not the name of a model. Finding 9
shows that it is needed. The calls of run `Vw` meet it, those of `SharedCache` do not.
`SettingsInv` follows a call from `parse_args` to its end: which settings are those of the command line at which stage, and that those
that are never reset are left as some earlier call of the process set them. An `Rf_error` may leave `global` at any of these stages; the
next `parse_args` does not rely on what it finds.

**Lda.** `LdaAssumption` gives the types of the constants; documents, words, minibatch and ring are arbitrary.

| Theorem (`LdaProofs`) | Statement |
|---|---|
| `DecayIsComplete` | `LdaSpec => []DecayedOncePerBatch` |
| `DocsAreKept` | `LdaSpec => []EveryDocOnce` |

`DecayInv` adds `LevelsInv`: level i adds up i - 1 minibatches, so the level found by counting from the end is the one of
the minibatch a word was met in; two runs of minibatches that follow each other then join (`RunsJoin`). `DocsInv`: all
minibatches before the current one were full, and it is smaller only when the documents have run out.

**Bfgs.** `BfgsAssumption` gives the types of the constants, at least two passes, and `m = 0` only with `hessian_on`
(both from the option checks), `BfgsNodesAssumption` that a cluster has finitely many nodes; which, their shards, the size of
`mem`, and what the sums decide are arbitrary.

| Theorem (`BfgsProofs`) | Statement |
|---|---|
| `WeightsOnLine` | `BfgsSpec => []LineSearchPoint` |
| `PredictionsAreThose` | `BfgsSpec => []PredictionsReplayed` |
| `NodesInLockstep` | `BfgsSpec => []BfgsLockstep` |
| `DirectionsFromPath` | `BfgsSpec => []DirectionFromPath` |
| `RegularizerIsComplete` | `BfgsSpec => []RegularizerComplete` |

`LineInv`: a node that has a direction is at the last point of its path plus `step_size` times that direction, also between a
step back and the pass that evaluates it (`OnLine`), and a decision is of the kind its question has (`AnswersFit`), so a gradient
pass never gets the answer to a curvature pass. `ReplayInv` adds where a node is in the input: in the pass it works on, or, its parser ahead
of it, at the beginning of the next; in a gradient pass `predictions` has the examples so far at this point, in a curvature pass
all of them at the accepted point, and `example_number` counts those replayed. The second needs the first, because a step that is accepted
makes the point of the predictions the last of the path.

`NodesInLockstep` is about two nodes at a time. `LockInv` compares each pair of nodes that search (`Pair`): at the same pass they are
together, with the same directions, steps, memory and, once they have entered it, the same questions to `all_reduce` (`Together`); one may
be a pass ahead, and then it is where the answer to the question the other still works on will take that one (`Ahead`). It never
gets two ahead, as `all_reduce` is a barrier. Lemmas on determinism (`SameDecision` and those before it) say that from the same memory
and the same answer two nodes go on alike; that the answer is the same for the same sums is the variable `answers`.
A node without examples stays at its first pass (`Alone`); shards are arbitrary in the theorem. That nodes with examples wait
for one without is a matter of liveness, not of this property (section 6).

The other two need to know what the sums are. `SumOf` folds over the nodes in an order of its own; `SumOfSets` proves that it comes to
the union where no term is counted twice, by the smallest set of nodes for which it would not (`SmallestSubset`, from the
library's theorem that strict inclusion of finite sets is well-founded). With that, three invariants:

* `EndInv`: how the job ends. With examples, the pass a node ends it in is the last one (`Within`), and when one has left the loop no
  other still calls `all_reduce` in it (`Closing`). Without, it waits at the last sum, and those with examples get no further than the first
  pass (`Blocked`). Hence who meets in `all_reduce` (`WhoMeets`): all have left, all are at the end of a pass, or the first pass
  with an empty shard among them.
* `HeldInv`: the gradient, and the diagonal in the first and the last pass, hold the terms of the examples read so far at the point of the pass
  (`GradHeld`, `CondHeld`), after the call those of all nodes. What nodes send for the diagonal when they have left the loop is of
  one point (`OnePoint`), as they were together when the first of them left it. `RegularizerComplete` follows.
* `MemoryInv`: from the second pass on `mem` holds, in its slots counted from `origin`, the gradient and the point accepted last and before them the
  differences along the path, newest first, as many as there were or as there is room for (`Remembers`); the direction was made of them
  (`FromPath`). `MiddleSearches` is the step: writing slots 0 and 1 turns the last point and gradient into differences, and the
  shift by two slots makes room, over the oldest pair when `mem` is full (`StoredAt`, `ShiftedAt`).

**ClusterNode.** `NodeAssumption` gives the types of the constants. The theorems assume `GlobalLabelled` of the jobs:
with `--backprop`, `--corrective` or `--delayed_global` there is a relay (`initialize_delay_ring` makes one whenever there
is a `--predictto`), and every example has a label. Finding 10 shows that the second is needed. Modes, learners,
ring and input are arbitrary otherwise.

| Theorem (`ClusterNodeProofs`) | Statement |
|---|---|
| `AnswersComeInOrder` | `NodeSpec => []AnswersInOrder` |
| `OutputAfterAll` | `NodeSpec => []FinishedAfterAll` |

The argument is about claims. An example has one claim per training to come and one of the relay (`Claims`). A claim is first on the slot
of the delay ring, then on the example in the hand of whoever took it, then gone: `users` of a slot is the number of claims
not yet taken (`SlotInv`), `to_finish` the number not yet gone (`FinishInv`). So a slot is cleared, and an example
finished, by the last claim, and since each index of the ring only passes examples it has a claim on, what it finds is never `NULL`.
`RelayInv` and `OrderInv` add that examples enter the delay ring in the order of their predictions, and are answered in it.

These theorems are about `Session`, `Lda`, `Bfgs` and `ClusterNode` by themselves. `Vw` takes their actions with stronger guards, but
is in reach of a recursive operator (`Features`), which excludes it from proofs; there TLC checks the same invariants.

Only model-checked:

* every `Termination`: liveness under fairness is beyond the prover.
* `EveryPassComplete`, `StreamsKept`, `LossesReported`, `IndexRoundTrip`, `EveryGramOnce`, `EachPartOnce`,
  `LossesAndUpdates`, `FactorsMatched`: they compare the code with a definition by selection, recursion or a fold over a
  sequence. The prover has no facts about `SelectSeq`, `SetToSortSeq` and `FlattenSeq`, which the first three use;
  `Example` is in reach of recursive operators (`CacheCodec`, `Features`), which excludes it from proofs.
* the jobs the theorems leave out ("save" commands, `--active_simulation`) with one thread, by run `SingleThread`.

## 6. Not modelled

* `multisource.cc`, `network.cc` and daemon mode cannot be reached
  (`parser.cc:270` tests `false &&`); `active_interactor.cc` and `unused/` are not part of the package.
* `sparse_dense.cc`, the updates of `gd.cc` and topic inference of LDA: floating-point code without control. Logistic loss and the
  second derivatives are left out of `LossFunctions` as they have no values that can be enumerated.
* `gd_thread` with `--span_server`: every unlabelled example before the first labelled one of a pass calls
  `accumulate` again (`gd.cc:62`), and all threads of a node do so on the same sockets (`gd.cc:67`). Nodes with different
  data call a different number of times. In BFGS a node without examples calls it for the last sum only
  (`bfgs.cc:781`), and the others wait. Both are plain from the code; a run would only restate them.
* `send_thread` with several threads (`sender.cc:137`): the others never take an example, and the call hangs.
* Features that nothing has sorted, with `--thread_bits` or `--sendto` (`parser.cc:701`): `search` assumes they are.
* Several pairs in `mf_inline_train` (`gd_mf.cc:147`): the later ones take the factors of the first. `FactorsMatched` is about one.
* `save_predictor`, several initial models, `--input_feature_regularizer`; `all_reduce_init` and its master; the
  bytes on the sockets of `sender.cc`; compressed files (`comp_io.h`), `buf_read`; the audit.
