-------------------------- MODULE LearnerPipeline --------------------------
(***************************************************************************)
(* The online learner of vw: the parser thread (parser.cc), the ring of    *)
(* examples it fills, the gradient descent threads (gd.cc) that all        *)
(* predict every example and then all train on it, the delay ring          *)
(* (delay_ring.cc) through which an example comes back for training, and   *)
(* the accounting of finished examples.                                    *)
(*                                                                         *)
(* Each action is the code between two points where another thread can     *)
(* interfere: one critical section with the thread-local code around it.   *)
(* Condition variables are program counters ("sumWait", "availWait",       *)
(* "unusedWait"); ex->lock, which a thread may hold across several         *)
(* actions, is the variable lock.                                          *)
(*                                                                         *)
(* Configuration modelled: learners on one machine (no --predictto,        *)
(* --sendto or --span_server, so mesg = 0 and no local_prediction), and no *)
(* cache being written.                                                    *)
(***************************************************************************)
EXTENDS Integers, Sequences, FiniteSets

CONSTANTS
  Thread,            \* the learning threads, global.num_threads() of them
  Nobody,            \* the owner of a free lock
  RingSize,          \* global.ring_size
  Jobs,              \* the calls of vw to consider: input and options
  SizeMax,           \* (size_t)-1, the default of --initial_pass_length
  SpuriousWakeups    \* whether pthread_cond_wait may return unasked

(* What a line of input is to the pipeline: an example with a label when   *)
(* training is on, one without (or with -t), a "save" command, or an empty *)
(* line, at which the reader reports the end of its input.                 *)
Kinds == {"train", "test", "save", "blank"}

Job == [source            : Seq(Kinds),
        resettable        : BOOLEAN,    \* p->resettable: reads a cache
        numpasses         : Nat \ {0},  \* --passes
        pass_length       : 0..SizeMax, \* --initial_pass_length
        active_simulation : BOOLEAN]    \* --active_simulation

ASSUME PipelineAssumption ==
  /\ IsFiniteSet(Thread) /\ Thread # {}
  /\ Nobody \notin Thread
  /\ RingSize \in Nat \ {0}
  /\ SizeMax \in Nat
  /\ Jobs \subseteq Job
  /\ \A j \in Jobs : j.numpasses > 1 => j.resettable  \* parser.cc:476
  /\ SpuriousWakeups \in BOOLEAN

Slot == 0..(RingSize - 1)
SlotOf(index) == index % RingSize
NULL == -1
Zero == [i \in Thread |-> 0]

VARIABLES
  job,  \* what vw was called with
  \* the parser thread
  ppc, read_pos, example_number, pass_length, passes_complete,
  parsed_index, done,
  \* examples[s], one function per field of the struct
  in_use, kind, pass, example_counter, threads_to_finish, summed, sum, loss,
  lock,
  \* gd_thread(i); loaded is a register: the value read by a non-atomic update
  pc, ec, current_pass, used_index, weights, loaded,
  \* the delay ring
  delay_ring, threads_to_use, delay_indices, local_index,
  \* accounting: what was reported, the losses summed up, and how often
  \* global.eta was decayed.  A loss is the number of the example it is of.
  sink, sum_loss, eta_decays

parserVars  == <<job, ppc, read_pos, example_number, pass_length,
                 passes_complete, parsed_index, done>>
exampleVars == <<in_use, kind, pass, example_counter, threads_to_finish,
                 summed, sum, loss, lock>>
learnerVars == <<pc, ec, current_pass, used_index, weights, loaded>>
delayVars   == <<delay_ring, threads_to_use, delay_indices, local_index>>
accountVars == <<sink, sum_loss, eta_decays>>
vars == <<parserVars, exampleVars, learnerVars, delayVars, accountVars>>

----------------------------------------------------------------------------
Goto(i, label) == pc' = [pc EXCEPT ![i] = label]

(* pthread_cond_broadcast(&example_available): each waiter returns from    *)
(* get_example with NULL.  The caller names the learner that moves along.  *)
OneWoken ==  \* a mutant: pthread_cond_signal
  LET waiting == {i \in Thread : pc[i] = "availWait"}
  IN IF waiting = {} THEN pc
     ELSE [pc EXCEPT ![CHOOSE i \in waiting : TRUE] = "exit"]
WokenByExamples ==
  [i \in Thread |-> IF pc[i] = "availWait" THEN "exit" ELSE pc[i]]

(* parser_done(), read without a lock: what it reads only ever turns true. *)
ParserDone == done /\ \A i \in Thread : used_index[i] = parsed_index

----------------------------------------------------------------------------
(* main_parse_loop, the parser thread.                                     *)

FreeAlways(s) == TRUE  \* a mutant: the test of in_use forgotten
Free(s) == ~in_use[s]

(* get_unused_example: take the slot at parsed_index...                    *)
ClaimSlot ==
  /\ ppc = "get"
  /\ Free(SlotOf(parsed_index))
  /\ in_use' = [in_use EXCEPT ![SlotOf(parsed_index)] = TRUE]
  /\ ppc' = "parse"
  /\ UNCHANGED <<job, read_pos, example_number, pass_length,
                 passes_complete, parsed_index, done, kind, pass,
                 example_counter, threads_to_finish, summed, sum, loss, lock,
                 learnerVars, delayVars, accountVars>>

(* ... or wait on example_unused until the learners free it.               *)
AwaitSlot ==
  /\ ppc = "get"
  /\ ~Free(SlotOf(parsed_index))
  /\ ppc' = "unusedWait"
  /\ UNCHANGED <<job, read_pos, example_number, pass_length,
                 passes_complete, parsed_index, done, exampleVars,
                 learnerVars, delayVars, accountVars>>

(* parse_atomic_example reads the next line and setup_example fills in the *)
(* slot, which no lock protects: in_use keeps the learners out of it.      *)
(* The loss of the slot's previous example is left in it.                  *)
ParseExample ==
  LET s == SlotOf(parsed_index) IN
  /\ ppc = "parse"
  /\ example_number # pass_length
  /\ read_pos <= Len(job.source)
  /\ job.source[read_pos] # "blank"
  /\ kind' = [kind EXCEPT ![s] = job.source[read_pos]]
  /\ read_pos' = read_pos + 1
  /\ pass' = [pass EXCEPT ![s] = passes_complete]
  /\ sum' = [sum EXCEPT ![s] = {}]
  /\ threads_to_finish' = [threads_to_finish EXCEPT ![s] = Cardinality(Thread)]
  /\ summed' = [summed EXCEPT ![s] = FALSE]
  /\ example_counter' = [example_counter EXCEPT ![s] = parsed_index + 1]
  /\ example_number' = example_number + 1
  /\ ppc' = "publish"
  /\ UNCHANGED <<job, pass_length, passes_complete, parsed_index, done,
                 in_use, loss, lock, learnerVars, delayVars, accountVars>>

PublishExample ==
  /\ ppc = "publish"
  /\ parsed_index' = parsed_index + 1
  /\ pc' = WokenByExamples
  /\ ppc' = "get"
  /\ UNCHANGED <<job, read_pos, example_number, pass_length,
                 passes_complete, done, exampleVars, ec, current_pass,
                 used_index, weights, loaded, delayVars, accountVars>>

(* The last pass was cut short by pass_length, so all of them start again. *)
StartsOverLate ==  \* a mutant: tested before passes_complete++
  passes_complete = job.numpasses /\ example_number = pass_length
StartsOver ==
  passes_complete + 1 = job.numpasses /\ example_number = pass_length

(* The pass is over: its length is reached, the input is exhausted, or an  *)
(* empty line was read.  Passes that start again are over twice as many    *)
(* examples and one.                                                       *)
EndPass ==
  LET cut      == example_number = pass_length
      blank    == ~cut /\ read_pos <= Len(job.source)
                  /\ job.source[read_pos] = "blank"
      complete == IF StartsOver THEN 0 ELSE passes_complete + 1
  IN
  /\ ppc = "parse"
  /\ cut \/ blank \/ read_pos > Len(job.source)
  /\ read_pos' = IF job.resettable THEN 1
                 ELSE IF blank THEN read_pos + 1 ELSE read_pos
  /\ passes_complete' = complete
  /\ pass_length' = IF StartsOver THEN (pass_length * 2 + 1) % (SizeMax + 1)
                    ELSE pass_length
  /\ example_number' = 0
  /\ done' = (complete >= job.numpasses)
  /\ ppc' = "release"
  /\ UNCHANGED <<job, parsed_index, exampleVars, learnerVars, delayVars,
                 accountVars>>

(* The slot claimed for the example that did not come is given back, and   *)
(* every learner waiting for an example is woken.                          *)
ReleaseSlot ==
  /\ ppc = "release"
  /\ in_use' = [in_use EXCEPT ![SlotOf(parsed_index)] = FALSE]
  /\ pc' = WokenByExamples
  /\ ppc' = IF done THEN "stopped" ELSE "get"
  /\ UNCHANGED <<job, read_pos, example_number, pass_length,
                 passes_complete, parsed_index, done, kind, pass,
                 example_counter, threads_to_finish, summed, sum, loss, lock,
                 ec, current_pass, used_index, weights, loaded, delayVars,
                 accountVars>>

Parser == \/ ClaimSlot \/ AwaitSlot \/ ParseExample \/ PublishExample
          \/ EndPass \/ ReleaseSlot

----------------------------------------------------------------------------
(* gd_thread(i): first train on an example that came back.                 *)

(* The select loop looks for delayed examples before parsed ones.          *)
PendingLast(i) ==  \* a mutant: parsed examples first
  delay_indices[i] # local_index /\ used_index[i] = parsed_index
Pending(i) == delay_indices[i] # local_index

(* get_delay_example, and return_example up to its first unlock.           *)
FetchDelayed(i) ==
  /\ pc[i] = "select"
  /\ Pending(i)
  /\ ec' = [ec EXCEPT ![i] = delay_ring[SlotOf(delay_indices[i])]]
  /\ delay_indices' = [delay_indices EXCEPT ![i] = @ + 1]
  /\ Goto(i, "return")
  /\ UNCHANGED <<parserVars, exampleVars, current_pass, used_index, weights,
                 loaded, delay_ring, threads_to_use, local_index, accountVars>>

NothingDelayed(i) ==
  /\ pc[i] = "select"
  /\ ~Pending(i)
  /\ ec' = [ec EXCEPT ![i] = NULL]
  /\ Goto(i, "get")
  /\ UNCHANGED <<parserVars, exampleVars, current_pass, used_index, weights,
                 loaded, delayVars, accountVars>>

(* return_example computed index before it incremented delay_indices.      *)
ReturnIndex(i) == SlotOf(delay_indices[i] - 1)

PassesFromOne(i) == pass[ec[i]] + 1 # current_pass[i]  \* a mutant
NewPass(i) == pass[ec[i]] # current_pass[i]

LastReaderOff(index) == threads_to_use[index] = 0  \* a mutant: post-decrement
LastReader(index) == threads_to_use[index] - 1 = 0

(* The rest of return_example: the last thread frees the delay slot.       *)
ReturnExample(i) ==
  LET index == ReturnIndex(i) IN
  /\ pc[i] = "return"
  /\ lock[ec[i]] = Nobody
  /\ threads_to_use' = [threads_to_use EXCEPT ![index] = @ - 1]
  /\ delay_ring' = IF LastReader(index)
                   THEN [delay_ring EXCEPT ![index] = NULL] ELSE delay_ring
  /\ Goto(i, IF NewPass(i) THEN "loadEta" ELSE "train")
  /\ UNCHANGED <<parserVars, exampleVars, ec, current_pass, used_index,
                 weights, loaded, delay_indices, local_index, accountVars>>

(* global.eta *= global.eta_decay_rate, with no lock.                      *)
LoadEta(i) ==
  /\ pc[i] = "loadEta"
  /\ loaded' = [loaded EXCEPT ![i] = eta_decays]
  /\ Goto(i, "storeEta")
  /\ UNCHANGED <<parserVars, exampleVars, ec, current_pass, used_index,
                 weights, delayVars, accountVars>>

StoreEta(i) ==
  /\ pc[i] = "storeEta"
  /\ eta_decays' = loaded[i] + 1
  /\ current_pass' = [current_pass EXCEPT ![i] = pass[ec[i]]]
  /\ Goto(i, "train")
  /\ UNCHANGED <<parserVars, exampleVars, ec, used_index, weights, loaded,
                 delayVars, sink, sum_loss>>

(* inline_train touches the thread's own weight vector only.               *)
Train(i) ==
  /\ pc[i] = "train"
  /\ weights' = [weights EXCEPT ![i] = Append(@, example_counter[ec[i]])]
  /\ Goto(i, "finish")
  /\ UNCHANGED <<parserVars, exampleVars, ec, current_pass, used_index,
                 loaded, delayVars, accountVars>>

FinishExample(i) ==
  /\ pc[i] = "finish"
  /\ lock[ec[i]] = Nobody
  /\ threads_to_finish' = [threads_to_finish EXCEPT ![ec[i]] = @ - 1]
  /\ Goto(i, IF threads_to_finish[ec[i]] - 1 = 0 THEN "output" ELSE "select")
  /\ UNCHANGED <<parserVars, in_use, kind, pass, example_counter, summed, sum,
                 loss, lock, ec, current_pass, used_index, weights, loaded,
                 delayVars, accountVars>>

----------------------------------------------------------------------------
(* Otherwise predict the next parsed example.                              *)

GetExample(i) ==
  LET s == SlotOf(used_index[i]) IN
  /\ pc[i] = "get"
  /\ parsed_index # used_index[i]
  /\ used_index' = [used_index EXCEPT ![i] = @ + 1]
  /\ ec' = [ec EXCEPT ![i] = s]
  /\ Goto(i, IF kind[s] = "save" THEN "command" ELSE "predict")
  /\ UNCHANGED <<parserVars, exampleVars, current_pass, weights, loaded,
                 delayVars, accountVars>>

(* No example yet: wait for one, unless the parser is done.                *)
GetNothing(i) ==
  /\ pc[i] = "get"
  /\ parsed_index = used_index[i]
  /\ Goto(i, IF done THEN "exit" ELSE "availWait")
  /\ UNCHANGED <<parserVars, exampleVars, ec, current_pass, used_index,
                 weights, loaded, delayVars, accountVars>>

(* command_example dumps the whole regressor; then threads_to_finish is    *)
(* decremented with no lock, by every thread that gets the example.        *)
SaveRegressor(i) ==
  /\ pc[i] = "command"
  /\ sum' = [sum EXCEPT ![ec[i]] =
                @ \cup {[by |-> j, model |-> weights[j]] : j \in Thread}]
  /\ loaded' = [loaded EXCEPT ![i] = threads_to_finish[ec[i]]]
  /\ Goto(i, "commandDone")
  /\ UNCHANGED <<parserVars, in_use, kind, pass, example_counter,
                 threads_to_finish, summed, loss, lock, ec, current_pass,
                 used_index, weights, delayVars, accountVars>>

NotDecremented(i) == loaded[i]  \* a mutant: as in sender.cc:137
Decremented(i) == loaded[i] - 1

CommandDone(i) ==
  /\ pc[i] = "commandDone"
  /\ threads_to_finish' = [threads_to_finish EXCEPT ![ec[i]] = Decremented(i)]
  /\ Goto(i, "output")
  /\ UNCHANGED <<parserVars, in_use, kind, pass, example_counter, summed, sum,
                 loss, lock, ec, current_pass, used_index, weights, loaded,
                 delayVars, accountVars>>

(* "need to wait if there is training to do" (gd.cc:761)                   *)
WaitsNever(s) == FALSE  \* a mutant
WaitsForSum(s) == kind[s] = "train" /\ ~summed[s]

(* predict, before the last thread: add this thread's share of the         *)
(* prediction, and wait for the others if there is training to do.         *)
Contribute(i) ==
  LET s == ec[i] IN
  /\ pc[i] = "predict"
  /\ lock[s] = Nobody
  /\ threads_to_finish[s] # 1
  /\ sum' = [sum EXCEPT ![s] = @ \cup {[by |-> i, model |-> weights[i]]}]
  /\ threads_to_finish' = [threads_to_finish EXCEPT ![s] = @ - 1]
  /\ Goto(i, IF WaitsForSum(s) THEN "sumWait" ELSE "select")
  /\ UNCHANGED <<parserVars, in_use, kind, pass, example_counter, summed,
                 loss, lock, ec, current_pass, used_index, weights, loaded,
                 delayVars, accountVars>>

(* predict by the last thread: the prediction is complete.  local_predict, *)
(* under active_simulation, may drop the label instead of querying it.     *)
(* The waiters are signalled, but the lock is kept into delay_example.     *)
CompleteSum(i) ==
  LET s == ec[i] IN
  /\ pc[i] = "predict"
  /\ lock[s] = Nobody
  /\ threads_to_finish[s] = 1
  /\ sum' = [sum EXCEPT ![s] = @ \cup {[by |-> i, model |-> weights[i]]}]
  /\ threads_to_finish' = [threads_to_finish EXCEPT ![s] = 0]
  /\ \/ UNCHANGED kind
     \/ job.active_simulation /\ kind' = [kind EXCEPT ![s] = "test"]
  /\ loss' = IF kind'[s] = "train"
             THEN [loss EXCEPT ![s] = example_counter[s]] ELSE loss
  /\ summed' = [summed EXCEPT ![s] = TRUE]
  /\ lock' = [lock EXCEPT ![s] = i]
  /\ pc' = [j \in Thread |->
              IF j = i THEN IF kind'[s] = "train" THEN "delay" ELSE "output"
              ELSE IF pc[j] = "sumWait" /\ ec[j] = s THEN "sumWake" ELSE pc[j]]
  /\ UNCHANGED <<parserVars, in_use, pass, example_counter, ec, current_pass,
                 used_index, weights, loaded, delayVars, accountVars>>

(* pthread_cond_wait returns with the lock, and the loop tests ex->done.   *)
ResumePredict(i) ==
  /\ pc[i] = "sumWake"
  /\ lock[ec[i]] = Nobody
  /\ Goto(i, IF summed[ec[i]] THEN "select" ELSE "sumWait")
  /\ UNCHANGED <<parserVars, exampleVars, ec, current_pass, used_index,
                 weights, loaded, delayVars, accountVars>>

(* Every thread will train on the example, and then be done with it.       *)
DelayCountShort == Cardinality(Thread) - 1  \* a mutant
DelayCount == Cardinality(Thread)

(* delay_example(ex, num_threads): wait, with ex->lock held, for a free    *)
(* slot of the delay ring; then predict unlocks the example.               *)
DelayExample(i) ==
  LET index == SlotOf(local_index) IN
  /\ pc[i] = "delay"
  /\ delay_ring[index] = NULL
  /\ delay_ring' = [delay_ring EXCEPT ![index] = ec[i]]
  /\ threads_to_use' = [threads_to_use EXCEPT ![index] = DelayCount]
  /\ threads_to_finish' = [threads_to_finish EXCEPT ![ec[i]] = DelayCount]
  /\ local_index' = local_index + 1
  /\ lock' = [lock EXCEPT ![ec[i]] = Nobody]
  /\ Goto(i, "select")
  /\ UNCHANGED <<parserVars, in_use, kind, pass, example_counter, summed, sum,
                 loss, ec, current_pass, used_index, weights, loaded,
                 delay_indices, accountVars>>

----------------------------------------------------------------------------
(* The end of an example, reached from finish_example, from predict (with  *)
(* ex->lock held) or from a command.                                       *)

(* output_and_account_example takes output_lock for example_number only.   *)
Output(i) ==
  LET s == ec[i] IN
  /\ pc[i] = "output"
  /\ sink' = Append(sink, [example |-> example_counter[s], kind |-> kind[s],
                           sum |-> sum[s]])
  /\ sum_loss' = Append(sum_loss, loss[s])
  /\ Goto(i, "free")
  /\ UNCHANGED <<parserVars, exampleVars, ec, current_pass, used_index,
                 weights, loaded, delayVars, eta_decays>>

(* free_example signals example_unused, to the parser, and wakes the       *)
(* learners when nothing more will be parsed.                              *)
FreeExample(i) ==
  /\ pc[i] = "free"
  /\ in_use' = [in_use EXCEPT ![ec[i]] = FALSE]
  /\ ppc' = IF ppc = "unusedWait" THEN "get" ELSE ppc
  /\ pc' = [IF done THEN WokenByExamples ELSE pc EXCEPT ![i] =
              IF lock[ec[i]] = i THEN "unlock" ELSE "select"]
  /\ UNCHANGED <<job, read_pos, example_number, pass_length,
                 passes_complete, parsed_index, done, kind, pass,
                 example_counter, threads_to_finish, summed, sum, loss, lock,
                 ec, current_pass, used_index, weights, loaded, delayVars,
                 accountVars>>

(* The last statement of predict.                                          *)
Unlock(i) ==
  /\ pc[i] = "unlock"
  /\ lock' = [lock EXCEPT ![ec[i]] = Nobody]
  /\ Goto(i, "select")
  /\ UNCHANGED <<parserVars, in_use, kind, pass, example_counter,
                 threads_to_finish, summed, sum, loss, ec, current_pass,
                 used_index, weights, loaded, delayVars, accountVars>>

(* Nothing to train on and nothing to predict: return if thread_done,      *)
(* otherwise go round again ("busywait").                                  *)
Exit(i) ==
  /\ pc[i] = "exit"
  /\ Goto(i, IF ParserDone /\ ~Pending(i) THEN "stopped" ELSE "select")
  /\ UNCHANGED <<parserVars, exampleVars, ec, current_pass, used_index,
                 weights, loaded, delayVars, accountVars>>

----------------------------------------------------------------------------
Learn(i) == FetchDelayed(i) \/ NothingDelayed(i) \/ ReturnExample(i)
            \/ LoadEta(i) \/ StoreEta(i) \/ Train(i) \/ FinishExample(i)

Predict(i) == GetExample(i) \/ GetNothing(i) \/ SaveRegressor(i)
              \/ CommandDone(i) \/ Contribute(i) \/ CompleteSum(i)
              \/ ResumePredict(i) \/ DelayExample(i) \/ Exit(i)

Account(i) == Output(i) \/ FreeExample(i) \/ Unlock(i)

Learner(i) == Learn(i) \/ Predict(i) \/ Account(i)

(* pthread_cond_wait may return although nobody signalled.                 *)
WakeLearner(i) ==
  /\ \/ pc[i] = "availWait" /\ Goto(i, "exit")
     \/ pc[i] = "sumWait" /\ Goto(i, "sumWake")
  /\ UNCHANGED <<parserVars, exampleVars, ec, current_pass, used_index,
                 weights, loaded, delayVars, accountVars>>

WakeParser ==
  /\ ppc = "unusedWait"
  /\ ppc' = "get"
  /\ UNCHANGED <<job, read_pos, example_number, pass_length,
                 passes_complete, parsed_index, done, exampleVars,
                 learnerVars, delayVars, accountVars>>

SpuriousWakeup ==
  SpuriousWakeups /\ (WakeParser \/ \E i \in Thread : WakeLearner(i))

(* destroy_gd and end_parser have joined every thread.                     *)
Terminated == ppc = "stopped" /\ \A i \in Thread : pc[i] = "stopped"

(* start_parser, initialize_delay_ring and setup_gd.                       *)
Init ==
  /\ ppc = "get"
  /\ job \in Jobs
  /\ read_pos = 1
  /\ example_number = 0
  /\ pass_length = job.pass_length
  /\ passes_complete = 0
  /\ parsed_index = 0
  /\ done = FALSE
  /\ in_use = [s \in Slot |-> FALSE]
  /\ kind = [s \in Slot |-> "test"]
  /\ pass = [s \in Slot |-> 0]
  /\ example_counter = [s \in Slot |-> 0]
  /\ threads_to_finish = [s \in Slot |-> 0]
  /\ summed = [s \in Slot |-> FALSE]
  /\ sum = [s \in Slot |-> {}]
  /\ loss = [s \in Slot |-> 0]
  /\ lock = [s \in Slot |-> Nobody]
  /\ pc = [i \in Thread |-> "select"]
  /\ ec = [i \in Thread |-> NULL]
  /\ current_pass = Zero
  /\ used_index = Zero
  /\ weights = [i \in Thread |-> <<>>]
  /\ loaded = Zero
  /\ delay_ring = [s \in Slot |-> NULL]
  /\ threads_to_use = [s \in Slot |-> 0]
  /\ delay_indices = Zero
  /\ local_index = 0
  /\ sink = <<>>
  /\ sum_loss = <<>>
  /\ eta_decays = 0

Next == \/ Parser
        \/ \E i \in Thread : Learner(i)
        \/ SpuriousWakeup
        \/ Terminated /\ UNCHANGED vars

(* The operating system runs every thread that is not waiting.  Spurious   *)
(* wake-ups and further calls of vw are not promised.                      *)
Fairness == WF_vars(Parser) /\ \A i \in Thread : WF_vars(Learner(i))

Spec == Init /\ [][Next]_vars
FairSpec == Spec /\ Fairness

----------------------------------------------------------------------------
(* Properties.                                                             *)

ParserSteps == {"get", "unusedWait", "parse", "publish", "release", "stopped"}

(* Where a learner is at work on the example ec[i].                        *)
TrainSteps == {"return", "loadEta", "storeEta", "train", "finish"}
PredictSteps ==
  {"command", "commandDone", "predict", "sumWait", "sumWake", "delay"}
EndSteps == {"output", "free"}
Busy == TrainSteps \cup PredictSteps \cup EndSteps
LearnerSteps ==
  Busy \cup {"select", "get", "availWait", "exit", "unlock", "stopped"}

Contribution == [by : Thread, model : Seq(Nat)]

ParserType ==
  /\ job \in Jobs
  /\ ppc \in ParserSteps
  /\ read_pos \in Nat \ {0}
  /\ example_number \in Nat /\ pass_length \in Nat
  /\ passes_complete \in Nat /\ parsed_index \in Nat
  /\ done \in BOOLEAN

ExampleType ==
  /\ in_use \in [Slot -> BOOLEAN]
  /\ kind \in [Slot -> Kinds]
  /\ pass \in [Slot -> Nat]
  /\ example_counter \in [Slot -> Nat]
  /\ threads_to_finish \in [Slot -> Nat]
  /\ summed \in [Slot -> BOOLEAN]
  /\ sum \in [Slot -> SUBSET Contribution]
  /\ loss \in [Slot -> Nat]
  /\ lock \in [Slot -> Thread \cup {Nobody}]

LearnerType ==
  /\ pc \in [Thread -> LearnerSteps]
  /\ ec \in [Thread -> Slot \cup {NULL}]
  /\ \A i \in Thread : pc[i] \in Busy \cup {"unlock"} => ec[i] \in Slot
  /\ current_pass \in [Thread -> Nat]
  /\ used_index \in [Thread -> Nat]
  /\ weights \in [Thread -> Seq(Nat)]
  /\ loaded \in [Thread -> Nat]

DelayType ==
  /\ delay_ring \in [Slot -> Slot \cup {NULL}]
  /\ threads_to_use \in [Slot -> Nat]
  /\ delay_indices \in [Thread -> Nat]
  /\ local_index \in Nat

AccountType ==
  /\ sink \in Seq([example : Nat, kind : Kinds, sum : SUBSET Contribution])
  /\ sum_loss \in Seq(Nat)
  /\ eta_decays \in Nat

(* Every variable holds a value of its C++ type, and a learner works on an *)
(* example of the ring, never on NULL (gd.cc:53-57, delay_ring.cc:80).     *)
TypeOK == ParserType /\ ExampleType /\ LearnerType /\ DelayType /\ AccountType

(* The parser never runs over a learner: whatever a learner has still to   *)
(* take is in its slot and in use, up to the last example published.  This *)
(* is assert((examples+ring_index)->in_use) of get_example (parser.cc:813) *)
(* for all the gets to come, and that they return the right examples.      *)
ExamplesAvailable ==
  \A i \in Thread : \A index \in used_index[i]..(parsed_index - 1) :
    /\ in_use[SlotOf(index)]
    /\ example_counter[SlotOf(index)] = index + 1

(* Learner i has yet to take, or is at work on, or has yet to fetch from   *)
(* the delay ring, the example in slot s.                                  *)
StillUses(i, s) ==
  \/ used_index[i] < example_counter[s]
  \/ pc[i] \in Busy /\ ec[i] = s
  \/ delay_indices[i] # local_index /\ delay_ring[SlotOf(delay_indices[i])] = s

(* "We are the last thread using this example" (gd.cc:749): whoever        *)
(* reports and frees an example is alone with it, and it has not been      *)
(* freed before (assert(ec->in_use), parser.cc:797).                       *)
LastUser ==
  \A i \in Thread : pc[i] \in EndSteps =>
    /\ in_use[ec[i]]
    /\ \A j \in Thread \ {i} : ~StillUses(j, ec[i])

(* assert(ex->threads_to_finish == 0) in delay_example (delay_ring.cc:146).*)
OutputWhenFinished ==
  \A i \in Thread : pc[i] = "output" => threads_to_finish[ec[i]] = 0

(* The statistics of output_and_account_example (gd.cc:188-217) are summed *)
(* without a lock: no two threads are ever inside it together.             *)
OneAccountant ==
  \A i, j \in Thread : pc[i] = "output" /\ pc[j] = "output" => i = j

(* The thread that puts an example in the delay ring holds ex->lock while  *)
(* it waits for a free slot (gd.cc:745, delay_ring.cc:155), and who frees  *)
(* the slot needs ex->lock (delay_ring.cc:80): it never has to wait.       *)
DelaySlotFree ==
  \A i \in Thread : pc[i] = "delay" => delay_ring[SlotOf(local_index)] = NULL

(* What the weight vectors hold after the examples reported so far.        *)
ModelAfter(reports) ==
  IF reports = <<>> THEN <<>>
  ELSE LET last == reports[Len(reports)]
           seen == (CHOOSE c \in last.sum : TRUE).model
       IN IF last.kind = "train" THEN Append(seen, last.example) ELSE seen

(* N threads, two rings and a barrier amount to a sequential learner       *)
(* (gd.cc:761): SequentialLearner says in which sense.                     *)
Sequential == INSTANCE SequentialLearner WITH model <- ModelAfter(sink)
ImplementsSequentialLearner == Sequential!Spec

(* What may be reported for a line: a simulated query may drop the label.  *)
ReportedAs(line, reported) ==
  \/ reported = line
  \/ job.active_simulation /\ line = "train" /\ reported = "test"

Suffix(s, n) == SubSeq(s, Len(s) - n + 1, Len(s))
Repeat(s, n) == [k \in 1..(n * Len(s)) |-> s[1 + ((k - 1) % Len(s))]]

(* The examples of the input: what precedes its first empty line.          *)
Data == LET blanks == {k \in DOMAIN job.source : job.source[k] = "blank"}
        IN SubSeq(job.source, 1,
                  IF blanks = {} THEN Len(job.source)
                  ELSE (CHOOSE k \in blanks : \A b \in blanks : k <= b) - 1)

(* --passes P over the input: when all threads have returned, the last P   *)
(* passes were complete, in order, each example reported once, and every   *)
(* weight vector learned from each trainable report exactly once; only a   *)
(* --initial_pass_length adds shorter passes before.  (main_parse_loop,    *)
(* parser.cc:753-776, and thread_done, delay_ring.cc:56: a thread that     *)
(* leaves too early loses the training it still owes.)                     *)
EveryPassComplete ==
  Terminated =>
    LET reported == [k \in DOMAIN sink |-> sink[k].kind]
        wanted == Repeat(Data, job.numpasses)
        last == Suffix(reported, Len(wanted))
    IN /\ Len(reported) >= Len(wanted)
       /\ \A k \in DOMAIN wanted : ReportedAs(wanted[k], last[k])
       /\ job.pass_length = SizeMax => Len(reported) = Len(wanted)
       /\ \A i \in Thread :
            weights[i] = SelectSeq([k \in DOMAIN sink |-> k],
                                   LAMBDA k : reported[k] = "train")

(* "Set Decay factor for learning_rate between passes" (parse_args.cc:77): *)
(* no more decays than passes read.  (Passes that --initial_pass_length    *)
(* cuts short start again: they are counted from 0, the decays are not.)   *)
EtaDecaysOncePerPass ==
  job.pass_length = SizeMax => eta_decays <= passes_complete

(* The run ends: no lost wake-up, no deadlock on the rings, the barrier,   *)
(* the locks or the condition variables, and thread_done finally holds.    *)
Termination == <>Terminated
=============================================================================
