----------------------- MODULE LearnerPipelineProofs -----------------------
(***************************************************************************)
(* LearnerPipelineInv!IInv is an inductive invariant of LearnerPipeline,   *)
(* and with it the safety properties of the online learner hold for every  *)
(* number of threads, ring size and input, in jobs without commands and    *)
(* without --active_simulation.                                            *)
(*                                                                         *)
(* First come the arithmetic of the rings, what IInv says in a single      *)
(* state, and the steps that leave every learner in the same phase of its  *)
(* example; then the other steps, in the order of an example's life.       *)
(***************************************************************************)
EXTENDS LearnerPipelineInv, FiniteSetTheorems, TLAPS

----------------------------------------------------------------------------
(* Arithmetic of the rings: indexes less than RingSize apart are in        *)
(* different slots, indexes exactly RingSize apart are in the same.        *)

LEMMA DivMod == \A a \in Int :
    /\ a = RingSize * (a \div RingSize) + (a % RingSize)
    /\ a \div RingSize \in Int
    /\ a % RingSize \in 0..(RingSize - 1)
  BY PipelineAssumption

LEMMA Multiples == \A p, q \in Int :
    /\ RingSize * p \in Int
    /\ p < q => RingSize * p + RingSize <= RingSize * q
  <1> SUFFICES ASSUME NEW p \in Int, NEW q \in Int
               PROVE  /\ RingSize * p \in Int
                      /\ p < q => RingSize * p + RingSize <= RingSize * q
    OBVIOUS
  <1>1. RingSize * p \in Int
    BY PipelineAssumption
  <1>2. ASSUME p < q PROVE RingSize * p + RingSize <= RingSize * q
    <2> DEFINE d == q - p - 1
    <2>1. d \in Nat /\ q = p + 1 + d
      BY <1>2
    <2>2. RingSize * (p + 1 + d) = RingSize * p + RingSize + RingSize * d
      BY <2>1, PipelineAssumption
    <2>3. RingSize * d \in Nat
      BY <2>1, PipelineAssumption
    <2> QED
      BY <1>1, <2>1, <2>2, <2>3, PipelineAssumption
  <1> QED
    BY <1>1, <1>2

LEMMA SlotType == \A n \in Int : SlotOf(n) \in Slot
  BY DivMod DEF SlotOf, Slot

LEMMA SlotWrap == \A n \in Nat : SlotOf(n + RingSize) = SlotOf(n)
  <1> SUFFICES ASSUME NEW n \in Nat PROVE (n + RingSize) % RingSize = n % RingSize
    BY DEF SlotOf
  <1> DEFINE p == n \div RingSize
  <1> DEFINE q == (n + RingSize) \div RingSize
  <1>1. /\ n = RingSize * p + (n % RingSize)
        /\ p \in Int
        /\ n % RingSize \in 0..(RingSize - 1)
    BY DivMod
  <1>2. /\ n + RingSize = RingSize * q + ((n + RingSize) % RingSize)
        /\ q \in Int
        /\ (n + RingSize) % RingSize \in 0..(RingSize - 1)
    <2>1. n + RingSize \in Int
      BY PipelineAssumption
    <2> QED
      BY <2>1, DivMod
  <1>3. RingSize * (p + 1) = RingSize * p + RingSize
    BY <1>1, PipelineAssumption
  <1> HIDE DEF p, q
  <1>4. RingSize * p \in Int /\ RingSize * q \in Int /\ RingSize * (p + 1) \in Int
    BY <1>1, <1>2, Multiples
  <1>5. ~(q < p + 1)
    BY <1>1, <1>2, <1>3, <1>4, Multiples, PipelineAssumption
  <1>6. ~(p + 1 < q)
    BY <1>1, <1>2, <1>3, <1>4, Multiples, PipelineAssumption
  <1>7. q = p + 1
    BY <1>1, <1>2, <1>5, <1>6
  <1> QED
    BY <1>1, <1>2, <1>3, <1>4, <1>7, PipelineAssumption

LEMMA SlotApart ==
    \A m, n \in Nat : m < n /\ n < m + RingSize => SlotOf(m) # SlotOf(n)
  <1> SUFFICES ASSUME NEW m \in Nat, NEW n \in Nat,
                      m < n, n < m + RingSize, n % RingSize = m % RingSize
               PROVE  FALSE
    BY DEF SlotOf
  <1> DEFINE p == m \div RingSize
  <1> DEFINE q == n \div RingSize
  <1>1. /\ m = RingSize * p + (m % RingSize)
        /\ p \in Int
        /\ m % RingSize \in 0..(RingSize - 1)
    BY DivMod
  <1>2. n = RingSize * q + (n % RingSize) /\ q \in Int
    BY DivMod
  <1> HIDE DEF p, q
  <1>3. RingSize * p \in Int /\ RingSize * q \in Int
    BY <1>1, <1>2, Multiples
  <1>4. CASE p < q
    BY <1>1, <1>2, <1>3, <1>4, Multiples, PipelineAssumption
  <1>5. CASE q < p
    <2>1. RingSize * q + RingSize <= RingSize * p
      BY <1>1, <1>2, <1>5, Multiples
    <2> QED
      BY <1>1, <1>2, <1>3, <2>1, PipelineAssumption
  <1>6. CASE p = q
    BY <1>1, <1>2, <1>6
  <1> QED
    BY <1>1, <1>2, <1>4, <1>5, <1>6

----------------------------------------------------------------------------
(* Consequences of the invariant, stated for the examples.                 *)

(* The example a learner has in hand is a live one.                        *)
LEMMA WorkingLive ==
  ASSUME TypeOK, TakenInv, NEW i \in Thread, Working(i)
  PROVE  /\ Current(i) \in 0..(Ready - 1)
         /\ Current(i) < parsed_index
         /\ Finished(i) = Current(i)
         /\ Live(Current(i))
  BY DEF TypeOK, ParserType, LearnerType, TakenInv, Ready, Current, Finished, Live

LEMMA FinishedType ==
  ASSUME TypeOK, TakenInv, NEW i \in Thread
  PROVE  /\ Finished(i) \in Nat
         /\ Finished(i) <= used_index[i] /\ used_index[i] <= Finished(i) + 1
         /\ used_index[i] <= parsed_index /\ parsed_index <= Ready
         /\ Ready \in Nat
  BY DEF TypeOK, ParserType, LearnerType, TakenInv, Finished, Ready

(* Two live examples are in different slots.                               *)
LEMMA LiveApart ==
  ASSUME TypeOK, TakenInv, WindowInv,
         NEW m \in 0..(Ready - 1), NEW n \in 0..(Ready - 1),
         Live(m), Live(n), m # n
  PROVE  SlotOf(m) # SlotOf(n)
  <1>1. Ready \in Nat /\ m \in Nat /\ n \in Nat /\ RingSize \in Nat
    BY PipelineAssumption DEF TypeOK, ParserType, Ready
  <1>2. ASSUME NEW k \in Nat, Live(k) PROVE Ready <= k + RingSize
    <2>1. PICK i \in Thread : Finished(i) <= k
      BY <1>2 DEF Live
    <2>2. Finished(i) \in Nat
      BY FinishedType
    <2>3. Ready <= Finished(i) + RingSize
      BY <1>1, <2>2 DEF WindowInv, Ready, ParserHolds, TypeOK, ParserType
    <2> QED
      BY <1>1, <2>1, <2>2, <2>3
  <1>3. Ready <= m + RingSize /\ Ready <= n + RingSize
    BY <1>1, <1>2
  <1> QED
    BY <1>1, <1>3, SlotApart

(* The parser holds a slot of no live example.                             *)
LEMMA ParserApart ==
  ASSUME TypeOK, TakenInv, WindowInv, ParserHolds,
         NEW n \in Nat, n < parsed_index, Live(n)
  PROVE  SlotOf(n) # SlotOf(parsed_index)
  <1>1. PICK i \in Thread : Finished(i) <= n
    BY DEF Live
  <1>2. Finished(i) \in Nat /\ parsed_index < Finished(i) + RingSize
    BY FinishedType DEF WindowInv
  <1>3. parsed_index < n + RingSize /\ parsed_index \in Nat
    BY <1>1, <1>2, PipelineAssumption DEF TypeOK, ParserType
  <1> QED
    BY <1>3, SlotApart

(* A finite set with a member is not empty, and losing it counts.          *)
LEMMA ThreadSubset ==
  ASSUME NEW S, S \subseteq Thread
  PROVE  /\ IsFiniteSet(S) /\ Cardinality(S) \in Nat
         /\ \A i \in S : /\ Cardinality(S) >= 1
                         /\ Cardinality(S \ {i}) = Cardinality(S) - 1
         /\ Cardinality(S) = 0 => S = {}
         /\ \A i \in S : Cardinality(S) = 1 => S = {i}
  <1>1. IsFiniteSet(S)
    BY PipelineAssumption, FS_Subset
  <1>2. Cardinality(S) \in Nat
    BY <1>1, FS_CardinalityType
  <1>3. Cardinality(S) = 0 => S = {}
    BY <1>1, FS_EmptySet
  <1>4. ASSUME NEW i \in S
        PROVE  /\ Cardinality(S) >= 1
               /\ Cardinality(S \ {i}) = Cardinality(S) - 1
    <2>1. S # {}
      BY <1>4
    <2>2. Cardinality(S) >= 1
      BY <1>2, <1>3, <2>1
    <2>3. Cardinality(S \ {i}) = Cardinality(S) - 1
      BY <1>1, <1>4, FS_RemoveElement
    <2> QED
      BY <2>2, <2>3
  <1>5. ASSUME NEW i \in S, Cardinality(S) = 1 PROVE S = {i}
    <2>1. IsFiniteSet(S \ {i}) /\ Cardinality(S \ {i}) = 0
      BY <1>1, <1>4, <1>5, FS_RemoveElement
    <2>2. S \ {i} = {}
      BY <2>1, FS_EmptySet
    <2> QED
      BY <1>5, <2>2
  <1> QED
    BY <1>1, <1>2, <1>3, <1>4, <1>5

(* A learner that fetches, trains or waits to be fetched is not at any     *)
(* other step of its example.                                              *)
LEMMA WorkingSlot ==
  ASSUME IInv, NEW i \in Thread, Working(i)
  PROVE  LET n == Current(i) IN
         /\ n \in 0..(Ready - 1) /\ n \in Nat /\ Live(n)
         /\ used_index[i] = n + 1 /\ Finished(i) = n
         /\ SlotOf(n) \in Slot
         /\ pc[i] \in Busy => ec[i] = SlotOf(n)
         /\ in_use[SlotOf(n)]
  <1>1. /\ Current(i) \in 0..(Ready - 1) /\ Live(Current(i))
        /\ Finished(i) = Current(i)
    BY WorkingLive DEF IInv
  <1>2. used_index[i] \in Nat /\ used_index[i] >= 1
    BY DEF IInv, TypeOK, LearnerType, TakenInv
  <1>3. Current(i) \in Nat /\ used_index[i] = Current(i) + 1
    BY <1>2 DEF Current
  <1>4. SlotOf(Current(i)) \in Slot
    BY <1>3, SlotType
  <1> QED
    BY <1>1, <1>3, <1>4 DEF IInv, TakenInv, LiveInv, LiveExample

(* Two learners at work on examples in the same slot work on the same one. *)
LEMMA SameExample ==
  ASSUME IInv, NEW i \in Thread, NEW j \in Thread, Working(i), Working(j),
         SlotOf(Current(i)) = SlotOf(Current(j))
  PROVE  Current(i) = Current(j) /\ used_index[i] = used_index[j]
  <1>1. Current(i) = Current(j)
    BY WorkingSlot, LiveApart DEF IInv
  <1> QED
    BY <1>1, WorkingSlot

(* While a learner is at "delay" it is alone not to wait.                  *)
LEMMA DelayAlone ==
  ASSUME IInv, NEW k \in Thread, pc[k] = "delay", NEW j \in Thread, j # k
  PROVE  pc[j] = "sumWake" /\ ~Pending(j) /\ used_index[j] = used_index[k]
  BY DEF IInv, StepInv, AtDelay

(* The counter of an example before its sum is complete...                 *)
LEMMA PredictCount ==
  ASSUME IInv, NEW i \in Thread, pc[i] = "predict"
  PROVE  LET n == Current(i) IN
         /\ Working(i) /\ ~Pending(i)
         /\ ec[i] = SlotOf(n) /\ ~summed[SlotOf(n)]
         /\ i \in Missing(n)
         /\ threads_to_finish[SlotOf(n)] = Cardinality(Missing(n))
         /\ threads_to_finish[SlotOf(n)] >= 1
  <1>1. Working(i) /\ pc[i] \in Busy
    BY DEF Working, Busy, PredictSteps
  <1>2. ~Pending(i)
    BY DEF IInv, DelayInv
  <1>3. ~summed[SlotOf(Current(i))]
    BY DEF IInv, StepInv, AtPredict
  <1>4. threads_to_finish[SlotOf(Current(i))] = Cardinality(Missing(Current(i)))
    BY <1>1, <1>3, WorkingSlot DEF IInv, LiveInv, LiveExample
  <1>5. i \in Missing(Current(i)) /\ Missing(Current(i)) \subseteq Thread
    BY <1>1, WorkingSlot DEF Missing
  <1> QED
    BY <1>1, <1>2, <1>3, <1>4, <1>5, WorkingSlot, ThreadSubset

(* ... and while it is trained on.                                         *)
LEMMA TrainCount ==
  ASSUME IInv, NEW i \in Thread, pc[i] \in TrainSteps
  PROVE  LET n == Current(i) IN
         /\ Working(i) /\ ~Pending(i) /\ Training(i)
         /\ ec[i] = SlotOf(n)
         /\ summed[SlotOf(n)] /\ kind[SlotOf(n)] = "train"
         /\ \A k \in Thread : pc[k] # "delay"
         /\ i \in Untrained(n)
         /\ threads_to_finish[SlotOf(n)] = Cardinality(Untrained(n))
         /\ threads_to_finish[SlotOf(n)] >= 1
  <1>1. Working(i) /\ pc[i] \in Busy /\ Training(i)
    BY DEF Working, Busy, Training
  <1>2. ~Pending(i)
    BY DEF IInv, DelayInv, TrainSteps
  <1>3. summed[SlotOf(Current(i))] /\ kind[SlotOf(Current(i))] = "train"
    BY <1>1 DEF IInv, StepInv, AtTrain, AtWait
  <1>4. \A k \in Thread : pc[k] # "delay"
    BY DelayAlone DEF TrainSteps
  <1>5. threads_to_finish[SlotOf(Current(i))] = Cardinality(Untrained(Current(i)))
    BY <1>1, <1>3, <1>4, WorkingSlot DEF IInv, LiveInv, LiveExample
  <1>6. i \in Untrained(Current(i)) /\ Untrained(Current(i)) \subseteq Thread
    BY <1>1, WorkingSlot DEF Untrained
  <1> QED
    BY <1>1, <1>2, <1>3, <1>4, <1>5, <1>6, WorkingSlot, ThreadSubset

(* The counter of the delay ring.                                          *)
LEMMA FetchCount ==
  ASSUME IInv, NEW i \in Unfetched
  PROVE  /\ i \in Thread /\ Training(i) /\ Working(i) /\ local_index \in Nat
         /\ local_index >= 1 /\ SlotOf(local_index - 1) \in Slot
         /\ pc[i] = "return" => ReturnIndex(i) = SlotOf(local_index - 1)
         /\ Pending(i) => delay_indices[i] = local_index - 1
         /\ delay_ring[SlotOf(local_index - 1)] = SlotOf(Current(i))
         /\ threads_to_use[SlotOf(local_index - 1)] = Cardinality(Unfetched)
         /\ Cardinality(Unfetched) >= 1 /\ Cardinality(Unfetched) \in Nat
         /\ Unfetched \subseteq Thread
  <1>1. i \in Thread /\ Unfetched \subseteq Thread
    BY DEF Unfetched
  <1>2. Training(i) /\ Working(i)
    BY DEF Unfetched, Training, Working, TrainSteps, Busy
  <1>3. local_index \in Nat /\ delay_indices[i] \in Nat
    BY <1>1 DEF IInv, TypeOK, DelayType
  <1>4. local_index >= 1
    BY <1>1, <1>3 DEF IInv, DelayInv, Unfetched
  <1>5. SlotOf(local_index - 1) \in Slot
    BY <1>3, SlotType
  <1>6. /\ delay_ring[SlotOf(local_index - 1)] = SlotOf(Current(i))
        /\ threads_to_use[SlotOf(local_index - 1)] = Cardinality(Unfetched)
    BY DEF IInv, DelayInv
  <1>7. /\ pc[i] = "return" => delay_indices[i] = local_index
        /\ Pending(i) => delay_indices[i] = local_index - 1
    BY <1>1, <1>3 DEF IInv, DelayInv
  <1> QED
    BY <1>1, <1>2, <1>3, <1>4, <1>5, <1>6, <1>7, ThreadSubset DEF ReturnIndex

----------------------------------------------------------------------------
(* Every step preserves TypeOK.  Most of it is what the assignments say;   *)
(* the counters (threads_to_finish, threads_to_use) and the example        *)
(* fetched from the delay ring need the rest of IInv.                      *)

(* Commands do not occur.                                                  *)
LEMMA NoCommands ==
  ASSUME IInv, NEW i \in Thread
  PROVE  ~SaveRegressor(i) /\ ~CommandDone(i)
  BY DEF IInv, PlainInv, SaveRegressor, CommandDone

(* The actions, by what they change.                                       *)
LEMMA ParserCases ==
  ASSUME [Next]_vars
  PROVE  \/ ClaimSlot \/ AwaitSlot \/ ParseExample \/ PublishExample
         \/ EndPass \/ ReleaseSlot \/ WakeParser
         \/ \E i \in Thread : FreeExample(i)
         \/ UNCHANGED parserVars
  BY DEF Next, Parser, Learner, Learn, Predict, Account, SpuriousWakeup, vars,
         FetchDelayed, NothingDelayed, ReturnExample, LoadEta, StoreEta, Train,
         FinishExample, GetExample, GetNothing, SaveRegressor, CommandDone,
         Contribute, CompleteSum, ResumePredict, DelayExample, Exit, Output,
         Unlock, WakeLearner

LEMMA ExampleCases ==
  ASSUME IInv, [Next]_vars
  PROVE  \/ ClaimSlot \/ ParseExample \/ ReleaseSlot
         \/ \E i \in Thread : \/ FinishExample(i) \/ Contribute(i)
                              \/ CompleteSum(i) \/ DelayExample(i)
                              \/ FreeExample(i) \/ Unlock(i)
         \/ UNCHANGED exampleVars
  BY NoCommands
     DEF Next, Parser, Learner, Learn, Predict, Account, SpuriousWakeup, vars,
         AwaitSlot, PublishExample, EndPass, WakeParser,
         FetchDelayed, NothingDelayed, ReturnExample, LoadEta, StoreEta, Train,
         GetExample, GetNothing, ResumePredict, Exit, Output, WakeLearner

LEMMA LearnerCases ==
  ASSUME IInv, [Next]_vars
  PROVE  \/ PublishExample \/ ReleaseSlot
         \/ \E i \in Thread :
              \/ FetchDelayed(i) \/ NothingDelayed(i) \/ ReturnExample(i)
              \/ LoadEta(i) \/ StoreEta(i) \/ Train(i) \/ FinishExample(i)
              \/ GetExample(i) \/ GetNothing(i) \/ Contribute(i)
              \/ CompleteSum(i) \/ ResumePredict(i) \/ DelayExample(i)
              \/ Exit(i) \/ Output(i) \/ FreeExample(i) \/ Unlock(i)
              \/ WakeLearner(i)
         \/ UNCHANGED learnerVars
  BY NoCommands
     DEF Next, Parser, Learner, Learn, Predict, Account, SpuriousWakeup, vars,
         ClaimSlot, AwaitSlot, ParseExample, EndPass, WakeParser

LEMMA DelayCases ==
  ASSUME [Next]_vars
  PROVE  \/ \E i \in Thread :
              FetchDelayed(i) \/ ReturnExample(i) \/ DelayExample(i)
         \/ UNCHANGED delayVars
  BY DEF Next, Parser, Learner, Learn, Predict, Account, SpuriousWakeup, vars,
         ClaimSlot, AwaitSlot, ParseExample, PublishExample, EndPass,
         ReleaseSlot, WakeParser, NothingDelayed, LoadEta, StoreEta, Train,
         FinishExample, GetExample, GetNothing, SaveRegressor, CommandDone,
         Contribute, CompleteSum, ResumePredict, Exit, Output, FreeExample,
         Unlock, WakeLearner

LEMMA AccountCases ==
  ASSUME [Next]_vars
  PROVE  \/ \E i \in Thread : StoreEta(i) \/ Output(i)
         \/ UNCHANGED accountVars
  BY DEF Next, Parser, Learner, Learn, Predict, Account, SpuriousWakeup, vars,
         ClaimSlot, AwaitSlot, ParseExample, PublishExample, EndPass,
         ReleaseSlot, WakeParser, FetchDelayed, NothingDelayed, ReturnExample,
         LoadEta, Train, FinishExample, GetExample, GetNothing, SaveRegressor,
         CommandDone, Contribute, CompleteSum, ResumePredict, DelayExample,
         Exit, FreeExample, Unlock, WakeLearner

LEMMA ParserTypeStep ==
  ASSUME IInv, [Next]_vars
  PROVE  ParserType'
  <1> USE PipelineAssumption DEF IInv, TypeOK, ParserType, ParserSteps
  <1>1. CASE ClaimSlot
    BY <1>1 DEF ClaimSlot
  <1>2. CASE AwaitSlot
    BY <1>2 DEF AwaitSlot
  <1>3. CASE ParseExample
    BY <1>3 DEF ParseExample
  <1>4. CASE PublishExample
    BY <1>4 DEF PublishExample
  <1>5. CASE EndPass
    <2>1. job' \in Jobs /\ ppc' \in ParserSteps /\ parsed_index' \in Nat
      BY <1>5 DEF EndPass
    <2>2. read_pos' \in Nat \ {0} /\ example_number' \in Nat
      BY <1>5 DEF EndPass
    <2>3. passes_complete' \in Nat /\ done' \in BOOLEAN
      BY <1>5 DEF EndPass
    <2>4. pass_length' \in Nat
      <3>1. SizeMax + 1 \in Nat \ {0} /\ pass_length * 2 + 1 \in Int
        OBVIOUS
      <3>2. ((pass_length * 2 + 1) % (SizeMax + 1)) \in Nat
        BY <3>1
      <3> QED
        BY <1>5, <3>2 DEF EndPass
    <2> QED
      BY <2>1, <2>2, <2>3, <2>4
  <1>6. CASE ReleaseSlot
    BY <1>6 DEF ReleaseSlot
  <1>7. CASE WakeParser
    BY <1>7 DEF WakeParser
  <1>8. ASSUME NEW i \in Thread, FreeExample(i) PROVE ParserType'
    BY <1>8 DEF FreeExample
  <1>9. CASE UNCHANGED parserVars
    BY <1>9 DEF parserVars
  <1> QED
    BY <1>1, <1>2, <1>3, <1>4, <1>5, <1>6, <1>7, <1>8, <1>9, ParserCases

LEMMA ExampleTypeStep ==
  ASSUME IInv, [Next]_vars
  PROVE  ExampleType'
  <1> USE PipelineAssumption DEF ExampleType
  <1>1. TypeOK /\ ExampleType /\ ParserType /\ LearnerType
    BY DEF IInv, TypeOK
  <1>2. SlotOf(parsed_index) \in Slot
    BY <1>1, SlotType DEF ParserType
  <1>3. CASE ClaimSlot
    BY <1>1, <1>2, <1>3 DEF ClaimSlot
  <1>4. CASE ParseExample
    <2>1. job.source[read_pos] \in Kinds
      BY <1>1, <1>4 DEF ParseExample, ParserType, Job
    <2>2. Cardinality(Thread) \in Nat
      BY FS_CardinalityType
    <2>3. passes_complete \in Nat /\ parsed_index + 1 \in Nat
      BY <1>1 DEF ParserType
    <2> QED
      BY <1>1, <1>2, <1>4, <2>1, <2>2, <2>3 DEF ParseExample
  <1>5. CASE ReleaseSlot
    BY <1>1, <1>2, <1>5 DEF ReleaseSlot
  <1>6. ASSUME NEW i \in Thread, FinishExample(i) PROVE ExampleType'
    <2>1. threads_to_finish[ec[i]] >= 1 /\ ec[i] \in Slot
      BY <1>6, TrainCount, WorkingSlot DEF FinishExample, TrainSteps
    <2>2. threads_to_finish[ec[i]] - 1 \in Nat
      BY <1>1, <2>1
    <2> QED
      BY <1>1, <1>6, <2>1, <2>2 DEF FinishExample
  <1>7. ASSUME NEW i \in Thread, Contribute(i) PROVE ExampleType'
    <2>1. threads_to_finish[ec[i]] >= 1 /\ ec[i] \in Slot
      BY <1>7, PredictCount, WorkingSlot DEF Contribute
    <2>2. threads_to_finish[ec[i]] - 1 \in Nat
      BY <1>1, <2>1
    <2>3. [by |-> i, model |-> weights[i]] \in Contribution
      BY <1>1 DEF Contribution, LearnerType
    <2> QED
      BY <1>1, <1>7, <2>1, <2>2, <2>3 DEF Contribute
  <1>8. ASSUME NEW i \in Thread, CompleteSum(i) PROVE ExampleType'
    <2>1. ec[i] \in Slot
      BY <1>8, PredictCount, WorkingSlot DEF CompleteSum
    <2>2. [by |-> i, model |-> weights[i]] \in Contribution
      BY <1>1 DEF Contribution, LearnerType
    <2>3. kind' \in [Slot -> Kinds]
      BY <1>1, <1>8, <2>1 DEF CompleteSum, Kinds
    <2>4. loss' \in [Slot -> Nat]
      BY <1>1, <1>8, <2>1 DEF CompleteSum
    <2> QED
      BY <1>1, <1>8, <2>1, <2>2, <2>3, <2>4 DEF CompleteSum
  <1>9. ASSUME NEW i \in Thread, DelayExample(i) PROVE ExampleType'
    <2>1. ec[i] \in Slot
      BY <1>1, <1>9 DEF DelayExample, LearnerType, Busy, PredictSteps
    <2>2. DelayCount \in Nat
      BY FS_CardinalityType DEF DelayCount
    <2> QED
      BY <1>1, <1>9, <2>1, <2>2 DEF DelayExample
  <1>10. ASSUME NEW i \in Thread, FreeExample(i) PROVE ExampleType'
    BY <1>1, <1>10 DEF FreeExample, LearnerType
  <1>11. ASSUME NEW i \in Thread, Unlock(i) PROVE ExampleType'
    BY <1>1, <1>11 DEF Unlock, LearnerType
  <1>12. CASE UNCHANGED exampleVars
    BY <1>1, <1>12 DEF exampleVars
  <1> QED
    BY <1>3, <1>4, <1>5, <1>6, <1>7, <1>8, <1>9, <1>10, <1>11, <1>12,
       ExampleCases

LEMMA LearnerTypeStep ==
  ASSUME IInv, [Next]_vars
  PROVE  LearnerType'
  <1> USE DEF LearnerType, LearnerSteps, Busy, TrainSteps, PredictSteps,
              EndSteps, Goto
  <1>1. LearnerType /\ ExampleType /\ AccountType
    BY DEF IInv, TypeOK
  <1>2. WokenByExamples \in [Thread -> LearnerSteps]
    BY <1>1 DEF WokenByExamples
  <1>3. CASE PublishExample
    BY <1>1, <1>2, <1>3 DEF PublishExample, WokenByExamples
  <1>4. CASE ReleaseSlot
    BY <1>1, <1>2, <1>4 DEF ReleaseSlot, WokenByExamples
  <1>5. ASSUME NEW i \in Thread, FetchDelayed(i) PROVE LearnerType'
    <2>1. i \in Unfetched
      BY <1>5 DEF FetchDelayed, Unfetched
    <2>2. ec'[i] \in Slot
      BY <1>1, <1>5, <2>1, FetchCount, WorkingSlot DEF FetchDelayed
    <2> QED
      BY <1>1, <1>5, <2>2 DEF FetchDelayed
  <1>6. ASSUME NEW i \in Thread, NothingDelayed(i) PROVE LearnerType'
    BY <1>1, <1>6 DEF NothingDelayed
  <1>7. ASSUME NEW i \in Thread, ReturnExample(i) PROVE LearnerType'
    BY <1>1, <1>7 DEF ReturnExample
  <1>8. ASSUME NEW i \in Thread, LoadEta(i) PROVE LearnerType'
    BY <1>1, <1>8 DEF LoadEta, AccountType
  <1>9. ASSUME NEW i \in Thread, StoreEta(i) PROVE LearnerType'
    BY <1>1, <1>9 DEF StoreEta, AccountType, ExampleType
  <1>10. ASSUME NEW i \in Thread, Train(i) PROVE LearnerType'
    BY <1>1, <1>10 DEF Train, ExampleType
  <1>11. ASSUME NEW i \in Thread, FinishExample(i) PROVE LearnerType'
    BY <1>1, <1>11 DEF FinishExample
  <1>12. ASSUME NEW i \in Thread, GetExample(i) PROVE LearnerType'
    <2>1. SlotOf(used_index[i]) \in Slot
      BY <1>1, SlotType
    <2> QED
      BY <1>1, <1>12, <2>1 DEF GetExample
  <1>13. ASSUME NEW i \in Thread, GetNothing(i) PROVE LearnerType'
    BY <1>1, <1>13 DEF GetNothing
  <1>14. ASSUME NEW i \in Thread, Contribute(i) PROVE LearnerType'
    BY <1>1, <1>14 DEF Contribute
  <1>15. ASSUME NEW i \in Thread, CompleteSum(i) PROVE LearnerType'
    BY <1>1, <1>15 DEF CompleteSum
  <1>16. ASSUME NEW i \in Thread, ResumePredict(i) PROVE LearnerType'
    BY <1>1, <1>16 DEF ResumePredict
  <1>17. ASSUME NEW i \in Thread, DelayExample(i) PROVE LearnerType'
    BY <1>1, <1>17 DEF DelayExample
  <1>18. ASSUME NEW i \in Thread, Exit(i) PROVE LearnerType'
    BY <1>1, <1>18 DEF Exit
  <1>19. ASSUME NEW i \in Thread, Output(i) PROVE LearnerType'
    BY <1>1, <1>19 DEF Output
  <1>20. ASSUME NEW i \in Thread, FreeExample(i) PROVE LearnerType'
    BY <1>1, <1>20 DEF FreeExample, WokenByExamples
  <1>21. ASSUME NEW i \in Thread, Unlock(i) PROVE LearnerType'
    BY <1>1, <1>21 DEF Unlock
  <1>22. ASSUME NEW i \in Thread, WakeLearner(i) PROVE LearnerType'
    BY <1>1, <1>22 DEF WakeLearner
  <1>23. CASE UNCHANGED learnerVars
    BY <1>1, <1>23 DEF learnerVars
  <1> QED
    BY <1>3, <1>4, <1>5, <1>6, <1>7, <1>8, <1>9, <1>10, <1>11, <1>12, <1>13, <1>14, <1>15, <1>16, <1>17, <1>18, <1>19, <1>20, <1>21, <1>22, <1>23,
       LearnerCases

LEMMA DelayTypeStep ==
  ASSUME IInv, [Next]_vars
  PROVE  DelayType'
  <1>1. DelayType /\ LearnerType
    BY DEF IInv, TypeOK
  <1>2. ASSUME NEW i \in Thread, FetchDelayed(i) PROVE DelayType'
    BY <1>1, <1>2 DEF FetchDelayed, DelayType
  <1>3. ASSUME NEW i \in Thread, ReturnExample(i) PROVE DelayType'
    <2>1. i \in Unfetched /\ pc[i] = "return"
      BY <1>3 DEF ReturnExample, Unfetched
    <2>2. /\ ReturnIndex(i) \in Slot
          /\ threads_to_use[ReturnIndex(i)] \in Nat
          /\ threads_to_use[ReturnIndex(i)] >= 1
      BY <2>1, FetchCount
    <2>3. threads_to_use[ReturnIndex(i)] - 1 \in Nat
      BY <2>2
    <2> QED
      BY <1>1, <1>3, <2>2, <2>3 DEF ReturnExample, DelayType
  <1>4. ASSUME NEW i \in Thread, DelayExample(i) PROVE DelayType'
    <2>1. ec[i] \in Slot
      BY <1>1, <1>4 DEF DelayExample, LearnerType, Busy, PredictSteps
    <2>2. DelayCount \in Nat /\ SlotOf(local_index) \in Slot
      BY <1>1, PipelineAssumption, FS_CardinalityType, SlotType
         DEF DelayCount, DelayType
    <2> QED
      BY <1>1, <1>4, <2>1, <2>2 DEF DelayExample, DelayType
  <1>5. CASE UNCHANGED delayVars
    BY <1>1, <1>5 DEF delayVars, DelayType
  <1> QED
    BY <1>2, <1>3, <1>4, <1>5, DelayCases

LEMMA AccountTypeStep ==
  ASSUME IInv, [Next]_vars
  PROVE  AccountType'
  <1>1. AccountType /\ LearnerType /\ ExampleType
    BY DEF IInv, TypeOK
  <1>2. ASSUME NEW i \in Thread, StoreEta(i) PROVE AccountType'
    BY <1>1, <1>2 DEF StoreEta, AccountType, LearnerType
  <1>3. ASSUME NEW i \in Thread, Output(i) PROVE AccountType'
    <2>1. ec[i] \in Slot
      BY <1>1, <1>3 DEF Output, LearnerType, Busy, EndSteps
    <2>2. [example |-> example_counter[ec[i]], kind |-> kind[ec[i]],
           sum |-> sum[ec[i]]]
            \in [example : Nat, kind : Kinds, sum : SUBSET Contribution]
      BY <1>1, <2>1 DEF ExampleType
    <2>3. loss[ec[i]] \in Nat
      BY <1>1, <2>1 DEF ExampleType
    <2> QED
      BY <1>1, <1>3, <2>2, <2>3 DEF Output, AccountType
  <1>4. CASE UNCHANGED accountVars
    BY <1>1, <1>4 DEF accountVars, AccountType
  <1> QED
    BY <1>2, <1>3, <1>4, AccountCases

(* A learner's counters never go below zero and its example is never NULL. *)
LEMMA TypeStep ==
  ASSUME IInv, [Next]_vars
  PROVE  TypeOK'
  BY ParserTypeStep, ExampleTypeStep, LearnerTypeStep, DelayTypeStep,
     AccountTypeStep DEF TypeOK

----------------------------------------------------------------------------
(* Most steps leave every learner in the same phase of its example and     *)
(* every live example as it is.  Such steps preserve IInv.                 *)

(* The learner j is after the step where it was before it, as far as the   *)
(* others are concerned.                                                   *)
SamePhase(j) ==
  /\ Working(j)' = Working(j) /\ Training(j)' = Training(j)
  /\ \A st \in {"predict", "delay", "unlock"} : (pc'[j] = st) = (pc[j] = st)
  /\ (pc'[j] \in EndSteps) = (pc[j] \in EndSteps)
  /\ pc'[j] \notin {"command", "commandDone"}
  /\ pc'[j] \in Busy => ec'[j] = SlotOf(Current(j))
  /\ pc'[j] = "unlock" => ec'[j] = ec[j]
  /\ pc'[j] \in {"sumWait", "sumWake"} =>
       /\ pc[j] \in {"sumWait", "sumWake"}
       /\ Pending(j)' = Pending(j)
       /\ pc'[j] # pc[j] => ~summed[SlotOf(Current(j))]
  /\ pc[j] \in {"sumWait", "sumWake"} /\ pc'[j] \notin {"sumWait", "sumWake"} =>
       summed[SlotOf(Current(j))] /\ Pending(j)
  /\ Pending(j)' => Pending(j)

(* What a step leaves of the examples, apart from in_use and ppc.          *)
SameExamples ==
  /\ UNCHANGED <<job, kind, example_counter, threads_to_finish, summed, lock>>
  /\ UNCHANGED used_index
  /\ Ready' = Ready
  /\ parsed_index <= parsed_index'
  /\ \A n \in 0..(Ready - 1) : Live(n) => in_use'[SlotOf(n)] = in_use[SlotOf(n)]

LEMMA SamePhaseFacts ==
  ASSUME SameExamples, NEW j \in Thread, SamePhase(j)
  PROVE  /\ Current(j)' = Current(j) /\ Finished(j)' = Finished(j)
         /\ used_index'[j] = used_index[j]
  BY DEF SameExamples, SamePhase, Current, Finished

LEMMA SameSets ==
  ASSUME SameExamples, \A j \in Thread : SamePhase(j), NEW n
  PROVE  /\ Live(n)' = Live(n) /\ Missing(n)' = Missing(n)
         /\ Untrained(n)' = Untrained(n)
  <1>1. \A j \in Thread : /\ Finished(j)' = Finished(j)
                          /\ used_index'[j] = used_index[j]
                          /\ Training(j)' = Training(j)
                          /\ (pc'[j] = "predict") = (pc[j] = "predict")
    BY SamePhaseFacts DEF SamePhase
  <1> QED
    BY <1>1 DEF Live, Missing, Untrained

LEMMA SameTaken ==
  ASSUME IInv, TypeOK', SameExamples, \A j \in Thread : SamePhase(j)
  PROVE  PlainInv' /\ TakenInv'
  <1>1. PlainInv'
    BY DEF IInv, PlainInv, PlainJob, SameExamples, SamePhase
  <1>2. ASSUME NEW i \in Thread
        PROVE  /\ used_index'[i] <= parsed_index'
               /\ Working(i)' => used_index'[i] >= 1
               /\ pc'[i] \in Busy => ec'[i] = SlotOf(Current(i))'
    <2>1. SamePhase(i) /\ Current(i)' = Current(i) /\ used_index'[i] = used_index[i]
      BY SamePhaseFacts
    <2>2. used_index[i] \in Nat /\ parsed_index \in Nat /\ parsed_index' \in Nat
      BY DEF IInv, TypeOK, LearnerType, ParserType
    <2>3. used_index'[i] <= parsed_index'
      BY <2>1, <2>2 DEF IInv, TakenInv, SameExamples
    <2>4. SlotOf(Current(i))' = SlotOf(Current(i))
      BY <2>1 DEF SlotOf
    <2> QED
      BY <2>1, <2>3, <2>4 DEF SamePhase, IInv, TakenInv
  <1> QED
    BY <1>1, <1>2 DEF TakenInv

LEMMA SameLive ==
  ASSUME IInv, SameExamples, \A j \in Thread : SamePhase(j)
  PROVE  LiveInv'
  <1> SUFFICES ASSUME NEW n \in 0..(Ready - 1), Live(n)
      PROVE  LET s == SlotOf(n) IN
        /\ in_use'[s] /\ example_counter'[s] = n + 1
        /\ ~summed'[s] => threads_to_finish'[s] = Cardinality(Missing(n)')
        /\ ~summed'[s] /\ kind'[s] = "train" =>
             \A i \in Thread :
               /\ used_index'[i] <= n + 1
               /\ used_index'[i] = n + 1 =>
                    pc'[i] \in {"predict", "sumWait", "sumWake"}
        /\ summed'[s] => Missing(n)' = {}
        /\ summed'[s] /\ kind'[s] = "train" =>
             \/ threads_to_finish'[s] = Cardinality(Untrained(n)')
             \/ \E k \in Thread : pc'[k] = "delay" /\ used_index'[k] = n + 1
    BY SameSets DEF LiveInv, LiveExample, SameExamples, SlotOf
  <1> DEFINE s == SlotOf(n)
  <1>1. Missing(n)' = Missing(n) /\ Untrained(n)' = Untrained(n)
    BY SameSets
  <1>2. /\ in_use'[s] = in_use[s] /\ example_counter'[s] = example_counter[s]
        /\ summed'[s] = summed[s] /\ kind'[s] = kind[s]
        /\ threads_to_finish'[s] = threads_to_finish[s]
        /\ used_index' = used_index
    BY DEF SameExamples
  <1>3. ASSUME ~summed[s], kind[s] = "train", NEW i \in Thread,
               used_index[i] = n + 1
        PROVE  pc'[i] \in {"predict", "sumWait", "sumWake"}
    <2>1. pc[i] \in {"predict", "sumWait", "sumWake"}
      BY <1>3 DEF IInv, LiveInv, LiveExample
    <2>2. Current(i) = n
      BY <1>3 DEF Current
    <2> QED
      BY <1>3, <2>1, <2>2 DEF SamePhase
  <1>4. \A k \in Thread : (pc'[k] = "delay") = (pc[k] = "delay")
    BY DEF SamePhase
  <1>5. in_use[s] /\ example_counter[s] = n + 1
    BY DEF IInv, LiveInv, LiveExample
  <1>6. ~summed[s] => threads_to_finish[s] = Cardinality(Missing(n))
    BY DEF IInv, LiveInv, LiveExample
  <1>7. ~summed[s] /\ kind[s] = "train" => \A i \in Thread : used_index[i] <= n + 1
    BY DEF IInv, LiveInv, LiveExample
  <1>8. summed[s] => Missing(n) = {}
    BY DEF IInv, LiveInv, LiveExample
  <1>9. summed[s] /\ kind[s] = "train" =>
          \/ threads_to_finish[s] = Cardinality(Untrained(n))
          \/ \E k \in Thread : pc[k] = "delay" /\ used_index[k] = n + 1
    BY DEF IInv, LiveInv, LiveExample
  <1> QED
    BY <1>1, <1>2, <1>3, <1>4, <1>5, <1>6, <1>7, <1>8, <1>9

LEMMA SameStep ==
  ASSUME IInv, SameExamples, \A j \in Thread : SamePhase(j)
  PROVE  StepInv'
  <1> SUFFICES ASSUME NEW i \in Thread
      PROVE  /\ AtPredict(i)' /\ AtWait(i)' /\ AtWake(i)' /\ AtDelay(i)'
             /\ AtTrain(i)' /\ AtEnd(i)' /\ AtUnlock(i)'
    BY DEF StepInv
  <1> DEFINE s == SlotOf(Current(i))
  <1>1. SlotOf(Current(i))' = s
    BY SamePhaseFacts DEF SlotOf
  <1>2. \A j \in Thread : Finished(j)' = Finished(j)
    BY SamePhaseFacts
  <1>3. /\ kind' = kind /\ threads_to_finish' = threads_to_finish
        /\ summed' = summed /\ lock' = lock /\ used_index' = used_index
    BY DEF SameExamples
  <1>4. /\ AtPredict(i) /\ AtWait(i) /\ AtWake(i) /\ AtDelay(i)
        /\ AtTrain(i) /\ AtEnd(i) /\ AtUnlock(i)
    BY DEF IInv, StepInv
  <1>5. \A j \in Thread : SamePhase(j)
    OBVIOUS
  <1>6. AtPredict(i)'
    BY <1>1, <1>3, <1>4, <1>5 DEF AtPredict, SamePhase
  <1>7. AtWait(i)'
    BY <1>1, <1>3, <1>4, <1>5 DEF AtWait, SamePhase
  <1>8. AtWake(i)'
    BY <1>1, <1>3, <1>4, <1>5 DEF AtWake, SamePhase
  <1>9. AtDelay(i)'
    <2> SUFFICES ASSUME pc[i] = "delay"
        PROVE  /\ summed[s] /\ lock[s] = i
               /\ \A j \in Thread : ~Pending(j)'
               /\ \A j \in Thread \ {i} :
                    pc'[j] = "sumWake" /\ used_index[j] = used_index[i]
      BY <1>1, <1>3, <1>5 DEF AtDelay, SamePhase
    <2>1. summed[s] /\ lock[s] = i /\ \A j \in Thread : ~Pending(j)
      BY <1>4 DEF AtDelay
    <2>2. ASSUME NEW j \in Thread \ {i}
          PROVE  pc'[j] = "sumWake" /\ used_index[j] = used_index[i]
      <3>1. pc[j] = "sumWake" /\ used_index[j] = used_index[i] /\ ~Pending(j)
        BY <1>4, <2>2 DEF AtDelay
      <3>2. Current(j) = Current(i)
        BY <3>1 DEF Current
      <3> QED
        BY <1>5, <2>1, <3>1, <3>2 DEF SamePhase
    <2> QED
      BY <1>5, <2>1, <2>2 DEF SamePhase
  <1>10. AtTrain(i)'
    BY <1>1, <1>3, <1>4, <1>5 DEF AtTrain, SamePhase
  <1>11. AtEnd(i)'
    BY <1>1, <1>2, <1>3, <1>4, <1>5 DEF AtEnd, SamePhase
  <1>12. AtUnlock(i)'
    BY <1>3, <1>4, <1>5 DEF AtUnlock, SamePhase
  <1> QED
    BY <1>6, <1>7, <1>8, <1>9, <1>10, <1>11, <1>12

LEMMA SameDelay ==
  ASSUME IInv, UNCHANGED delayVars,
         \A j \in Unfetched : used_index'[j] = used_index[j],
         \A j \in Thread : /\ (pc'[j] = "return") = (pc[j] = "return")
                           /\ Pending(j) => pc'[j] \in {"select", "sumWake"}
  PROVE  DelayInv'
  <1>1. \A j \in Thread : Pending(j)' = Pending(j)
    BY DEF delayVars, Pending
  <1>2. Unfetched' = Unfetched
    <2>1. \A j \in Thread :
            (Pending(j) \/ pc[j] = "return")' <=> (Pending(j) \/ pc[j] = "return")
      BY <1>1
    <2> QED
      BY <2>1 DEF Unfetched
  <1>3. \A j \in Unfetched : SlotOf(Current(j))' = SlotOf(Current(j))
    BY DEF SlotOf, Current
  <1>4. SlotOf(local_index - 1)' = SlotOf(local_index - 1)
    BY DEF SlotOf, delayVars
  <1>5. DelayInv
    BY DEF IInv
  <1>6. \A i \in Thread :
          /\ Pending(i)' => /\ pc'[i] \in {"select", "sumWake"}
                            /\ delay_indices'[i] + 1 = local_index'
          /\ pc'[i] = "return" => /\ delay_indices'[i] = local_index'
                                  /\ local_index' >= 1
    BY <1>1, <1>5 DEF DelayInv, delayVars
  <1>7. \A i \in Unfetched' :
          /\ delay_ring'[SlotOf(local_index - 1)'] = SlotOf(Current(i))'
          /\ threads_to_use'[SlotOf(local_index - 1)'] = Cardinality(Unfetched)'
    BY <1>2, <1>3, <1>4, <1>5 DEF DelayInv, delayVars
  <1>8. \A s \in Slot : delay_ring'[s] # NULL =>
          Unfetched' # {} /\ s = SlotOf(local_index - 1)'
    BY <1>2, <1>4, <1>5 DEF DelayInv, delayVars
  <1> QED
    BY <1>6, <1>7, <1>8 DEF DelayInv

LEMMA SameWindow ==
  ASSUME IInv, TypeOK', TakenInv', UNCHANGED <<parsed_index, ParserHolds>>,
         ParserHolds =>
           in_use'[SlotOf(parsed_index)] = in_use[SlotOf(parsed_index)],
         \A j \in Thread : Finished(j) <= Finished(j)'
  PROVE  WindowInv'
  <1>1. SlotOf(parsed_index)' = SlotOf(parsed_index)
    BY DEF SlotOf
  <1>2. ASSUME NEW i \in Thread
        PROVE  /\ parsed_index <= Finished(i)' + RingSize
               /\ ParserHolds => parsed_index < Finished(i)' + RingSize
    <2>1. Finished(i) \in Nat /\ parsed_index \in Nat
      BY FinishedType DEF IInv, TypeOK, ParserType
    <2>2. Finished(i)' \in Nat
      BY DEF TypeOK, LearnerType, TakenInv, Finished
    <2> QED
      BY <2>1, <2>2, PipelineAssumption DEF IInv, WindowInv
  <1> QED
    BY <1>1, <1>2 DEF IInv, WindowInv

LEMMA SameInv ==
  ASSUME IInv, TypeOK', SameExamples, \A j \in Thread : SamePhase(j),
         WindowInv', DelayInv'
  PROVE  IInv'
  BY SameTaken, SameLive, SameStep DEF IInv

(* Steps of the learners that say nothing to the parser.                   *)
LEMMA SameLearnerInv ==
  ASSUME IInv, TypeOK', UNCHANGED <<parserVars, exampleVars, used_index>>,
         \A j \in Thread : SamePhase(j), DelayInv'
  PROVE  IInv'
  <1>1. SameExamples
    BY FinishedType DEF SameExamples, parserVars, exampleVars, Ready, IInv, TypeOK, ParserType
  <1>2. TakenInv'
    BY <1>1, SameTaken
  <1>3. \A j \in Thread : Finished(j)' = Finished(j) /\ Finished(j) \in Nat
    BY <1>1, SamePhaseFacts, FinishedType DEF IInv
  <1>4. WindowInv'
    <2>1. \A j \in Thread : Finished(j) <= Finished(j)'
      BY <1>3
    <2>2. UNCHANGED <<parsed_index, ParserHolds>>
      BY DEF parserVars, ParserHolds
    <2>3. in_use' = in_use
      BY DEF exampleVars
    <2> QED
      BY <1>2, <2>1, <2>2, <2>3, SameWindow
  <1> QED
    BY <1>1, <1>4, SameInv

----------------------------------------------------------------------------
(* Steps of one learner that are not noticed by the others.                *)
Idle == {"select", "get", "availWait", "exit", "stopped"}

LEMMA OtherPhase ==
  ASSUME IInv, NEW j \in Thread,
         pc'[j] = pc[j], ec'[j] = ec[j], used_index'[j] = used_index[j],
         delay_indices'[j] = delay_indices[j], local_index' = local_index
  PROVE  SamePhase(j)
  <1>1. Pending(j)' = Pending(j)
    BY DEF Pending
  <1>2. pc[j] \notin {"command", "commandDone"}
    BY DEF IInv, PlainInv
  <1>3. pc[j] \in Busy => ec[j] = SlotOf(Current(j))
    BY DEF IInv, TakenInv
  <1> QED
    BY <1>1, <1>2, <1>3 DEF SamePhase, Working, Training

LEMMA IdlePhase ==
  ASSUME IInv, NEW j \in Thread, ~Pending(j), ~Pending(j)',
         pc[j] \in Idle, pc'[j] \in Idle
  PROVE  SamePhase(j)
  BY DEF SamePhase, Working, Training, Idle, Busy, TrainSteps, PredictSteps,
         EndSteps

LEMMA BusyPhase ==
  ASSUME IInv, NEW j \in Thread, ~Pending(j)', ec'[j] = ec[j],
         \/ pc[j] \in TrainSteps /\ pc'[j] \in TrainSteps
         \/ pc[j] \in EndSteps /\ pc'[j] \in EndSteps
  PROVE  SamePhase(j)
  <1>1. ~Pending(j)
    BY DEF IInv, DelayInv, TrainSteps, EndSteps
  <1>2. ec[j] = SlotOf(Current(j))
    BY DEF IInv, TakenInv, Busy
  <1> QED
    BY <1>1, <1>2 DEF SamePhase, Working, Training, Busy, TrainSteps,
       PredictSteps, EndSteps

LEMMA WokenPhase ==
  ASSUME IInv, UNCHANGED <<ec, used_index, delayVars>>, NEW j \in Thread,
         pc'[j] = WokenByExamples[j]
  PROVE  /\ SamePhase(j)
         /\ (pc'[j] = "return") = (pc[j] = "return")
         /\ Pending(j) => pc'[j] \in {"select", "sumWake"}
  <1>1. Pending(j) => pc[j] \in {"select", "sumWake"}
    BY DEF IInv, DelayInv
  <1>2. CASE pc[j] = "availWait"
    <2>1. pc'[j] = "exit" /\ ~Pending(j)
      BY <1>1, <1>2 DEF WokenByExamples
    <2>2. ~Pending(j)'
      BY <2>1 DEF Pending, delayVars
    <2> QED
      BY <1>2, <2>1, <2>2, IdlePhase DEF Idle
  <1>3. CASE pc[j] # "availWait"
    <2>1. pc'[j] = pc[j]
      BY <1>3 DEF WokenByExamples
    <2> QED
      BY <1>1, <2>1, OtherPhase DEF delayVars
  <1> QED
    BY <1>2, <1>3

(* One learner moves, and neither fetches nor returns a delayed example.   *)
LEMMA OneMoves ==
  ASSUME IInv, TypeOK', NEW i \in Thread, NEW label, Goto(i, label),
         UNCHANGED <<parserVars, exampleVars, used_index, delayVars>>,
         \A j \in Thread \ {i} : ec'[j] = ec[j],
         SamePhase(i), pc[i] # "return", label # "return",
         Pending(i) => label \in {"select", "sumWake"}
  PROVE  IInv'
  <1>1. /\ pc'[i] = label
        /\ \A j \in Thread \ {i} : pc'[j] = pc[j]
    BY DEF Goto, IInv, TypeOK, LearnerType
  <1>2. \A j \in Thread : SamePhase(j)
    BY <1>1, OtherPhase DEF delayVars
  <1>3. \A j \in Thread : Pending(j) => pc[j] \in {"select", "sumWake"}
    BY DEF IInv, DelayInv
  <1>4. DelayInv'
    BY <1>1, <1>3, SameDelay
  <1> QED
    BY <1>2, <1>4, SameLearnerInv

LEMMA NothingDelayedInv ==
  ASSUME IInv, TypeOK', NEW i \in Thread, NothingDelayed(i)
  PROVE  IInv'
  <1>1. pc[i] = "select" /\ pc'[i] = "get" /\ ~Pending(i) /\ ~Pending(i)'
    BY DEF NothingDelayed, Goto, IInv, TypeOK, LearnerType, Pending, delayVars
  <1>2. SamePhase(i)
    BY <1>1, IdlePhase DEF Idle
  <1>3. \A j \in Thread \ {i} : ec'[j] = ec[j]
    BY DEF NothingDelayed, IInv, TypeOK, LearnerType
  <1> QED
    BY <1>1, <1>2, <1>3, OneMoves DEF NothingDelayed

LEMMA GetNothingInv ==
  ASSUME IInv, TypeOK', NEW i \in Thread, GetNothing(i)
  PROVE  IInv'
  <1>1. pc[i] = "get" /\ ~Pending(i) /\ ~Pending(i)'
    BY DEF GetNothing, IInv, DelayInv, Pending, delayVars
  <1>2. pc'[i] \in {"exit", "availWait"}
    BY DEF GetNothing, Goto, IInv, TypeOK, LearnerType
  <1>3. SamePhase(i)
    BY <1>1, <1>2, IdlePhase DEF Idle
  <1> QED
    BY <1>1, <1>3, OneMoves DEF GetNothing

LEMMA ExitInv ==
  ASSUME IInv, TypeOK', NEW i \in Thread, Exit(i)
  PROVE  IInv'
  <1>1. pc[i] = "exit" /\ ~Pending(i) /\ ~Pending(i)'
    BY DEF Exit, IInv, DelayInv, Pending, delayVars
  <1>2. pc'[i] \in {"select", "stopped"}
    BY DEF Exit, Goto, IInv, TypeOK, LearnerType
  <1>3. SamePhase(i)
    BY <1>1, <1>2, IdlePhase DEF Idle
  <1> QED
    BY <1>1, <1>3, OneMoves DEF Exit

LEMMA LoadEtaInv ==
  ASSUME IInv, TypeOK', NEW i \in Thread, LoadEta(i)
  PROVE  IInv'
  <1>1. pc[i] = "loadEta" /\ pc'[i] = "storeEta" /\ ~Pending(i) /\ ~Pending(i)'
    BY DEF LoadEta, Goto, IInv, TypeOK, LearnerType, DelayInv, Pending, delayVars
  <1>2. SamePhase(i)
    BY <1>1, BusyPhase DEF TrainSteps, LoadEta
  <1> QED
    BY <1>1, <1>2, OneMoves DEF LoadEta

LEMMA StoreEtaInv ==
  ASSUME IInv, TypeOK', NEW i \in Thread, StoreEta(i)
  PROVE  IInv'
  <1>1. pc[i] = "storeEta" /\ pc'[i] = "train" /\ ~Pending(i) /\ ~Pending(i)'
    BY DEF StoreEta, Goto, IInv, TypeOK, LearnerType, DelayInv, Pending, delayVars
  <1>2. SamePhase(i)
    BY <1>1, BusyPhase DEF TrainSteps, StoreEta
  <1> QED
    BY <1>1, <1>2, OneMoves DEF StoreEta

LEMMA TrainInv ==
  ASSUME IInv, TypeOK', NEW i \in Thread, Train(i)
  PROVE  IInv'
  <1>1. pc[i] = "train" /\ pc'[i] = "finish" /\ ~Pending(i) /\ ~Pending(i)'
    BY DEF Train, Goto, IInv, TypeOK, LearnerType, DelayInv, Pending, delayVars
  <1>2. SamePhase(i)
    BY <1>1, BusyPhase DEF TrainSteps, Train
  <1> QED
    BY <1>1, <1>2, OneMoves DEF Train

LEMMA OutputInv ==
  ASSUME IInv, TypeOK', NEW i \in Thread, Output(i)
  PROVE  IInv'
  <1>1. pc[i] = "output" /\ pc'[i] = "free" /\ ~Pending(i) /\ ~Pending(i)'
    BY DEF Output, Goto, IInv, TypeOK, LearnerType, DelayInv, Pending, delayVars
  <1>2. SamePhase(i)
    BY <1>1, BusyPhase DEF EndSteps, Output
  <1> QED
    BY <1>1, <1>2, OneMoves DEF Output

(* Waiting for the sum goes on until it is complete: then the example is   *)
(* in the delay ring, since whoever completed it held the lock until then. *)
LEMMA ResumePredictInv ==
  ASSUME IInv, TypeOK', NEW i \in Thread, ResumePredict(i)
  PROVE  IInv'
  <1> DEFINE s == SlotOf(Current(i))
  <1>1. /\ pc[i] = "sumWake" /\ Working(i) /\ ec[i] = s
        /\ lock[s] = Nobody
    BY DEF ResumePredict, Working, Busy, PredictSteps, IInv, TakenInv
  <1>2. Pending(i)' = Pending(i) /\ ec' = ec
    BY DEF ResumePredict, Pending, delayVars
  <1>3. CASE summed[s]
    <2>1. ASSUME NEW k \in Thread, pc[k] = "delay", used_index[k] = used_index[i]
          PROVE  FALSE
      <3>1. lock[SlotOf(Current(k))] = k
        BY <2>1 DEF IInv, StepInv, AtDelay
      <3>2. Current(k) = Current(i)
        BY <2>1 DEF Current
      <3> QED
        BY <1>1, <3>1, <3>2, PipelineAssumption
    <2>2. Pending(i)
      BY <1>1, <1>3, <2>1 DEF IInv, StepInv, AtWake
    <2>3. pc'[i] = "select"
      BY <1>1, <1>3 DEF ResumePredict, Goto, IInv, TypeOK, LearnerType
    <2>4. SamePhase(i)
      BY <1>1, <1>2, <1>3, <2>2, <2>3
         DEF SamePhase, Working, Training, Busy, TrainSteps, PredictSteps, EndSteps
    <2> QED
      BY <1>1, <1>2, <1>3, <2>4, OneMoves DEF ResumePredict
  <1>4. CASE ~summed[s]
    <2>1. pc'[i] = "sumWait"
      BY <1>1, <1>4 DEF ResumePredict, Goto, IInv, TypeOK, LearnerType
    <2>2. ~Pending(i)
      BY <1>4 DEF IInv, StepInv, AtTrain, Training
    <2>3. SamePhase(i)
      BY <1>1, <1>2, <1>4, <2>1, <2>2
         DEF SamePhase, Working, Training, Busy, TrainSteps, PredictSteps, EndSteps
    <2> QED
      BY <1>1, <1>2, <1>4, <2>2, <2>3, OneMoves DEF ResumePredict
  <1> QED
    BY <1>3, <1>4

LEMMA WakeLearnerInv ==
  ASSUME IInv, TypeOK', NEW i \in Thread, WakeLearner(i)
  PROVE  IInv'
  <1>1. /\ ~Pending(i) /\ ~Pending(i)' /\ ec' = ec
        /\ Pending(i)' = Pending(i)
    BY DEF WakeLearner, IInv, DelayInv, Pending, delayVars
  <1>2. CASE pc[i] = "availWait" /\ Goto(i, "exit")
    <2>1. pc'[i] = "exit"
      BY <1>2 DEF Goto, IInv, TypeOK, LearnerType
    <2>2. SamePhase(i)
      BY <1>1, <1>2, <2>1, IdlePhase DEF Idle
    <2> QED
      BY <1>1, <1>2, <2>2, OneMoves DEF WakeLearner
  <1>3. CASE pc[i] = "sumWait" /\ Goto(i, "sumWake")
    <2>1. pc'[i] = "sumWake"
      BY <1>3 DEF Goto, IInv, TypeOK, LearnerType
    <2>2. ~summed[SlotOf(Current(i))]
      BY <1>3 DEF IInv, StepInv, AtPredict
    <2>3. ec[i] = SlotOf(Current(i))
      BY <1>3 DEF IInv, TakenInv, Busy, PredictSteps
    <2>4. SamePhase(i)
      BY <1>1, <1>3, <2>1, <2>2, <2>3
         DEF SamePhase, Working, Training, Busy, TrainSteps, PredictSteps, EndSteps
    <2> QED
      BY <1>1, <1>3, <2>4, OneMoves DEF WakeLearner
  <1> QED
    BY <1>2, <1>3 DEF WakeLearner

----------------------------------------------------------------------------
(* The delay ring is emptied by the learners.                              *)

LEMMA FetchDelayedInv ==
  ASSUME IInv, TypeOK', NEW i \in Thread, FetchDelayed(i)
  PROVE  IInv'
  <1>1. i \in Unfetched /\ Pending(i) /\ pc[i] = "select"
    BY DEF FetchDelayed, Unfetched
  <1>2. /\ delay_indices[i] = local_index - 1 /\ local_index \in Nat
        /\ local_index >= 1
        /\ delay_ring[SlotOf(local_index - 1)] = SlotOf(Current(i))
    BY <1>1, FetchCount
  <1>3. /\ pc'[i] = "return" /\ delay_indices'[i] = local_index
        /\ ec'[i] = SlotOf(Current(i))
        /\ \A j \in Thread \ {i} : /\ pc'[j] = pc[j] /\ ec'[j] = ec[j]
                                   /\ delay_indices'[j] = delay_indices[j]
    BY <1>2 DEF FetchDelayed, Goto, IInv, TypeOK, LearnerType, DelayType
  <1>4. local_index' = local_index /\ ~Pending(i)'
    BY <1>3 DEF FetchDelayed, Pending
  <1>5. SamePhase(i)
    BY <1>1, <1>3, <1>4
       DEF SamePhase, Working, Training, Busy, TrainSteps, PredictSteps, EndSteps
  <1>6. \A j \in Thread : SamePhase(j)
    BY <1>3, <1>4, <1>5, OtherPhase DEF FetchDelayed
  <1>7. \A j \in Thread \ {i} : Pending(j)' = Pending(j)
    BY <1>3, <1>4 DEF Pending
  <1>8. Unfetched' = Unfetched
    <2>1. \A j \in Thread :
            (Pending(j) \/ pc[j] = "return")' <=> (Pending(j) \/ pc[j] = "return")
      BY <1>1, <1>3, <1>7
    <2> QED
      BY <2>1 DEF Unfetched
  <1>9. DelayInv'
    <2>1. DelayInv
      BY DEF IInv
    <2>2. \A j \in Thread :
            /\ Pending(j)' => /\ pc'[j] \in {"select", "sumWake"}
                              /\ delay_indices'[j] + 1 = local_index'
            /\ pc'[j] = "return" => /\ delay_indices'[j] = local_index'
                                    /\ local_index' >= 1
      BY <1>2, <1>3, <1>4, <1>7, <2>1 DEF DelayInv
    <2>3. /\ SlotOf(local_index - 1)' = SlotOf(local_index - 1)
          /\ delay_ring' = delay_ring /\ threads_to_use' = threads_to_use
          /\ \A j \in Thread : SlotOf(Current(j))' = SlotOf(Current(j))
      BY <1>4 DEF FetchDelayed, SlotOf, Current
    <2> QED
      BY <1>8, <2>1, <2>2, <2>3 DEF DelayInv, Unfetched
  <1> QED
    BY <1>6, <1>9, SameLearnerInv DEF FetchDelayed

LEMMA ReturnExampleInv ==
  ASSUME IInv, TypeOK', NEW i \in Thread, ReturnExample(i)
  PROVE  IInv'
  <1> DEFINE index == SlotOf(local_index - 1)
  <1>1. pc[i] = "return" /\ i \in Unfetched /\ ~Pending(i)
    BY DEF ReturnExample, Unfetched, IInv, DelayInv
  <1>2. /\ ReturnIndex(i) = index /\ index \in Slot
        /\ threads_to_use[index] = Cardinality(Unfetched)
        /\ Unfetched \subseteq Thread
    BY <1>1, FetchCount
  <1>3. /\ pc'[i] \in {"loadEta", "train"}
        /\ \A j \in Thread \ {i} : pc'[j] = pc[j]
    BY DEF ReturnExample, Goto, IInv, TypeOK, LearnerType
  <1>4. \A j \in Thread : Pending(j)' = Pending(j)
    BY DEF ReturnExample, Pending
  <1>5. SamePhase(i)
    BY <1>1, <1>3, <1>4, BusyPhase DEF TrainSteps, ReturnExample
  <1>6. \A j \in Thread : SamePhase(j)
    BY <1>3, <1>5, OtherPhase DEF ReturnExample
  <1>7. Unfetched' = Unfetched \ {i}
    <2>1. \A j \in Thread : (Pending(j) \/ pc[j] = "return")' <=>
            (Pending(j) \/ pc[j] = "return") /\ j # i
      BY <1>1, <1>3, <1>4
    <2> QED
      BY <2>1 DEF Unfetched
  <1>8. Cardinality(Unfetched') = Cardinality(Unfetched) - 1
    BY <1>1, <1>2, <1>7, ThreadSubset
  <1>9. DelayInv'
    <2>1. DelayInv /\ DelayType
      BY DEF IInv, TypeOK
    <2>2. \A j \in Thread :
            /\ Pending(j)' => /\ pc'[j] \in {"select", "sumWake"}
                              /\ delay_indices'[j] + 1 = local_index'
            /\ pc'[j] = "return" => /\ delay_indices'[j] = local_index'
                                    /\ local_index' >= 1
      BY <1>1, <1>3, <1>4, <2>1 DEF DelayInv, ReturnExample
    <2>3. /\ SlotOf(local_index - 1)' = index
          /\ \A j \in Thread : SlotOf(Current(j))' = SlotOf(Current(j))
      BY DEF ReturnExample, SlotOf, Current
    <2>4. threads_to_use'[index] = Cardinality(Unfetched')
      BY <1>2, <1>8, <2>1 DEF ReturnExample, DelayType
    <2>5. CASE Unfetched' = {}
      <3>1. threads_to_use[index] - 1 = 0
        BY <1>2, <1>8, <2>5, FS_EmptySet
      <3>2. delay_ring'[index] = NULL
        BY <1>2, <2>1, <3>1 DEF ReturnExample, LastReader, DelayType
      <3>3. \A s \in Slot : delay_ring'[s] = NULL
        BY <1>2, <2>1, <3>1, <3>2 DEF ReturnExample, LastReader, DelayType, DelayInv
      <3> QED
        BY <2>2, <2>5, <3>3 DEF DelayInv
    <2>6. CASE Unfetched' # {}
      <3>1. threads_to_use[index] - 1 # 0
        BY <1>2, <1>7, <1>8, <2>6, ThreadSubset
      <3>2. delay_ring' = delay_ring
        BY <1>2, <3>1 DEF ReturnExample, LastReader
      <3>3. \A j \in Unfetched' : delay_ring'[index] = SlotOf(Current(j))
        BY <1>7, <2>1, <3>2 DEF DelayInv
      <3>4. \A s \in Slot : delay_ring'[s] # NULL => s = index
        BY <2>1, <3>2 DEF DelayInv
      <3>5. \A j \in Unfetched' :
              /\ delay_ring'[SlotOf(local_index - 1)'] = SlotOf(Current(j))'
              /\ threads_to_use'[SlotOf(local_index - 1)'] = Cardinality(Unfetched)'
        BY <1>2, <1>7, <2>3, <2>4, <3>3
      <3> QED
        BY <2>2, <2>3, <2>6, <3>4, <3>5 DEF DelayInv
    <2> QED
      BY <2>5, <2>6
  <1> QED
    BY <1>6, <1>9, SameLearnerInv DEF ReturnExample

----------------------------------------------------------------------------
(* The parser.                                                             *)

LEMMA ParserMoves ==
  ASSUME IInv, TypeOK', SameExamples, UNCHANGED <<ec, delayVars>>,
         pc' = pc \/ pc' = WokenByExamples, WindowInv'
  PROVE  IInv'
  <1>1. UNCHANGED used_index
    BY DEF SameExamples
  <1>2. \A j \in Thread : Pending(j) => pc[j] \in {"select", "sumWake"}
    BY DEF IInv, DelayInv
  <1>3. ASSUME NEW j \in Thread
        PROVE  /\ SamePhase(j)
               /\ (pc'[j] = "return") = (pc[j] = "return")
               /\ Pending(j) => pc'[j] \in {"select", "sumWake"}
    <2>1. CASE pc' = pc
      BY <1>1, <1>2, <2>1, OtherPhase DEF delayVars
    <2>2. CASE pc' = WokenByExamples
      BY <1>1, <2>2, WokenPhase
    <2> QED
      BY <2>1, <2>2
  <1>4. DelayInv'
    BY <1>1, <1>3, SameDelay
  <1> QED
    BY <1>3, <1>4, SameInv

(* A slot is free only if the example that had it RingSize examples ago is *)
(* done with.                                                              *)
LEMMA FreeSlot ==
  ASSUME IInv, Ready = parsed_index, Free(SlotOf(parsed_index)), NEW i \in Thread
  PROVE  parsed_index < Finished(i) + RingSize
  <1>1. /\ Finished(i) \in Nat /\ parsed_index \in Nat
        /\ parsed_index <= Finished(i) + RingSize
    BY FinishedType DEF IInv, TypeOK, ParserType, WindowInv
  <1>2. ASSUME parsed_index = Finished(i) + RingSize PROVE FALSE
    <2>1. Finished(i) \in 0..(Ready - 1) /\ Live(Finished(i))
      BY <1>1, <1>2, PipelineAssumption DEF Live
    <2>2. in_use[SlotOf(Finished(i))]
      BY <2>1 DEF IInv, LiveInv, LiveExample
    <2>3. SlotOf(parsed_index) = SlotOf(Finished(i))
      BY <1>1, <1>2, SlotWrap
    <2> QED
      BY <2>2, <2>3 DEF Free
  <1> QED
    BY <1>1, <1>2, PipelineAssumption

LEMMA ClaimSlotInv ==
  ASSUME IInv, TypeOK', ClaimSlot
  PROVE  IInv'
  <1>1. Ready = parsed_index /\ Ready' = Ready /\ parsed_index' = parsed_index
    BY DEF ClaimSlot, Ready
  <1>2. SlotOf(parsed_index) \in Slot /\ in_use \in [Slot -> BOOLEAN]
        /\ parsed_index \in Nat
    BY SlotType DEF IInv, TypeOK, ParserType, ExampleType
  <1>3. ASSUME NEW n \in 0..(Ready - 1), Live(n)
        PROVE  in_use'[SlotOf(n)] = in_use[SlotOf(n)]
    <2>1. in_use[SlotOf(n)] /\ SlotOf(n) \in Slot
      BY <1>3, SlotType DEF IInv, LiveInv, LiveExample
    <2> QED
      BY <1>2, <2>1 DEF ClaimSlot
  <1>4. SameExamples
    <2>1. UNCHANGED <<job, kind, example_counter, threads_to_finish, summed,
                      lock, used_index>>
      BY DEF ClaimSlot, learnerVars
    <2>2. parsed_index <= parsed_index'
      BY <1>1, <1>2
    <2> QED
      BY <1>1, <1>3, <2>1, <2>2 DEF SameExamples
  <1>5. \A j \in Thread : Finished(j)' = Finished(j)
    BY DEF ClaimSlot, learnerVars, delayVars, Finished, Working, Pending
  <1>6. WindowInv'
    <2>1. SlotOf(parsed_index)' = SlotOf(parsed_index)
      BY <1>1 DEF SlotOf
    <2>2. in_use'[SlotOf(parsed_index)]
      BY <1>2 DEF ClaimSlot
    <2> QED
      BY <1>1, <1>5, <2>1, <2>2, FreeSlot DEF ClaimSlot, IInv, WindowInv
  <1> QED
    BY <1>4, <1>6, ParserMoves DEF ClaimSlot, learnerVars

LEMMA AwaitSlotInv ==
  ASSUME IInv, TypeOK', AwaitSlot \/ WakeParser
  PROVE  IInv'
  <1>1. Ready' = Ready /\ parsed_index' = parsed_index /\ parsed_index \in Nat
    BY DEF AwaitSlot, WakeParser, Ready, IInv, TypeOK, ParserType
  <1>2. UNCHANGED <<job, exampleVars, learnerVars, delayVars>>
    BY DEF AwaitSlot, WakeParser
  <1>3. SameExamples
    BY <1>1, <1>2 DEF SameExamples, exampleVars, learnerVars
  <1>4. \A j \in Thread : Finished(j)' = Finished(j)
    BY <1>2 DEF learnerVars, delayVars, Finished, Working, Pending
  <1>5. WindowInv'
    BY <1>1, <1>4 DEF AwaitSlot, WakeParser, IInv, WindowInv, ParserHolds
  <1> QED
    BY <1>2, <1>3, <1>5, ParserMoves DEF learnerVars

LEMMA PublishExampleInv ==
  ASSUME IInv, TypeOK', PublishExample
  PROVE  IInv'
  <1>1. /\ Ready' = Ready /\ parsed_index' = parsed_index + 1
        /\ parsed_index \in Nat
    BY DEF PublishExample, Ready, IInv, TypeOK, ParserType
  <1>2. SameExamples
    BY <1>1 DEF SameExamples, PublishExample, exampleVars
  <1>3. \A j \in Thread : Finished(j) \in Nat /\ Finished(j)' = Finished(j)
    <2>1. ASSUME NEW j \in Thread PROVE SamePhase(j)
      BY WokenPhase DEF PublishExample
    <2> QED
      BY <1>2, <2>1, SamePhaseFacts, FinishedType DEF IInv
  <1>4. WindowInv'
    <2>1. ~ParserHolds'
      BY DEF PublishExample, ParserHolds
    <2>2. \A j \in Thread : parsed_index < Finished(j) + RingSize
      BY DEF PublishExample, IInv, WindowInv, ParserHolds
    <2> QED
      BY <1>1, <1>3, <2>1, <2>2, PipelineAssumption DEF WindowInv
  <1> QED
    BY <1>2, <1>4, ParserMoves DEF PublishExample

LEMMA EndPassInv ==
  ASSUME IInv, TypeOK', EndPass
  PROVE  IInv'
  <1>1. Ready' = Ready /\ parsed_index' = parsed_index /\ parsed_index \in Nat
    BY DEF EndPass, Ready, IInv, TypeOK, ParserType
  <1>2. UNCHANGED <<job, exampleVars, learnerVars, delayVars>>
    BY DEF EndPass
  <1>3. SameExamples
    BY <1>1, <1>2 DEF SameExamples, exampleVars, learnerVars
  <1>4. \A j \in Thread : Finished(j)' = Finished(j)
    BY <1>2 DEF learnerVars, delayVars, Finished, Working, Pending
  <1>5. WindowInv'
    <2>1. SlotOf(parsed_index)' = SlotOf(parsed_index) /\ in_use' = in_use
      BY <1>1, <1>2 DEF SlotOf, exampleVars
    <2>2. ParserHolds
      BY DEF EndPass, ParserHolds
    <2> QED
      BY <1>1, <1>4, <2>1, <2>2 DEF IInv, WindowInv
  <1> QED
    BY <1>2, <1>3, <1>5, ParserMoves DEF learnerVars

LEMMA ReleaseSlotInv ==
  ASSUME IInv, TypeOK', ReleaseSlot
  PROVE  IInv'
  <1>1. /\ Ready = parsed_index /\ Ready' = Ready
        /\ parsed_index' = parsed_index /\ parsed_index \in Nat
        /\ SlotOf(parsed_index) \in Slot
    BY SlotType DEF ReleaseSlot, Ready, IInv, TypeOK, ParserType
  <1>2. ASSUME NEW n \in 0..(Ready - 1), Live(n)
        PROVE  in_use'[SlotOf(n)] = in_use[SlotOf(n)]
    <2>1. SlotOf(n) # SlotOf(parsed_index)
      BY <1>1, <1>2, ParserApart DEF IInv, ReleaseSlot, ParserHolds
    <2>2. SlotOf(n) \in Slot
      BY SlotType
    <2> QED
      BY <1>1, <2>1, <2>2 DEF ReleaseSlot, IInv, TypeOK, ExampleType
  <1>3. SameExamples
    <2>1. UNCHANGED <<job, kind, example_counter, threads_to_finish, summed,
                      lock, used_index>>
      BY DEF ReleaseSlot
    <2>2. parsed_index <= parsed_index'
      BY <1>1
    <2> QED
      BY <1>1, <1>2, <2>1, <2>2 DEF SameExamples
  <1>4. \A j \in Thread : Finished(j)' = Finished(j)
    <2>1. ASSUME NEW j \in Thread PROVE SamePhase(j)
      BY WokenPhase DEF ReleaseSlot
    <2> QED
      BY <1>3, <2>1, SamePhaseFacts
  <1>5. WindowInv'
    <2>1. ~ParserHolds'
      BY DEF ReleaseSlot, ParserHolds
    <2> QED
      BY <1>1, <1>4, <2>1 DEF IInv, WindowInv
  <1> QED
    BY <1>3, <1>5, ParserMoves DEF ReleaseSlot

----------------------------------------------------------------------------
(* One learner moves on; the others stay in phase.                         *)

(* An example other than the one that learner works on stays as it is.     *)
LEMMA LiveElsewhere ==
  ASSUME IInv, NEW m \in 0..(Ready - 1), Live(m), used_index' = used_index,
         in_use'[SlotOf(m)] = in_use[SlotOf(m)],
         example_counter'[SlotOf(m)] = example_counter[SlotOf(m)],
         kind'[SlotOf(m)] = kind[SlotOf(m)],
         threads_to_finish'[SlotOf(m)] = threads_to_finish[SlotOf(m)],
         summed'[SlotOf(m)] = summed[SlotOf(m)],
         \A j \in Thread : used_index[j] = m + 1 => SamePhase(j)
  PROVE  LiveExample(m)'
  <1> DEFINE s == SlotOf(m)
  <1>1. LiveExample(m)
    BY DEF IInv, LiveInv
  <1>2. s' = s
    BY DEF SlotOf
  <1>3. Missing(m)' = Missing(m)
    <2>1. \A j \in Thread : used_index[j] = m + 1 =>
            (pc'[j] = "predict") = (pc[j] = "predict")
      BY DEF SamePhase
    <2> QED
      BY <2>1 DEF Missing
  <1>4. Untrained(m)' = Untrained(m)
    <2>1. \A j \in Thread : used_index[j] = m + 1 => Training(j)' = Training(j)
      BY DEF SamePhase
    <2> QED
      BY <2>1 DEF Untrained
  <1>5. ASSUME ~summed[s], kind[s] = "train", NEW i \in Thread,
               used_index[i] = m + 1
        PROVE  pc'[i] \in {"predict", "sumWait", "sumWake"}
    <2>1. pc[i] \in {"predict", "sumWait", "sumWake"} /\ SamePhase(i)
      BY <1>1, <1>5 DEF LiveExample
    <2>2. Current(i) = m
      BY <1>5 DEF Current
    <2> QED
      BY <1>5, <2>1, <2>2 DEF SamePhase
  <1>6. \A k \in Thread : used_index[k] = m + 1 =>
          (pc'[k] = "delay") = (pc[k] = "delay")
    BY DEF SamePhase
  <1>7. /\ in_use[s] /\ example_counter[s] = m + 1
        /\ ~summed[s] => threads_to_finish[s] = Cardinality(Missing(m))
        /\ ~summed[s] /\ kind[s] = "train" =>
             \A i \in Thread : used_index[i] <= m + 1
        /\ summed[s] => Missing(m) = {}
        /\ summed[s] /\ kind[s] = "train" =>
             \/ threads_to_finish[s] = Cardinality(Untrained(m))
             \/ \E k \in Thread : pc[k] = "delay" /\ used_index[k] = m + 1
    BY <1>1 DEF LiveExample
  <1> QED
    BY <1>2, <1>3, <1>4, <1>5, <1>6, <1>7 DEF LiveExample

(* What a learner in phase knows of its example stays true.                *)
LEMMA StepElsewhere ==
  ASSUME IInv, NEW j \in Thread, SamePhase(j),
         \A k \in Thread : pc[k] # "delay",
         kind' = kind, used_index' = used_index,
         Working(j) => summed'[SlotOf(Current(j))] = summed[SlotOf(Current(j))],
         pc[j] = "unlock" => lock'[ec[j]] = lock[ec[j]],
         pc[j] \in EndSteps => threads_to_finish'[SlotOf(Current(j))]
                                 = threads_to_finish[SlotOf(Current(j))],
         \A k \in Thread : /\ Finished(k) \in Nat /\ Finished(k)' \in Nat
                           /\ Finished(k) <= Finished(k)'
  PROVE  /\ AtPredict(j)' /\ AtWait(j)' /\ AtWake(j)' /\ AtDelay(j)'
         /\ AtTrain(j)' /\ AtEnd(j)' /\ AtUnlock(j)'
  <1> DEFINE s == SlotOf(Current(j))
  <1>1. SlotOf(Current(j))' = s /\ used_index[j] \in Nat
    BY DEF SlotOf, Current, IInv, TypeOK, LearnerType
  <1>2. /\ AtPredict(j) /\ AtWait(j) /\ AtWake(j) /\ AtDelay(j)
        /\ AtTrain(j) /\ AtEnd(j) /\ AtUnlock(j)
    BY DEF IInv, StepInv
  <1> /\ Training(j) => Working(j)
      /\ pc[j] \in PredictSteps \cup EndSteps => Working(j)
    BY DEF Training, Working, Busy
  <1>3. AtPredict(j)'
    BY <1>1, <1>2 DEF AtPredict, SamePhase, PredictSteps
  <1>4. AtWait(j)'
    BY <1>1, <1>2 DEF AtWait, SamePhase
  <1>5. AtWake(j)'
    BY <1>1, <1>2 DEF AtWake, SamePhase, PredictSteps
  <1>6. AtDelay(j)'
    BY DEF AtDelay, SamePhase
  <1>7. AtTrain(j)'
    BY <1>1, <1>2 DEF AtTrain, SamePhase
  <1>8. AtEnd(j)'
    <2> SUFFICES ASSUME pc[j] \in EndSteps
        PROVE  /\ summed[s] /\ threads_to_finish'[s] = 0
               /\ \A k \in Thread \ {j} : Finished(k)' >= used_index[j]
      BY <1>1 DEF AtEnd, SamePhase
    <2>1. /\ summed[s] /\ threads_to_finish[s] = 0
          /\ \A k \in Thread \ {j} : Finished(k) >= used_index[j]
      BY <1>2 DEF AtEnd
    <2> QED
      BY <1>1, <2>1
  <1>9. AtUnlock(j)'
    BY <1>2 DEF AtUnlock, SamePhase
  <1> QED
    BY <1>3, <1>4, <1>5, <1>6, <1>7, <1>8, <1>9

LEMMA OneLearnerInv ==
  ASSUME IInv, TypeOK', NEW i \in Thread,
         UNCHANGED <<job, parsed_index, Ready, ParserHolds, kind, summed, ec,
                     used_index, delayVars>>,
         ~Pending(i), pc[i] \notin {"sumWake", "delay", "return"},
         pc'[i] \notin {"command", "commandDone", "return"},
         pc'[i] \in Busy => pc[i] \in Busy,
         \A j \in Thread \ {i} :
           /\ \/ pc'[j] = pc[j]
              \/ pc[j] = "availWait" /\ pc'[j] = "exit"
           /\ pc[j] = "unlock" => lock'[ec[j]] = lock[ec[j]]
           /\ pc[j] \in EndSteps => threads_to_finish'[SlotOf(Current(j))]
                                      = threads_to_finish[SlotOf(Current(j))],
         AtPredict(i)', AtWait(i)', AtDelay(i)', AtTrain(i)', AtEnd(i)',
         AtUnlock(i)', AtWake(i)',
         \A m \in 0..(Ready - 1) : Live(m) /\ Live(m)' => LiveExample(m)',
         ParserHolds =>
           in_use'[SlotOf(parsed_index)] = in_use[SlotOf(parsed_index)]
  PROVE  IInv'
  <1>1. \A k \in Thread : pc[k] # "delay"
    BY DelayAlone
  <1>2. \A j \in Thread \ {i} : SamePhase(j)
    <2> SUFFICES ASSUME NEW j \in Thread \ {i} PROVE SamePhase(j)
      OBVIOUS
    <2>1. CASE pc'[j] = pc[j]
      BY <2>1, OtherPhase DEF delayVars
    <2>2. CASE pc[j] = "availWait" /\ pc'[j] = "exit"
      <3>1. ~Pending(j)
        BY <2>2 DEF IInv, DelayInv
      <3>2. ~Pending(j)'
        BY <3>1 DEF Pending, delayVars
      <3> QED
        BY <2>2, <3>1, <3>2, IdlePhase DEF Idle
    <2> QED
      BY <2>1, <2>2
  <1>3. Working(i)' => Working(i)
    BY DEF Working, Pending, delayVars
  <1>4. \A k \in Thread : /\ Finished(k) \in Nat /\ Finished(k)' \in Nat
                          /\ Finished(k) <= Finished(k)'
    <2>1. ASSUME NEW k \in Thread
          PROVE  /\ Finished(k) \in Nat /\ used_index[k] \in Nat
                 /\ Working(k) => used_index[k] >= 1
      BY FinishedType DEF IInv, TypeOK, LearnerType, TakenInv
    <2>2. ASSUME NEW k \in Thread PROVE Working(k)' => Working(k)
      BY <1>2, <1>3 DEF SamePhase
    <2>3. ASSUME NEW k \in Thread
          PROVE  /\ Finished(k) \in Nat /\ Finished(k)' \in Nat
                 /\ Finished(k) <= Finished(k)'
      <3>1. used_index'[k] = used_index[k]
        OBVIOUS
      <3>2. CASE Working(k)'
        BY <2>1, <2>2, <3>1, <3>2 DEF Finished
      <3>3. CASE ~Working(k)'
        BY <2>1, <3>1, <3>3 DEF Finished
      <3> QED
        BY <3>2, <3>3
    <2> QED
      BY <2>3
  <1>5. PlainInv'
    BY <1>2 DEF IInv, PlainInv, PlainJob, SamePhase
  <1>6. TakenInv'
    <2>1. \A k \in Thread : SlotOf(Current(k))' = SlotOf(Current(k))
      BY DEF SlotOf, Current
    <2>2. \A k \in Thread : Working(k)' => Working(k)
      BY <1>2, <1>3 DEF SamePhase
    <2>3. \A k \in Thread : pc'[k] \in Busy => ec'[k] = SlotOf(Current(k))'
      BY <1>2, <2>1 DEF SamePhase, IInv, TakenInv
    <2> QED
      BY <2>2, <2>3 DEF IInv, TakenInv
  <1>7. WindowInv'
    BY <1>4, <1>6, SameWindow
  <1>8. LiveInv'
    <2>1. \A m \in 0..(Ready - 1) : Live(m)' => Live(m)
      BY <1>4 DEF Live
    <2> QED
      BY <2>1 DEF LiveInv
  <1>9. StepInv'
    BY <1>1, <1>2, <1>4, StepElsewhere DEF StepInv
  <1>10. DelayInv'
    <2>1. \A j \in Thread : Pending(j) => pc[j] \in {"select", "sumWake"}
      BY DEF IInv, DelayInv
    <2>2. \A j \in Thread \ {i} :
            /\ (pc'[j] = "return") = (pc[j] = "return")
            /\ Pending(j) => pc'[j] \in {"select", "sumWake"}
      BY <2>1
    <2> QED
      BY <2>2, SameDelay
  <1> QED
    BY <1>5, <1>6, <1>7, <1>8, <1>9, <1>10 DEF IInv

(* The example of a learner that is not yet, or no longer, in the delay    *)
(* ring, seen from the other examples and the other learners.              *)
LEMMA ElsewhereApart ==
  ASSUME IInv, NEW i \in Thread, Working(i)
  PROVE  /\ \A m \in 0..(Ready - 1) : Live(m) /\ m # Current(i) =>
              /\ SlotOf(m) # SlotOf(Current(i)) /\ SlotOf(m) \in Slot
              /\ used_index[i] # m + 1
         /\ \A j \in Thread : Working(j) /\ Current(j) # Current(i) =>
              SlotOf(Current(j)) # SlotOf(Current(i))
         /\ ParserHolds => SlotOf(parsed_index) # SlotOf(Current(i))
  <1>1. /\ Current(i) \in 0..(Ready - 1) /\ Current(i) \in Nat
        /\ Live(Current(i)) /\ used_index[i] = Current(i) + 1
    BY WorkingSlot
  <1>2. ASSUME NEW m \in 0..(Ready - 1), Live(m), m # Current(i)
        PROVE  /\ SlotOf(m) # SlotOf(Current(i)) /\ SlotOf(m) \in Slot
               /\ used_index[i] # m + 1
    BY <1>1, <1>2, LiveApart, SlotType DEF IInv
  <1>3. ASSUME NEW j \in Thread, Working(j), Current(j) # Current(i)
        PROVE  SlotOf(Current(j)) # SlotOf(Current(i))
    BY <1>1, <1>2, <1>3, WorkingSlot
  <1>4. ASSUME ParserHolds PROVE SlotOf(parsed_index) # SlotOf(Current(i))
    <2>1. Current(i) < parsed_index
      BY WorkingLive DEF IInv
    <2> QED
      BY <1>1, <1>4, <2>1, ParserApart DEF IInv
  <1> QED
    BY <1>2, <1>3, <1>4

(* threads_to_finish counts down to the last learner: each one that        *)
(* contributes is missing no more, and waits if there is training to do.   *)
LEMMA ContributeInv ==
  ASSUME IInv, TypeOK', NEW i \in Thread, Contribute(i)
  PROVE  IInv'
  <1>0. Working(i)
    BY DEF Contribute, Working, Busy, PredictSteps
  <1> SUFFICES ASSUME NEW n \in Nat, n = Current(i), NEW s \in Slot, s = SlotOf(n)
               PROVE  IInv'
    BY <1>0, WorkingSlot
  <1>1. /\ pc[i] = "predict" /\ ~Pending(i) /\ ec[i] = s
        /\ ~summed[s] /\ i \in Missing(n)
        /\ threads_to_finish[s] = Cardinality(Missing(n))
    BY PredictCount DEF Contribute
  <1>2. n \in 0..(Ready - 1) /\ Live(n) /\ used_index[i] = n + 1
    BY <1>0, WorkingSlot
  <1>3. /\ UNCHANGED <<job, parsed_index, Ready, ParserHolds, kind, summed, ec,
                       used_index, delayVars>>
        /\ UNCHANGED <<in_use, example_counter, lock>>
    BY DEF Contribute, parserVars, Ready, ParserHolds
  <1>4. /\ threads_to_finish'[s] = threads_to_finish[s] - 1
        /\ \A t \in Slot \ {s} : threads_to_finish'[t] = threads_to_finish[t]
    BY <1>1 DEF Contribute, IInv, TypeOK, ExampleType
  <1>5. /\ pc'[i] = IF kind[s] = "train" THEN "sumWait" ELSE "select"
        /\ \A j \in Thread \ {i} : pc'[j] = pc[j]
    BY <1>1 DEF Contribute, WaitsForSum, Goto, IInv, TypeOK, LearnerType
  <1>6. ~Pending(i)' /\ Current(i)' = n
    BY <1>1, <1>3 DEF Pending, delayVars, Current
  <1>7. \A j \in Thread \ {i} : SamePhase(j)
    BY <1>3, <1>5, OtherPhase DEF delayVars
  <1>8. LiveExample(n)'
    <2>1. LiveExample(n)
      BY <1>2 DEF IInv, LiveInv
    <2>2. SlotOf(n)' = s
      BY DEF SlotOf
    <2>3. Missing(n)' = Missing(n) \ {i}
      BY <1>2, <1>3, <1>5 DEF Missing
    <2>4. Missing(n) \subseteq Thread
      BY DEF Missing
    <2>5. threads_to_finish'[s] = Cardinality(Missing(n)')
      BY <1>1, <1>4, <2>3, <2>4, ThreadSubset
    <2>6. ASSUME kind[s] = "train", NEW j \in Thread
          PROVE  /\ used_index[j] <= n + 1
                 /\ used_index[j] = n + 1 => pc'[j] \in {"predict", "sumWait", "sumWake"}
      BY <1>1, <1>5, <2>1, <2>6 DEF LiveExample
    <2>7. in_use[s] /\ example_counter[s] = n + 1
      BY <2>1 DEF LiveExample
    <2> QED
      BY <1>1, <1>3, <2>2, <2>5, <2>6, <2>7 DEF LiveExample
  <1>9. ASSUME NEW m \in 0..(Ready - 1), Live(m), m # n
        PROVE  LiveExample(m)'
    <2>1. SlotOf(m) # s /\ SlotOf(m) \in Slot /\ used_index[i] # m + 1
      BY <1>0, <1>9, ElsewhereApart
    <2> QED
      BY <1>3, <1>4, <1>7, <1>9, <2>1, LiveElsewhere
  <1>10. ASSUME NEW j \in Thread \ {i}, pc[j] \in EndSteps
         PROVE  threads_to_finish'[SlotOf(Current(j))]
                  = threads_to_finish[SlotOf(Current(j))]
    <2>1. Working(j)
      BY <1>10 DEF Working, Busy
    <2>2. summed[SlotOf(Current(j))] /\ SlotOf(Current(j)) \in Slot
      BY <1>10, <2>1, WorkingSlot DEF IInv, StepInv, AtEnd
    <2> QED
      BY <1>1, <1>4, <2>2
  <1>11. /\ AtPredict(i)' /\ AtWait(i)' /\ AtWake(i)' /\ AtDelay(i)'
         /\ AtTrain(i)' /\ AtEnd(i)' /\ AtUnlock(i)'
    <2>1. SlotOf(Current(i))' = s
      BY <1>6 DEF SlotOf
    <2>2. ~Training(i)'
      BY <1>5, <1>6 DEF Training, TrainSteps
    <2> QED
      BY <1>1, <1>3, <1>5, <2>1, <2>2
         DEF AtPredict, AtWait, AtWake, AtDelay, AtTrain, AtEnd, AtUnlock, EndSteps
  <1>12. pc'[i] \in Busy => pc[i] \in Busy
    BY <1>1 DEF Busy, PredictSteps
  <1>13. /\ pc[i] \notin {"sumWake", "delay", "return"}
         /\ pc'[i] \notin {"command", "commandDone", "return"}
    BY <1>1, <1>5
  <1>14. \A m \in 0..(Ready - 1) : Live(m) /\ Live(m)' => LiveExample(m)'
    BY <1>8, <1>9
  <1> QED
    BY <1>1, <1>3, <1>5, <1>10, <1>11, <1>12, <1>13, <1>14, OneLearnerInv

(* The last to train ends the example.                                     *)
LEMMA FinishExampleInv ==
  ASSUME IInv, TypeOK', NEW i \in Thread, FinishExample(i)
  PROVE  IInv'
  <1>0. Working(i) /\ pc[i] \in TrainSteps /\ pc[i] = "finish"
    BY DEF FinishExample, Working, Busy, TrainSteps
  <1> SUFFICES ASSUME NEW n \in Nat, n = Current(i), NEW s \in Slot, s = SlotOf(n)
               PROVE  IInv'
    BY <1>0, WorkingSlot
  <1>1. /\ ~Pending(i) /\ ec[i] = s /\ summed[s] /\ kind[s] = "train"
        /\ \A k \in Thread : pc[k] # "delay"
        /\ i \in Untrained(n) /\ Untrained(n) \subseteq Thread
        /\ threads_to_finish[s] = Cardinality(Untrained(n))
        /\ threads_to_finish[s] >= 1
    BY <1>0, TrainCount DEF Untrained
  <1>2. n \in 0..(Ready - 1) /\ Live(n) /\ used_index[i] = n + 1
    BY <1>0, WorkingSlot
  <1>3. /\ UNCHANGED <<job, parsed_index, Ready, ParserHolds, kind, summed, ec,
                       used_index, delayVars>>
        /\ UNCHANGED <<in_use, example_counter, lock>>
    BY DEF FinishExample, parserVars, Ready, ParserHolds
  <1>4. /\ threads_to_finish'[s] = threads_to_finish[s] - 1
        /\ \A t \in Slot \ {s} : threads_to_finish'[t] = threads_to_finish[t]
    BY <1>1 DEF FinishExample, IInv, TypeOK, ExampleType
  <1>5. /\ pc'[i] = IF threads_to_finish[s] - 1 = 0 THEN "output" ELSE "select"
        /\ \A j \in Thread \ {i} : pc'[j] = pc[j]
    BY <1>1 DEF FinishExample, Goto, IInv, TypeOK, LearnerType
  <1>6. ~Pending(i)' /\ Current(i)' = n
    BY <1>1, <1>3 DEF Pending, delayVars, Current
  <1>7. \A j \in Thread \ {i} : SamePhase(j)
    BY <1>3, <1>5, OtherPhase DEF delayVars
  <1>8. LiveExample(n)
    BY <1>2 DEF IInv, LiveInv
  <1>9. LiveExample(n)'
    <2>1. SlotOf(n)' = s
      BY DEF SlotOf
    <2>2. Missing(n)' = {}
      <3>1. Missing(n) = {}
        BY <1>1, <1>8 DEF LiveExample
      <3> QED
        BY <1>3, <1>5, <3>1 DEF Missing
    <2>3. ~Training(i)'
      BY <1>5, <1>6 DEF Training, TrainSteps
    <2>4. Untrained(n)' = Untrained(n) \ {i}
      <3>1. \A j \in Thread \ {i} : Training(j)' = Training(j)
        BY <1>7 DEF SamePhase
      <3> QED
        BY <1>3, <2>3, <3>1 DEF Untrained
    <2>5. threads_to_finish'[s] = Cardinality(Untrained(n)')
      BY <1>1, <1>4, <2>4, ThreadSubset
    <2>6. in_use[s] /\ example_counter[s] = n + 1
      BY <1>8 DEF LiveExample
    <2> QED
      BY <1>1, <1>3, <2>1, <2>2, <2>5, <2>6 DEF LiveExample
  <1>10. ASSUME NEW m \in 0..(Ready - 1), Live(m), m # n
         PROVE  LiveExample(m)'
    <2>1. SlotOf(m) # s /\ SlotOf(m) \in Slot /\ used_index[i] # m + 1
      BY <1>0, <1>10, ElsewhereApart
    <2> QED
      BY <1>3, <1>4, <1>7, <1>10, <2>1, LiveElsewhere
  <1>11. ASSUME NEW j \in Thread \ {i}, pc[j] \in EndSteps
         PROVE  /\ threads_to_finish'[SlotOf(Current(j))]
                     = threads_to_finish[SlotOf(Current(j))]
                /\ SlotOf(Current(j)) # s
    <2>1. Working(j)
      BY <1>11 DEF Working, Busy
    <2>2. threads_to_finish[SlotOf(Current(j))] = 0 /\ SlotOf(Current(j)) \in Slot
      BY <1>11, <2>1, WorkingSlot DEF IInv, StepInv, AtEnd
    <2> QED
      BY <1>1, <1>4, <2>2
  <1>12. ASSUME threads_to_finish[s] - 1 = 0, NEW j \in Thread \ {i}
         PROVE  Finished(j)' >= n + 1
    <2>1. Untrained(n) = {i}
      BY <1>1, <1>12, ThreadSubset
    <2>2. used_index[j] \in Nat /\ used_index[j] >= n + 1
      BY <1>1, <1>8 DEF LiveExample, Missing, IInv, TypeOK, LearnerType
    <2>3. ASSUME used_index[j] = n + 1 PROVE ~Working(j)
      <3>1. Current(j) = n /\ ~Training(j)
        BY <2>1, <2>3 DEF Current, Untrained
      <3>2. pc[j] \notin {"predict", "sumWait"}
        BY <1>1, <3>1 DEF IInv, StepInv, AtPredict
      <3>3. pc[j] # "sumWake"
        BY <1>1, <3>1 DEF IInv, StepInv, AtWake, Training
      <3>4. pc[j] \notin EndSteps
        BY <1>11, <3>1
      <3>5. pc[j] \notin {"command", "commandDone"}
        BY DEF IInv, PlainInv
      <3> QED
        BY <1>1, <3>1, <3>2, <3>3, <3>4, <3>5
           DEF Working, Training, Busy, PredictSteps
    <2>4. Working(j)' = Working(j) /\ used_index'[j] = used_index[j]
      BY <1>3, <1>7 DEF SamePhase
    <2> QED
      BY <2>2, <2>3, <2>4 DEF Finished
  <1>13. /\ AtPredict(i)' /\ AtWait(i)' /\ AtWake(i)' /\ AtDelay(i)'
         /\ AtTrain(i)' /\ AtEnd(i)' /\ AtUnlock(i)'
    <2>1. SlotOf(Current(i))' = s /\ used_index'[i] = n + 1
      BY <1>2, <1>3, <1>6 DEF SlotOf
    <2>2. ~Training(i)'
      BY <1>5, <1>6 DEF Training, TrainSteps
    <2>3. pc'[i] \in {"output", "select"}
      BY <1>5
    <2>4. AtEnd(i)'
      BY <1>1, <1>3, <1>4, <1>5, <1>12, <2>1 DEF AtEnd, EndSteps
    <2> QED
      BY <2>2, <2>3, <2>4 DEF AtPredict, AtWait, AtWake, AtDelay, AtTrain, AtUnlock
  <1>14. pc'[i] \in Busy => pc[i] \in Busy
    BY <1>0 DEF Busy
  <1>15. /\ pc[i] \notin {"sumWake", "delay", "return"}
         /\ pc'[i] \notin {"command", "commandDone", "return"}
    BY <1>0, <1>5
  <1>16. \A m \in 0..(Ready - 1) : Live(m) /\ Live(m)' => LiveExample(m)'
    BY <1>9, <1>10
  <1> QED
    BY <1>1, <1>3, <1>5, <1>11, <1>13, <1>14, <1>15, <1>16, OneLearnerInv

(* The slot of an example is given back when all are done with it.         *)
LEMMA FreeExampleInv ==
  ASSUME IInv, TypeOK', NEW i \in Thread, FreeExample(i)
  PROVE  IInv'
  <1>0. Working(i) /\ pc[i] \in EndSteps /\ pc[i] = "free"
    BY DEF FreeExample, Working, Busy, EndSteps
  <1> SUFFICES ASSUME NEW n \in Nat, n = Current(i), NEW s \in Slot, s = SlotOf(n)
               PROVE  IInv'
    BY <1>0, WorkingSlot
  <1>1. n \in 0..(Ready - 1) /\ Live(n) /\ used_index[i] = n + 1 /\ ec[i] = s
    BY <1>0, WorkingSlot DEF Busy
  <1>2. \A j \in Thread \ {i} : Finished(j) >= n + 1
    BY <1>0, <1>1 DEF IInv, StepInv, AtEnd
  <1>3. ~Pending(i) /\ \A k \in Thread : pc[k] # "delay"
    BY <1>0, DelayAlone DEF IInv, DelayInv, EndSteps
  <1>4. /\ UNCHANGED <<job, parsed_index, Ready, ParserHolds, kind, summed, ec,
                       used_index, delayVars>>
        /\ UNCHANGED <<example_counter, threads_to_finish, lock>>
    BY DEF FreeExample, Ready, ParserHolds
  <1>5. \A t \in Slot \ {s} : in_use'[t] = in_use[t]
    BY <1>1 DEF FreeExample, IInv, TypeOK, ExampleType
  <1>6. /\ pc'[i] = IF lock[s] = i THEN "unlock" ELSE "select"
        /\ \A j \in Thread \ {i} : pc'[j] = pc[j] \/ pc'[j] = WokenByExamples[j]
    <2>1. pc' = [IF done THEN WokenByExamples ELSE pc EXCEPT ![i] =
                   IF lock[s] = i THEN "unlock" ELSE "select"]
      BY <1>1 DEF FreeExample
    <2>2. DOMAIN pc = Thread /\ DOMAIN WokenByExamples = Thread
      BY DEF WokenByExamples, IInv, TypeOK, LearnerType
    <2>3. CASE done
      BY <2>1, <2>2, <2>3
    <2>4. CASE ~done
      BY <2>1, <2>2, <2>4
    <2> QED
      BY <2>3, <2>4
  <1>7. ~Pending(i)' /\ Current(i)' = n
    BY <1>3, <1>4 DEF Pending, delayVars, Current
  <1>8. \A j \in Thread \ {i} : SamePhase(j)
    BY <1>4, <1>6, OtherPhase, WokenPhase DEF delayVars
  <1>9. ~Live(n)'
    <2>1. Finished(i)' = n + 1
      BY <1>1, <1>4, <1>6, <1>7 DEF Finished, Working, Busy, TrainSteps,
         PredictSteps, EndSteps
    <2>2. \A j \in Thread \ {i} : Finished(j)' = Finished(j) /\ Finished(j) \in Nat
      BY <1>4, <1>8, FinishedType DEF Finished, SamePhase, IInv
    <2> QED
      BY <1>2, <2>1, <2>2 DEF Live
  <1>10. ASSUME NEW m \in 0..(Ready - 1), Live(m), m # n
         PROVE  LiveExample(m)'
    <2>1. SlotOf(m) # s /\ SlotOf(m) \in Slot /\ used_index[i] # m + 1
      BY <1>0, <1>10, ElsewhereApart
    <2> QED
      BY <1>4, <1>5, <1>8, <1>10, <2>1, LiveElsewhere
  <1>11. ParserHolds =>
           in_use'[SlotOf(parsed_index)] = in_use[SlotOf(parsed_index)]
    <2>1. SlotOf(parsed_index) \in Slot
      BY SlotType DEF IInv, TypeOK, ParserType
    <2> QED
      BY <1>0, <1>5, <2>1, ElsewhereApart
  <1>12. /\ AtPredict(i)' /\ AtWait(i)' /\ AtWake(i)' /\ AtDelay(i)'
         /\ AtTrain(i)' /\ AtEnd(i)' /\ AtUnlock(i)'
    <2>1. pc'[i] \in {"unlock", "select"} /\ ~Training(i)'
      BY <1>6, <1>7 DEF Training, TrainSteps
    <2>2. pc'[i] = "unlock" => lock'[ec'[i]] = i
      BY <1>1, <1>4, <1>6
    <2> QED
      BY <2>1, <2>2 DEF AtPredict, AtWait, AtWake, AtDelay, AtTrain, AtEnd,
         AtUnlock, EndSteps
  <1>13. \A j \in Thread \ {i} :
           \/ pc'[j] = pc[j]
           \/ pc[j] = "availWait" /\ pc'[j] = "exit"
    BY <1>6 DEF WokenByExamples
  <1>14. /\ pc'[i] \in Busy => pc[i] \in Busy
         /\ pc[i] \notin {"sumWake", "delay", "return"}
         /\ pc'[i] \notin {"command", "commandDone", "return"}
    BY <1>0, <1>6 DEF Busy
  <1>15. \A m \in 0..(Ready - 1) : Live(m) /\ Live(m)' => LiveExample(m)'
    BY <1>9, <1>10
  <1> QED
    BY <1>3, <1>4, <1>11, <1>12, <1>13, <1>14, <1>15, OneLearnerInv

(* An example is locked by one learner at most.                            *)
LEMMA UnlockInv ==
  ASSUME IInv, TypeOK', NEW i \in Thread, Unlock(i)
  PROVE  IInv'
  <1>1. /\ pc[i] = "unlock" /\ pc'[i] = "select"
        /\ \A j \in Thread \ {i} : pc'[j] = pc[j]
    BY DEF Unlock, Goto, IInv, TypeOK, LearnerType
  <1>2. ~Pending(i) /\ \A k \in Thread : pc[k] # "delay"
    BY <1>1, DelayAlone DEF IInv, DelayInv
  <1>3. /\ UNCHANGED <<job, parsed_index, Ready, ParserHolds, kind, summed, ec,
                       used_index, delayVars>>
        /\ UNCHANGED <<in_use, example_counter, threads_to_finish>>
    BY DEF Unlock, parserVars, Ready, ParserHolds
  <1>4. /\ ec[i] \in Slot /\ lock[ec[i]] = i
        /\ \A t \in Slot \ {ec[i]} : lock'[t] = lock[t]
    BY <1>1 DEF Unlock, IInv, TypeOK, LearnerType, ExampleType, StepInv, AtUnlock
  <1>5. ASSUME NEW j \in Thread \ {i}, pc[j] = "unlock"
        PROVE  lock'[ec[j]] = lock[ec[j]]
    <2>1. ec[j] \in Slot /\ lock[ec[j]] = j
      BY <1>5 DEF IInv, TypeOK, LearnerType, StepInv, AtUnlock
    <2> QED
      BY <1>4, <1>5, <2>1
  <1>6. ASSUME NEW m \in 0..(Ready - 1), Live(m) PROVE LiveExample(m)'
    <2>1. LiveExample(m)
      BY <1>6 DEF IInv, LiveInv
    <2>2. /\ \A j \in Thread : (pc'[j] = "predict") = (pc[j] = "predict")
          /\ \A j \in Thread : (pc'[j] = "delay") = (pc[j] = "delay")
          /\ \A j \in Thread : pc[j] \in {"predict", "sumWait", "sumWake"}
                              => pc'[j] = pc[j]
      BY <1>1
    <2>3. \A j \in Thread : Training(j)' <=> Training(j)
      BY <1>1, <1>3 DEF Training, Pending, delayVars, TrainSteps
    <2>4. Missing(m)' = Missing(m) /\ Untrained(m)' = Untrained(m)
      BY <1>3, <2>2, <2>3 DEF Missing, Untrained
    <2>5. SlotOf(m)' = SlotOf(m)
      BY DEF SlotOf
    <2> QED
      BY <1>3, <2>1, <2>2, <2>4, <2>5 DEF LiveExample
  <1>7. ~Training(i)'
    BY <1>1, <1>2, <1>3 DEF Training, Pending, delayVars, TrainSteps
  <1>8. /\ AtPredict(i)' /\ AtWait(i)' /\ AtWake(i)' /\ AtDelay(i)'
        /\ AtTrain(i)' /\ AtEnd(i)' /\ AtUnlock(i)'
    BY <1>1, <1>7 DEF AtPredict, AtWait, AtWake, AtDelay, AtTrain, AtEnd,
       AtUnlock, EndSteps
  <1>9. pc'[i] \notin Busy
    BY <1>1 DEF Busy, TrainSteps, PredictSteps, EndSteps
  <1> QED
    BY <1>1, <1>2, <1>3, <1>5, <1>6, <1>8, <1>9, OneLearnerInv

----------------------------------------------------------------------------
(* The life of an example, in order: first the parser fills its slot.      *)
LEMMA ParseExampleInv ==
  ASSUME IInv, TypeOK', ParseExample
  PROVE  IInv'
  <1> SUFFICES ASSUME NEW n \in Nat, n = parsed_index,
                      NEW s \in Slot, s = SlotOf(n)
               PROVE  IInv'
    BY SlotType DEF IInv, TypeOK, ParserType
  <1>1. /\ UNCHANGED <<job, parsed_index, in_use, lock, learnerVars, delayVars>>
        /\ Ready = n /\ Ready' = n + 1 /\ ParserHolds /\ ParserHolds'
    BY DEF ParseExample, Ready, ParserHolds
  <1>2. /\ kind'[s] = job.source[read_pos] /\ example_counter'[s] = n + 1
        /\ threads_to_finish'[s] = Cardinality(Thread) /\ ~summed'[s]
        /\ \A t \in Slot \ {s} :
             /\ kind'[t] = kind[t] /\ example_counter'[t] = example_counter[t]
             /\ threads_to_finish'[t] = threads_to_finish[t]
             /\ summed'[t] = summed[t]
    BY DEF ParseExample, IInv, TypeOK, ExampleType
  <1>3. UNCHANGED <<pc, ec, used_index>>
    BY <1>1 DEF learnerVars
  <1>4. \A j \in Thread :
          /\ SamePhase(j) /\ Pending(j)' = Pending(j)
          /\ Finished(j)' = Finished(j) /\ Finished(j) \in Nat
          /\ used_index[j] \in Nat /\ used_index[j] <= n
    <2>1. ASSUME NEW j \in Thread PROVE SamePhase(j) /\ Pending(j)' = Pending(j)
      BY <1>1, <1>3, OtherPhase DEF delayVars, Pending
    <2>2. ASSUME NEW j \in Thread
          PROVE  Finished(j)' = Finished(j) /\ Finished(j) \in Nat
      BY <1>3, <2>1, FinishedType DEF IInv, SamePhase, Finished
    <2> QED
      BY <2>1, <2>2 DEF IInv, TakenInv, TypeOK, LearnerType
  <1>5. PlainInv'
    <2>1. job.source[read_pos] \in {"train", "test"}
      <3>1. read_pos \in DOMAIN job.source /\ job.source \in Seq(Kinds)
        BY PipelineAssumption DEF ParseExample, IInv, TypeOK, ParserType, Job
      <3> QED
        BY <3>1 DEF ParseExample, IInv, PlainInv, PlainJob, Kinds
    <2> QED
      BY <1>1, <1>2, <1>3, <2>1 DEF IInv, PlainInv, PlainJob
  <1>6. TakenInv'
    BY <1>1, <1>3, <1>4 DEF IInv, TakenInv, SamePhase, SlotOf, Current
  <1>7. WindowInv'
    BY <1>1, <1>4, <1>6, SameWindow
  <1>8. LiveInv'
    <2> SUFFICES ASSUME NEW m \in 0..n, Live(m)' PROVE LiveExample(m)'
      BY <1>1 DEF LiveInv
    <2>1. Live(m)
      BY <1>4 DEF Live
    <2>2. CASE m < n
      <3>1. SlotOf(m) \in Slot \ {s}
        BY <1>1, <2>1, <2>2, ParserApart, SlotType DEF IInv
      <3>2. m \in 0..(Ready - 1)
        BY <1>1, <2>2
      <3> QED
        BY <1>1, <1>2, <1>3, <1>4, <2>1, <3>1, <3>2, LiveElsewhere
    <2>3. CASE m = n
      <3>1. SlotOf(m)' = s /\ in_use'[s]
        BY <1>1, <2>3 DEF SlotOf, IInv, WindowInv
      <3>2. Missing(m)' = Thread
        BY <1>3, <1>4, <2>3 DEF Missing
      <3> QED
        BY <1>2, <1>3, <1>4, <2>3, <3>1, <3>2 DEF LiveExample
    <2> QED
      BY <2>2, <2>3
  <1>9. StepInv'
    <2> SUFFICES ASSUME NEW j \in Thread
                 PROVE  /\ AtPredict(j)' /\ AtWait(j)' /\ AtWake(j)' /\ AtDelay(j)'
                        /\ AtTrain(j)' /\ AtEnd(j)' /\ AtUnlock(j)'
      BY DEF StepInv
    <2>1. /\ AtPredict(j) /\ AtWait(j) /\ AtWake(j) /\ AtDelay(j)
          /\ AtTrain(j) /\ AtEnd(j) /\ AtUnlock(j)
      BY DEF IInv, StepInv
    <2>2. /\ SlotOf(Current(j))' = SlotOf(Current(j)) /\ lock' = lock
          /\ Training(j)' = Training(j)
      BY <1>1, <1>3, <1>4 DEF SlotOf, Current, SamePhase
    <2>3. Working(j) => LET t == SlotOf(Current(j)) IN
            /\ kind'[t] = kind[t] /\ summed'[t] = summed[t]
            /\ threads_to_finish'[t] = threads_to_finish[t]
      <3>1. Working(j) => SlotOf(Current(j)) \in Slot \ {s}
        BY <1>1, WorkingSlot, ElsewhereApart
      <3> QED
        BY <1>2, <3>1
    <2>4. /\ Training(j) => Working(j)
          /\ pc[j] \in PredictSteps \cup EndSteps => Working(j)
      BY DEF Training, Working, Busy
    <2> QED
      BY <1>3, <1>4, <2>1, <2>2, <2>3, <2>4
         DEF AtPredict, AtWait, AtWake, AtDelay, AtTrain, AtEnd, AtUnlock,
             PredictSteps
  <1>10. DelayInv'
    <2>1. \A j \in Thread : Pending(j) => pc[j] \in {"select", "sumWake"}
      BY DEF IInv, DelayInv
    <2> QED
      BY <1>1, <1>3, <2>1, SameDelay
  <1> QED
    BY <1>5, <1>6, <1>7, <1>8, <1>9, <1>10 DEF IInv

(* Then each learner takes it.                                             *)
LEMMA GetExampleInv ==
  ASSUME IInv, TypeOK', NEW i \in Thread, GetExample(i)
  PROVE  IInv'
  <1> SUFFICES ASSUME NEW n \in Nat, n = used_index[i],
                      NEW s \in Slot, s = SlotOf(n)
               PROVE  IInv'
    BY SlotType DEF IInv, TypeOK, LearnerType
  <1>1. /\ pc[i] = "get" /\ ~Pending(i) /\ n < parsed_index
        /\ \A k \in Thread : pc[k] # "delay"
    BY DelayAlone DEF GetExample, IInv, TakenInv, DelayInv, TypeOK, ParserType
  <1>2. /\ UNCHANGED <<parserVars, exampleVars, delayVars>>
        /\ UNCHANGED <<job, parsed_index, Ready, ParserHolds>>
        /\ UNCHANGED <<in_use, kind, example_counter, threads_to_finish, summed,
                       lock>>
    BY DEF GetExample, parserVars, exampleVars, Ready, ParserHolds
  <1>3. Finished(i) = n /\ Live(n) /\ LiveExample(n) /\ i \in Missing(n)
    <2>1. Finished(i) = n
      BY <1>1 DEF Finished, Working, Busy, TrainSteps, PredictSteps, EndSteps
    <2>2. n \in 0..(Ready - 1) /\ Live(n)
      BY <1>1, <2>1 DEF Live, Ready, IInv, TypeOK, ParserType
    <2> QED
      BY <2>1, <2>2 DEF IInv, LiveInv, Missing
  <1>4. kind[s] \in {"train", "test"} /\ ~summed[s]
    BY <1>3 DEF LiveExample, IInv, PlainInv
  <1>5. /\ pc'[i] = "predict" /\ ec'[i] = s /\ used_index'[i] = n + 1
        /\ \A j \in Thread \ {i} : /\ pc'[j] = pc[j] /\ ec'[j] = ec[j]
                                   /\ used_index'[j] = used_index[j]
    BY <1>4 DEF GetExample, Goto, IInv, TypeOK, LearnerType
  <1>6. \A j \in Thread : Pending(j)' = Pending(j)
    BY <1>2 DEF Pending, delayVars
  <1>7. \A j \in Thread \ {i} : SamePhase(j) /\ Current(j)' = Current(j)
    BY <1>2, <1>5, OtherPhase DEF delayVars, Current
  <1>8. Current(i)' = n /\ Working(i)' /\ ~Training(i)' /\ ~Training(i)
    BY <1>1, <1>5, <1>6 DEF Current, Working, Training, Busy, PredictSteps, TrainSteps
  <1>9. \A j \in Thread : Finished(j)' = Finished(j) /\ Finished(j) \in Nat
    <2>1. Finished(i)' = n
      BY <1>5, <1>8 DEF Finished
    <2> QED
      BY <1>3, <1>5, <1>7, <2>1, FinishedType DEF Finished, SamePhase, IInv
  <1>10. PlainInv'
    BY <1>2, <1>5 DEF IInv, PlainInv, PlainJob
  <1>11. TakenInv'
    <2>1. ASSUME NEW j \in Thread \ {i}
          PROVE  pc'[j] \in Busy => ec'[j] = SlotOf(Current(j))'
      BY <1>7, <2>1 DEF SamePhase, SlotOf
    <2>2. ec'[i] = SlotOf(Current(i))'
      BY <1>5, <1>8 DEF SlotOf
    <2>3. parsed_index \in Nat /\ \A j \in Thread : used_index[j] \in Nat
      BY DEF IInv, TypeOK, ParserType, LearnerType
    <2> QED
      BY <1>1, <1>2, <1>5, <1>7, <2>1, <2>2, <2>3 DEF IInv, TakenInv, SamePhase
  <1>12. WindowInv'
    BY <1>2, <1>9, <1>11, SameWindow
  <1>13. LiveInv'
    <2> SUFFICES ASSUME NEW m \in 0..(Ready - 1), Live(m) PROVE LiveExample(m)'
      BY <1>2, <1>9 DEF LiveInv, Live
    <2>1. LiveExample(m) /\ SlotOf(m)' = SlotOf(m)
      BY DEF IInv, LiveInv, SlotOf
    <2>2. Missing(m)' = Missing(m)
      <3>1. \A j \in Thread :
              (used_index'[j] <= m \/ (used_index'[j] = m + 1 /\ pc'[j] = "predict"))
              <=> (used_index[j] <= m \/ (used_index[j] = m + 1 /\ pc[j] = "predict"))
        BY <1>1, <1>5
      <3> QED
        BY <3>1 DEF Missing
    <2>3. Untrained(m)' = Untrained(m)
      <3>1. \A j \in Thread : (used_index'[j] = m + 1 /\ Training(j)')
                           <=> (used_index[j] = m + 1 /\ Training(j))
        BY <1>5, <1>7, <1>8 DEF SamePhase
      <3> QED
        BY <3>1 DEF Untrained
    <2>4. ASSUME ~summed[SlotOf(m)], kind[SlotOf(m)] = "train", NEW j \in Thread
          PROVE  /\ used_index'[j] <= m + 1
                 /\ used_index'[j] = m + 1 =>
                      pc'[j] \in {"predict", "sumWait", "sumWake"}
      BY <1>1, <1>5, <2>1, <2>4 DEF LiveExample
    <2>5. summed[SlotOf(m)] /\ kind[SlotOf(m)] = "train" =>
            threads_to_finish[SlotOf(m)] = Cardinality(Untrained(m))
      BY <1>1, <2>1 DEF LiveExample
    <2> QED
      BY <1>2, <2>1, <2>2, <2>3, <2>4, <2>5 DEF LiveExample
  <1>14. StepInv'
    <2>1. ASSUME NEW j \in Thread \ {i}
          PROVE  /\ AtPredict(j)' /\ AtWait(j)' /\ AtWake(j)' /\ AtDelay(j)'
                 /\ AtTrain(j)' /\ AtEnd(j)' /\ AtUnlock(j)'
      <3>1. /\ AtPredict(j) /\ AtWait(j) /\ AtWake(j) /\ AtDelay(j)
            /\ AtTrain(j) /\ AtEnd(j) /\ AtUnlock(j)
        BY DEF IInv, StepInv
      <3>2. SlotOf(Current(j))' = SlotOf(Current(j)) /\ Training(j)' = Training(j)
        BY <1>7 DEF SlotOf, SamePhase
      <3> QED
        BY <1>1, <1>2, <1>5, <1>6, <1>9, <3>1, <3>2
           DEF AtPredict, AtWait, AtWake, AtDelay, AtTrain, AtEnd, AtUnlock
    <2>2. /\ AtPredict(i)' /\ AtWait(i)' /\ AtWake(i)' /\ AtDelay(i)'
          /\ AtTrain(i)' /\ AtEnd(i)' /\ AtUnlock(i)'
      <3>1. SlotOf(Current(i))' = s
        BY <1>8 DEF SlotOf
      <3> QED
        BY <1>2, <1>4, <1>5, <1>8, <3>1
           DEF AtPredict, AtWait, AtWake, AtDelay, AtTrain, AtEnd, AtUnlock, EndSteps
    <2> QED
      BY <2>1, <2>2 DEF StepInv
  <1>15. DelayInv'
    <2>1. \A j \in Thread : Pending(j) => pc[j] \in {"select", "sumWake"}
      BY DEF IInv, DelayInv
    <2>2. \A j \in Unfetched : used_index'[j] = used_index[j]
      BY <1>1, <1>5 DEF Unfetched
    <2> QED
      BY <1>1, <1>2, <1>5, <2>1, <2>2, SameDelay
  <1> QED
    BY <1>10, <1>11, <1>12, <1>13, <1>14, <1>15 DEF IInv

(* The last learner completes the sum.  Without training to do it has the  *)
(* example for itself; otherwise all the others wait for the sum.          *)
LEMMA CompleteSumInv ==
  ASSUME IInv, TypeOK', NEW i \in Thread, CompleteSum(i)
  PROVE  IInv'
  <1>0. Working(i)
    BY DEF CompleteSum, Working, Busy, PredictSteps
  <1> SUFFICES ASSUME NEW n \in Nat, n = Current(i), NEW s \in Slot, s = SlotOf(n)
               PROVE  IInv'
    BY <1>0, WorkingSlot
  <1>1. /\ pc[i] = "predict" /\ ~Pending(i) /\ ec[i] = s /\ ~summed[s]
        /\ \A k \in Thread : pc[k] # "delay"
    BY PredictCount, DelayAlone DEF CompleteSum
  <1>2. /\ n \in 0..(Ready - 1) /\ Live(n) /\ used_index[i] = n + 1
        /\ LiveExample(n)
    BY <1>0, WorkingSlot DEF IInv, LiveInv
  <1>3. Missing(n) = {i}
    <2>1. /\ Cardinality(Missing(n)) = 1 /\ i \in Missing(n)
          /\ Missing(n) \subseteq Thread
      BY <1>1, PredictCount DEF CompleteSum, Missing
    <2> QED
      BY <2>1, ThreadSubset
  <1>4. \A j \in Thread \ {i} :
          /\ used_index[j] \in Nat /\ used_index[j] >= n + 1
          /\ used_index[j] = n + 1 => pc[j] # "predict"
    BY <1>3 DEF Missing, IInv, TypeOK, LearnerType
  <1>5. kind[s] \in {"train", "test"} /\ ~job.active_simulation
    BY DEF IInv, PlainInv, PlainJob
  <1>6. /\ UNCHANGED <<job, parsed_index, Ready, ParserHolds, kind, ec,
                       used_index, delayVars>>
        /\ UNCHANGED <<in_use, example_counter>>
    BY <1>5 DEF CompleteSum, parserVars, Ready, ParserHolds
  <1>7. /\ threads_to_finish'[s] = 0 /\ summed'[s] /\ lock'[s] = i
        /\ \A t \in Slot \ {s} :
             /\ threads_to_finish'[t] = threads_to_finish[t]
             /\ summed'[t] = summed[t] /\ lock'[t] = lock[t]
    BY <1>1 DEF CompleteSum, IInv, TypeOK, ExampleType
  <1>8. /\ pc'[i] = IF kind[s] = "train" THEN "delay" ELSE "output"
        /\ \A j \in Thread \ {i} :
             pc'[j] = IF pc[j] = "sumWait" /\ ec[j] = s THEN "sumWake" ELSE pc[j]
    BY <1>1, <1>6 DEF CompleteSum
  <1>9. \A j \in Thread : Pending(j)' = Pending(j) /\ Current(j)' = Current(j)
    BY <1>6 DEF Pending, delayVars, Current
  <1>10. \A j \in Thread : Working(j)' = Working(j)
    BY <1>1, <1>8, <1>9 DEF Working, Busy, PredictSteps, EndSteps
  <1>11. \A j \in Thread : Finished(j)' = Finished(j) /\ Finished(j) \in Nat
    BY <1>6, <1>10, FinishedType DEF Finished, IInv
  <1>12. ASSUME NEW j \in Thread, Working(j), used_index[j] # n + 1
         PROVE  Current(j) # n /\ SlotOf(Current(j)) \in Slot \ {s}
    BY <1>0, <1>12, WorkingSlot, ElsewhereApart
  <1>13. ASSUME NEW j \in Thread, used_index[j] # n + 1
         PROVE  pc'[j] = pc[j] /\ SamePhase(j)
    <2>1. ~(pc[j] = "sumWait" /\ ec[j] = s)
      BY <1>12, <1>13 DEF Working, Busy, PredictSteps, IInv, TakenInv
    <2>2. pc'[j] = pc[j]
      BY <1>2, <1>8, <1>13, <2>1
    <2> QED
      BY <1>6, <2>2, OtherPhase DEF delayVars
  <1>14. PlainInv'
    BY <1>6, <1>8 DEF IInv, PlainInv, PlainJob
  <1>15. TakenInv'
    <2>1. ASSUME NEW j \in Thread, pc'[j] \in Busy
          PROVE  ec'[j] = SlotOf(Current(j))'
      <3>1. pc[j] \in Busy
        BY <1>1, <1>8, <2>1 DEF Busy, PredictSteps
      <3>2. ec[j] = SlotOf(Current(j))
        BY <3>1 DEF IInv, TakenInv
      <3> QED
        BY <1>6, <1>9, <3>2 DEF SlotOf
    <2> QED
      BY <1>6, <1>10, <2>1 DEF IInv, TakenInv
  <1>16. WindowInv'
    BY <1>6, <1>11, <1>15, SameWindow
  <1>17. DelayInv'
    <2>1. \A j \in Thread : Pending(j) => pc[j] \in {"select", "sumWake"}
      BY DEF IInv, DelayInv
    <2>2. \A j \in Thread :
            /\ (pc'[j] = "return") = (pc[j] = "return")
            /\ Pending(j) => pc'[j] \in {"select", "sumWake"}
      BY <1>1, <1>8, <2>1
    <2> QED
      BY <1>6, <2>2, SameDelay
  <1>18. ASSUME NEW m \in 0..(Ready - 1), Live(m), m # n
         PROVE  LiveExample(m)'
    <2>1. SlotOf(m) \in Slot \ {s}
      BY <1>0, <1>18, ElsewhereApart
    <2>2. \A j \in Thread : used_index[j] = m + 1 => SamePhase(j)
      BY <1>13, <1>18
    <2> QED
      BY <1>6, <1>7, <1>18, <2>1, <2>2, LiveElsewhere
  <1>19. /\ in_use'[s] /\ example_counter'[s] = n + 1 /\ SlotOf(n)' = s
         /\ Missing(n)' = {}
    <2>1. in_use[s] /\ example_counter[s] = n + 1
      BY <1>2 DEF LiveExample
    <2>2. \A j \in Thread :
            /\ used_index'[j] >= n + 1 /\ used_index'[j] \in Nat
            /\ used_index'[j] = n + 1 => pc'[j] # "predict"
      BY <1>2, <1>4, <1>6, <1>8
    <2> QED
      BY <1>6, <2>1, <2>2 DEF Missing, SlotOf
  <1>20. CASE kind[s] = "train"
    <2>1. ASSUME NEW j \in Thread \ {i}
          PROVE  /\ used_index[j] = n + 1 /\ ~Pending(j) /\ pc'[j] = "sumWake"
      <3>1. used_index[j] = n + 1 /\ pc[j] \in {"sumWait", "sumWake"}
        BY <1>1, <1>2, <1>4, <1>20 DEF LiveExample
      <3>2. Current(j) = n /\ ec[j] = s
        BY <3>1 DEF Current, IInv, TakenInv, Busy, PredictSteps
      <3>3. ~Pending(j)
        BY <1>1, <3>2 DEF IInv, StepInv, AtTrain, Training
      <3> QED
        BY <1>8, <3>1, <3>2, <3>3
    <2>2. LiveExample(n)'
      BY <1>2, <1>6, <1>7, <1>8, <1>19, <1>20 DEF LiveExample
    <2>3. StepInv'
      <3> SUFFICES ASSUME NEW j \in Thread
                   PROVE  /\ AtPredict(j)' /\ AtWait(j)' /\ AtWake(j)' /\ AtDelay(j)'
                          /\ AtTrain(j)' /\ AtEnd(j)' /\ AtUnlock(j)'
        BY DEF StepInv
      <3>1. /\ SlotOf(Current(j))' = s /\ used_index'[j] = n + 1
            /\ pc'[j] \in {"sumWake", "delay"} /\ pc'[i] = "delay"
            /\ pc'[j] = "delay" => j = i
        BY <1>2, <1>6, <1>8, <1>20, <2>1 DEF SlotOf, Current
      <3>2. ~Training(j)' /\ \A k \in Thread : ~Pending(k)'
        BY <1>1, <1>9, <2>1, <3>1 DEF Training, TrainSteps
      <3>3. AtDelay(j)'
        BY <1>2, <1>6, <1>7, <2>1, <3>1, <3>2 DEF AtDelay
      <3>4. AtWait(j)'
        BY <1>6, <1>20, <3>1 DEF AtWait
      <3>5. AtWake(j)'
        BY <1>2, <1>6, <3>1 DEF AtWake
      <3> QED
        BY <3>1, <3>2, <3>3, <3>4, <3>5
           DEF AtPredict, AtTrain, AtEnd, AtUnlock, EndSteps
    <2> QED
      BY <1>6, <1>11, <1>14, <1>15, <1>16, <1>17, <1>18, <2>2, <2>3
         DEF IInv, LiveInv, Live
  <1>21. CASE kind[s] = "test"
    <2>1. ASSUME NEW j \in Thread \ {i}, Working(j) PROVE used_index[j] # n + 1
      <3> SUFFICES ASSUME used_index[j] = n + 1 PROVE FALSE
        OBVIOUS
      <3>1. Current(j) = n
        BY DEF Current
      <3>2. ~Training(j) /\ pc[j] \notin {"sumWait", "sumWake"}
        BY <1>1, <1>21, <3>1 DEF IInv, StepInv, AtTrain, AtWait
      <3>3. pc[j] \notin EndSteps
        BY <1>1, <3>1 DEF IInv, StepInv, AtEnd
      <3>4. pc[j] \notin {"command", "commandDone", "predict"}
        BY <1>4 DEF IInv, PlainInv
      <3> QED
        BY <1>1, <2>1, <3>2, <3>3, <3>4 DEF Working, Training, Busy, PredictSteps
    <2>2. ASSUME NEW j \in Thread \ {i}
          PROVE  /\ pc'[j] = pc[j] /\ SamePhase(j) /\ Finished(j) >= n + 1
                 /\ Working(j) => SlotOf(Current(j)) \in Slot \ {s}
      <3>1. ~(pc[j] = "sumWait" /\ ec[j] = s)
        BY <1>12, <2>1 DEF Working, Busy, PredictSteps, IInv, TakenInv
      <3>2. pc'[j] = pc[j]
        BY <1>8, <3>1
      <3>3. SamePhase(j)
        BY <1>6, <3>2, OtherPhase DEF delayVars
      <3>4. Finished(j) >= n + 1
        BY <1>4, <2>1 DEF Finished
      <3> QED
        BY <1>12, <2>1, <3>2, <3>3, <3>4
    <2>3. LiveExample(n)'
      BY <1>6, <1>7, <1>19, <1>21 DEF LiveExample
    <2>4. ASSUME NEW j \in Thread \ {i}
          PROVE  /\ AtPredict(j)' /\ AtWait(j)' /\ AtWake(j)' /\ AtDelay(j)'
                 /\ AtTrain(j)' /\ AtEnd(j)' /\ AtUnlock(j)'
      <3>1. pc[j] = "unlock" => lock'[ec[j]] = lock[ec[j]]
        <4>1. pc[j] = "unlock" => ec[j] \in Slot /\ lock[ec[j]] = j
          BY DEF IInv, TypeOK, LearnerType, StepInv, AtUnlock
        <4>2. lock[s] = Nobody
          BY <1>1 DEF CompleteSum
        <4> QED
          BY <1>7, <4>1, <4>2, PipelineAssumption
      <3>2. pc[j] \in EndSteps => Working(j)
        BY DEF Working, Busy
      <3> QED
        BY <1>1, <1>6, <1>7, <1>11, <2>2, <3>1, <3>2, StepElsewhere
    <2>5. /\ AtPredict(i)' /\ AtWait(i)' /\ AtWake(i)' /\ AtDelay(i)'
          /\ AtTrain(i)' /\ AtEnd(i)' /\ AtUnlock(i)'
      <3>1. /\ pc'[i] = "output" /\ SlotOf(Current(i))' = s
            /\ used_index'[i] = n + 1
        BY <1>2, <1>6, <1>8, <1>9, <1>21 DEF SlotOf
      <3>2. ~Training(i)'
        BY <1>1, <1>9, <3>1 DEF Training, TrainSteps
      <3>3. AtEnd(i)'
        BY <1>7, <1>11, <2>2, <3>1 DEF AtEnd
      <3> QED
        BY <3>1, <3>2, <3>3 DEF AtPredict, AtWait, AtWake, AtDelay, AtTrain, AtUnlock
    <2>6. StepInv'
      BY <2>4, <2>5 DEF StepInv
    <2> QED
      BY <1>6, <1>11, <1>14, <1>15, <1>16, <1>17, <1>18, <2>3, <2>6
         DEF IInv, LiveInv, Live
  <1> QED
    BY <1>5, <1>20, <1>21

(* All are waiting when the example enters the delay ring, which is empty. *)
LEMMA DelayExampleInv ==
  ASSUME IInv, TypeOK', NEW i \in Thread, DelayExample(i)
  PROVE  IInv'
  <1>0. Working(i) /\ pc[i] = "delay" /\ pc[i] \in Busy
    BY DEF DelayExample, Working, Busy, PredictSteps
  <1> SUFFICES ASSUME NEW n \in Nat, n = Current(i), NEW s \in Slot, s = SlotOf(n)
               PROVE  IInv'
    BY <1>0, WorkingSlot
  <1> DEFINE index == SlotOf(local_index)
  <1>1. /\ n \in 0..(Ready - 1) /\ Live(n) /\ LiveExample(n) /\ ec[i] = s
    BY <1>0, WorkingSlot DEF IInv, LiveInv
  <1>2. summed[s] /\ kind[s] = "train" /\ \A j \in Thread : ~Pending(j)
    BY <1>0 DEF IInv, StepInv, AtDelay, AtWait
  <1>3. \A j \in Thread :
          /\ used_index[j] = n + 1 /\ Current(j) = n
          /\ pc[j] = IF j = i THEN "delay" ELSE "sumWake"
    BY <1>0, WorkingSlot, DelayAlone DEF Current
  <1>4. /\ UNCHANGED <<job, parsed_index, Ready, ParserHolds, kind, summed, ec,
                       used_index, delay_indices>>
        /\ UNCHANGED <<in_use, example_counter>>
    BY DEF DelayExample, parserVars, Ready, ParserHolds
  <1>5. /\ threads_to_finish'[s] = Cardinality(Thread)
        /\ \A t \in Slot \ {s} : threads_to_finish'[t] = threads_to_finish[t]
    BY <1>1 DEF DelayExample, DelayCount, IInv, TypeOK, ExampleType
  <1>6. \A j \in Thread : pc'[j] = IF j = i THEN "select" ELSE "sumWake"
    BY <1>3 DEF DelayExample, Goto, IInv, TypeOK, LearnerType
  <1>7. /\ local_index \in Nat /\ local_index' = local_index + 1
        /\ index \in Slot /\ SlotOf(local_index - 1)' = index
        /\ \A j \in Thread : delay_indices[j] = local_index
    BY <1>2, SlotType DEF DelayExample, Pending, SlotOf, IInv, TypeOK, DelayType
  <1>8. \A j \in Thread :
          /\ Pending(j)' /\ Current(j)' = n /\ SlotOf(Current(j))' = s
    BY <1>3, <1>4, <1>7 DEF Pending, Current, SlotOf
  <1>9. \A j \in Thread : Finished(j)' = n /\ Finished(j) = n
    BY <1>3, <1>4, <1>8 DEF Finished, Working, Busy, PredictSteps
  <1>10. PlainInv'
    BY <1>4, <1>6 DEF IInv, PlainInv, PlainJob
  <1>11. TakenInv'
    <2>1. \A j \in Thread : ec[j] = s
      BY <1>3 DEF IInv, TakenInv, Busy, PredictSteps
    <2> QED
      BY <1>3, <1>4, <1>8, <2>1 DEF IInv, TakenInv
  <1>12. WindowInv'
    BY <1>4, <1>9, <1>11, SameWindow
  <1>13. LiveExample(n)'
    <2>1. in_use[s] /\ example_counter[s] = n + 1
      BY <1>1 DEF LiveExample
    <2>2. Missing(n)' = {}
      BY <1>3, <1>4, <1>6 DEF Missing
    <2>3. Untrained(n)' = Thread
      BY <1>3, <1>4, <1>8 DEF Untrained, Training
    <2>4. SlotOf(n)' = s
      BY DEF SlotOf
    <2> QED
      BY <1>2, <1>4, <1>5, <2>1, <2>2, <2>3, <2>4 DEF LiveExample
  <1>14. ASSUME NEW m \in 0..(Ready - 1), Live(m), m # n
         PROVE  LiveExample(m)'
    <2>1. SlotOf(m) \in Slot \ {s}
      BY <1>0, <1>14, ElsewhereApart
    <2>2. \A j \in Thread : used_index[j] # m + 1
      BY <1>3, <1>14
    <2> QED
      BY <1>4, <1>5, <1>14, <2>1, <2>2, LiveElsewhere
  <1>15. LiveInv'
    BY <1>4, <1>9, <1>13, <1>14 DEF LiveInv, Live
  <1>16. StepInv'
    <2> SUFFICES ASSUME NEW j \in Thread
                 PROVE  /\ AtPredict(j)' /\ AtWait(j)' /\ AtWake(j)' /\ AtDelay(j)'
                        /\ AtTrain(j)' /\ AtEnd(j)' /\ AtUnlock(j)'
      BY DEF StepInv
    <2>1. pc'[j] \in {"select", "sumWake"}
      BY <1>6
    <2> QED
      BY <1>2, <1>4, <1>8, <2>1
         DEF AtPredict, AtWait, AtWake, AtDelay, AtTrain, AtEnd, AtUnlock, EndSteps
  <1>17. DelayInv'
    <2>1. Unfetched = {} /\ Unfetched' = Thread
      BY <1>2, <1>3, <1>8 DEF Unfetched
    <2>2. \A t \in Slot : delay_ring[t] = NULL
      BY <2>1 DEF IInv, DelayInv
    <2>3. /\ delay_ring'[index] = s /\ threads_to_use'[index] = Cardinality(Thread)
          /\ \A t \in Slot \ {index} : delay_ring'[t] = NULL
      BY <1>1, <1>7, <2>2 DEF DelayExample, DelayCount, IInv, TypeOK, DelayType
    <2>4. \A j \in Thread :
            /\ pc'[j] \in {"select", "sumWake"}
            /\ delay_indices'[j] + 1 = local_index'
      BY <1>4, <1>6, <1>7
    <2>5. \A j \in Thread :
            /\ delay_ring'[SlotOf(local_index - 1)'] = SlotOf(Current(j))'
            /\ threads_to_use'[SlotOf(local_index - 1)'] = Cardinality(Thread)
      BY <1>7, <1>8, <2>3
    <2>6. \A t \in Slot : delay_ring'[t] # NULL =>
            Unfetched' # {} /\ t = SlotOf(local_index - 1)'
      BY <1>7, <2>1, <2>3, PipelineAssumption
    <2> QED
      BY <2>1, <2>4, <2>5, <2>6 DEF DelayInv
  <1> QED
    BY <1>10, <1>11, <1>12, <1>15, <1>16, <1>17 DEF IInv

----------------------------------------------------------------------------
(* IInv is inductive.                                                      *)
LEMMA InitInv ==
  ASSUME \A j \in Jobs : PlainJob(j), Init
  PROVE  IInv
  <1>1. PlainJob(job)
    BY DEF Init
  <1>2. TypeOK
    <2>1. job \in Job
      BY PipelineAssumption DEF Init
    <2>2. ParserType
      <3>1. job.pass_length \in 0..SizeMax /\ SizeMax \in Nat
        BY <2>1, PipelineAssumption DEF Job
      <3>2. pass_length \in Nat
        BY <3>1 DEF Init
      <3>3. /\ job \in Jobs /\ ppc = "get" /\ read_pos = 1 /\ example_number = 0
            /\ passes_complete = 0 /\ parsed_index = 0 /\ done = FALSE
        BY DEF Init
      <3>4. read_pos \in Nat \ {0}
        BY <3>3
      <3>5. done \in BOOLEAN
        BY <3>3
      <3>6. ppc \in ParserSteps
        BY <3>3 DEF ParserSteps
      <3>7. example_number \in Nat /\ passes_complete \in Nat /\ parsed_index \in Nat
        BY <3>3
      <3> QED
        BY <3>2, <3>3, <3>4, <3>5, <3>6, <3>7 DEF ParserType
    <2>3. ExampleType
      BY DEF Init, ExampleType, Kinds
    <2>4. LearnerType
      BY DEF Init, LearnerType, LearnerSteps, Busy, TrainSteps, PredictSteps,
         EndSteps, Zero
    <2>5. DelayType
      BY DEF Init, DelayType, Zero
    <2>6. AccountType
      BY DEF Init, AccountType
    <2> QED
      BY <2>2, <2>3, <2>4, <2>5, <2>6 DEF TypeOK
  <1>3. \A i \in Thread :
          /\ pc[i] = "select" /\ used_index[i] = 0 /\ ~Pending(i)
          /\ ~Training(i) /\ ~Working(i) /\ Finished(i) = 0
    BY DEF Init, Zero, Pending, Training, Working, Finished, Busy, TrainSteps,
       PredictSteps, EndSteps
  <1>4. PlainInv
    BY <1>1, <1>3 DEF PlainInv, Init
  <1>5. TakenInv
    BY <1>3 DEF TakenInv, Init, Busy, TrainSteps, PredictSteps, EndSteps
  <1>6. WindowInv
    BY <1>3, PipelineAssumption DEF WindowInv, ParserHolds, Init
  <1>7. LiveInv
    BY DEF LiveInv, Ready, Init
  <1>8. StepInv
    BY <1>3 DEF StepInv, AtPredict, AtWait, AtWake, AtDelay, AtTrain, AtEnd,
       AtUnlock, EndSteps
  <1>9. DelayInv
    BY <1>3 DEF DelayInv, Unfetched, Init
  <1> QED
    BY <1>2, <1>4, <1>5, <1>6, <1>7, <1>8, <1>9 DEF IInv

LEMMA StutterInv ==
  ASSUME IInv, UNCHANGED vars
  PROVE  IInv'
  <1>1. UNCHANGED <<parserVars, exampleVars, used_index, ec, pc, delayVars>>
    BY DEF vars, learnerVars
  <1>2. TypeOK'
    BY TypeStep
  <1>3. \A j \in Thread : SamePhase(j)
    BY <1>1, OtherPhase DEF delayVars
  <1>4. DelayInv'
    <2>1. \A j \in Thread : Pending(j) => pc[j] \in {"select", "sumWake"}
      BY DEF IInv, DelayInv
    <2> QED
      BY <1>1, <2>1, SameDelay
  <1> QED
    BY <1>1, <1>2, <1>3, <1>4, SameLearnerInv

LEMMA NextInv ==
  ASSUME IInv, [Next]_vars
  PROVE  IInv'
  <1>1. TypeOK'
    BY TypeStep
  <1>2. CASE Parser
    BY <1>1, <1>2, ClaimSlotInv, AwaitSlotInv, ParseExampleInv,
       PublishExampleInv, EndPassInv, ReleaseSlotInv DEF Parser
  <1>3. ASSUME NEW i \in Thread, Learn(i) PROVE IInv'
    BY <1>1, <1>3, FetchDelayedInv, NothingDelayedInv, ReturnExampleInv,
       LoadEtaInv, StoreEtaInv, TrainInv, FinishExampleInv DEF Learn
  <1>4. ASSUME NEW i \in Thread, Predict(i) PROVE IInv'
    BY <1>1, <1>4, GetExampleInv, GetNothingInv, NoCommands, ContributeInv,
       CompleteSumInv, ResumePredictInv, DelayExampleInv, ExitInv DEF Predict
  <1>5. ASSUME NEW i \in Thread, Account(i) PROVE IInv'
    BY <1>1, <1>5, OutputInv, FreeExampleInv, UnlockInv DEF Account
  <1>6. CASE SpuriousWakeup
    BY <1>1, <1>6, AwaitSlotInv, WakeLearnerInv DEF SpuriousWakeup
  <1>7. CASE UNCHANGED vars
    BY <1>7, StutterInv
  <1> QED
    BY <1>2, <1>3, <1>4, <1>5, <1>6, <1>7 DEF Next, Learner

(* IInv holds throughout: at any number of threads, with any ring and any  *)
(* input without commands, the rings, the counters and the steps of the    *)
(* learners agree (parser.cc, gd.cc and delay_ring.cc together).           *)
THEOREM Invariance ==
  ASSUME \A j \in Jobs : PlainJob(j)
  PROVE  Spec => []IInv
  <1>1. Init => IInv
    BY InitInv
  <1>2. IInv /\ [Next]_vars => IInv'
    BY NextInv
  <1> QED
    BY <1>1, <1>2, PTL DEF Spec

----------------------------------------------------------------------------
(* What follows from it.  Each theorem is about every number of threads,   *)
(* every ring size and every input without commands.                       *)

(* Every variable keeps its type; in particular neither get_example nor    *)
(* the delay ring ever hands NULL to a learner that then works on it.      *)
THEOREM TypeCorrect ==
  ASSUME \A j \in Jobs : PlainJob(j)
  PROVE  Spec => []TypeOK
  <1>1. IInv => TypeOK
    BY DEF IInv
  <1> QED
    BY <1>1, Invariance, PTL

(* The parser never overwrites an example that a learner has still to      *)
(* take: the slot is in use and holds the example of that index            *)
(* (get_unused_example and get_example, parser.cc).                        *)
THEOREM ParserStaysBehind ==
  ASSUME \A j \in Jobs : PlainJob(j)
  PROVE  Spec => []ExamplesAvailable
  <1>1. ASSUME IInv PROVE ExamplesAvailable
    <2> SUFFICES ASSUME NEW i \in Thread,
                        NEW n \in used_index[i]..(parsed_index - 1)
                 PROVE  in_use[SlotOf(n)] /\ example_counter[SlotOf(n)] = n + 1
      BY DEF ExamplesAvailable
    <2>1. /\ Finished(i) \in Nat /\ Finished(i) <= used_index[i]
          /\ parsed_index <= Ready /\ Ready \in Nat
          /\ used_index[i] \in Nat /\ parsed_index \in Nat
      BY <1>1, FinishedType DEF IInv, TypeOK, LearnerType, ParserType
    <2>2. n \in 0..(Ready - 1) /\ Finished(i) <= n
      BY <2>1
    <2> QED
      BY <1>1, <2>2 DEF IInv, LiveInv, Live, LiveExample
  <1> QED
    BY <1>1, Invariance, PTL

(* Whoever reports and frees an example is the last to use it: "We are the *)
(* last thread using this example" (gd.cc:749).                            *)
THEOREM NoUseAfterFree ==
  ASSUME \A j \in Jobs : PlainJob(j)
  PROVE  Spec => []LastUser
  <1>1. ASSUME IInv PROVE LastUser
    <2> SUFFICES ASSUME NEW i \in Thread, pc[i] \in EndSteps
                 PROVE  /\ in_use[ec[i]]
                        /\ \A j \in Thread \ {i} : ~StillUses(j, ec[i])
      BY DEF LastUser
    <2>1. Working(i) /\ pc[i] \in Busy
      BY DEF Working, Busy
    <2> SUFFICES ASSUME NEW n \in Nat, n = Current(i),
                        NEW s \in Slot, s = SlotOf(n), ec[i] = s
                 PROVE  /\ in_use[s]
                        /\ \A j \in Thread \ {i} : ~StillUses(j, s)
      BY <1>1, <2>1, WorkingSlot
    <2>2. /\ used_index[i] = n + 1 /\ in_use[s] /\ example_counter[s] = n + 1
      BY <1>1, <2>1, WorkingSlot DEF IInv, LiveInv, LiveExample
    <2>3. ASSUME NEW j \in Thread \ {i}
          PROVE  ~StillUses(j, s)
      <3>1. Finished(j) >= n + 1 /\ Finished(j) <= used_index[j]
            /\ Finished(j) \in Nat /\ used_index[j] \in Nat
        BY <1>1, <2>2, FinishedType DEF IInv, StepInv, AtEnd, TypeOK, LearnerType
      <3>2. Working(j) => SlotOf(Current(j)) # s
        BY <1>1, <2>1, <2>2, <3>1, SameExample, WorkingSlot
      <3>3. pc[j] \in Busy => ec[j] # s
        BY <1>1, <3>2 DEF Working, IInv, TakenInv
      <3>4. ASSUME Pending(j) PROVE delay_ring[SlotOf(delay_indices[j])] # s
        <4>1. j \in Unfetched
          BY <3>4 DEF Unfetched
        <4> QED
          BY <1>1, <3>2, <3>4, <4>1, FetchCount
      <3> QED
        BY <2>2, <3>1, <3>3, <3>4 DEF StillUses, Pending
    <2> QED
      BY <2>2, <2>3
  <1> QED
    BY <1>1, Invariance, PTL

(* Only a finished example goes out: the assertion of delay_example        *)
(* (delay_ring.cc:146).                                                    *)
THEOREM OnlyFinishedOutput ==
  ASSUME \A j \in Jobs : PlainJob(j)
  PROVE  Spec => []OutputWhenFinished
  <1>1. ASSUME IInv PROVE OutputWhenFinished
    <2> SUFFICES ASSUME NEW i \in Thread, pc[i] = "output"
                 PROVE  threads_to_finish[ec[i]] = 0
      BY DEF OutputWhenFinished
    <2>1. pc[i] \in EndSteps /\ pc[i] \in Busy
      BY DEF EndSteps, Busy
    <2> QED
      BY <1>1, <2>1 DEF IInv, TakenInv, StepInv, AtEnd
  <1> QED
    BY <1>1, Invariance, PTL

(* The unlocked statistics of output_and_account_example (gd.cc:188-217)   *)
(* are safe: two threads are never in it together.                         *)
THEOREM StatisticsUnshared ==
  ASSUME \A j \in Jobs : PlainJob(j)
  PROVE  Spec => []OneAccountant
  <1>1. ASSUME IInv PROVE OneAccountant
    <2> SUFFICES ASSUME NEW i \in Thread, NEW j \in Thread, i # j,
                        pc[i] = "output", pc[j] = "output"
                 PROVE  FALSE
      BY DEF OneAccountant
    <2>1. Working(i) /\ Working(j) /\ pc[i] \in EndSteps /\ pc[j] \in EndSteps
      BY DEF Working, Busy, EndSteps
    <2>2. /\ used_index[i] \in Nat /\ used_index[j] \in Nat
          /\ Finished(i) = used_index[i] - 1 /\ Finished(j) = used_index[j] - 1
      BY <1>1, <2>1 DEF Finished, IInv, TypeOK, LearnerType
    <2>3. Finished(j) >= used_index[i] /\ Finished(i) >= used_index[j]
      BY <1>1, <2>1 DEF IInv, StepInv, AtEnd
    <2> QED
      BY <2>2, <2>3
  <1> QED
    BY <1>1, Invariance, PTL

(* delay_example never waits with ex->lock held: its slot of the delay     *)
(* ring is free (delay_ring.cc:155), so it cannot block return_example.    *)
THEOREM DelayNeverWaits ==
  ASSUME \A j \in Jobs : PlainJob(j)
  PROVE  Spec => []DelaySlotFree
  <1>1. ASSUME IInv PROVE DelaySlotFree
    <2> SUFFICES ASSUME NEW i \in Thread, pc[i] = "delay"
                 PROVE  delay_ring[SlotOf(local_index)] = NULL
      BY DEF DelaySlotFree
    <2>1. Unfetched = {}
      BY <1>1, DelayAlone DEF Unfetched, IInv, DelayInv
    <2>2. SlotOf(local_index) \in Slot
      BY <1>1, SlotType DEF IInv, TypeOK, DelayType
    <2> QED
      BY <1>1, <2>1, <2>2 DEF IInv, DelayInv
  <1> QED
    BY <1>1, Invariance, PTL

----------------------------------------------------------------------------
(* Passes and the learning rate.                                           *)

(* A learner is never less far than it was.                                *)
LEMMA FinishedGrows ==
  ASSUME IInv, [Next]_vars, NEW i \in Thread
  PROVE  /\ Finished(i) \in Nat /\ Finished(i)' \in Nat
         /\ Finished(i) <= Finished(i)'
  <1>1. IInv'
    BY NextInv
  <1>2. /\ Finished(i) \in Nat /\ Finished(i)' \in Nat
        /\ used_index[i] \in Nat /\ used_index'[i] \in Nat
    <2>1. TypeOK /\ TakenInv /\ TypeOK' /\ TakenInv'
      BY <1>1 DEF IInv
    <2>2. \A j \in Thread : Working(j) => used_index[j] >= 1
      BY <2>1 DEF TakenInv
    <2>3. \A j \in Thread : Working(j)' => used_index'[j] >= 1
      BY <2>1 DEF TakenInv
    <2> QED
      BY <2>1, <2>2, <2>3 DEF Finished, TypeOK, LearnerType
  <1>3. ASSUME used_index'[i] = used_index[i], Working(i)' => Working(i)
        PROVE  Finished(i) <= Finished(i)'
    BY <1>2, <1>3 DEF Finished
  <1>4. ASSUME used_index'[i] = used_index[i] + 1
        PROVE  Finished(i) <= Finished(i)'
    BY <1>2, <1>4 DEF Finished
  <1>5. pc \in [Thread -> LearnerSteps]
    BY DEF IInv, TypeOK, LearnerType
  <1>6. CASE Parser \/ WakeParser \/ UNCHANGED vars
    <2>1. UNCHANGED <<used_index, delayVars>> /\ (pc' = pc \/ pc' = WokenByExamples)
      BY <1>6 DEF Parser, ClaimSlot, AwaitSlot, ParseExample, PublishExample,
         EndPass, ReleaseSlot, WakeParser, vars, learnerVars
    <2>2. pc'[i] \in Busy => pc[i] \in Busy
      BY <2>1 DEF WokenByExamples, Busy, TrainSteps, PredictSteps, EndSteps
    <2>3. Pending(i)' = Pending(i)
      BY <2>1 DEF Pending, delayVars
    <2> QED
      BY <1>2, <1>3, <2>1, <2>2, <2>3 DEF Working
  <1>7. ASSUME NEW k \in Thread, Learner(k) \/ WakeLearner(k)
        PROVE  Finished(i) <= Finished(i)'
    <2>1. CASE GetExample(k)
      <3>1. used_index'[i] = IF i = k THEN used_index[i] + 1 ELSE used_index[i]
        BY <2>1 DEF GetExample, IInv, TypeOK, LearnerType
      <3>2. i # k => pc'[i] = pc[i]
        BY <1>5, <2>1 DEF GetExample, Goto
      <3>3. Pending(i)' = Pending(i)
        BY <2>1 DEF GetExample, Pending, delayVars
      <3> QED
        BY <1>3, <1>4, <3>1, <3>2, <3>3 DEF Working
    <2>2. CASE DelayExample(k)
      <3>1. Working(i)
        BY <2>2, DelayAlone DEF DelayExample, Working, Busy, PredictSteps
      <3> QED
        BY <1>3, <2>2, <3>1 DEF DelayExample
    <2>3. CASE FetchDelayed(k)
      <3>1. i = k => Working(i)
        BY <2>3 DEF FetchDelayed, Working
      <3>2. i # k => pc'[i] = pc[i] /\ Pending(i)' = Pending(i)
        BY <1>5, <2>3 DEF FetchDelayed, Goto, Pending, IInv, TypeOK, DelayType
      <3> QED
        BY <1>3, <2>3, <3>1, <3>2 DEF Working, FetchDelayed
    <2>4. CASE CompleteSum(k)
      <3>1. pc'[i] \in Busy => pc[i] \in Busy
        BY <2>4 DEF CompleteSum, Busy, TrainSteps, PredictSteps, EndSteps
      <3>2. UNCHANGED <<used_index, delayVars>>
        BY <2>4 DEF CompleteSum
      <3>3. Pending(i)' = Pending(i)
        BY <3>2 DEF Pending, delayVars
      <3> QED
        BY <1>3, <3>1, <3>2, <3>3 DEF Working
    <2>5. CASE FreeExample(k)
      <3>1. pc'[i] \in Busy => pc[i] \in Busy
        BY <1>5, <2>5 DEF FreeExample, WokenByExamples, Busy, TrainSteps,
           PredictSteps, EndSteps
      <3>2. UNCHANGED <<used_index, delayVars>>
        BY <2>5 DEF FreeExample
      <3>3. Pending(i)' = Pending(i)
        BY <3>2 DEF Pending, delayVars
      <3> QED
        BY <1>3, <3>1, <3>2, <3>3 DEF Working
    <2>6. CASE \/ NothingDelayed(k) \/ ReturnExample(k) \/ LoadEta(k)
               \/ StoreEta(k) \/ Train(k) \/ FinishExample(k)
      <3>1. pc'[i] \in Busy => pc[i] \in Busy
        BY <1>5, <2>6 DEF Goto, NothingDelayed, ReturnExample, LoadEta, StoreEta, Train,
           FinishExample, Busy, TrainSteps, PredictSteps, EndSteps
      <3>2. UNCHANGED <<used_index, delay_indices, local_index>>
        BY <2>6 DEF NothingDelayed, ReturnExample, LoadEta, StoreEta, Train,
           FinishExample, delayVars
      <3>3. Pending(i)' = Pending(i)
        BY <3>2 DEF Pending
      <3> QED
        BY <1>3, <3>1, <3>2, <3>3 DEF Working
    <2>7. CASE \/ GetNothing(k) \/ Contribute(k) \/ ResumePredict(k) \/ Exit(k)
               \/ Output(k) \/ Unlock(k) \/ WakeLearner(k)
      <3>1. pc'[i] \in Busy => pc[i] \in Busy
        BY <1>5, <2>7 DEF Goto, GetNothing, Contribute, ResumePredict, Exit, Output, Unlock,
           WakeLearner, LearnerSteps, Busy, TrainSteps, PredictSteps, EndSteps
      <3>2. UNCHANGED <<used_index, delayVars>>
        BY <2>7 DEF GetNothing, Contribute, ResumePredict, Exit, Output, Unlock,
           WakeLearner
      <3>3. Pending(i)' = Pending(i)
        BY <3>2 DEF Pending, delayVars
      <3> QED
        BY <1>3, <3>1, <3>2, <3>3 DEF Working
    <2> QED
      BY <1>7, <2>1, <2>2, <2>3, <2>4, <2>5, <2>6, <2>7, NoCommands
         DEF Learner, Learn, Predict, Account
  <1> QED
    BY <1>2, <1>6, <1>7 DEF Next, SpuriousWakeup

(* A step that reads no example and ends no pass keeps the passes in order *)
(* if no learner comes to a new one.                                       *)
LEMMA SameOrder ==
  ASSUME IInv, [Next]_vars, PassOrder,
         UNCHANGED <<pass, passes_complete, current_pass, Ready>>
  PROVE  PassOrder'
  <1>1. \A n \in 0..(Ready - 1) : SlotOf(n)' = SlotOf(n) /\ (Live(n)' => Live(n))
    <2>1. Ready \in Nat
      BY DEF Ready, IInv, TypeOK, ParserType
    <2> QED
      BY <2>1, FinishedGrows DEF SlotOf, Live
  <1>2. \A i \in Thread : \A n \in 0..(Ready - 1) : Finished(i)' <= n => Finished(i) <= n
    <2>1. Ready \in Nat
      BY DEF Ready, IInv, TypeOK, ParserType
    <2> QED
      BY <2>1, FinishedGrows
  <1> QED
    BY <1>1, <1>2 DEF PassOrder

(* The new example is of the pass being read, which no other is ahead of.  *)
LEMMA ParseOrder ==
  ASSUME IInv, [Next]_vars, PassOrder, ParseExample
  PROVE  PassOrder'
  <1>1. /\ Ready = parsed_index /\ Ready' = parsed_index + 1
        /\ parsed_index \in Nat /\ ParserHolds
        /\ UNCHANGED <<passes_complete, current_pass>>
    BY DEF ParseExample, Ready, ParserHolds, IInv, TypeOK, ParserType, learnerVars
  <1>2. /\ pass \in [Slot -> Nat] /\ passes_complete \in Nat
        /\ \A n \in Nat : SlotOf(n) \in Slot /\ SlotOf(n)' = SlotOf(n)
    BY SlotType DEF IInv, TypeOK, ParserType, ExampleType, SlotOf
  <1>3. pass'[SlotOf(parsed_index)] = passes_complete
    BY <1>1, <1>2 DEF ParseExample
  <1>4. ASSUME NEW n \in 0..(parsed_index - 1), Live(n)
        PROVE  pass'[SlotOf(n)] = pass[SlotOf(n)]
    <2>1. n \in Nat /\ n < parsed_index
      BY <1>1
    <2>2. SlotOf(n) # SlotOf(parsed_index)
      BY <1>1, <1>4, <2>1, ParserApart DEF IInv
    <2> QED
      BY <1>1, <1>2, <2>1, <2>2 DEF ParseExample
  <1>5. \A i \in Thread : /\ Finished(i) \in Nat /\ Finished(i)' = Finished(i)
                          /\ Finished(i) <= parsed_index
    <2>1. \A i \in Thread : Finished(i)' = Finished(i)
      BY DEF ParseExample, Finished, Working, Pending, learnerVars, delayVars
    <2> QED
      BY <1>1, <2>1, FinishedType DEF IInv, TypeOK, LearnerType
  <1>6. \A n \in Nat : Live(n)' = Live(n)
    BY <1>5 DEF Live
  <1>7. \A n \in 0..(Ready - 1)' : n = parsed_index \/ n \in 0..(parsed_index - 1)
    BY <1>1
  <1>8. \A n \in 0..(parsed_index - 1) : Live(n) =>
          pass[SlotOf(n)] <= passes_complete
    BY <1>1 DEF PassOrder
  <1>9. ASSUME NEW m \in 0..(Ready - 1)', NEW n \in 0..(Ready - 1)', Live(m), m <= n
        PROVE  pass'[SlotOf(m)] <= pass'[SlotOf(n)]
    <2>1. Live(n) /\ m \in Nat /\ n \in Nat
      <3>1. PICK i \in Thread : Finished(i) <= m
        BY <1>9 DEF Live
      <3> QED
        BY <1>1, <1>5, <1>9, <3>1 DEF Live
    <2>2. CASE n = parsed_index
      <3>1. CASE m = parsed_index
        BY <1>2, <1>3, <2>2, <3>1
      <3>2. CASE m \in 0..(parsed_index - 1)
        BY <1>3, <1>4, <1>8, <1>9, <2>2, <3>2
      <3> QED
        BY <1>7, <3>1, <3>2
    <2>3. CASE n \in 0..(parsed_index - 1)
      <3>1. m \in 0..(parsed_index - 1)
        BY <1>1, <1>9, <2>1, <2>3
      <3>2. pass[SlotOf(m)] <= pass[SlotOf(n)]
        BY <1>1, <1>9, <2>3, <3>1 DEF PassOrder
      <3> QED
        BY <1>4, <1>9, <2>1, <2>3, <3>1, <3>2
    <2> QED
      BY <1>7, <2>2, <2>3
  <1>10. ASSUME NEW i \in Thread, NEW n \in 0..(Ready - 1)', Finished(i) <= n
         PROVE  current_pass[i] <= pass'[SlotOf(n)]
    <2>1. CASE n = parsed_index
      BY <1>3, <2>1 DEF PassOrder
    <2>2. CASE n \in 0..(parsed_index - 1)
      <3>1. Live(n)
        BY <1>10 DEF Live
      <3> QED
        BY <1>1, <1>4, <1>10, <2>2, <3>1 DEF PassOrder
    <2> QED
      BY <1>7, <2>1, <2>2
  <1>11. ASSUME NEW n \in 0..(Ready - 1)', Live(n)
         PROVE  pass'[SlotOf(n)] <= passes_complete
    <2>1. CASE n = parsed_index
      BY <1>2, <1>3, <2>1
    <2>2. CASE n \in 0..(parsed_index - 1)
      BY <1>4, <1>8, <1>11, <2>2
    <2> QED
      BY <1>7, <2>1, <2>2
  <1>12. \A i \in Thread : current_pass'[i] <= passes_complete'
    BY <1>1 DEF PassOrder
  <1>13. \A n \in 0..(Ready - 1)' : n \in Nat /\ SlotOf(n)' = SlotOf(n)
    BY <1>1, <1>2
  <1> QED
    BY <1>1, <1>5, <1>6, <1>9, <1>10, <1>11, <1>12, <1>13 DEF PassOrder

(* A learner comes to the pass of the example in its hand, and those after *)
(* that are of no earlier pass.                                            *)
LEMMA DecayOrder ==
  ASSUME IInv, [Next]_vars, PassOrder, NEW i \in Thread, StoreEta(i)
  PROVE  /\ PassOrder'
         /\ current_pass'[i] = pass[ec[i]] /\ current_pass[i] <= pass[ec[i]]
         /\ \A j \in Thread \ {i} : current_pass'[j] = current_pass[j]
  <1>1. Working(i) /\ pc[i] \in Busy
    BY DEF StoreEta, Working, Busy, TrainSteps
  <1> DEFINE n == Current(i)
  <1>2. /\ n \in 0..(Ready - 1) /\ Live(n) /\ Finished(i) = n
        /\ ec[i] = SlotOf(n)
    BY <1>1, WorkingLive DEF IInv, TakenInv
  <1> HIDE DEF n
  <1>3. /\ current_pass'[i] = pass[ec[i]]
        /\ \A j \in Thread \ {i} : current_pass'[j] = current_pass[j]
        /\ UNCHANGED <<pass, passes_complete, Ready>>
    BY DEF StoreEta, IInv, TypeOK, LearnerType, exampleVars, parserVars, Ready
  <1>4. current_pass[i] <= pass[ec[i]] /\ pass[ec[i]] <= passes_complete
    BY <1>2 DEF PassOrder, IInv, TypeOK, LearnerType
  <1>5. Ready \in Nat /\ n \in Nat
    BY <1>2 DEF Ready, IInv, TypeOK, ParserType
  <1>6. \A m \in 0..(Ready - 1) : /\ SlotOf(m)' = SlotOf(m)
                                  /\ Live(m)' => Live(m)
                                  /\ \A j \in Thread : Finished(j)' <= m => Finished(j) <= m
    BY <1>5, FinishedGrows DEF SlotOf, Live
  <1>7. \A m \in 0..(Ready - 1) : Finished(i) <= m => pass[ec[i]] <= pass[SlotOf(m)]
    BY <1>2, <1>5 DEF PassOrder
  <1>8. \A j \in Thread : current_pass'[j] <= passes_complete'
    BY <1>3, <1>4 DEF PassOrder
  <1>9. \A j \in Thread : \A m \in 0..(Ready - 1) :
          Finished(j)' <= m => current_pass'[j] <= pass[SlotOf(m)]
    BY <1>3, <1>6, <1>7 DEF PassOrder
  <1> QED
    BY <1>3, <1>4, <1>6, <1>8, <1>9 DEF PassOrder

(* The steps the passes and the rate are about.                            *)
LEMMA PassCases ==
  ASSUME [Next]_vars
  PROVE  \/ ParseExample \/ EndPass \/ \E i \in Thread : StoreEta(i)
         \/ /\ UNCHANGED <<job, pass, passes_complete, pass_length, read_pos,
                           example_number, current_pass, Ready>>
            /\ ~\E i \in Thread : StoreEta(i)
  <1> SUFFICES ASSUME ~ParseExample, ~EndPass, ~\E i \in Thread : StoreEta(i)
      PROVE  UNCHANGED <<job, pass, passes_complete, pass_length, read_pos,
                         example_number, current_pass, Ready>>
    OBVIOUS
  <1>1. UNCHANGED <<job, passes_complete, pass_length, read_pos,
                    example_number, Ready>>
    BY ParserCases DEF ClaimSlot, AwaitSlot, PublishExample, ReleaseSlot,
       WakeParser, FreeExample, parserVars, Ready
  <1>2. UNCHANGED <<pass, current_pass>>
    BY DEF Next, Parser, Learner, Learn, Predict, Account, SpuriousWakeup, vars,
       exampleVars, learnerVars, ClaimSlot, AwaitSlot, PublishExample,
       ReleaseSlot, WakeParser, FetchDelayed, NothingDelayed, ReturnExample,
       LoadEta, Train, FinishExample, GetExample, GetNothing, SaveRegressor,
       CommandDone, Contribute, CompleteSum, ResumePredict, DelayExample, Exit,
       Output, FreeExample, Unlock, WakeLearner
  <1> QED
    BY <1>1, <1>2

(* The input ends before the length of a complete pass is reached: no pass *)
(* starts over, and passes_complete is never set back.                     *)
LEMMA PassStep ==
  ASSUME \A j \in Jobs : Len(j.source) < SizeMax,
         IInv, [Next]_vars, Whole(job), ReaderInv, PassOrder
  PROVE  /\ Whole(job)' /\ ReaderInv' /\ PassOrder'
         /\ passes_complete <= passes_complete'
  <1>1. /\ job \in Jobs /\ Len(job.source) \in Nat /\ Len(job.source) < SizeMax
        /\ SizeMax \in Nat
        /\ read_pos \in Nat /\ example_number \in Nat /\ passes_complete \in Nat
        /\ current_pass \in [Thread -> Nat] /\ pass_length = SizeMax
    <2>1. job \in Jobs
      BY DEF IInv, TypeOK, ParserType
    <2>2. job.source \in Seq(Kinds)
      BY <2>1, PipelineAssumption DEF Job
    <2> QED
      BY <2>1, <2>2, PipelineAssumption
         DEF IInv, TypeOK, ParserType, LearnerType, Whole, ReaderInv
  <1>2. example_number < read_pos /\ read_pos <= Len(job.source) + 1
    BY DEF ReaderInv
  <1>3. CASE ParseExample
    <2>1. UNCHANGED <<job, pass_length, passes_complete>>
          /\ read_pos' = read_pos + 1 /\ example_number' = example_number + 1
          /\ read_pos <= Len(job.source)
      BY <1>3 DEF ParseExample
    <2> QED
      BY <1>1, <1>2, <1>3, <2>1, ParseOrder DEF Whole, ReaderInv
  <1>4. CASE EndPass
    <2>1. example_number # pass_length
      BY <1>1, <1>2
    <2>2. ~StartsOver
      BY <2>1 DEF StartsOver
    <2>3. /\ passes_complete' = passes_complete + 1 /\ example_number' = 0
          /\ UNCHANGED <<job, pass_length, pass, current_pass, Ready>>
      BY <1>4, <2>2 DEF EndPass, exampleVars, learnerVars, Ready
    <2>4. \/ read_pos' = 1
          \/ read_pos' = read_pos
          \/ read_pos' = read_pos + 1 /\ read_pos <= Len(job.source)
      BY <1>4 DEF EndPass
    <2>5. read_pos' > 0 /\ read_pos' <= Len(job.source) + 1
      BY <1>1, <1>2, <2>4
    <2>6. PassOrder'
      <3>1. Ready \in Nat /\ pass \in [Slot -> Nat]
        BY DEF Ready, IInv, TypeOK, ParserType, ExampleType
      <3>2. \A n \in 0..(Ready - 1) :
              /\ SlotOf(n)' = SlotOf(n) /\ pass[SlotOf(n)] \in Nat
              /\ Live(n)' => Live(n)
              /\ \A i \in Thread : Finished(i)' <= n => Finished(i) <= n
        BY <3>1, FinishedGrows, SlotType DEF SlotOf, Live
      <3>3. /\ \A i \in Thread : current_pass'[i] <= passes_complete'
            /\ \A n \in 0..(Ready - 1) :
                 Live(n)' => pass[SlotOf(n)] <= passes_complete'
        BY <1>1, <2>3, <3>2 DEF PassOrder
      <3> QED
        BY <2>3, <3>2, <3>3 DEF PassOrder
    <2> QED
      BY <1>1, <2>3, <2>5, <2>6 DEF Whole, ReaderInv
  <1>5. CASE \E i \in Thread : StoreEta(i)
    <2>1. UNCHANGED parserVars
      BY <1>5 DEF StoreEta
    <2> QED
      BY <1>1, <1>5, <2>1, DecayOrder DEF parserVars, Whole, ReaderInv
  <1>6. CASE UNCHANGED <<job, pass, passes_complete, pass_length, read_pos,
                         example_number, current_pass, Ready>>
    BY <1>1, <1>6, SameOrder DEF Whole, ReaderInv
  <1> QED
    BY <1>3, <1>4, <1>5, <1>6, PassCases

(* One learner: the rate is decayed when it comes to the next pass.        *)
LEMMA RateStep ==
  ASSUME NEW t \in Thread, Thread = {t}, IInv, [Next]_vars, PassOrder, RateInv
  PROVE  RateInv'
  <1>1. /\ eta_decays \in Nat /\ current_pass[t] \in Nat
        /\ pc \in [Thread -> LearnerSteps] /\ loaded \in [Thread -> Nat]
    BY DEF IInv, TypeOK, LearnerType, AccountType
  <1> SUFFICES /\ eta_decays' <= current_pass'[t]
               /\ pc'[t] = "storeEta" => loaded'[t] = eta_decays'
               /\ pc'[t] \in {"loadEta", "storeEta"} => NewPass(t)'
    BY DEF RateInv
  <1>2. /\ eta_decays <= current_pass[t]
        /\ pc[t] = "storeEta" => loaded[t] = eta_decays
        /\ pc[t] \in {"loadEta", "storeEta"} => NewPass(t)
    BY DEF RateInv
  <1>3. CASE StoreEta(t)
    <2>1. eta_decays' = eta_decays + 1 /\ NewPass(t) /\ pc'[t] = "train"
      BY <1>1, <1>2, <1>3 DEF StoreEta, Goto
    <2>2. current_pass'[t] = pass[ec[t]] /\ current_pass[t] <= pass[ec[t]]
      BY <1>3, DecayOrder
    <2>3. pass[ec[t]] \in Nat
      BY <1>3 DEF IInv, TypeOK, LearnerType, ExampleType, StoreEta, Busy, TrainSteps
    <2> QED
      BY <1>1, <1>2, <2>1, <2>2, <2>3 DEF NewPass
  <1>4. CASE LoadEta(t)
    <2>1. /\ UNCHANGED <<eta_decays, current_pass, ec, pass>>
          /\ loaded'[t] = eta_decays /\ NewPass(t) /\ NewPass(t)' = NewPass(t)
      BY <1>1, <1>2, <1>4 DEF LoadEta, accountVars, exampleVars, NewPass
    <2> QED
      BY <1>2, <2>1
  <1>5. CASE ReturnExample(t)
    <2>1. /\ UNCHANGED <<eta_decays, current_pass, loaded, ec, pass>>
          /\ NewPass(t)' = NewPass(t)
      BY <1>5 DEF ReturnExample, accountVars, exampleVars, NewPass
    <2>2. pc'[t] = IF NewPass(t) THEN "loadEta" ELSE "train"
      BY <1>1, <1>5 DEF ReturnExample, Goto
    <2> QED
      BY <1>2, <2>1, <2>2
  <1>6. CASE ParseExample
    <2>1. UNCHANGED <<eta_decays, current_pass, loaded, ec, pc>>
      BY <1>6 DEF ParseExample, accountVars, learnerVars
    <2>2. ASSUME pc[t] \in {"loadEta", "storeEta"}
          PROVE  pass'[ec[t]] = pass[ec[t]]
      <3>1. Working(t) /\ pc[t] \in Busy /\ ParserHolds
        BY <1>6, <2>2 DEF Working, Busy, TrainSteps, ParseExample, ParserHolds
      <3>2. SlotOf(parsed_index) # ec[t]
        BY <3>1, ElsewhereApart DEF IInv, TakenInv
      <3> QED
        BY <1>6, <3>1, <3>2
           DEF ParseExample, IInv, TypeOK, ExampleType, LearnerType
    <2> QED
      BY <1>2, <2>1, <2>2 DEF NewPass
  <1>7. CASE ~ParseExample /\ ~ReturnExample(t) /\ ~LoadEta(t) /\ ~StoreEta(t)
    <2>1. UNCHANGED <<current_pass, pass>>
      BY <1>7, PassCases DEF EndPass, learnerVars, exampleVars
    <2>2. UNCHANGED <<eta_decays, loaded>>
      BY <1>7, NoCommands DEF Next, Parser, Learner, Learn, Predict, Account, SpuriousWakeup,
         vars, accountVars, learnerVars, ClaimSlot, AwaitSlot, PublishExample, EndPass,
         ReleaseSlot, WakeParser, FetchDelayed, NothingDelayed, Train,
         FinishExample, GetExample, GetNothing, Contribute, CompleteSum,
         ResumePredict, DelayExample, Exit, Output, FreeExample, Unlock,
         WakeLearner
    <2>3. pc'[t] \in {"loadEta", "storeEta"} => pc'[t] = pc[t] /\ ec'[t] = ec[t]
      <3>1. CASE PublishExample \/ ReleaseSlot \/ UNCHANGED learnerVars
        BY <1>1, <3>1 DEF PublishExample, ReleaseSlot, learnerVars, WokenByExamples
      <3>2. CASE CompleteSum(t) \/ FreeExample(t)
        BY <1>1, <3>2 DEF CompleteSum, FreeExample, WokenByExamples
      <3>3. CASE \/ FetchDelayed(t) \/ NothingDelayed(t) \/ Train(t)
                 \/ FinishExample(t) \/ GetExample(t) \/ GetNothing(t)
                 \/ Contribute(t) \/ ResumePredict(t) \/ DelayExample(t)
                 \/ Exit(t) \/ Output(t) \/ Unlock(t) \/ WakeLearner(t)
        BY <1>1, <3>3 DEF FetchDelayed, NothingDelayed, Train, FinishExample,
           GetExample, GetNothing, Contribute, ResumePredict, DelayExample,
           Exit, Output, Unlock, WakeLearner, Goto
      <3> QED
        BY <1>7, <3>1, <3>2, <3>3, LearnerCases
    <2> QED
      BY <1>2, <2>1, <2>2, <2>3 DEF NewPass
  <1> QED
    BY <1>3, <1>4, <1>5, <1>6, <1>7

(* With one learner, and fewer examples in the input than (size_t)-1, the  *)
(* rate is decayed at most once per pass read (gd.cc:60-65).               *)
THEOREM OneDecayPerPass ==
  ASSUME \A j \in Jobs : PlainJob(j) /\ Len(j.source) < SizeMax,
         NEW t \in Thread, Thread = {t}
  PROVE  Spec => []EtaDecaysOncePerPass
  <1>1. Init => IInv /\ PassInv /\ EtaInv
    <2> SUFFICES ASSUME Init PROVE IInv /\ PassInv /\ EtaInv
      OBVIOUS
    <2>1. IInv
      BY InitInv
    <2>2. job.source \in Seq(Kinds) /\ read_pos = 1 /\ example_number = 0
      BY PipelineAssumption DEF Init, Job
    <2>3. ReaderInv
      BY <2>2 DEF ReaderInv, Init
    <2>4. PassOrder
      BY DEF PassOrder, Init, Ready, Zero
    <2>5. RateInv
      BY DEF RateInv, Init, Zero
    <2> QED
      BY <2>1, <2>3, <2>4, <2>5 DEF PassInv, EtaInv
  <1>2. (IInv /\ PassInv /\ EtaInv) /\ [Next]_vars => (IInv /\ PassInv /\ EtaInv)'
    <2> SUFFICES ASSUME IInv, PassInv, EtaInv, [Next]_vars
                 PROVE  IInv' /\ PassInv' /\ EtaInv'
      OBVIOUS
    <2>1. IInv'
      BY NextInv
    <2>2. job' = job
      BY PassCases DEF ParseExample, EndPass, StoreEta, parserVars
    <2>3. CASE Whole(job)
      BY <2>1, <2>3, PassStep, RateStep DEF PassInv, EtaInv
    <2>4. CASE ~Whole(job)
      BY <2>1, <2>2, <2>4 DEF PassInv, EtaInv, Whole
    <2> QED
      BY <2>3, <2>4
  <1>3. IInv /\ PassInv /\ EtaInv => EtaDecaysOncePerPass
    <2> SUFFICES ASSUME IInv, PassInv, EtaInv, Whole(job)
                 PROVE  eta_decays <= passes_complete
      BY DEF EtaDecaysOncePerPass, Whole
    <2>1. eta_decays <= current_pass[t] /\ current_pass[t] <= passes_complete
      BY DEF PassInv, EtaInv, RateInv, PassOrder
    <2>2. /\ eta_decays \in Nat /\ current_pass[t] \in Nat
          /\ passes_complete \in Nat
      BY DEF IInv, TypeOK, AccountType, LearnerType, ParserType
    <2> QED
      BY <2>1, <2>2
  <1> QED
    BY <1>1, <1>2, <1>3, PTL DEF Spec

=============================================================================
