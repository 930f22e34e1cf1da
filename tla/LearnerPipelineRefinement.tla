--------------------- MODULE LearnerPipelineRefinement ----------------------
(***************************************************************************)
(* LearnerPipeline implements SequentialLearner, for every number of       *)
(* threads, ring size and input, in jobs without commands and without      *)
(* --active_simulation: LearnerPipelineInv!ReportInv holds in every state, *)
(* so output_and_account_example reports what a sequential learner would,  *)
(* and every other step is invisible to it.                                *)
(***************************************************************************)
EXTENDS LearnerPipelineProofs

----------------------------------------------------------------------------
(* What ReportInv says in a single state.                                  *)

LEMMA FrontFacts ==
  ASSUME IInv, ReportInv
  PROVE  /\ Front \in Nat /\ Front <= parsed_index /\ Front <= Ready
         /\ Ready \in Nat /\ parsed_index \in Nat
         /\ Front < Ready => Live(Front)
         /\ \A n \in Nat : n < Front => ~\E i \in Thread : Reported(i) <= n
  <1>1. Front \in Nat
    BY DEF Front, IInv, TypeOK, AccountType
  <1>2. PICK i \in Thread : Front = Reported(i)
    BY DEF ReportInv, FrontInv
  <1>3. /\ Finished(i) \in Nat /\ Finished(i) <= used_index[i]
        /\ used_index[i] <= parsed_index /\ parsed_index <= Ready
        /\ used_index[i] \in Nat /\ Ready \in Nat /\ parsed_index \in Nat
    BY FinishedType DEF IInv, TypeOK, LearnerType, ParserType
  <1>4. Finished(i) <= Front /\ Front <= used_index[i]
    BY <1>2, <1>3 DEF Reported
  <1>5. \A j \in Thread : Front <= Reported(j)
    BY DEF ReportInv, FrontInv
  <1>6. \A j \in Thread : Reported(j) \in Nat
    BY FinishedType DEF Reported, IInv, TypeOK, LearnerType
  <1> QED
    BY <1>1, <1>3, <1>4, <1>5, <1>6 DEF Live

(* What is yet to be reported is live.                                     *)
LEMMA FrontLive ==
  ASSUME IInv, ReportInv, NEW n \in Front..(Ready - 1)
  PROVE  n \in 0..(Ready - 1) /\ n \in Nat /\ Live(n) /\ SlotOf(n) \in Slot
  <1>1. Front \in Nat /\ Ready \in Nat
    BY FrontFacts
  <1>2. n \in 0..(Ready - 1) /\ n \in Nat /\ Front < Ready
    BY <1>1
  <1>3. PICK i \in Thread : Finished(i) <= Front
    BY <1>2, FrontFacts DEF Live
  <1>4. Finished(i) \in Nat
    BY FinishedType DEF IInv
  <1>5. Live(n)
    BY <1>1, <1>3, <1>4 DEF Live
  <1> QED
    BY <1>2, <1>5, SlotType

(* Once all have contributed to it, the example in hand is the next to be  *)
(* reported.                                                               *)
LEMMA AtFront ==
  ASSUME IInv, ReportInv, NEW i \in Thread, Working(i), pc[i] # "free",
         Missing(Current(i)) \subseteq {i}
  PROVE  Front = Current(i)
  <1>1. /\ Finished(i) = Current(i) /\ Current(i) \in Nat
        /\ used_index[i] = Current(i) + 1
    BY WorkingSlot
  <1>2. Front \in Nat /\ Front <= Current(i)
    BY <1>1, FrontFacts DEF Reported, ReportInv, FrontInv
  <1>3. PICK k \in Thread : Front = Reported(k)
    BY DEF ReportInv, FrontInv
  <1>4. ASSUME k # i PROVE Current(i) <= Front
    <2>1. used_index[k] \in Nat /\ used_index[k] > Current(i)
      BY <1>1, <1>4 DEF Missing, IInv, TypeOK, LearnerType
    <2>2. Finished(k) \in Nat /\ used_index[k] <= Finished(k) + 1
      BY FinishedType DEF IInv
    <2> QED
      BY <1>1, <1>3, <2>1, <2>2 DEF Reported
  <1> QED
    BY <1>1, <1>2, <1>3, <1>4 DEF Reported

(* Steps that change neither reports nor sums nor models, nor what is in   *)
(* them.                                                                   *)
LEMMA QuietReport ==
  ASSUME IInv, ReportInv, FrontInv',
         UNCHANGED <<sink, sum, weights, kind, summed, Ready>>,
         \A j \in Thread : Taught(j)' = Taught(j),
         \A n \in Nat : Missing(n)' = Missing(n)
  PROVE  ReportInv'
  <1>1. Front' = Front /\ Model' = Model
    BY DEF Front, Model, ModelAfter
  <1>2. SlotOf(Front)' = SlotOf(Front)
    BY <1>1 DEF SlotOf
  <1>3. WeightsInv'
    BY <1>1 DEF ReportInv, WeightsInv
  <1>4. ASSUME NEW n \in Front..(Ready - 1)
        PROVE  sum'[SlotOf(n)] = {[by |-> i, model |-> ModelFor(n)'] :
                                    i \in Thread \ Missing(n)'}
    <2>1. Missing(n)' = Missing(n)
      BY FrontLive
    <2>2. ModelFor(n)' = ModelFor(n)
      BY <1>1, <1>2 DEF ModelFor
    <2> QED
      BY <2>1, <2>2 DEF ReportInv, SumInv
  <1>5. SumInv'
    BY <1>1, <1>4 DEF SumInv, SlotOf
  <1> QED
    BY <1>3, <1>5 DEF ReportInv

(* Learners that are where they were.                                      *)
LEMMA SameTaught ==
  ASSUME UNCHANGED <<sink, kind, summed, used_index>>,
         \A j \in Thread : /\ (pc'[j] = "delay") = (pc[j] = "delay")
                           /\ Untaught(j)' = Untaught(j)
  PROVE  \A j \in Thread : Taught(j)' = Taught(j)
  <1>1. Front' = Front /\ SlotOf(Front)' = SlotOf(Front)
    BY DEF Front, SlotOf
  <1> QED
    BY <1>1 DEF Taught

LEMMA SameFront ==
  ASSUME ReportInv, UNCHANGED sink, \A j \in Thread : Reported(j)' = Reported(j)
  PROVE  FrontInv'
  BY DEF ReportInv, FrontInv, Front

LEMMA SameMissing ==
  ASSUME UNCHANGED used_index,
         \A j \in Thread : (pc'[j] = "predict") = (pc[j] = "predict")
  PROVE  \A n \in Nat : Missing(n)' = Missing(n)
  BY DEF Missing

(* One learner moves on; of the delay ring it moves its own index at most. *)
LEMMA OneQuiet ==
  ASSUME IInv, ReportInv, NEW i \in Thread, NEW label, Goto(i, label),
         UNCHANGED <<sink, sum, weights, kind, summed, used_index, ppc,
                     parsed_index, local_index>>,
         \A j \in Thread \ {i} : delay_indices'[j] = delay_indices[j],
         {pc[i], label} \cap {"predict", "delay", "free"} = {},
         Working(i)' = Working(i), Untaught(i)' = Untaught(i)
  PROVE  ReportInv'
  <1>1. pc'[i] = label /\ \A j \in Thread \ {i} : pc'[j] = pc[j]
    BY DEF Goto, IInv, TypeOK, LearnerType
  <1>2. Ready' = Ready
    BY DEF Ready
  <1>3. \A j \in Thread \ {i} :
          Working(j)' = Working(j) /\ Untaught(j)' = Untaught(j)
    BY <1>1 DEF Working, Untaught, Pending
  <1>4. \A j \in Thread : Finished(j)' = Finished(j)
    BY <1>3 DEF Finished
  <1>5. \A j \in Thread : Reported(j)' = Reported(j)
    BY <1>1, <1>4 DEF Reported
  <1> QED
    BY <1>1, <1>2, <1>3, <1>5, QuietReport, SameTaught, SameFront, SameMissing

(* The parser, or whoever frees an example, wakes the learners that wait   *)
(* for one: they have nothing in hand.                                     *)
LEMMA WokenQuiet ==
  ASSUME IInv, NEW j \in Thread, pc'[j] = WokenByExamples[j] \/ pc'[j] = pc[j],
         UNCHANGED <<used_index, delay_indices, local_index>>
  PROVE  /\ Reported(j)' = Reported(j)
         /\ (pc'[j] = "predict") = (pc[j] = "predict")
         /\ (pc'[j] = "delay") = (pc[j] = "delay")
         /\ Untaught(j)' = Untaught(j)
  <1>1. Pending(j)' = Pending(j)
    BY DEF Pending
  <1>2. pc'[j] = pc[j] \/ (pc[j] = "availWait" /\ pc'[j] = "exit")
    BY DEF WokenByExamples
  <1>3. Working(j)' = Working(j)
    BY <1>1, <1>2 DEF Working, Busy, TrainSteps, PredictSteps, EndSteps
  <1>4. Finished(j)' = Finished(j)
    BY <1>3 DEF Finished
  <1> QED
    BY <1>1, <1>2, <1>4 DEF Reported, Untaught

LEMMA QuietParser ==
  ASSUME IInv, ReportInv,
         ClaimSlot \/ AwaitSlot \/ PublishExample \/ EndPass \/ ReleaseSlot
           \/ WakeParser \/ UNCHANGED vars
  PROVE  ReportInv'
  <1>1. UNCHANGED <<sink, sum, weights, kind, summed, used_index,
                    delay_indices, local_index>>
    BY DEF ClaimSlot, AwaitSlot, PublishExample, EndPass, ReleaseSlot,
           WakeParser, vars, exampleVars, learnerVars, delayVars, accountVars
  <1>2. Ready' = Ready
    BY DEF ClaimSlot, AwaitSlot, PublishExample, EndPass, ReleaseSlot,
           WakeParser, vars, parserVars, Ready, IInv, TypeOK, ParserType
  <1>3. pc' = pc \/ pc' = WokenByExamples
    BY DEF ClaimSlot, AwaitSlot, PublishExample, EndPass, ReleaseSlot,
           WakeParser, vars, learnerVars
  <1> QED
    BY <1>1, <1>2, <1>3, WokenQuiet, QuietReport, SameTaught, SameFront,
       SameMissing

LEMMA QuietLearner ==
  ASSUME IInv, ReportInv, NEW i \in Thread,
         \/ FetchDelayed(i) \/ NothingDelayed(i) \/ ReturnExample(i)
         \/ LoadEta(i) \/ StoreEta(i) \/ GetNothing(i) \/ ResumePredict(i)
         \/ Exit(i) \/ Unlock(i) \/ WakeLearner(i)
  PROVE  ReportInv'
  <1>1. /\ UNCHANGED <<sink, sum, weights, kind, summed, used_index, ppc,
                       parsed_index, local_index>>
        /\ \A j \in Thread \ {i} : delay_indices'[j] = delay_indices[j]
    BY DEF FetchDelayed, NothingDelayed, ReturnExample, LoadEta, StoreEta,
           GetNothing, ResumePredict, Exit, Unlock, WakeLearner, parserVars,
           exampleVars, delayVars, accountVars, IInv, TypeOK, DelayType
  <1>2. Pending(i) => /\ pc[i] \in {"select", "sumWake"}
                      /\ delay_indices[i] + 1 = local_index
    BY DEF IInv, DelayInv
  <1>3. CASE FetchDelayed(i)
    <2>1. /\ Goto(i, "return") /\ pc[i] = "select" /\ Pending(i)
          /\ delay_indices'[i] = delay_indices[i] + 1
      BY <1>3 DEF FetchDelayed, IInv, TypeOK, DelayType
    <2>2. ~Pending(i)' /\ pc'[i] = "return"
      BY <1>1, <1>2, <2>1 DEF Pending, Goto, IInv, TypeOK, LearnerType
    <2>3. Working(i)' = Working(i) /\ Untaught(i)' = Untaught(i)
      BY <2>1, <2>2 DEF Working, Untaught, Busy, TrainSteps
    <2> QED
      BY <1>1, <2>1, <2>3, OneQuiet
  <1>4. CASE ~FetchDelayed(i)
    <2>1. PICK label \in LearnerSteps : Goto(i, label)
      BY <1>4 DEF FetchDelayed, NothingDelayed, ReturnExample, LoadEta, StoreEta,
           GetNothing, ResumePredict, Exit, Unlock, WakeLearner, LearnerSteps,
           Busy, TrainSteps, PredictSteps
    <2>2. pc'[i] = label
      BY <2>1 DEF Goto, IInv, TypeOK, LearnerType
    <2>3. Pending(i)' = Pending(i)
      BY <1>1, <1>4 DEF Pending, NothingDelayed, ReturnExample, LoadEta,
         StoreEta, GetNothing, ResumePredict, Exit, Unlock, WakeLearner, delayVars
    <2>4. \/ pc[i] = "select" /\ label = "get" /\ ~Pending(i)
          \/ pc[i] \in {"return", "loadEta", "storeEta"}
               /\ label \in {"loadEta", "storeEta", "train"}
          \/ pc[i] = "get" /\ label \in {"exit", "availWait"}
          \/ pc[i] = "sumWake" /\ label = "select" /\ summed[ec[i]]
               /\ lock[ec[i]] = Nobody
          \/ pc[i] = "sumWake" /\ label = "sumWait" /\ ~summed[ec[i]]
          \/ pc[i] = "exit" /\ label \in {"select", "stopped"}
          \/ pc[i] = "unlock" /\ label = "select"
          \/ pc[i] = "availWait" /\ label = "exit"
          \/ pc[i] = "sumWait" /\ label = "sumWake"
      BY <1>4, <2>2 DEF NothingDelayed, ReturnExample, LoadEta, StoreEta,
         GetNothing, ResumePredict, Exit, Unlock, WakeLearner, Goto, IInv, TypeOK,
         LearnerType
    <2>5. ASSUME pc[i] = "sumWake", label = "select", summed[ec[i]],
                 lock[ec[i]] = Nobody
          PROVE  Pending(i)
      <3>1. /\ ec[i] = SlotOf(Current(i)) /\ Working(i)
        BY <2>5 DEF IInv, TakenInv, Busy, PredictSteps, Working
      <3>2. ASSUME NEW k \in Thread, pc[k] = "delay", used_index[k] = used_index[i]
            PROVE  FALSE
        <4>1. lock[SlotOf(Current(k))] = k
          BY <3>2 DEF IInv, StepInv, AtDelay
        <4>2. SlotOf(Current(k)) = ec[i]
          BY <3>1, <3>2 DEF Current
        <4> QED
          BY <2>5, <4>1, <4>2, PipelineAssumption
      <3> QED
        BY <2>5, <3>1, <3>2 DEF IInv, StepInv, AtWake
    <2>6. Working(i)' = Working(i)
      BY <2>2, <2>3, <2>4, <2>5 DEF Working, Busy, TrainSteps, PredictSteps, EndSteps
    <2>7. Untaught(i)' = Untaught(i)
      BY <2>2, <2>3, <2>4 DEF Untaught
    <2> QED
      BY <1>1, <2>1, <2>4, <2>6, <2>7, OneQuiet
  <1> QED
    BY <1>3, <1>4

(* free_example: the example has been reported.                            *)
LEMMA FreeReport ==
  ASSUME IInv, ReportInv, NEW i \in Thread, FreeExample(i)
  PROVE  ReportInv'
  <1>1. /\ UNCHANGED <<sink, sum, weights, kind, summed, used_index,
                       delay_indices, local_index>>
        /\ \A j \in Thread \ {i} : pc'[j] = pc[j] \/ pc'[j] = WokenByExamples[j]
        /\ pc[i] = "free" /\ pc'[i] \in {"unlock", "select"}
    BY DEF FreeExample, WokenByExamples, accountVars, delayVars, IInv, TypeOK, LearnerType
  <1>2. Ready' = Ready
    BY DEF FreeExample, Ready
  <1>3. ~Pending(i) /\ ~Pending(i)'
    BY <1>1 DEF Pending, IInv, DelayInv
  <1>4. ~Working(i)'
    BY <1>1, <1>3 DEF Working, Busy, TrainSteps, PredictSteps, EndSteps
  <1>5. /\ Reported(i)' = Reported(i)
        /\ (pc'[i] = "predict") = (pc[i] = "predict")
        /\ (pc'[i] = "delay") = (pc[i] = "delay")
        /\ Untaught(i)' = Untaught(i)
    BY <1>1, <1>3, <1>4 DEF Reported, Finished, Untaught
  <1>6. \A j \in Thread :
          /\ Reported(j)' = Reported(j)
          /\ (pc'[j] = "predict") = (pc[j] = "predict")
          /\ (pc'[j] = "delay") = (pc[j] = "delay")
          /\ Untaught(j)' = Untaught(j)
    BY <1>1, <1>5, WokenQuiet
  <1> QED
    BY <1>1, <1>2, <1>6, QuietReport, SameTaught, SameFront, SameMissing

(* delay_example: nobody has trained on it before, nor has after.          *)
LEMMA DelayReport ==
  ASSUME IInv, ReportInv, NEW i \in Thread, DelayExample(i)
  PROVE  ReportInv'
  <1>1. /\ UNCHANGED <<sink, sum, weights, kind, summed, used_index, ppc,
                       parsed_index, delay_indices>>
        /\ local_index' = local_index + 1
        /\ \A j \in Thread \ {i} : pc'[j] = pc[j]
        /\ pc[i] = "delay" /\ pc'[i] = "select"
    BY DEF DelayExample, Goto, parserVars, accountVars, IInv, TypeOK, LearnerType
  <1>2. Ready' = Ready
    BY <1>1 DEF Ready
  <1>3. \A j \in Thread : ~Pending(j)
    BY <1>1 DEF IInv, StepInv, AtDelay
  <1>4. \A j \in Thread : Pending(j)'
    BY <1>1, <1>3 DEF Pending, IInv, TypeOK, DelayType
  <1>5. \A j \in Thread : pc[j] \in {"delay", "sumWake"}
    BY <1>1, DelayAlone
  <1>6. \A j \in Thread : Finished(j)' = Finished(j)
    BY <1>1, <1>4, <1>5 DEF Finished, Working, Busy, PredictSteps
  <1>7. \A j \in Thread : Reported(j)' = Reported(j)
    BY <1>1, <1>5, <1>6 DEF Reported
  <1>8. \A j \in Thread : Taught(j)' = Taught(j)
    BY <1>1, <1>4 DEF Taught, Untaught
  <1>9. \A j \in Thread : (pc'[j] = "predict") = (pc[j] = "predict")
    BY <1>1
  <1> QED
    BY <1>1, <1>2, <1>7, <1>8, <1>9, QuietReport, SameFront, SameMissing

(* inline_train.                                                           *)
LEMMA TrainReport ==
  ASSUME IInv, ReportInv, NEW i \in Thread, Train(i)
  PROVE  ReportInv'
  <1> DEFINE n == Current(i)
  <1>0. pc[i] = "train" /\ pc[i] \in TrainSteps
    BY DEF Train, TrainSteps
  <1>1. /\ UNCHANGED <<sink, sum, kind, summed, used_index, ppc, parsed_index,
                       delay_indices, local_index>>
        /\ weights' = [weights EXCEPT ![i] = Append(@, example_counter[ec[i]])]
        /\ \A j \in Thread \ {i} : pc'[j] = pc[j]
        /\ pc'[i] = "finish"
    BY DEF Train, Goto, parserVars, exampleVars, delayVars, accountVars, IInv,
           TypeOK, LearnerType
  <1>2. /\ Working(i) /\ ~Pending(i) /\ ec[i] = SlotOf(n) /\ Training(i)
        /\ summed[SlotOf(n)] /\ kind[SlotOf(n)] = "train"
        /\ \A k \in Thread : pc[k] # "delay"
    BY <1>0, TrainCount
  <1>3. /\ n \in Nat /\ used_index[i] = n + 1 /\ Live(n) /\ n \in 0..(Ready - 1)
        /\ LiveExample(n)
    BY <1>2, WorkingSlot DEF IInv, LiveInv
  <1>4. example_counter[ec[i]] = n + 1 /\ Missing(n) = {}
    BY <1>2, <1>3 DEF LiveExample
  <1>5. Front = n
    BY <1>0, <1>2, <1>4, AtFront
  <1> HIDE DEF n
  <1>6. Front' = Front /\ Model' = Model /\ SlotOf(Front)' = SlotOf(Front)
    BY <1>1 DEF Front, Model, ModelAfter, SlotOf
  <1>7. Ready' = Ready
    BY <1>1 DEF Ready
  <1>8. \A j \in Thread : Pending(j)' = Pending(j) /\ Working(j)' = Working(j)
    BY <1>0, <1>1 DEF Pending, Working, Busy, TrainSteps
  <1>9. FrontInv'
    <2>1. \A j \in Thread : Reported(j)' = Reported(j)
      BY <1>0, <1>1, <1>8 DEF Reported, Finished
    <2> QED
      BY <1>1, <2>1, SameFront
  <1>10. WeightsInv'
    <2>1. ~Taught(i) /\ Taught(i)'
      BY <1>0, <1>1, <1>2, <1>3, <1>5, <1>6, <1>8 DEF Taught, Untaught
    <2>2. \A j \in Thread \ {i} : Taught(j)' = Taught(j)
      BY <1>0, <1>1, <1>6, <1>8 DEF Taught, Untaught
    <2>3. weights[i] = Model
      BY <2>1 DEF ReportInv, WeightsInv
    <2>4. weights'[i] = Append(Model, Front + 1)
      BY <1>1, <1>4, <1>5, <2>3 DEF IInv, TypeOK, LearnerType
    <2>5. \A j \in Thread \ {i} : weights'[j] = weights[j]
      BY <1>1 DEF IInv, TypeOK, LearnerType
    <2> QED
      BY <1>6, <2>1, <2>2, <2>4, <2>5 DEF ReportInv, WeightsInv
  <1>11. SumInv'
    <2>1. \A j \in Thread : (pc'[j] = "predict") = (pc[j] = "predict")
      BY <1>0, <1>1
    <2>2. \A m \in Nat : Missing(m)' = Missing(m)
      BY <1>1, <2>1, SameMissing
    <2>3. \A m : ModelFor(m)' = ModelFor(m)
      BY <1>1, <1>6 DEF ModelFor
    <2>4. \A m \in Front..(Ready - 1) : Missing(m)' = Missing(m)
      BY <2>2, FrontLive
    <2> QED
      BY <1>1, <1>6, <1>7, <2>3, <2>4 DEF ReportInv, SumInv, SlotOf
  <1> QED
    BY <1>9, <1>10, <1>11 DEF ReportInv

(* finish_example: the last to finish goes on to report.                   *)
LEMMA FinishReport ==
  ASSUME IInv, ReportInv, NEW i \in Thread, FinishExample(i)
  PROVE  ReportInv'
  <1> DEFINE n == Current(i)
  <1>0. pc[i] = "finish" /\ pc[i] \in TrainSteps
    BY DEF FinishExample, TrainSteps
  <1>1. /\ UNCHANGED <<sink, sum, weights, kind, summed, used_index, ppc,
                       parsed_index, delay_indices, local_index>>
        /\ \A j \in Thread \ {i} : pc'[j] = pc[j]
        /\ pc'[i] = IF threads_to_finish[ec[i]] - 1 = 0 THEN "output" ELSE "select"
    BY DEF FinishExample, Goto, parserVars, delayVars, accountVars, IInv,
           TypeOK, LearnerType
  <1>2. /\ Working(i) /\ ~Pending(i) /\ ec[i] = SlotOf(n) /\ Training(i)
        /\ i \in Untrained(n) /\ summed[SlotOf(n)]
        /\ threads_to_finish[SlotOf(n)] = Cardinality(Untrained(n))
        /\ \A k \in Thread : pc[k] # "delay"
    BY <1>0, TrainCount
  <1>3. /\ n \in Nat /\ used_index[i] = n + 1 /\ Finished(i) = n
        /\ n \in 0..(Ready - 1) /\ LiveExample(n)
    BY <1>2, WorkingSlot DEF IInv, LiveInv
  <1>4. Front = n
    BY <1>0, <1>2, <1>3, AtFront DEF LiveExample
  <1> HIDE DEF n
  <1>5. Ready' = Ready /\ Front' = Front
    BY <1>1 DEF Ready, Front
  <1>6. \A j \in Thread : /\ Pending(j)' = Pending(j) /\ Untaught(j)' = Untaught(j)
                          /\ (pc'[j] = "predict") = (pc[j] = "predict")
                          /\ (pc'[j] = "delay") = (pc[j] = "delay")
    BY <1>0, <1>1 DEF Pending, Untaught
  <1>7. \A j \in Thread \ {i} : Reported(j)' = Reported(j)
    BY <1>1, <1>6 DEF Reported, Finished, Working
  <1>8. Reported(i) = n
    BY <1>0, <1>3 DEF Reported
  <1>9. FrontInv'
    <2>1. CASE threads_to_finish[ec[i]] - 1 = 0
      <3>1. Working(i)'
        BY <1>1, <2>1 DEF Working, Busy, EndSteps
      <3>2. Reported(i)' = Reported(i)
        BY <1>0, <1>1, <1>2, <2>1, <3>1 DEF Reported, Finished
      <3> QED
        BY <1>1, <1>7, <3>2, SameFront
    <2>2. CASE threads_to_finish[ec[i]] - 1 # 0
      <3>1. Untrained(n) # {i} /\ Untrained(n) \subseteq Thread
        BY <1>2, <2>2, FS_Singleton DEF Untrained
      <3>2. PICK k \in Thread \ {i} : k \in Untrained(n)
        BY <1>2, <3>1
      <3>3. Reported(k) = n
        <4>1. Working(k) /\ used_index[k] = n + 1 /\ pc[k] # "free"
          BY <3>2 DEF Untrained, Training, Working, Busy, TrainSteps, IInv, DelayInv
        <4> QED
          BY <1>3, <4>1 DEF Reported, Finished
      <3>4. Reported(i)' = n + 1
        <4>1. ~Working(i)' /\ pc'[i] = "select"
          BY <1>1, <1>2, <1>6, <2>2 DEF Working, Busy, TrainSteps, PredictSteps, EndSteps
        <4> QED
          BY <1>1, <1>3, <4>1 DEF Reported, Finished
      <3> QED
        BY <1>3, <1>4, <1>5, <1>7, <1>8, <3>2, <3>3, <3>4 DEF ReportInv, FrontInv
    <2> QED
      BY <2>1, <2>2
  <1> QED
    BY <1>1, <1>5, <1>6, <1>9, QuietReport, SameTaught, SameMissing

----------------------------------------------------------------------------
(* An example is taken, and its sum collected.                             *)

(* An example that somebody has not taken has no complete sum.             *)
LEMMA NotTaken ==
  ASSUME IInv, ReportInv, NEW i \in Thread, NEW n \in Front..(Ready - 1),
         used_index[i] <= n
  PROVE  ~summed[SlotOf(n)]
  <1>1. LiveExample(n)
    BY FrontLive DEF IInv, LiveInv
  <1>2. i \in Missing(n)
    BY DEF Missing
  <1> QED
    BY <1>1, <1>2 DEF LiveExample

LEMMA GetReport ==
  ASSUME IInv, ReportInv, NEW i \in Thread, GetExample(i)
  PROVE  ReportInv'
  <1>1. /\ UNCHANGED <<sink, sum, weights, kind, summed, ppc, parsed_index,
                       delay_indices, local_index>>
        /\ \A j \in Thread \ {i} : pc'[j] = pc[j] /\ used_index'[j] = used_index[j]
        /\ pc[i] = "get" /\ used_index'[i] = used_index[i] + 1
        /\ used_index[i] # parsed_index
    BY DEF GetExample, Goto, parserVars, exampleVars, delayVars, accountVars,
           IInv, TypeOK, LearnerType
  <1>2. pc'[i] = "predict"
    <2>1. SlotOf(used_index[i]) \in Slot
      BY SlotType DEF IInv, TypeOK, LearnerType
    <2>2. kind[SlotOf(used_index[i])] # "save"
      BY <2>1 DEF IInv, PlainInv
    <2> QED
      BY <2>2 DEF GetExample, Goto, IInv, TypeOK, LearnerType
  <1>3. /\ used_index[i] \in Nat /\ parsed_index \in Nat
        /\ used_index[i] < parsed_index /\ parsed_index <= Ready /\ Ready \in Nat
    BY <1>1, FinishedType DEF IInv, TypeOK, LearnerType, ParserType
  <1>4. Ready' = Ready /\ Front' = Front /\ SlotOf(Front)' = SlotOf(Front)
    BY <1>1 DEF Ready, Front, SlotOf
  <1>5. ~Pending(i) /\ \A j \in Thread : Pending(j)' = Pending(j)
    BY <1>1 DEF Pending, IInv, DelayInv
  <1>6. Reported(i)' = Reported(i) /\ Reported(i) = used_index[i]
    BY <1>1, <1>2, <1>3, <1>5
       DEF Reported, Finished, Working, Busy, TrainSteps, PredictSteps, EndSteps
  <1>7. \A j \in Thread : Reported(j)' = Reported(j)
    BY <1>1, <1>5, <1>6 DEF Reported, Finished, Working
  <1>8. \A m \in Nat : Missing(m)' = Missing(m)
    BY <1>1, <1>2, <1>3 DEF Missing
  <1>9. \A j \in Thread : Taught(j)' = Taught(j)
    <2>1. \A j \in Thread : /\ Untaught(j)' = Untaught(j)
                            /\ (pc'[j] = "delay") = (pc[j] = "delay")
      BY <1>1, <1>2, <1>5 DEF Untaught
    <2>2. \A j \in Thread \ {i} : Taught(j)' = Taught(j)
      BY <1>1, <1>4, <2>1 DEF Taught
    <2>3. Front \in Nat /\ Front <= used_index[i]
      BY <1>6, FrontFacts DEF ReportInv, FrontInv
    <2>4. Front = used_index[i] => ~summed[SlotOf(Front)]
      BY <1>3, <2>3, NotTaken
    <2>5. Taught(i)' = Taught(i)
      BY <1>1, <1>3, <1>4, <2>1, <2>3, <2>4 DEF Taught
    <2> QED
      BY <2>2, <2>5
  <1> QED
    BY <1>1, <1>4, <1>7, <1>8, <1>9, QuietReport, SameFront

LEMMA ParseReport ==
  ASSUME IInv, ReportInv, ParseExample
  PROVE  ReportInv'
  <1> SUFFICES ASSUME NEW n \in Nat, n = parsed_index, NEW s \in Slot, s = SlotOf(n)
               PROVE  ReportInv'
    BY SlotType DEF IInv, TypeOK, ParserType
  <1>1. /\ UNCHANGED <<sink, weights, pc, used_index, parsed_index,
                       delay_indices, local_index>>
        /\ ppc = "parse" /\ ppc' = "publish"
        /\ sum' = [sum EXCEPT ![s] = {}]
        /\ \A r \in Slot \ {s} : kind'[r] = kind[r] /\ summed'[r] = summed[r]
    BY DEF ParseExample, learnerVars, delayVars, accountVars, IInv, TypeOK, ExampleType
  <1>2. Ready = n /\ Ready' = n + 1
    BY <1>1 DEF Ready
  <1>3. Front' = Front /\ Model' = Model /\ SlotOf(Front)' = SlotOf(Front)
    BY <1>1 DEF Front, Model, ModelAfter, SlotOf
  <1>4. \A j \in Thread : Reported(j)' = Reported(j)
    BY <1>1 DEF Reported, Finished, Working, Pending
  <1>5. FrontInv'
    BY <1>1, <1>4, SameFront
  <1>6. \A m \in Front..(Ready - 1) : SlotOf(m) \in Slot \ {s}
    BY <1>1, <1>2, FrontLive, ParserApart DEF ParserHolds, IInv
  <1>7. Front \in Nat /\ Front <= n
    BY <1>2, FrontFacts
  <1>8. \A j \in Thread : used_index[j] \in Nat /\ used_index[j] <= n
    BY FinishedType DEF IInv, TypeOK, LearnerType
  <1>9. ASSUME NEW j \in Thread PROVE Taught(j)' = Taught(j)
    <2>1. CASE Front = n
      BY <1>1, <1>3, <1>8, <2>1 DEF Taught
    <2>2. CASE Front # n
      <3>1. SlotOf(Front) \in Slot \ {s}
        BY <1>2, <1>6, <1>7, <2>2
      <3> QED
        BY <1>1, <1>3, <3>1 DEF Taught, Untaught, Pending
    <2> QED
      BY <2>1, <2>2
  <1>10. WeightsInv'
    BY <1>1, <1>3, <1>9 DEF ReportInv, WeightsInv
  <1>11. SumInv'
    <2>1. \A m : Missing(m)' = Missing(m)
      BY <1>1 DEF Missing
    <2>2. \A m \in Front..(Ready - 1) : ModelFor(m)' = ModelFor(m)
      BY <1>1, <1>2, <1>3, <1>6, <1>7 DEF ModelFor
    <2>3. \A m \in Front..(Ready - 1) : sum'[SlotOf(m)] = sum[SlotOf(m)]
      BY <1>1, <1>6 DEF IInv, TypeOK, ExampleType
    <2>4. Missing(n) = Thread
      BY <1>8 DEF Missing
    <2>5. sum'[s] = {}
      BY <1>1 DEF IInv, TypeOK, ExampleType
    <2> SUFFICES ASSUME NEW m \in Front..n
                 PROVE  sum'[SlotOf(m)] = {[by |-> j, model |-> ModelFor(m)'] :
                                             j \in Thread \ Missing(m)'}
      BY <1>2, <1>3 DEF SumInv, SlotOf
    <2>6. CASE m = n
      BY <2>1, <2>4, <2>5, <2>6
    <2>7. CASE m # n
      <3>1. m \in Front..(Ready - 1)
        BY <1>2, <1>7, <2>7
      <3> QED
        BY <2>1, <2>2, <2>3, <3>1 DEF ReportInv, SumInv
    <2> QED
      BY <2>6, <2>7
  <1> QED
    BY <1>5, <1>10, <1>11 DEF ReportInv

(* A learner that predicts does so with the model of that place in the     *)
(* sequence.                                                               *)
LEMMA PredictsWith ==
  ASSUME IInv, ReportInv, NEW i \in Thread, pc[i] = "predict"
  PROVE  /\ weights[i] = ModelFor(Current(i))
         /\ Current(i) \in Front..(Ready - 1)
         /\ Taught(i) <=> (Current(i) > Front /\ kind[SlotOf(Front)] = "train")
  <1> DEFINE n == Current(i)
  <1>1. Working(i) /\ ~Pending(i) /\ ~summed[SlotOf(n)]
    BY PredictCount
  <1>2. n \in 0..(Ready - 1) /\ n \in Nat /\ used_index[i] = n + 1 /\ Finished(i) = n
    BY <1>1, WorkingSlot
  <1>3. Front \in Nat /\ Front <= n /\ Ready \in Nat
    BY <1>2, FrontFacts DEF ReportInv, FrontInv, Reported
  <1>4. Front \in Front..(Ready - 1)
    BY <1>2, <1>3
  <1>5. LiveExample(Front)
    BY <1>4, FrontLive DEF IInv, LiveInv
  <1>6. n > Front /\ kind[SlotOf(Front)] = "train" => summed[SlotOf(Front)]
    BY <1>2, <1>3, <1>5 DEF LiveExample, IInv, TypeOK, LearnerType
  <1>7. \A k \in Thread : pc[k] # "delay"
    BY DelayAlone
  <1>8. ~Untaught(i)
    BY <1>1 DEF Untaught
  <1>9. Taught(i) <=> (n > Front /\ kind[SlotOf(Front)] = "train")
    BY <1>1, <1>2, <1>3, <1>6, <1>7, <1>8 DEF Taught
  <1> QED
    BY <1>2, <1>3, <1>9 DEF ReportInv, WeightsInv, ModelFor

(* A share more in the sum of one example.                                 *)
LEMMA ShareAdded ==
  ASSUME IInv, ReportInv, NEW i \in Thread, pc[i] = "predict",
         pc'[i] # "predict", \A j \in Thread \ {i} :
           (pc'[j] = "predict") = (pc[j] = "predict"),
         sum' = [sum EXCEPT ![ec[i]] =
                   @ \cup {[by |-> i, model |-> weights[i]]}],
         sink' = sink, kind' = kind, used_index' = used_index, Ready' = Ready
  PROVE  SumInv'
  <1> SUFFICES ASSUME NEW n \in Nat, n = Current(i) PROVE SumInv'
    <2>1. Working(i)
      BY PredictCount
    <2> QED
      BY <2>1, WorkingSlot
  <1>1. Working(i) /\ ec[i] = SlotOf(n) /\ i \in Missing(n)
    BY PredictCount
  <1>2. used_index[i] = n + 1 /\ SlotOf(n) \in Slot
    BY <1>1, WorkingSlot
  <1>3. weights[i] = ModelFor(n) /\ n \in Front..(Ready - 1)
    BY PredictsWith
  <1>4. Front' = Front /\ Model' = Model /\ SlotOf(Front)' = SlotOf(Front)
    BY DEF Front, Model, ModelAfter, SlotOf
  <1>5. \A m : ModelFor(m)' = ModelFor(m)
    BY <1>4 DEF ModelFor
  <1>6. Missing(n)' = Missing(n) \ {i}
    <2>1. \A j \in Thread \ {i} : j \in Missing(n)' <=> j \in Missing(n)
      BY DEF Missing
    <2>2. i \notin Missing(n)'
      BY <1>2 DEF Missing
    <2>3. Missing(n) \subseteq Thread /\ Missing(n)' \subseteq Thread
      BY DEF Missing
    <2> QED
      BY <2>1, <2>2, <2>3
  <1> SUFFICES ASSUME NEW m \in Front..(Ready - 1)
               PROVE  sum'[SlotOf(m)] = {[by |-> j, model |-> ModelFor(m)] :
                                           j \in Thread \ Missing(m)'}
    BY <1>4, <1>5 DEF SumInv, SlotOf
  <1>7. sum[SlotOf(m)] = {[by |-> j, model |-> ModelFor(m)] :
                            j \in Thread \ Missing(m)}
    BY DEF ReportInv, SumInv
  <1>8. CASE m = n
    <2>1. sum'[SlotOf(n)] = sum[SlotOf(n)] \cup {[by |-> i, model |-> ModelFor(n)]}
      BY <1>1, <1>2, <1>3 DEF IInv, TypeOK, ExampleType
    <2>2. Thread \ Missing(n)' = (Thread \ Missing(n)) \cup {i}
      BY <1>1, <1>6
    <2> QED
      BY <1>7, <1>8, <2>1, <2>2
  <1>9. CASE m # n
    <2>1. SlotOf(m) # SlotOf(n) /\ SlotOf(m) \in Slot
      BY <1>3, <1>9, FrontLive, LiveApart DEF IInv
    <2>2. sum'[SlotOf(m)] = sum[SlotOf(m)]
      BY <1>1, <2>1 DEF IInv, TypeOK, ExampleType
    <2>3. m \in Nat
      BY FrontLive
    <2>4. i \in Missing(m)' <=> i \in Missing(m)
      BY <1>2, <1>9, <2>3 DEF Missing
    <2>5. \A j \in Thread \ {i} : j \in Missing(m)' <=> j \in Missing(m)
      BY DEF Missing
    <2>6. Missing(m) \subseteq Thread /\ Missing(m)' \subseteq Thread
      BY DEF Missing
    <2>7. Missing(m)' = Missing(m)
      <3>1. \A j \in Thread : j \in Missing(m)' <=> j \in Missing(m)
        BY <2>4, <2>5
      <3> QED
        BY <2>6, <3>1, Zenon
    <2>8. Thread \ Missing(m)' = Thread \ Missing(m)
      BY <2>7
    <2> QED
      BY <1>7, <2>2, <2>8
  <1> QED
    BY <1>8, <1>9

LEMMA ContributeReport ==
  ASSUME IInv, ReportInv, NEW i \in Thread, Contribute(i)
  PROVE  ReportInv'
  <1> DEFINE n == Current(i)
  <1>1. /\ UNCHANGED <<sink, weights, kind, summed, used_index, ppc,
                       parsed_index, delay_indices, local_index>>
        /\ sum' = [sum EXCEPT ![ec[i]] =
                     @ \cup {[by |-> i, model |-> weights[i]]}]
        /\ \A j \in Thread \ {i} : pc'[j] = pc[j]
        /\ pc[i] = "predict"
        /\ pc'[i] \in {"sumWait", "select"}
        /\ threads_to_finish[ec[i]] # 1
    BY DEF Contribute, Goto, parserVars, delayVars, accountVars, IInv, TypeOK,
           LearnerType
  <1>2. /\ Working(i) /\ ~Pending(i) /\ ec[i] = SlotOf(n) /\ i \in Missing(n)
        /\ threads_to_finish[SlotOf(n)] = Cardinality(Missing(n))
    BY <1>1, PredictCount
  <1>3. n \in Nat /\ used_index[i] = n + 1 /\ Finished(i) = n
    BY <1>2, WorkingSlot
  <1>4. Ready' = Ready /\ Front' = Front /\ Model' = Model
        /\ SlotOf(Front)' = SlotOf(Front)
    BY <1>1 DEF Ready, Front, Model, ModelAfter, SlotOf
  <1>5. \A j \in Thread : /\ Pending(j)' = Pending(j) /\ Untaught(j)' = Untaught(j)
                          /\ (pc'[j] = "delay") = (pc[j] = "delay")
    BY <1>1 DEF Pending, Untaught
  <1>6. \A j \in Thread \ {i} : Reported(j)' = Reported(j)
    BY <1>1, <1>5 DEF Reported, Finished, Working
  <1>7. Reported(i) = n /\ Front <= n /\ Front \in Nat
    BY <1>1, <1>3, FrontFacts DEF Reported, ReportInv, FrontInv
  <1>8. Reported(i)' \in {n, n + 1}
    BY <1>1, <1>3 DEF Reported, Finished
  <1>9. PICK k \in Thread \ {i} : k \in Missing(n)
    <2>1. Missing(n) \subseteq Thread /\ Cardinality(Missing(n)) # 1
      BY <1>1, <1>2 DEF Missing
    <2>2. Missing(n) # {i}
      BY <2>1, FS_Singleton
    <2> QED
      BY <1>2, <2>1, <2>2
  <1>10. Reported(k) \in Nat /\ Reported(k) <= n
    <2>1. Finished(k) \in Nat /\ Finished(k) <= used_index[k]
          /\ used_index[k] \in Nat
      BY FinishedType DEF IInv, TypeOK, LearnerType
    <2> QED
      BY <1>3, <1>9, <2>1 DEF Missing, Reported, Finished, Working, Busy, PredictSteps
  <1> HIDE DEF n
  <1>11. FrontInv'
    <2>1. \A j \in Thread \ {i} : Front <= Reported(j)'
      BY <1>6 DEF ReportInv, FrontInv
    <2>3. Front <= Reported(i)'
      BY <1>3, <1>7, <1>8
    <2>2. \E j \in Thread : Front = Reported(j)'
      BY <1>6, <1>7, <1>9, <1>10 DEF ReportInv, FrontInv
    <2> QED
      BY <1>4, <2>1, <2>2, <2>3 DEF FrontInv
  <1>12. \A j \in Thread : Taught(j)' = Taught(j)
    BY <1>1, <1>5, SameTaught
  <1>13. WeightsInv'
    BY <1>1, <1>4, <1>12 DEF ReportInv, WeightsInv
  <1>14. SumInv'
    BY <1>1, <1>4, ShareAdded
  <1> QED
    BY <1>11, <1>13, <1>14 DEF ReportInv

LEMMA CompleteReport ==
  ASSUME IInv, ReportInv, NEW i \in Thread, CompleteSum(i)
  PROVE  ReportInv'
  <1> DEFINE n == Current(i)
  <1>0. kind' = kind
    BY DEF CompleteSum, IInv, PlainInv, PlainJob
  <1>1. /\ UNCHANGED <<sink, weights, used_index, ppc,
                       parsed_index, delay_indices, local_index>>
        /\ sum' = [sum EXCEPT ![ec[i]] =
                     @ \cup {[by |-> i, model |-> weights[i]]}]
        /\ summed' = [summed EXCEPT ![ec[i]] = TRUE]
        /\ \A j \in Thread \ {i} :
             pc'[j] = pc[j] \/ (pc[j] = "sumWait" /\ pc'[j] = "sumWake")
        /\ pc[i] = "predict"
        /\ pc'[i] = IF kind[ec[i]] = "train" THEN "delay" ELSE "output"
        /\ threads_to_finish[ec[i]] = 1
    <2>1. pc[i] = "predict" /\ threads_to_finish[ec[i]] = 1
      BY DEF CompleteSum
    <2>2. pc' = [j \in Thread |->
              IF j = i THEN IF kind[ec[i]] = "train" THEN "delay" ELSE "output"
              ELSE IF pc[j] = "sumWait" /\ ec[j] = ec[i] THEN "sumWake" ELSE pc[j]]
      BY <1>0 DEF CompleteSum
    <2>3. /\ UNCHANGED <<sink, weights, used_index, ppc,
                         parsed_index, delay_indices, local_index>>
          /\ sum' = [sum EXCEPT ![ec[i]] =
                       @ \cup {[by |-> i, model |-> weights[i]]}]
          /\ summed' = [summed EXCEPT ![ec[i]] = TRUE]
      BY DEF CompleteSum, parserVars, delayVars, accountVars
    <2>4. pc'[i] = IF kind[ec[i]] = "train" THEN "delay" ELSE "output"
      BY <2>2
    <2>5. \A j \in Thread \ {i} :
            pc'[j] = pc[j] \/ (pc[j] = "sumWait" /\ pc'[j] = "sumWake")
      BY <2>2
    <2> QED
      BY <2>1, <2>3, <2>4, <2>5
  <1>2. /\ Working(i) /\ ~Pending(i) /\ ec[i] = SlotOf(n) /\ i \in Missing(n)
        /\ threads_to_finish[SlotOf(n)] = Cardinality(Missing(n))
        /\ ~summed[SlotOf(n)]
    BY <1>1, PredictCount
  <1>3. n \in Nat /\ used_index[i] = n + 1 /\ Finished(i) = n /\ SlotOf(n) \in Slot
    BY <1>2, WorkingSlot
  <1>4. Front = n
    <2>1. PICK k : Missing(n) = {k}
      <3>1. Missing(n) \subseteq Thread /\ Cardinality(Missing(n)) = 1
        BY <1>1, <1>2 DEF Missing
      <3>2. IsFiniteSet(Missing(n))
        BY <3>1, FS_Subset, PipelineAssumption
      <3> QED
        BY <3>1, <3>2, FS_Singleton
    <2> QED
      BY <1>1, <1>2, <2>1, AtFront
  <1> HIDE DEF n
  <1>5. Ready' = Ready /\ Front' = Front /\ Model' = Model
        /\ SlotOf(Front)' = SlotOf(Front)
    BY <1>1 DEF Ready, Front, Model, ModelAfter, SlotOf
  <1>6. \A j \in Thread : Pending(j)' = Pending(j)
    BY <1>1 DEF Pending
  <1>7. \A j \in Thread : Working(j)' = Working(j)
    BY <1>1, <1>6 DEF Working, Busy, PredictSteps, EndSteps
  <1>8. \A j \in Thread : Reported(j)' = Reported(j)
    BY <1>1, <1>7 DEF Reported, Finished
  <1>9. FrontInv'
    BY <1>1, <1>8, SameFront
  <1>10. \A j \in Thread : ~Taught(j) /\ ~Taught(j)'
    BY <1>0, <1>1, <1>2, <1>4, <1>5 DEF Taught
  <1>11. WeightsInv'
    BY <1>1, <1>5, <1>10 DEF ReportInv, WeightsInv
  <1>12. SumInv'
    <2>1. \A j \in Thread \ {i} : (pc'[j] = "predict") = (pc[j] = "predict")
      BY <1>1
    <2>2. pc'[i] # "predict"
      BY <1>1
    <2> QED
      BY <1>0, <1>1, <1>5, <2>1, <2>2, ShareAdded
  <1> QED
    BY <1>9, <1>11, <1>12 DEF ReportInv

----------------------------------------------------------------------------
(* The report: the example in hand is next, its sum is complete, and       *)
(* nobody has begun to train on a later one.                               *)
LEMMA OutputFacts ==
  ASSUME IInv, ReportInv, NEW i \in Thread, Output(i),
         NEW n \in Nat, n = Front, NEW s \in Slot, s = SlotOf(n)
  PROVE  /\ n = Current(i) /\ used_index[i] = n + 1 /\ n < Ready
         /\ ec[i] = s /\ example_counter[s] = n + 1 /\ summed[s]
         /\ \A j \in Thread \ {i} : Finished(j) >= n + 1
         /\ \A j \in Thread : used_index[j] > n
         /\ \A j \in Thread : ~Untaught(j) /\ pc[j] # "delay" /\ ~Pending(j)
         /\ sum[s] = {[by |-> j, model |-> Model] : j \in Thread}
  <1> DEFINE c == Current(i)
  <1>1. pc[i] = "output" /\ pc[i] \in EndSteps /\ pc[i] \in Busy
    BY DEF Output, EndSteps, Busy
  <1>2. /\ Working(i) /\ ec[i] = SlotOf(c) /\ summed[SlotOf(c)]
        /\ \A j \in Thread \ {i} : Finished(j) >= used_index[i]
    BY <1>1 DEF Working, IInv, TakenInv, StepInv, AtEnd
  <1>3. /\ c \in Nat /\ used_index[i] = c + 1 /\ c \in 0..(Ready - 1)
        /\ Live(c) /\ LiveExample(c)
    BY <1>2, WorkingSlot DEF IInv, LiveInv
  <1>4. Missing(c) = {} /\ example_counter[SlotOf(c)] = c + 1
    BY <1>2, <1>3 DEF LiveExample
  <1>5. n = c
    BY <1>1, <1>2, <1>4, AtFront
  <1>6. n < Ready /\ Ready \in Nat /\ Front \in Front..(Ready - 1)
    BY <1>3, <1>5, FrontFacts
  <1>7. \A j \in Thread : used_index[j] > n
    BY <1>4, <1>5 DEF Missing, IInv, TypeOK, LearnerType
  <1>8. \A j \in Thread : pc[j] # "delay"
    BY <1>1, DelayAlone
  <1> HIDE DEF c
  <1>9. ASSUME NEW j \in Thread PROVE ~Untaught(j) /\ ~Pending(j)
    <2>1. ~Pending(i) /\ ~Untaught(i)
      BY <1>1 DEF Untaught, IInv, DelayInv
    <2>2. ASSUME j # i, Training(j) PROVE FALSE
      <3>1. /\ Working(j) /\ summed[SlotOf(Current(j))]
        BY <2>2 DEF Working, Training, Busy, IInv, StepInv, AtTrain
      <3>2. /\ Current(j) \in Nat /\ Finished(j) = Current(j)
            /\ Current(j) \in 0..(Ready - 1)
        BY <3>1, WorkingSlot
      <3>3. used_index[i] <= Current(j)
        BY <1>2, <2>2, <3>2
      <3>4. Current(j) \in Front..(Ready - 1)
        BY <1>3, <1>5, <1>6, <3>2, <3>3
      <3> QED
        BY <3>1, <3>3, <3>4, NotTaken
    <2> QED
      BY <2>1, <2>2 DEF Training, Untaught, TrainSteps
  <1>10. sum[SlotOf(Front)] = {[by |-> j, model |-> Model] : j \in Thread}
    <2>1. ModelFor(Front) = Model
      BY FrontFacts DEF ModelFor
    <2>2. Thread \ Missing(Front) = Thread
      BY <1>4, <1>5
    <2> QED
      BY <1>6, <2>1, <2>2 DEF ReportInv, SumInv
  <1> QED
    BY <1>2, <1>3, <1>4, <1>5, <1>6, <1>7, <1>8, <1>9, <1>10 DEF c

LEMMA ModelAfterLast ==
  ASSUME NEW reports, reports # <<>>, NEW last, last = reports[Len(reports)]
  PROVE  ModelAfter(reports) =
           IF last.kind = "train"
           THEN Append((CHOOSE c \in last.sum : TRUE).model, last.example)
           ELSE (CHOOSE c \in last.sum : TRUE).model
  BY DEF ModelAfter

(* It is the step of a sequential learner.                                 *)
LEMMA OutputStep ==
  ASSUME IInv, ReportInv, NEW i \in Thread, Output(i),
         NEW n \in Nat, n = Front, NEW s \in Slot, s = SlotOf(n)
  PROVE  /\ sink' = Append(sink, [example |-> Len(sink) + 1, kind |-> kind[s],
                                  sum |-> {[by |-> j, model |-> Model] : j \in Thread}])
         /\ Front' = n + 1
         /\ Model' = IF kind[s] = "train" THEN Append(Model, n + 1) ELSE Model
  <1> DEFINE shares == {[by |-> j, model |-> Model] : j \in Thread}
             report == [example |-> n + 1, kind |-> kind[s], sum |-> shares]
  <1>1. sink' = Append(sink, report)
    BY OutputFacts DEF Output
  <1>2. sink \in Seq([example : Nat, kind : Kinds, sum : SUBSET Contribution])
        /\ Len(sink) = n
    BY DEF IInv, TypeOK, AccountType, Front
  <1>3. (CHOOSE c \in shares : TRUE).model = Model
    <2>1. shares # {}
      BY PipelineAssumption
    <2>2. (CHOOSE c \in shares : TRUE) \in shares
      BY <2>1
    <2>3. \A x \in shares : x.model = Model
      OBVIOUS
    <2> HIDE DEF shares
    <2> QED
      BY <2>2, <2>3
  <1> HIDE DEF shares
  <1>4. report.example = n + 1 /\ report.kind = kind[s] /\ report.sum = shares
    OBVIOUS
  <1> HIDE DEF report
  <1>5. sink' # <<>> /\ Len(sink') = n + 1 /\ sink'[n + 1] = report
    BY <1>1, <1>2
  <1>6. Model' = IF kind[s] = "train" THEN Append(Model, n + 1) ELSE Model
    <2>1. sink'[Len(sink')] = report
      BY <1>5
    <2>2. ModelAfter(sink)' =
            IF report.kind = "train"
            THEN Append((CHOOSE c \in report.sum : TRUE).model, report.example)
            ELSE (CHOOSE c \in report.sum : TRUE).model
      BY <1>5, <2>1, ModelAfterLast, Zenon
    <2>3. (CHOOSE c \in report.sum : TRUE).model = Model
      BY <1>3, <1>4, Zenon
    <2>4. ModelAfter(sink)' = IF kind[s] = "train" THEN Append(Model, n + 1) ELSE Model
      BY <1>4, <2>2, <2>3, Zenon
    <2> QED
      BY <2>4, Zenon DEF Model
  <1> QED
    BY <1>1, <1>2, <1>5, <1>6 DEF Front, report, shares

LEMMA OutputReport ==
  ASSUME IInv, ReportInv, NEW i \in Thread, Output(i)
  PROVE  ReportInv'
  <1> SUFFICES ASSUME NEW n \in Nat, n = Front, NEW s \in Slot, s = SlotOf(n)
               PROVE  ReportInv'
    BY FrontFacts, SlotType
  <1>1. /\ UNCHANGED <<sum, weights, kind, summed, used_index, ppc,
                       parsed_index, delay_indices, local_index>>
        /\ \A j \in Thread \ {i} : pc'[j] = pc[j]
        /\ pc[i] = "output" /\ pc'[i] = "free"
    BY DEF Output, Goto, parserVars, exampleVars, delayVars, IInv, TypeOK, LearnerType
  <1>2. /\ n = Current(i) /\ used_index[i] = n + 1 /\ n < Ready /\ summed[s]
        /\ \A j \in Thread \ {i} : Finished(j) >= n + 1
        /\ \A j \in Thread : used_index[j] > n
        /\ \A j \in Thread : ~Untaught(j) /\ pc[j] # "delay" /\ ~Pending(j)
    BY OutputFacts
  <1>3. /\ Front' = n + 1
        /\ Model' = IF kind[s] = "train" THEN Append(Model, n + 1) ELSE Model
    BY OutputStep
  <1>4. Ready' = Ready /\ Ready \in Nat /\ parsed_index \in Nat
        /\ parsed_index <= Ready
    BY <1>1, FrontFacts, FinishedType DEF Ready, IInv, TypeOK, ParserType
  <1>5. \A j \in Thread : used_index[j] \in Nat /\ used_index[j] <= parsed_index
    BY DEF IInv, TypeOK, LearnerType, TakenInv
  <1>6. FrontInv'
    <2>1. Reported(i)' = n + 1
      BY <1>1, <1>2 DEF Reported
    <2>2. ASSUME NEW j \in Thread \ {i} PROVE Reported(j)' >= n + 1
      <3>1. Finished(j)' = Finished(j)
        BY <1>1 DEF Finished, Working, Pending
      <3>2. Finished(j) \in Nat /\ Finished(j) <= used_index[j]
        BY FinishedType DEF IInv
      <3> QED
        BY <1>1, <1>2, <1>5, <3>1, <3>2 DEF Reported
    <2> QED
      BY <1>3, <2>1, <2>2 DEF FrontInv
  <1>7. n + 1 < Ready =>
          /\ ~summed[SlotOf(n + 1)]
          /\ LiveExample(n + 1)
    <2>1. n + 1 < Ready => n + 1 \in Front..(Ready - 1)
      BY <1>4
    <2> QED
      BY <1>2, <2>1, FrontLive, NotTaken DEF IInv, LiveInv
  <1>8. WeightsInv'
    <2>1. \A j \in Thread : Taught(j) <=> kind[s] = "train"
      BY <1>2 DEF Taught
    <2>2. \A j \in Thread : weights[j] = Model'
      BY <1>3, <2>1 DEF ReportInv, WeightsInv
    <2>3. \A j \in Thread : used_index[j] > n + 1 => n + 1 < Ready
      BY <1>4, <1>5
    <2>4. SlotOf(Front)' = SlotOf(n + 1)
      BY <1>3 DEF SlotOf
    <2>5. \A j \in Thread : ~Taught(j)'
      BY <1>1, <1>3, <1>7, <2>3, <2>4 DEF Taught
    <2> QED
      BY <1>1, <2>2, <2>5 DEF WeightsInv
  <1>9. SumInv'
    <2>1. SlotOf(Front)' = SlotOf(n + 1)
      BY <1>3 DEF SlotOf
    <2> SUFFICES ASSUME NEW m \in (n + 1)..(Ready - 1)
                 PROVE  sum'[SlotOf(m)] = {[by |-> j, model |-> ModelFor(m)'] :
                                             j \in Thread \ Missing(m)'}
      BY <1>3, <1>4 DEF SumInv, SlotOf
    <2>2. m \in Front..(Ready - 1) /\ m \in Nat /\ m > Front
      BY <1>4
    <2>3. sum'[SlotOf(m)] = {[by |-> j, model |-> ModelFor(m)] :
                               j \in Thread \ Missing(m)}
      BY <1>1, <2>2 DEF ReportInv, SumInv
    <2>4. ModelFor(m) = Model'
      BY <1>3, <2>2 DEF ModelFor
    <2>5. Missing(m)' = Missing(m)
      BY <1>1 DEF Missing
    <2>6. CASE m > n + 1 /\ kind[SlotOf(n + 1)] = "train"
      <3>1. \A j \in Thread : used_index[j] <= n + 2
        BY <1>4, <1>7, <2>2, <2>6 DEF LiveExample
      <3>2. \A j \in Thread : used_index[j] <= m
        BY <1>5, <2>2, <2>6, <3>1
      <3>3. Thread \ Missing(m) = {}
        BY <3>2 DEF Missing
      <3> QED
        BY <2>3, <2>5, <3>3
    <2>7. CASE ~(m > n + 1 /\ kind[SlotOf(n + 1)] = "train")
      <3>1. ModelFor(m)' = Model'
        BY <1>1, <1>3, <2>1, <2>7 DEF ModelFor
      <3> QED
        BY <2>3, <2>4, <2>5, <3>1
    <2> QED
      BY <2>6, <2>7
  <1> QED
    BY <1>6, <1>8, <1>9 DEF ReportInv

----------------------------------------------------------------------------
LEMMA InitReport ==
  ASSUME Init
  PROVE  ReportInv
  <1>1. /\ sink = <<>> /\ ppc = "get" /\ parsed_index = 0
        /\ \A i \in Thread : /\ pc[i] = "select" /\ used_index[i] = 0
                             /\ weights[i] = <<>> /\ delay_indices[i] = 0
        /\ local_index = 0
    BY DEF Init, Zero
  <1>2. Front = 0 /\ Ready = 0 /\ Model = <<>>
    BY <1>1 DEF Front, Ready, Model, ModelAfter
  <1>3. \A i \in Thread : Reported(i) = 0
    BY <1>1 DEF Reported, Finished, Working, Pending, Busy, TrainSteps,
               PredictSteps, EndSteps
  <1>4. FrontInv
    BY <1>2, <1>3, PipelineAssumption DEF FrontInv
  <1>5. WeightsInv
    BY <1>1, <1>2 DEF WeightsInv, Taught
  <1>6. SumInv
    BY <1>2 DEF SumInv
  <1> QED
    BY <1>4, <1>5, <1>6 DEF ReportInv

LEMMA NextReport ==
  ASSUME IInv, ReportInv, [Next]_vars
  PROVE  ReportInv'
  <1>1. CASE \/ ClaimSlot \/ AwaitSlot \/ PublishExample \/ EndPass
             \/ ReleaseSlot \/ WakeParser \/ UNCHANGED vars
    BY <1>1, QuietParser
  <1>2. CASE ParseExample
    BY <1>2, ParseReport
  <1>3. ASSUME NEW i \in Thread, Learn(i) PROVE ReportInv'
    BY <1>3, QuietLearner, TrainReport, FinishReport DEF Learn
  <1>4. ASSUME NEW i \in Thread, Predict(i) PROVE ReportInv'
    BY <1>4, QuietLearner, GetReport, ContributeReport, CompleteReport,
       DelayReport, NoCommands DEF Predict
  <1>5. ASSUME NEW i \in Thread, Account(i) PROVE ReportInv'
    BY <1>5, QuietLearner, OutputReport, FreeReport DEF Account
  <1>6. ASSUME NEW i \in Thread, WakeLearner(i) PROVE ReportInv'
    BY <1>6, QuietLearner
  <1> QED
    BY <1>1, <1>2, <1>3, <1>4, <1>5, <1>6
       DEF Next, Parser, Learner, SpuriousWakeup

(* In every state of a run the reports, the weight vectors and the sums    *)
(* being collected are those of a sequential learner: the weights of a     *)
(* thread are the model after the reported examples, or one example ahead  *)
(* of it, and every share in a sum was predicted with the model at the     *)
(* place of its example (predict and gd_thread, gd.cc:720-783).            *)
THEOREM ReportsInOrder ==
  ASSUME \A j \in Jobs : PlainJob(j)
  PROVE  Spec => []ReportInv
  <1>1. Init => ReportInv
    BY InitReport
  <1>2. IInv /\ ReportInv /\ [Next]_vars => ReportInv'
    BY NextReport
  <1>3. Spec => []IInv
    BY Invariance
  <1> QED
    BY <1>1, <1>2, <1>3, PTL DEF Spec

(* Only Output reports; it is a step of the sequential learner, and every  *)
(* other step is none.                                                     *)
LEMMA StepRefines ==
  ASSUME IInv, ReportInv, [Next]_vars
  PROVE  [Sequential!Next]_(Sequential!vars)
  <1>1. CASE UNCHANGED sink
    <2>1. ModelAfter(sink)' = ModelAfter(sink)
      BY <1>1 DEF ModelAfter
    <2> QED
      BY <1>1, <2>1 DEF Sequential!vars
  <1>2. ASSUME NEW i \in Thread, Output(i)
        PROVE  Sequential!Next
    <2> SUFFICES ASSUME NEW n \in Nat, n = Front, NEW s \in Slot, s = SlotOf(n)
                 PROVE  Sequential!Process(kind[s]) /\ kind[s] \in Sequential!Kinds
      BY FrontFacts, SlotType DEF Sequential!Next
    <2>1. kind[s] \in Sequential!Kinds
      BY DEF IInv, PlainInv, Sequential!Kinds
    <2>2. /\ sink' = Append(sink, [example |-> Len(sink) + 1, kind |-> kind[s],
                       sum |-> {[by |-> j, model |-> ModelAfter(sink)] : j \in Thread}])
          /\ ModelAfter(sink)' = IF kind[s] = "train"
                                 THEN Append(ModelAfter(sink), Len(sink) + 1)
                                 ELSE ModelAfter(sink)
      BY <1>2, OutputStep DEF Model, Front
    <2> QED
      BY <2>1, <2>2 DEF Sequential!Process
  <1>3. UNCHANGED sink \/ \E i \in Thread : Output(i)
    BY AccountCases DEF StoreEta, accountVars
  <1> QED
    BY <1>1, <1>2, <1>3

(* N threads with their rings, barrier and locks implement a learner that  *)
(* takes one example at a time ("to keep example processing sequential",   *)
(* gd.cc:761), for every number of threads and every input.                *)
THEOREM SequentialRefinement ==
  ASSUME \A j \in Jobs : PlainJob(j)
  PROVE  Spec => ImplementsSequentialLearner
  <1>1. Init => Sequential!Init
    BY DEF Init, Sequential!Init, ModelAfter
  <1>2. IInv /\ ReportInv /\ [Next]_vars => [Sequential!Next]_(Sequential!vars)
    BY StepRefines
  <1>3. Spec => []IInv /\ []ReportInv
    BY Invariance, ReportsInOrder
  <1> QED
    BY <1>1, <1>2, <1>3, PTL DEF Spec, ImplementsSequentialLearner, Sequential!Spec
=============================================================================
