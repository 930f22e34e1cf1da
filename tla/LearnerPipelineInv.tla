------------------------- MODULE LearnerPipelineInv -------------------------
(***************************************************************************)
(* The inductive invariant behind the safety of LearnerPipeline, for the   *)
(* jobs the code handles with any number of threads: those without "save"  *)
(* commands and without --active_simulation.  LearnerPipelineProofs proves *)
(* it; the Online run checks it.                                           *)
(*                                                                         *)
(* Examples are named here by their index 0, 1, 2... in the order of       *)
(* parsing; the example of index n is in slot SlotOf(n).  Since a learner  *)
(* has at most one example in hand, the last it has taken, most of the     *)
(* invariant says where that one is.                                       *)
(***************************************************************************)
EXTENDS LearnerPipeline

PlainJob(j) ==
  /\ ~j.active_simulation
  /\ \A k \in DOMAIN j.source : j.source[k] # "save"

(* The example learner i has in hand, and how many it is done with.        *)
Training(i) == Pending(i) \/ pc[i] \in TrainSteps
Working(i) == Pending(i) \/ pc[i] \in Busy
Current(i) == used_index[i] - 1
Finished(i) == IF Working(i) THEN used_index[i] - 1 ELSE used_index[i]

(* The examples set up, the last one perhaps not published yet, and those  *)
(* of them that some learner is not done with.                             *)
Ready == IF ppc = "publish" THEN parsed_index + 1 ELSE parsed_index
Live(n) == \E i \in Thread : Finished(i) <= n

(* Who has yet to contribute to the sum of n, to train on it, or to fetch  *)
(* the example that is in the delay ring.                                  *)
Missing(n) ==
  {i \in Thread : \/ used_index[i] <= n
                  \/ used_index[i] = n + 1 /\ pc[i] = "predict"}
Untrained(n) == {i \in Thread : used_index[i] = n + 1 /\ Training(i)}
Unfetched == {i \in Thread : Pending(i) \/ pc[i] = "return"}

----------------------------------------------------------------------------
(* Neither commands nor lines that are not examples reach the learners.    *)
PlainInv ==
  /\ PlainJob(job)
  /\ \A s \in Slot : kind[s] \in {"train", "test"}
  /\ \A i \in Thread : pc[i] \notin {"command", "commandDone"}

(* A learner works on the last example it has taken.                       *)
TakenInv ==
  \A i \in Thread :
    /\ used_index[i] <= parsed_index
    /\ Working(i) => used_index[i] >= 1
    /\ pc[i] \in Busy => ec[i] = SlotOf(Current(i))

(* The examples that some learner is not done with fit in the ring, and    *)
(* the parser fills a slot of none of them.                                *)
ParserHolds == ppc \in {"parse", "publish", "release"}
WindowInv ==
  /\ ParserHolds => in_use[SlotOf(parsed_index)]
  /\ \A i \in Thread :
       /\ parsed_index <= Finished(i) + RingSize
       /\ ParserHolds => parsed_index < Finished(i) + RingSize

(* A live example is in its slot.  Before its sum is complete,             *)
(* threads_to_finish counts the learners missing from the sum, and a       *)
(* trainable one holds back all who have contributed; afterwards nobody is *)
(* missing, and threads_to_finish counts who has yet to train, unless the  *)
(* example is on its way to the delay ring.                                *)
LiveExample(n) ==
  LET s == SlotOf(n) IN
  /\ in_use[s] /\ example_counter[s] = n + 1
  /\ ~summed[s] => threads_to_finish[s] = Cardinality(Missing(n))
  /\ ~summed[s] /\ kind[s] = "train" =>
       \A i \in Thread :
         /\ used_index[i] <= n + 1
         /\ used_index[i] = n + 1 => pc[i] \in {"predict", "sumWait", "sumWake"}
  /\ summed[s] => Missing(n) = {}
  /\ summed[s] /\ kind[s] = "train" =>
       \/ threads_to_finish[s] = Cardinality(Untrained(n))
       \/ \E k \in Thread : pc[k] = "delay" /\ used_index[k] = n + 1
LiveInv == \A n \in 0..(Ready - 1) : Live(n) => LiveExample(n)

(* What a learner knows at each step of its example.                       *)
AtPredict(i) ==
  pc[i] \in {"predict", "sumWait"} => ~summed[SlotOf(Current(i))]
AtWait(i) ==
  pc[i] \in {"sumWait", "sumWake", "delay"} \/ Training(i) =>
    kind[SlotOf(Current(i))] = "train"
AtWake(i) ==
  pc[i] = "sumWake" =>
    \/ ~summed[SlotOf(Current(i))]
    \/ Pending(i)
    \/ \E k \in Thread : pc[k] = "delay" /\ used_index[k] = used_index[i]
AtDelay(i) ==
  pc[i] = "delay" =>
    /\ summed[SlotOf(Current(i))]
    /\ lock[SlotOf(Current(i))] = i
    /\ \A j \in Thread : ~Pending(j)
    /\ \A j \in Thread \ {i} :
         pc[j] = "sumWake" /\ used_index[j] = used_index[i]
AtTrain(i) == Training(i) => summed[SlotOf(Current(i))]
AtEnd(i) ==
  pc[i] \in EndSteps =>
    /\ summed[SlotOf(Current(i))]
    /\ threads_to_finish[SlotOf(Current(i))] = 0
    /\ \A j \in Thread \ {i} : Finished(j) >= used_index[i]
AtUnlock(i) == pc[i] = "unlock" => lock[ec[i]] = i
StepInv ==
  \A i \in Thread : /\ AtPredict(i) /\ AtWait(i) /\ AtWake(i) /\ AtDelay(i)
                    /\ AtTrain(i) /\ AtEnd(i) /\ AtUnlock(i)

(* At most one example is in the delay ring, the last one put there, and   *)
(* threads_to_use counts the learners that have yet to fetch it.           *)
DelayInv ==
  /\ \A i \in Thread :
       /\ Pending(i) => /\ pc[i] \in {"select", "sumWake"}
                        /\ delay_indices[i] + 1 = local_index
       /\ pc[i] = "return" => /\ delay_indices[i] = local_index
                              /\ local_index >= 1
  /\ \A i \in Unfetched :
       /\ delay_ring[SlotOf(local_index - 1)] = SlotOf(Current(i))
       /\ threads_to_use[SlotOf(local_index - 1)] = Cardinality(Unfetched)
  /\ \A s \in Slot : delay_ring[s] # NULL =>
       Unfetched # {} /\ s = SlotOf(local_index - 1)

IInv == /\ TypeOK /\ PlainInv /\ TakenInv /\ WindowInv /\ LiveInv
        /\ StepInv /\ DelayInv

----------------------------------------------------------------------------
(* What has been reported, and with which weights: why the threads amount  *)
(* to a sequential learner.  The next example to be reported is number     *)
(* Front; nobody is behind it, and somebody is not past it.                *)
Front == Len(sink)
Model == ModelAfter(sink)
Reported(i) == IF pc[i] = "free" THEN used_index[i] ELSE Finished(i)

FrontInv ==
  /\ \A i \in Thread : Front <= Reported(i)
  /\ \E i \in Thread : Front = Reported(i)

(* Learner i has trained on the example to be reported next.               *)
Untaught(i) ==
  Pending(i) \/ pc[i] \in {"return", "loadEta", "storeEta", "train"}
Taught(i) ==
  /\ used_index[i] > Front
  /\ kind[SlotOf(Front)] = "train" /\ summed[SlotOf(Front)]
  /\ \A k \in Thread : pc[k] # "delay"
  /\ ~Untaught(i)
WeightsInv ==
  \A i \in Thread :
    weights[i] = IF Taught(i) THEN Append(Model, Front + 1) ELSE Model

(* A sum has the share of everybody but those missing, each predicted with *)
(* the model at its place in the sequence.                                 *)
ModelFor(n) ==
  IF n > Front /\ kind[SlotOf(Front)] = "train"
  THEN Append(Model, Front + 1) ELSE Model
SumInv ==
  \A n \in Front..(Ready - 1) :
    sum[SlotOf(n)] = {[by |-> i, model |-> ModelFor(n)] :
                        i \in Thread \ Missing(n)}

ReportInv == FrontInv /\ WeightsInv /\ SumInv

----------------------------------------------------------------------------
(* Which pass the examples are of, when passes are not cut short: the      *)
(* reader comes to the end of its input before it has counted SizeMax      *)
(* examples, so no pass starts over; passes_complete only grows, and the   *)
(* live examples are of the passes it went through, in order.              *)
Whole(j) == j.pass_length = SizeMax

ReaderInv ==
  /\ pass_length = job.pass_length
  /\ example_number < read_pos /\ read_pos <= Len(job.source) + 1

PassOrder ==
  /\ \A i \in Thread : current_pass[i] <= passes_complete
  /\ \A n \in 0..(Ready - 1) : Live(n) => pass[SlotOf(n)] <= passes_complete
  /\ \A m, n \in 0..(Ready - 1) :
       Live(m) /\ m <= n => pass[SlotOf(m)] <= pass[SlotOf(n)]
  /\ \A i \in Thread : \A n \in 0..(Ready - 1) :
       Finished(i) <= n => current_pass[i] <= pass[SlotOf(n)]

(* A learner that is alone decays the rate once for each pass it comes to. *)
RateInv ==
  \A i \in Thread :
    /\ eta_decays <= current_pass[i]
    /\ pc[i] = "storeEta" => loaded[i] = eta_decays
    /\ pc[i] \in {"loadEta", "storeEta"} => NewPass(i)

PassInv == Whole(job) => ReaderInv /\ PassOrder
EtaInv == Whole(job) => RateInv
=============================================================================
