---------------------------- MODULE ClusterNode -----------------------------
(***************************************************************************)
(* A node of the old cluster mode (--predictto, --sendto): learners or the *)
(* sender, the relay thread, and the delay ring between them               *)
(* (message_relay.cc, sender.cc, delay_ring.cc with mesg = 1).             *)
(* Predictions, or examples, leave through a socket; the answers come back *)
(* in the same order.  With --backprop, --corrective or --delayed_global   *)
(* every learner trains on an example again when its answer is there.      *)
(*                                                                         *)
(* LearnerPipeline models the same threads without a relay, every lock     *)
(* apart; here an operation of a ring is one step.                         *)
(***************************************************************************)
EXTENDS Integers, Bags, SequencesExt

CONSTANTS NodeJobs,  \* what the node may be started as, and with which input
          NodeRing   \* global.ring_size

ASSUME NodeAssumption ==
  /\ NodeJobs \subseteq
       [mode : {"plain", "backprop", "delayed_global", "send"},
        threads : Nat \ {0}, relay : BOOLEAN, source : Seq({"train", "test"})]
  /\ NodeRing \in Nat \ {0, 1}

VARIABLES
  nodeJob,
  parsed, parserDone, used,   \* the parser's ring: used[t] by thread t
  shares,                     \* shares[e]: threads that have yet to predict e
  slot, users,                \* delay_ring and threads_to_use, 0 for NULL
  local_idx, relay_idx, global_idx,  \* delay_indices, in its three parts
  local_index, global_index,
  to_finish,                  \* threads_to_finish, once the example is delayed
  finished,                   \* the examples output and freed, in order
  at, hand,                   \* at[t]: where thread t is, and with what
  waiting,                    \* threads in pthread_cond_wait
  sent, answered,             \* predictions that left; answers taken
  relay_hand, relay_done,
  nodeTrained,                \* nodeTrained[e]: who trained on e, and on what
  null                        \* somebody was handed NULL

inputVars == <<nodeJob, parsed, parserDone>>
ringVars == <<slot, users, local_idx, relay_idx, global_idx, local_index,
              to_finish, finished>>
relayVars == <<global_index, waiting, answered, relay_hand, relay_done>>
learnVars == <<used, shares, at, hand, sent, nodeTrained>>
nodeVars == <<inputVars, ringVars, relayVars, learnVars, null>>

Threads == 1..nodeJob.threads
Examples == DOMAIN nodeJob.source
Mesg == IF nodeJob.relay THEN 1 ELSE 0
Global == nodeJob.mode \in {"backprop", "delayed_global"}
DelayedOnly == nodeJob.mode = "delayed_global"
Sending == nodeJob.mode = "send"
Labelled(e) == nodeJob.source[e] = "train"

NodeStart(jobs) ==
  /\ nodeJob \in jobs
  /\ parsed = 0 /\ parserDone = FALSE /\ used = [t \in Threads |-> 0]
  /\ shares = [e \in Examples |-> nodeJob.threads]
  /\ slot = [i \in 0..NodeRing - 1 |-> 0] /\ users = [i \in 0..NodeRing - 1 |-> 0]
  /\ local_idx = [t \in Threads |-> 0] /\ global_idx = [t \in Threads |-> 0]
  /\ relay_idx = 0 /\ local_index = 0 /\ global_index = 0
  /\ to_finish = [e \in Examples |-> 0] /\ finished = <<>>
  /\ at = [t \in Threads |-> "delayed"] /\ hand = [t \in Threads |-> 0]
  /\ waiting = {} /\ sent = 0 /\ answered = 0
  /\ relay_hand = 0 /\ relay_done = ~nodeJob.relay
  /\ nodeTrained = [e \in Examples |-> EmptyBag] /\ null = FALSE
NodeInit == NodeStart(NodeJobs)

----------------------------------------------------------------------------
(* The parser thread, as far as the others see it.                         *)
NodeParse ==
  /\ parsed < Len(nodeJob.source)
  /\ parsed < NodeRing \/ parsed + 1 - NodeRing \in Range(finished)
  /\ parsed' = parsed + 1
  /\ UNCHANGED <<nodeJob, parserDone, ringVars, relayVars, learnVars, null>>

NodeParserDone ==
  /\ parsed = Len(nodeJob.source) /\ ~parserDone
  /\ parserDone' = TRUE
  /\ UNCHANGED <<nodeJob, parsed, ringVars, relayVars, learnVars, null>>

AllParsed == parserDone /\ \A t \in Threads : used[t] = parsed

----------------------------------------------------------------------------
(* return_example: the reader at index i takes the example in its slot;    *)
(* the last of its readers clears the slot.                                *)
SlotAt(i) == i % NodeRing

TakeFrom(i) ==
  LET k == SlotAt(i) IN
  /\ null' = (null \/ slot[k] = 0)
  /\ users' = [users EXCEPT ![k] = @ - 1]
  /\ slot' = [slot EXCEPT ![k] = IF users[k] = 1 THEN 0 ELSE @]

(* finish_example.                                                         *)
Finish(e) ==
  /\ to_finish' = [to_finish EXCEPT ![e] = @ - 1]
  /\ finished' = IF to_finish[e] = 1 THEN Append(finished, e) ELSE finished

(* delay_example(e, count): the relay takes the example once more, and     *)
(* with --backprop and --corrective every thread that trains does.         *)
(* (Left out: the assertion that nobody has to finish the example when     *)
(* nobody reads it, delay_ring.cc:146.  It is compiled out of R packages,  *)
(* and send_thread, without a relay, does not meet it: setup_example sets  *)
(* threads_to_finish, and nothing in the sender counts it down.)           *)
ReadersOnce(count) == count + Mesg
Readers(count) ==
  count + Mesg + IF nodeJob.mode = "backprop" THEN count ELSE 0

DelayForAll(e, count) ==
  IF Readers(count) = 0
  THEN /\ finished' = Append(finished, e)
       /\ UNCHANGED <<slot, users, local_idx, local_index, to_finish>>
  ELSE /\ slot[SlotAt(local_index)] = 0
       /\ slot' = [slot EXCEPT ![SlotAt(local_index)] = e]
       /\ users' = [users EXCEPT ![SlotAt(local_index)] = Readers(count)]
       /\ to_finish' = [to_finish EXCEPT ![e] = Readers(count)]
       /\ local_index' = local_index + 1
       /\ UNCHANGED <<local_idx, finished>>
DelayOrOutput(e, count) ==
  IF Readers(count) = 0
  THEN /\ finished' = Append(finished, e)
       /\ UNCHANGED <<slot, users, local_idx, local_index, to_finish>>
  ELSE /\ slot[SlotAt(local_index)] = 0
       /\ slot' = [slot EXCEPT ![SlotAt(local_index)] = e]
       /\ users' = [users EXCEPT ![SlotAt(local_index)] = Readers(count)]
       /\ to_finish' = [to_finish EXCEPT ![e] = Readers(count)]
       /\ local_index' = local_index + 1
       /\ local_idx' = [t \in Threads |->
                          local_idx[t] + IF count = 0 THEN 1 ELSE 0]
       /\ UNCHANGED finished

----------------------------------------------------------------------------
(* get_delay_example: when half of the ring waits for its second training, *)
(* or there is nothing else left to do, a thread trains globally; it waits *)
(* for the relay when no answer is there.                                  *)
WantsGlobal(t) ==
  /\ Global
  /\ \/ local_index > global_idx[t] + NodeRing \div 2
     \/ AllParsed /\ (local_index = local_idx[t] \/ DelayedOnly)

TakeGlobal(t) ==
  /\ at[t] = "delayed" /\ ~Sending /\ t \notin waiting
  /\ WantsGlobal(t) /\ global_idx[t] < global_index
  /\ TakeFrom(global_idx[t])
  /\ global_idx' = [global_idx EXCEPT ![t] = @ + 1]
  /\ hand' = [hand EXCEPT ![t] = slot[SlotAt(global_idx[t])]]
  /\ at' = [at EXCEPT ![t] = "train again"]
  /\ UNCHANGED <<inputVars, local_idx, relay_idx, local_index, to_finish,
                 finished, relayVars, used, shares, sent, nodeTrained>>

AwaitGlobal(t) ==
  /\ at[t] = "delayed" /\ ~Sending /\ t \notin waiting
  /\ WantsGlobal(t) /\ global_idx[t] = global_index /\ ~AllParsed
  /\ waiting' = waiting \cup {t}
  /\ UNCHANGED <<inputVars, ringVars, global_index, answered, relay_hand,
                 relay_done, learnVars, null>>

TakeLocal(t) ==
  /\ at[t] = "delayed" /\ ~Sending
  /\ ~WantsGlobal(t) /\ local_idx[t] # local_index /\ ~DelayedOnly
  /\ TakeFrom(local_idx[t])
  /\ local_idx' = [local_idx EXCEPT ![t] = @ + 1]
  /\ hand' = [hand EXCEPT ![t] = slot[SlotAt(local_idx[t])]]
  /\ at' = [at EXCEPT ![t] = "train"]
  /\ UNCHANGED <<inputVars, relay_idx, global_idx, local_index, to_finish,
                 finished, relayVars, used, shares, sent, nodeTrained>>

NoneDelayed(t) ==
  /\ at[t] = "delayed" /\ t \notin waiting
  /\ \/ Sending
     \/ WantsGlobal(t) /\ global_idx[t] = global_index /\ AllParsed
     \/ ~WantsGlobal(t) /\ (local_idx[t] = local_index \/ DelayedOnly)
  /\ at' = [at EXCEPT ![t] = "get"]
  /\ UNCHANGED <<inputVars, ringVars, relayVars, used, shares, hand, sent,
                 nodeTrained, null>>

TrainOn(t) ==
  /\ at[t] \in {"train", "train again"} /\ hand[t] # 0
  /\ nodeTrained' = [nodeTrained EXCEPT ![hand[t]] = @ (+) SetToBag({<<t, at[t]>>})]
  /\ Finish(hand[t])
  /\ at' = [at EXCEPT ![t] = "delayed"]
  /\ hand' = [hand EXCEPT ![t] = 0]
  /\ UNCHANGED <<inputVars, slot, users, local_idx, relay_idx, global_idx,
                 local_index, relayVars, used, shares, sent, null>>

(* predict, or send_thread: the last thread sends the prediction and       *)
(* delays the example; the others wait for the sum when they will train.   *)
Predict(t) ==
  LET e == used[t] + 1
      last == shares[e] = 1
      count == IF Labelled(e) /\ ~Sending THEN nodeJob.threads ELSE 0
  IN
  /\ at[t] = "get" /\ used[t] < parsed
  /\ used' = [used EXCEPT ![t] = e]
  /\ shares' = [shares EXCEPT ![e] = @ - 1]
  /\ IF last THEN sent' = sent + 1 /\ DelayOrOutput(e, count)
     ELSE UNCHANGED <<sent, slot, users, local_idx, local_index, to_finish,
                      finished>>
  /\ at' = [at EXCEPT ![t] = IF ~last /\ Labelled(e) THEN "sum" ELSE "delayed"]
  /\ hand' = [hand EXCEPT ![t] = IF ~last /\ Labelled(e) THEN e ELSE 0]
  /\ UNCHANGED <<inputVars, relay_idx, global_idx, relayVars, nodeTrained, null>>

SumIsThere(t) ==
  /\ at[t] = "sum" /\ shares[hand[t]] = 0
  /\ at' = [at EXCEPT ![t] = "delayed"]
  /\ hand' = [hand EXCEPT ![t] = 0]
  /\ UNCHANGED <<inputVars, ringVars, relayVars, used, shares, sent,
                 nodeTrained, null>>

(* thread_done; the sender ends when the parser is done.                   *)
NodeThreadDone(t) ==
  /\ AllParsed
  /\ Sending \/ /\ local_idx[t] = local_index \/ DelayedOnly
                /\ Global => /\ global_idx[t] = global_index
                             /\ global_index = local_index

(* get_example gives NULL when the parser is done, and before that when a  *)
(* wait for the next example is over, which may be at any time.  (Module   *)
(* LearnerPipeline has this wait, and who ends it.)                        *)
NothingToGet(t) ==
  /\ at[t] = "get" /\ used[t] = parsed
  /\ at' = [at EXCEPT ![t] = IF NodeThreadDone(t) THEN "done" ELSE "delayed"]
  /\ UNCHANGED <<inputVars, ringVars, relayVars, used, shares, hand, sent,
                 nodeTrained, null>>

----------------------------------------------------------------------------
(* mesg_relay: an answer arrives, for the example that left first.         *)
RelayTake ==
  /\ ~relay_done /\ relay_hand = 0
  /\ answered < sent
  /\ slot[SlotAt(relay_idx)] # 0
  /\ TakeFrom(relay_idx)
  /\ relay_hand' = slot[SlotAt(relay_idx)]
  /\ relay_idx' = relay_idx + 1
  /\ answered' = answered + 1
  /\ UNCHANGED <<inputVars, local_idx, global_idx, local_index, to_finish,
                 finished, global_index, waiting, relay_done, learnVars>>

(* delay_global_example signals one of the waiting threads.                *)
NoneSignalled == {{}}
Signalled == IF waiting = {} THEN {{}} ELSE {{t} : t \in waiting}

RelayFinish ==
  /\ relay_hand # 0
  /\ Finish(relay_hand)
  /\ relay_hand' = 0
  /\ IF Global THEN /\ global_index' = global_index + 1
                    /\ \E w \in Signalled : waiting' = waiting \ w
     ELSE UNCHANGED <<global_index, waiting>>
  /\ UNCHANGED <<inputVars, slot, users, local_idx, relay_idx, global_idx,
                 local_index, answered, relay_done, learnVars, null>>

(* The socket ends when every thread has shut it down and all is answered. *)
RelayEnds ==
  /\ ~relay_done /\ relay_hand = 0
  /\ \A t \in Threads : at[t] = "done"
  /\ answered = sent
  /\ relay_done' = TRUE
  /\ UNCHANGED <<inputVars, ringVars, global_index, waiting, answered,
                 relay_hand, learnVars, null>>

----------------------------------------------------------------------------
NodeThread(t) ==
  \/ TakeGlobal(t) \/ AwaitGlobal(t) \/ TakeLocal(t) \/ NoneDelayed(t)
  \/ TrainOn(t) \/ Predict(t) \/ SumIsThere(t) \/ NothingToGet(t)
NodeParser == NodeParse \/ NodeParserDone
Relay == RelayTake \/ RelayFinish \/ RelayEnds

(* Threads that are scheduled, and a cluster that answers.                 *)
NodeFairness ==
  /\ WF_nodeVars(NodeParser) /\ WF_nodeVars(Relay)
  /\ \A t \in 1..2 : WF_nodeVars(t \in Threads /\ NodeThread(t))

NodeNext == NodeParser \/ Relay \/ \E t \in Threads : NodeThread(t)
NodeSpec == NodeInit /\ [][NodeNext]_nodeVars /\ NodeFairness

NodeEnded == relay_done /\ \A t \in Threads : at[t] = "done"

----------------------------------------------------------------------------
(* finish_example: when an example is output and freed, each learner has   *)
(* trained on it as often as the options say, the relay has set its final  *)
(* prediction, and nobody holds it or will find it in the delay ring.      *)
FinishedAfterAll ==
  /\ \A e \in Range(finished) :
       /\ \A t \in Threads : hand[t] # e \/ at[t] = "sum"
       /\ relay_hand # e /\ e \notin Range(slot)
       /\ nodeTrained[e] =
            IF ~Labelled(e) \/ Sending THEN EmptyBag
            ELSE SetToBag(Threads \X
                   ((IF DelayedOnly THEN {} ELSE {"train"})
                      \cup IF Global THEN {"train again"} ELSE {}))
  /\ IsInjective(finished)
  /\ NodeEnded => Range(finished) = Examples

(* blocking_get_delay_example: answers carry no number; the relay gives    *)
(* the k-th answer to the example whose prediction left k-th, and whoever  *)
(* moves an index of the delay ring on finds an example in its slot.       *)
AnswersInOrder == ~null /\ (relay_hand # 0 => relay_hand = answered)
=============================================================================
