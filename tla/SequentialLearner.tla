------------------------- MODULE SequentialLearner -------------------------
(***************************************************************************)
(* What vw's online gradient descent promises, whatever the number of      *)
(* learning threads: examples are accounted for one at a time and in the   *)
(* order they were parsed, and each one is predicted, by the weight vector *)
(* of every thread, after exactly the trainable examples before it have    *)
(* been learned ("to keep example processing sequential", gd.cc:761).      *)
(*                                                                         *)
(* LearnerPipeline implements this specification.                          *)
(***************************************************************************)
EXTENDS Naturals, Sequences

CONSTANT Thread  \* the learning threads; each owns one weight vector

VARIABLES
  sink,          \* what output_and_account_example has reported, in order
  model          \* the examples every weight vector has been trained on

vars == <<sink, model>>

Kinds == {"train", "test", "save"}

Init ==
  /\ sink = <<>>
  /\ model = <<>>

(* One example: predicted with the current model, reported, and learned if *)
(* it carries a label and training is on.                                  *)
Process(kind) ==
  LET example == Len(sink) + 1 IN
    /\ sink' = Append(sink,
                 [example |-> example,
                  kind    |-> kind,
                  sum     |-> {[by |-> i, model |-> model] : i \in Thread}])
    /\ model' = IF kind = "train" THEN Append(model, example) ELSE model

Next == \E kind \in Kinds : Process(kind)

Spec == Init /\ [][Next]_vars
=============================================================================
