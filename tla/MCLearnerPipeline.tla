------------------------- MODULE MCLearnerPipeline -------------------------
(***************************************************************************)
(* Small instances of LearnerPipeline: the inputs the runs read.           *)
(***************************************************************************)
EXTENDS LearnerPipelineInv

Call(source, passes, length, cache, active) ==
  [source |-> source, resettable |-> cache, numpasses |-> passes,
   pass_length |-> length, active_simulation |-> active]

Text(source)          == Call(source, 1, SizeMax, FALSE, FALSE)
Cached(source, passes) == Call(source, passes, SizeMax, TRUE, FALSE)

(* Every text of at most three examples, with two slots to hold them: the  *)
(* ring wraps, and fast learners run ahead over unlabelled examples.  One  *)
(* text has an empty line before its last example.  The last three have    *)
(* passes: two of them, or some that are cut short and start again.        *)
OnlineJobs ==
  {Text(s) : s \in UNION {[1..n -> {"train", "test"}] : n \in 0..3}}
  \cup {Text(<<"test", "train", "blank", "train">>),
        Cached(<<"train">>, 2),
        Call(<<"train">>, 1, 0, TRUE, FALSE),
        Call(<<"train", "test">>, 1, 1, FALSE, FALSE)}

(* What goes wrong with two threads, and two passes, with one: complete    *)
(* ones, or cut short, so that they start again.                           *)
SingleThreadJobs ==
  {Call(s, 2, SizeMax, TRUE, active) :
     s \in {<<"train", "save", "test">>, <<"save", "train", "train">>},
     active \in BOOLEAN}
  \cup {Call(<<"train", "train">>, 2, 1, TRUE, FALSE)}

ActiveJob == {Call(<<"train", "train", "train">>, 1, SizeMax, FALSE, TRUE)}
=============================================================================
