-------------------------------- MODULE Bfgs --------------------------------
(***************************************************************************)
(* --bfgs: setup_bfgs on every node of a cluster (bfgs.cc).  A node reads  *)
(* its shard once per pass.  In a gradient pass it sums loss and gradient, *)
(* in a curvature pass (--hessian_on) the curvature along the direction;   *)
(* between two passes the sums go through all_reduce and every node        *)
(* decides by itself how far to move, or where to.                         *)
(*                                                                         *)
(* Numbers are what they were computed from.  A point is the sequence of   *)
(* the steps taken along each direction so far; a sum is the bag of what   *)
(* was added; what a comparison or a quotient of sums gives is arbitrary,  *)
(* but the same wherever the sums are the same (variable answers).         *)
(* Without --span_server there is one node.  all_reduce is what SumService *)
(* promises, and get_example hands out the shard in order, pass after pass *)
(* (SequentialLearner).                                                    *)
(***************************************************************************)
EXTENDS Integers, Bags, FiniteSets, SequencesExt

CONSTANTS BfgsNode,  \* the nodes of the cluster
          BfgsJobs,  \* the options and shards vw may be called with
          FullStep,  \* step_size 1.0, in units of the smallest step
          NoBfgs     \* what a direction is before the first

ASSUME BfgsAssumption ==
  /\ BfgsJobs \subseteq [m : Nat, hessian_on : BOOLEAN, numpasses : Nat,
                         output_regularizer : BOOLEAN,
                         shard : [BfgsNode -> Nat]]
  /\ \A j \in BfgsJobs : j.numpasses >= 2 /\ (j.m = 0 => j.hessian_on)
  /\ FullStep \in Nat \ {0}

ASSUME BfgsNodesAssumption == IsFiniteSet(BfgsNode)

VARIABLES bfgsJob,  \* the options, and how many examples each node has
          bfgs,     \* bfgs[n]: the local variables of setup_bfgs on node n
          answers   \* what the decisions taken so far were

bfgsVars == <<bfgsJob, bfgs, answers>>

----------------------------------------------------------------------------
(* mem holds the last points and gradients, and the differences of them:   *)
(* slot i is found at i + origin, modulo mem_stride.                       *)
MemStride == IF bfgsJob.m = 0 THEN 1 ELSE 2 * bfgsJob.m
MemSlot(s, i) == (i + s.origin) % MemStride
MemAt(s, i) == s.mem[MemSlot(s, i)]

Stored(s, gt, xt) ==
  [k \in 0..MemStride - 1 |->
     CASE k = MemSlot(s, 0) -> gt
       [] bfgsJob.m > 0 /\ k = MemSlot(s, 1) -> xt
       [] OTHER -> s.mem[k]]

(* The terms an example adds to a sum, at a point.                         *)
Term(n, e, x) == SetToBag({<<n, e, x>>})
CurvatureTerm(n, e, x) == SetToBag({<<n, e, x>>})

(* zero_derivative, zero_preconditioner, finalize_preconditioner.          *)
ZeroDerivative(s) == [s EXCEPT !.grad = EmptyBag]
ZeroPreconditioner(s) == [s EXCEPT !.cond = EmptyBag, !.inverted = FALSE]
Finalized(s) == [s EXCEPT !.inverted = TRUE]

(* update_weight.                                                          *)
Plus(s, delta) == [s.x EXCEPT ![Len(s.x)] = @ + delta]

BfgsStart(jobs) ==
  /\ bfgsJob \in jobs
  /\ answers = <<>>
  /\ bfgs = [n \in BfgsNode |->
       [pc |-> "examples", pass |-> 0, next |-> 1, current_pass |-> 0,
        gradient_pass |-> TRUE, x |-> <<0>>, grad |-> EmptyBag,
        cond |-> EmptyBag, inverted |-> FALSE, dir |-> NoBfgs,
        predictions |-> <<>>, example_number |-> 0, loss_sum |-> EmptyBag,
        previous_loss_sum |-> EmptyBag, curvature |-> EmptyBag,
        step_size |-> 0, mem |-> [k \in 0..MemStride - 1 |-> NoBfgs],
        rho |-> [j \in 0..bfgsJob.m - 1 |-> NoBfgs], lastj |-> 0,
        origin |-> 0, calls |-> <<>>, path |-> <<>>]]
BfgsInit == BfgsStart(BfgsJobs)

----------------------------------------------------------------------------
(* Processing an example.                                                  *)
LastPass == bfgsJob.numpasses - 1

Diagonal(s, n, e, x) ==
  IF bfgsJob.output_regularizer /\ s.current_pass = LastPass
  THEN s.cond (+) Term(n, e, x) ELSE s.cond

GradientStep(s, n) ==
  LET e == s.next IN
  [s EXCEPT !.grad = @ (+) Term(n, e, s.x),
            !.loss_sum = @ (+) Term(n, e, s.x),
            !.predictions = Append(@, <<e, s.x>>),
            !.cond = IF s.current_pass = 0 THEN @ (+) Term(n, e, s.x)
                     ELSE Diagonal(s, n, e, s.x),
            !.next = e + 1]

(* predictions[example_number++]: what the example was predicted to be in  *)
(* the gradient pass before.                                               *)
CurvatureStep(s, n) ==
  LET replayed == s.predictions[s.example_number + 1] IN
  [s EXCEPT !.curvature = @ (+) CurvatureTerm(n, s.next, replayed),
            !.example_number = @ + 1,
            !.cond = Diagonal(s, n, replayed[1], replayed[2]),
            !.next = @ + 1]

TakeExample(n) ==
  LET s == bfgs[n] IN
  /\ s.pc = "examples"
  /\ s.next <= bfgsJob.shard[n]
  /\ s.pass = s.current_pass
  /\ bfgs' = [bfgs EXCEPT ![n] = IF s.gradient_pass THEN GradientStep(s, n)
                                 ELSE CurvatureStep(s, n)]
  /\ UNCHANGED <<bfgsJob, answers>>

(* The parser starts the next pass over the shard.                         *)
NextBfgsPass(n) ==
  LET s == bfgs[n] IN
  /\ s.pc = "examples"
  /\ s.next > bfgsJob.shard[n]
  /\ s.pass < LastPass
  /\ bfgs' = [bfgs EXCEPT ![n].pass = @ + 1, ![n].next = 1]
  /\ UNCHANGED <<bfgsJob, answers>>

----------------------------------------------------------------------------
(* What the end of a pass sends through all_reduce, in this order.         *)
(* finalize_preconditioner, between the second and the third call of the   *)
(* first pass, touches neither of the last two.                            *)
CallsOfGradient(s) ==
  IF s.current_pass = 0 THEN <<"cond", "importance", "loss_sum", "grad">>
  ELSE IF s.gradient_pass THEN <<"grad">> ELSE <<"curvature">>
CallsOf(s) ==
  IF s.current_pass = 0 THEN <<"cond", "importance", "loss_sum", "grad">>
  ELSE IF s.gradient_pass THEN <<"loss_sum", "grad">> ELSE <<"curvature">>

(* The first example of another pass, or none left: thread_done.           *)
EndBfgsPass(n) ==
  LET s == bfgs[n] IN
  /\ s.pc = "examples"
  /\ \/ /\ s.next <= bfgsJob.shard[n]
        /\ s.pass # s.current_pass
        /\ bfgs' = [bfgs EXCEPT ![n].pc = "pass_end", ![n].calls = CallsOf(s)]
     \/ /\ s.next > bfgsJob.shard[n]
        /\ s.pass = LastPass
        /\ bfgs' = [bfgs EXCEPT ![n].pc = "job_end",
                      ![n].calls = IF s.current_pass # 0 THEN CallsOf(s)
                                   ELSE <<>>]
  /\ UNCHANGED <<bfgsJob, answers>>

SumOf(f) == FoldFunction(LAMBDA a, b : a (+) b, EmptyBag, f)

(* accumulate, accumulate_scalar: when every node is in a call, each gets  *)
(* the sum of what all of them sent.                                       *)
Sent(n) == LET s == bfgs[n] IN
  CASE s.calls[1] = "cond" -> s.cond
    [] s.calls[1] = "loss_sum" -> s.loss_sum
    [] s.calls[1] = "grad" -> s.grad
    [] s.calls[1] = "curvature" -> s.curvature
    [] OTHER -> EmptyBag  \* the importance, which is printed only

Received(s, total) ==
  LET t == [s EXCEPT !.calls = Tail(@)] IN
  CASE s.calls[1] = "cond" -> [t EXCEPT !.cond = total]
    [] s.calls[1] = "loss_sum" -> [t EXCEPT !.loss_sum = total]
    [] s.calls[1] = "grad" -> [t EXCEPT !.grad = total]
    [] s.calls[1] = "curvature" -> [t EXCEPT !.curvature = total]
    [] OTHER -> t

BfgsReduce ==
  /\ \A n \in BfgsNode : bfgs[n].calls # <<>>
  /\ LET total == SumOf([n \in BfgsNode |-> Sent(n)]) IN
     bfgs' = [n \in BfgsNode |-> Received(bfgs[n], total)]
  /\ UNCHANGED <<bfgsJob, answers>>

----------------------------------------------------------------------------
(* bfgs_iter_start: the first direction is the preconditioned gradient.    *)
IterStart(s) ==
  [s EXCEPT !.mem = Stored(s, s.grad, s.x),
            !.dir = [grad |-> s.grad, pairs |-> <<>>, inverted |-> s.inverted],
            !.x = Append(@, 0), !.path = <<s.x>>,
            !.grad = EmptyBag, !.lastj = 0, !.origin = 0]

(* bfgs_iter_middle with m = 0: conjugate gradient, from the gradient      *)
(* before, and the direction before, which y stands for.                   *)
IterConjugate(s) ==
  [s EXCEPT !.mem = Stored(s, s.grad, s.x),
            !.dir = [grad |-> s.grad, pairs |-> <<MemAt(s, 0)>>,
                     inverted |-> s.inverted],
            !.x = Append(@, 0), !.path = Append(@, s.x), !.grad = EmptyBag]

(* Slots 0 and 1 become the differences to the current gradient and point, *)
(* rho[0] belongs to them; the direction is made of the pairs 0..lastj in  *)
(* two loops.  The shift makes room for the current ones before them, over *)
(* the oldest pair when mem is full.                                       *)
NextLastj(s) == IF s.lastj < bfgsJob.m - 1 THEN s.lastj + 1 ELSE bfgsJob.m - 1
ShiftedByOne(s) == (s.origin + MemStride - 1) % MemStride
Shifted(s) == (s.origin + MemStride - 2) % MemStride

IterMiddle(s) ==
  LET y == <<s.grad, MemAt(s, 0)>>
      r == <<s.x, MemAt(s, 1)>>
      p == [s EXCEPT !.mem = Stored(s, y, r), !.rho[0] = r]
      pairs == [j \in 1..s.lastj + 1 |->
                  <<MemAt(p, 2 * j - 2), MemAt(p, 2 * j - 1), p.rho[j - 1]>>]
      q == [p EXCEPT !.lastj = NextLastj(s), !.origin = Shifted(s)]
  IN [q EXCEPT
        !.mem = Stored(q, s.grad, s.x),
        !.rho = [j \in DOMAIN @ |-> IF j \in 1..q.lastj THEN @[j - 1] ELSE @[j]],
        !.dir = [grad |-> s.grad, pairs |-> pairs, inverted |-> s.inverted],
        !.x = Append(@, 0), !.path = Append(@, s.x), !.grad = EmptyBag]

(* A) The first pass is over; loss and gradient are the sums.              *)
FirstPass(s) ==
  LET t == [Finalized(s) EXCEPT
              !.previous_loss_sum = s.loss_sum, !.loss_sum = EmptyBag,
              !.example_number = 0, !.curvature = EmptyBag,
              !.gradient_pass = FALSE]
  IN IterStart(t)

(* B1) The loss grew: back along the direction, to new_step.               *)
StepBackWhole(s, new_step) ==
  [s EXCEPT !.predictions = <<>>, !.x = Plus(s, -new_step),
            !.step_size = new_step, !.grad = EmptyBag, !.loss_sum = EmptyBag]
StepBackKept(s, new_step) ==
  [s EXCEPT !.x = Plus(s, new_step - s.step_size),
            !.step_size = new_step, !.grad = EmptyBag, !.loss_sum = EmptyBag]
StepBack(s, new_step) ==
  [ZeroDerivative(s) EXCEPT
     !.predictions = <<>>, !.x = Plus(s, new_step - s.step_size),
     !.step_size = new_step, !.loss_sum = EmptyBag]

(* B2) It did not: the next direction.                                     *)
NextDirection(s) ==
  LET t == [s EXCEPT !.previous_loss_sum = s.loss_sum, !.loss_sum = EmptyBag,
                     !.example_number = 0, !.curvature = EmptyBag]
      u == IF bfgsJob.m = 0 THEN IterConjugate(t) ELSE IterMiddle(t)
  IN IF bfgsJob.hessian_on THEN [u EXCEPT !.gradient_pass = FALSE]
     ELSE [u EXCEPT !.step_size = FullStep, !.predictions = <<>>,
                    !.x = Plus(u, FullStep)]

(* C) The curvature along the direction gives the step.                    *)
NewtonStep(s, step) ==
  [s EXCEPT !.step_size = step, !.predictions = <<>>, !.x = Plus(s, step),
            !.gradient_pass = TRUE]

(* What the sums say.  wolfe_eval proposes a step no longer than the last; *)
(* a step of curvature 0, or y_s <= 0, is an Rf_error.                     *)
Question(s) ==
  [of |-> IF s.current_pass = 0 THEN "first"
          ELSE IF s.gradient_pass THEN "gradient" ELSE "curvature",
   sums |-> IF s.gradient_pass
            THEN <<s.loss_sum, s.previous_loss_sum, s.step_size>>
            ELSE <<s.curvature>>]

WolfeEval(s) == 0..s.step_size
Curvatures == 1..FullStep
Answers(s) ==
  IF s.current_pass = 0 THEN {[what |-> "first", step |-> 0]}
  ELSE IF s.gradient_pass
  THEN [what : {"back"}, step : WolfeEval(s)]
       \cup [what : {"on"} \cup (IF bfgsJob.m > 0 THEN {"fail"} ELSE {}),
             step : {0}]
  ELSE [what : {"step"}, step : Curvatures] \cup [what : {"fail"}, step : {0}]

Decided(s, a) ==
  CASE a.what = "first" -> FirstPass(s)
    [] a.what = "back" -> StepBack(s, a.step)
    [] a.what = "on" -> NextDirection(s)
    [] a.what = "step" -> NewtonStep(s, a.step)

NextPassOfAdded(s) ==
  LET p == s.current_pass + 1 IN
  [s EXCEPT !.pc = "examples", !.current_pass = p,
            !.inverted = @ /\ ~(bfgsJob.output_regularizer /\ p = LastPass)]
NextPassOf(s) ==
  LET p == s.current_pass + 1
      t == [s EXCEPT !.pc = "examples", !.current_pass = p]
  IN IF bfgsJob.output_regularizer /\ p = LastPass
     THEN ZeroPreconditioner(t) ELSE t

(* After the loop the diagonal is accumulated.                             *)
AfterLoop(s) ==
  [s EXCEPT !.pc = "regularizer",
            !.calls = IF bfgsJob.output_regularizer THEN <<"cond">> ELSE <<>>]

(* The rest of the handler, when its calls of all_reduce have returned.    *)
Decide(n) ==
  LET s == bfgs[n] IN
  /\ s.pc \in {"pass_end", "job_end"}
  /\ s.calls = <<>>
  /\ ~(s.pc = "job_end" /\ s.current_pass = 0)
  /\ \E a \in IF Question(s) \in DOMAIN answers THEN {answers[Question(s)]}
              ELSE Answers(s) :
       /\ answers' = [q \in DOMAIN answers \cup {Question(s)} |->
                       IF q = Question(s) THEN a ELSE answers[q]]
       /\ bfgs' = [bfgs EXCEPT ![n] =
                     IF a.what = "fail" THEN [s EXCEPT !.pc = "failed"]
                     ELSE IF s.pc = "pass_end" THEN NextPassOf(Decided(s, a))
                     ELSE AfterLoop(Decided(s, a))]
  /\ UNCHANGED bfgsJob

(* A node that saw a single pass has nothing to decide.                    *)
NothingToDecide(n) ==
  /\ bfgs[n].pc = "job_end"
  /\ bfgs[n].current_pass = 0
  /\ bfgs' = [bfgs EXCEPT ![n] = AfterLoop(@)]
  /\ UNCHANGED <<bfgsJob, answers>>

(* preconditioner_to_regularizer, and the end of setup_bfgs.               *)
BfgsDone(n) ==
  /\ bfgs[n].pc = "regularizer"
  /\ bfgs[n].calls = <<>>
  /\ bfgs' = [bfgs EXCEPT ![n].pc = "done"]
  /\ UNCHANGED <<bfgsJob, answers>>

BfgsEnded == \A n \in BfgsNode : bfgs[n].pc \in {"done", "failed"}

BfgsReading(n) == TakeExample(n) \/ NextBfgsPass(n) \/ EndBfgsPass(n)
BfgsDeciding(n) == Decide(n) \/ NothingToDecide(n) \/ BfgsDone(n)
BfgsStep(n) == BfgsReading(n) \/ BfgsDeciding(n)

(* The thread runs on while it can; all_reduce returns when all have       *)
(* called it (AllReduce.Termination).                                      *)
BfgsFairness ==
  /\ \A n \in BfgsNode : WF_bfgsVars(BfgsStep(n))
  /\ WF_bfgsVars(BfgsReduce)

BfgsSpec ==
  BfgsInit /\ [][BfgsReduce \/ \E n \in BfgsNode : BfgsStep(n)]_bfgsVars /\ BfgsFairness

----------------------------------------------------------------------------
AllTerms(x) ==
  SetToBag(UNION {{<<n, e, x>> : e \in 1..bfgsJob.shard[n]} : n \in BfgsNode})

PairAt(path, i) ==
  << <<AllTerms(path[i]), AllTerms(path[i - 1])>>, <<path[i], path[i - 1]>> >>

(* bfgs_iter_start, bfgs_iter_middle: each direction comes from the whole  *)
(* cluster's gradient at the point accepted last, every example counted    *)
(* once, and from the m latest pairs of differences, newest first, each    *)
(* with its own rho, whatever mem had to overwrite and shift; the diagonal *)
(* it is preconditioned by has been inverted, if --output_feature_         *)
(* regularizer has not begun to sum it anew, for the last pass.            *)
DirectionFromPath ==
  \A n \in BfgsNode : bfgs[n].dir # NoBfgs =>
    LET path == bfgs[n].path
        k == Len(path)
        pairs == bfgs[n].dir.pairs
    IN /\ bfgs[n].dir.grad = AllTerms(path[k])
       /\ bfgsJob.output_regularizer \/ bfgs[n].dir.inverted
       /\ IF bfgsJob.m = 0
          THEN pairs = IF k = 1 THEN <<>> ELSE <<AllTerms(path[k - 1])>>
          ELSE /\ Len(pairs) = IF k - 1 < bfgsJob.m THEN k - 1 ELSE bfgsJob.m
               /\ \A j \in DOMAIN pairs :
                    LET pair == PairAt(path, k - j + 1) IN
                    pairs[j] = <<pair[1], pair[2], pair[2]>>

(* work_on_weights: however often a line search steps back, the weights    *)
(* are where it began plus step_size times the direction; in a curvature   *)
(* pass they are where it begins.                                          *)
LineSearchPoint ==
  \A n \in BfgsNode : LET s == bfgs[n] IN
    s.dir # NoBfgs /\ s.pc # "failed" =>
      s.x = Append(Last(s.path), IF s.gradient_pass THEN s.step_size ELSE 0)

(* setup_bfgs: a curvature pass looks up by position what the gradient     *)
(* pass predicted: it must be of the same example, at the accepted point.  *)
PredictionsReplayed ==
  \A n \in BfgsNode : LET s == bfgs[n] IN
    ~s.gradient_pass /\ s.pc = "examples" /\ s.pass = s.current_pass =>
      /\ s.example_number = s.next - 1
      /\ s.predictions = [e \in 1..bfgsJob.shard[n] |-> <<e, Last(s.path)>>]

(* accumulate: nodes that decide by themselves never meet in all_reduce    *)
(* with different calls, and hold the same weights when they take one up.  *)
BfgsLockstep ==
  \A n, k \in BfgsNode : LET s == bfgs[n]  t == bfgs[k] IN
    s.current_pass = t.current_pass =>
      /\ s.pc = "examples" /\ t.pc = "examples" =>
           <<s.x, s.gradient_pass, s.dir, s.step_size>>
             = <<t.x, t.gradient_pass, t.dir, t.step_size>>
      /\ s.calls # <<>> /\ t.calls # <<>> /\ s.pc = t.pc =>
           s.calls = t.calls

(* "IN THE LAST PASS CALCULATE THE DIAGONAL OF THE HESSIAN": what          *)
(* preconditioner_to_regularizer saves counts every example of the cluster *)
(* once, all of them at one point.                                         *)
RegularizerComplete ==
  \A n \in BfgsNode : LET s == bfgs[n] IN
    bfgsJob.output_regularizer /\ s.pc = "done" =>
      \E x \in {t[3] : t \in BagToSet(s.cond)} \cup {<<>>} :
        s.cond = AllTerms(x)

=============================================================================
