----------------------------- MODULE BfgsProofs ------------------------------
(***************************************************************************)
(* Proofs about Bfgs, for any number of nodes, any shards, passes and      *)
(* memory, and whatever the sums of the cluster say.                       *)
(***************************************************************************)
EXTENDS Bfgs, SequenceTheorems, FiniteSetTheorems, TLAPS

Fields == {"pc", "pass", "next", "current_pass", "gradient_pass", "x", "grad",
           "cond", "inverted", "dir", "predictions", "example_number",
           "loss_sum", "previous_loss_sum", "curvature", "step_size", "mem",
           "rho", "lastj", "origin", "calls", "path"}
IsNode(s) == s = [f \in Fields |-> s[f]]

(* How far along its last direction a point is.                            *)
Along(s) == IF s.gradient_pass THEN s.step_size ELSE 0

(* A node that has a direction is on the line it searches; it has one from *)
(* the end of the first pass on.                                           *)
OnLine(s) ==
  /\ IsNode(s)
  /\ s.x \in Seq(Int) /\ s.x # <<>> /\ s.path \in Seq(Seq(Int))
  /\ s.step_size \in Nat /\ s.current_pass \in Nat /\ s.gradient_pass \in BOOLEAN
  /\ s.current_pass = 0 => s.gradient_pass = TRUE /\ s.dir = NoBfgs
  /\ s.current_pass # 0 /\ s.pc # "failed" =>
       s.path # <<>> /\ s.x = Append(Last(s.path), Along(s))

(* Decisions fit the questions they answer.                                *)
Fitting(q, a) ==
  /\ a.step \in Nat
  /\ q.of = "first" => a.what = "first"
  /\ q.of = "gradient" => a.what \in {"back", "on", "fail"}
  /\ q.of = "curvature" => a.what \in {"step", "fail"}
AnswersFit == \A q \in DOMAIN answers : Fitting(q, answers[q])

LineInv ==
  /\ bfgs = [n \in BfgsNode |-> bfgs[n]]
  /\ \A n \in BfgsNode : OnLine(bfgs[n])
  /\ AnswersFit

----------------------------------------------------------------------------
(* Steps that leave the point and the direction alone.                     *)
SameLine(s, t) ==
  /\ IsNode(t)
  /\ t.x = s.x /\ t.path = s.path /\ t.step_size = s.step_size
  /\ t.current_pass = s.current_pass /\ t.gradient_pass = s.gradient_pass
  /\ t.dir = s.dir
  /\ s.pc = "failed" => t.pc = "failed"

LEMMA StaysOnLine ==
  ASSUME NEW s, NEW t, OnLine(s), SameLine(s, t)
  PROVE  OnLine(t)
  BY DEF OnLine, SameLine, Along

LEMMA ExampleStays ==
  ASSUME NEW s, NEW n, OnLine(s)
  PROVE  SameLine(s, GradientStep(s, n)) /\ SameLine(s, CurvatureStep(s, n))
  BY DEF OnLine, SameLine, IsNode, Fields, GradientStep, CurvatureStep

LEMMA OneNodeMoves ==
  ASSUME LineInv, NEW n \in BfgsNode, NEW t, OnLine(t),
         bfgs' = [bfgs EXCEPT ![n] = t], AnswersFit'
  PROVE  LineInv'
  BY DEF LineInv

----------------------------------------------------------------------------
(* The first step along a direction, and further ones.                     *)
LEMMA LastAppended ==
  ASSUME NEW S, NEW p \in Seq(S), NEW x \in S
  PROVE  /\ Append(p, x) \in Seq(S) /\ Append(p, x) # <<>>
         /\ Last(Append(p, x)) = x
  BY DEF Last

LEMMA PlusMoves ==
  ASSUME NEW s, NEW p \in Seq(Int), NEW k \in Int, NEW d \in Int,
         s.x = Append(p, k)
  PROVE  Plus(s, d) = Append(p, k + d)
<1> DEFINE q == Append(p, k)
           r == Append(p, k + d)
           n == Len(p) + 1
<1>1. /\ q \in Seq(Int) /\ Len(q) = n /\ q[n] = k
      /\ r \in Seq(Int) /\ Len(r) = n /\ r[n] = k + d
      /\ n \in Nat \ {0}
      /\ \A i \in 1..n : i # n => q[i] = r[i]
  OBVIOUS
<1>2. Plus(s, d) = [q EXCEPT ![n] = k + d]
  BY <1>1 DEF Plus
<1> HIDE DEF q, r, n
<1>3. q = [i \in 1..n |-> q[i]] /\ r = [i \in 1..n |-> r[i]]
  BY <1>1
<1>4. [q EXCEPT ![n] = k + d] = [i \in 1..n |-> IF i = n THEN k + d ELSE q[i]]
  BY <1>3
<1>5. \A i \in 1..n : r[i] = IF i = n THEN k + d ELSE q[i]
  BY <1>1
<1>6. [q EXCEPT ![n] = k + d] = r
  BY <1>3, <1>4, <1>5
<1> QED
  BY <1>2, <1>6 DEF r

(* The place in the input, and what was predicted there.                   *)
KeepsPlace(s, t) == t.next = s.next /\ t.pass = s.pass
KeepsPredictions(s, t) ==
  t.predictions = s.predictions /\ t.example_number = s.example_number

(* A new direction from the point reached.                                 *)
Turned(s, t) ==
  /\ IsNode(t) /\ KeepsPlace(s, t) /\ KeepsPredictions(s, t)
  /\ t.x = Append(s.x, 0) /\ t.path = Append(s.path, s.x)
  /\ t.current_pass = s.current_pass /\ t.step_size = s.step_size
  /\ t.pc = s.pc /\ t.calls = s.calls

Started(s, t) ==
  /\ IsNode(t) /\ KeepsPlace(s, t) /\ t.predictions = s.predictions
  /\ t.x = Append(s.x, 0) /\ t.path = <<s.x>>
  /\ t.current_pass = s.current_pass /\ t.step_size = s.step_size
  /\ t.pc = s.pc /\ t.calls = s.calls

(* A point moved along the direction, to k steps from its beginning.       *)
Moved(s, t, d, k) ==
  /\ IsNode(t) /\ KeepsPlace(s, t) /\ t.predictions = <<>>
  /\ t.x = Plus(s, d) /\ t.path = s.path
  /\ t.current_pass = s.current_pass /\ t.step_size = k
  /\ t.gradient_pass = TRUE /\ t.pc = s.pc /\ t.calls = s.calls

LEMMA StartTurns ==
  ASSUME NEW s, IsNode(s)
  PROVE  /\ Started(s, IterStart(s)) /\ KeepsPredictions(s, IterStart(s))
         /\ IterStart(s).gradient_pass = s.gradient_pass
  BY DEF IsNode, Fields, IterStart, Started, KeepsPlace, KeepsPredictions

LEMMA FirstTurn ==
  ASSUME NEW s, OnLine(s)
  PROVE  /\ Started(s, FirstPass(s)) /\ FirstPass(s).gradient_pass = FALSE
         /\ FirstPass(s).example_number = 0
<1> DEFINE u == [Finalized(s) EXCEPT
                   !.previous_loss_sum = s.loss_sum, !.loss_sum = EmptyBag,
                   !.example_number = 0, !.curvature = EmptyBag,
                   !.gradient_pass = FALSE]
<1>1. /\ IsNode(u) /\ u.x = s.x /\ u.current_pass = s.current_pass
      /\ u.step_size = s.step_size /\ u.pc = s.pc /\ u.gradient_pass = FALSE
      /\ u.calls = s.calls
      /\ KeepsPlace(s, u) /\ u.predictions = s.predictions /\ u.example_number = 0
  BY DEF OnLine, IsNode, Fields, Finalized, KeepsPlace
<1>2. FirstPass(s) = IterStart(u)
  BY DEF FirstPass
<1> HIDE DEF u
<1> QED
  BY <1>1, <1>2, StartTurns DEF Started, KeepsPlace, KeepsPredictions

LEMMA StepBackMoves ==
  ASSUME NEW s, OnLine(s), s.gradient_pass = TRUE, NEW k \in Nat
  PROVE  Moved(s, StepBack(s, k), k - s.step_size, k)
  BY DEF OnLine, IsNode, Fields, StepBack, ZeroDerivative, Moved, KeepsPlace

LEMMA NewtonMoves ==
  ASSUME NEW s, OnLine(s), NEW k \in Nat
  PROVE  Moved(s, NewtonStep(s, k), k, k)
  BY DEF OnLine, IsNode, Fields, NewtonStep, Moved, KeepsPlace

LEMMA ConjugateTurns ==
  ASSUME NEW s, IsNode(s)
  PROVE  /\ Turned(s, IterConjugate(s))
         /\ IterConjugate(s).gradient_pass = s.gradient_pass
  BY DEF IsNode, Fields, IterConjugate, Turned, KeepsPlace, KeepsPredictions

LEMMA MiddleTurns ==
  ASSUME NEW s, IsNode(s)
  PROVE  /\ Turned(s, IterMiddle(s))
         /\ IterMiddle(s).gradient_pass = s.gradient_pass
<1> DEFINE y == <<s.grad, MemAt(s, 0)>>
           r == <<s.x, MemAt(s, 1)>>
           p == [s EXCEPT !.mem = Stored(s, y, r), !.rho[0] = r]
           pairs == [j \in 1..s.lastj + 1 |->
                      <<MemAt(p, 2 * j - 2), MemAt(p, 2 * j - 1), p.rho[j - 1]>>]
           q == [p EXCEPT !.lastj = NextLastj(s), !.origin = Shifted(s)]
           rho == [j \in DOMAIN q.rho |-> IF j \in 1..q.lastj THEN q.rho[j - 1] ELSE q.rho[j]]
           m == Stored(q, s.grad, s.x)
           d == [grad |-> s.grad, pairs |-> pairs, inverted |-> s.inverted]
<1>1. IterMiddle(s) =
        [q EXCEPT !.mem = m, !.rho = rho, !.dir = d, !.x = Append(@, 0),
                  !.path = Append(@, s.x), !.grad = EmptyBag]
  BY DEF IterMiddle
<1>2. /\ IsNode(q) /\ q.x = s.x /\ q.path = s.path /\ q.pc = s.pc
      /\ q.calls = s.calls
      /\ q.current_pass = s.current_pass /\ q.step_size = s.step_size
      /\ q.gradient_pass = s.gradient_pass
      /\ KeepsPlace(s, q) /\ KeepsPredictions(s, q)
  <2> HIDE DEF y, r
  <2> QED
    BY DEF IsNode, Fields, KeepsPlace, KeepsPredictions
<1> HIDE DEF y, r, p, pairs, q, rho, m, d
<1>3. IterMiddle(s) =
        [q EXCEPT !.mem = m, !.rho = rho, !.dir = d, !.x = Append(s.x, 0),
                  !.path = Append(s.path, s.x), !.grad = EmptyBag]
  BY <1>1, <1>2
<1> DEFINE x == Append(s.x, 0)
           path == Append(s.path, s.x)
           t == [q EXCEPT !.mem = m, !.rho = rho, !.dir = d, !.x = x,
                          !.path = path, !.grad = EmptyBag]
<1> HIDE DEF x, path
<1>4. /\ IsNode(t) /\ t.x = x /\ t.path = path /\ t.pc = q.pc
      /\ t.calls = q.calls
      /\ t.current_pass = q.current_pass /\ t.step_size = q.step_size
      /\ t.gradient_pass = q.gradient_pass
      /\ KeepsPlace(q, t) /\ KeepsPredictions(q, t)
  BY <1>2 DEF IsNode, Fields, KeepsPlace, KeepsPredictions
<1> QED
  BY <1>2, <1>3, <1>4 DEF Turned, x, path, KeepsPlace, KeepsPredictions

(* The next direction, with a full step along it or with none.             *)
Turns(s, t) ==
  /\ IsNode(t) /\ KeepsPlace(s, t)
  /\ t.path = Append(s.path, s.x) /\ t.pc = s.pc
  /\ t.current_pass = s.current_pass /\ t.calls = s.calls
  /\ \/ /\ t.x = Append(s.x, 0) /\ t.gradient_pass = FALSE
        /\ t.step_size = s.step_size
        /\ t.predictions = s.predictions /\ t.example_number = 0
     \/ /\ t.x = Append(s.x, FullStep) /\ t.gradient_pass = s.gradient_pass
        /\ t.step_size = FullStep /\ t.predictions = <<>>

LEMMA DirectionTurns ==
  ASSUME NEW s, OnLine(s)
  PROVE  Turns(s, NextDirection(s))
<1> DEFINE v == [s EXCEPT !.previous_loss_sum = s.loss_sum, !.loss_sum = EmptyBag,
                          !.example_number = 0, !.curvature = EmptyBag]
           u == IF bfgsJob.m = 0 THEN IterConjugate(v) ELSE IterMiddle(v)
<1>1. /\ IsNode(v) /\ v.x = s.x /\ v.path = s.path /\ v.pc = s.pc
      /\ v.calls = s.calls
      /\ v.current_pass = s.current_pass /\ v.step_size = s.step_size
      /\ v.gradient_pass = s.gradient_pass /\ KeepsPlace(s, v)
      /\ v.predictions = s.predictions /\ v.example_number = 0
  BY DEF OnLine, IsNode, Fields, KeepsPlace
<1> HIDE DEF v
<1>2. Turned(v, u) /\ u.gradient_pass = v.gradient_pass
  BY <1>1, ConjugateTurns, MiddleTurns
<1> HIDE DEF u
<1>3. NextDirection(s) =
        IF bfgsJob.hessian_on THEN [u EXCEPT !.gradient_pass = FALSE]
        ELSE [u EXCEPT !.step_size = FullStep, !.predictions = <<>>,
                       !.x = Plus(u, FullStep)]
  BY DEF NextDirection, u, v
<1>4. Plus(u, FullStep) = Append(s.x, FullStep)
  <2>1. u.x = Append(s.x, 0) /\ s.x \in Seq(Int) /\ 0 \in Int /\ FullStep \in Int
    BY <1>1, <1>2, BfgsAssumption DEF Turned, OnLine
  <2>2. Plus(u, FullStep) = Append(s.x, 0 + FullStep)
    BY <2>1, PlusMoves
  <2> QED
    BY <2>1, <2>2
<1> DEFINE still == [u EXCEPT !.gradient_pass = FALSE]
           moved == [u EXCEPT !.step_size = FullStep, !.predictions = <<>>,
                              !.x = Plus(u, FullStep)]
<1>5. /\ IsNode(still) /\ still.x = u.x /\ still.path = u.path /\ still.pc = u.pc
      /\ still.calls = u.calls
      /\ still.current_pass = u.current_pass /\ still.step_size = u.step_size
      /\ still.gradient_pass = FALSE
      /\ KeepsPlace(u, still) /\ KeepsPredictions(u, still)
  BY <1>2 DEF Turned, IsNode, Fields, KeepsPlace, KeepsPredictions
<1>6. /\ IsNode(moved) /\ moved.x = Plus(u, FullStep) /\ moved.path = u.path
      /\ moved.pc = u.pc /\ moved.current_pass = u.current_pass
      /\ moved.calls = u.calls
      /\ moved.step_size = FullStep /\ moved.gradient_pass = u.gradient_pass
      /\ KeepsPlace(u, moved) /\ moved.predictions = <<>>
  BY <1>2 DEF Turned, IsNode, Fields, KeepsPlace
<1>7. NextDirection(s) = IF bfgsJob.hessian_on THEN still ELSE moved
  BY <1>3
<1> HIDE DEF still, moved
<1>8. CASE bfgsJob.hessian_on
  BY <1>1, <1>2, <1>5, <1>7, <1>8 DEF Turned, Turns, KeepsPlace, KeepsPredictions
<1>9. CASE ~bfgsJob.hessian_on
  BY <1>1, <1>2, <1>4, <1>6, <1>7, <1>9 DEF Turned, Turns, KeepsPlace, KeepsPredictions
<1> QED
  BY <1>8, <1>9

----------------------------------------------------------------------------
(* What a decision leaves is on a line, but for the number of the pass.    *)
Decision(s, t) ==
  /\ IsNode(t) /\ t.current_pass = s.current_pass /\ t.calls = s.calls
  /\ t.x \in Seq(Int) /\ t.x # <<>> /\ t.path \in Seq(Seq(Int)) /\ t.path # <<>>
  /\ t.step_size \in Nat /\ t.gradient_pass \in BOOLEAN
  /\ t.x = Append(Last(t.path), Along(t))
  /\ KeepsPlace(s, t)
  /\ IF t.gradient_pass THEN t.predictions = <<>>
     ELSE /\ s.gradient_pass /\ Last(t.path) = s.x
          /\ t.predictions = s.predictions /\ t.example_number = 0

LEMMA StepIsDecision ==
  ASSUME NEW s, OnLine(s), s.path # <<>>, NEW k \in Nat, NEW d \in Int, NEW e \in Int,
         s.x = Append(Last(s.path), e), e + d = k,
         NEW t, Moved(s, t, d, k)
  PROVE  Decision(s, t)
<1>1. s.path \in Seq(Seq(Int)) /\ Last(s.path) \in Seq(Int) /\ k \in Int
  BY DEF OnLine, Last
<1>2. Plus(s, d) = Append(Last(s.path), e + d)
  BY <1>1, PlusMoves
<1>3. /\ Append(Last(s.path), k) \in Seq(Int) /\ Append(Last(s.path), k) # <<>>
  BY <1>1, LastAppended
<1> QED
  BY <1>1, <1>2, <1>3 DEF Decision, Moved, Along

LEMMA Decisions ==
  ASSUME NEW s, OnLine(s), s.pc # "failed", NEW a,
         Fitting(Question(s), a), a.what # "fail"
  PROVE  Decision(s, Decided(s, a))
<1> DEFINE t == Decided(s, a)
<1>1. /\ s.x \in Seq(Int) /\ s.x # <<>> /\ s.path \in Seq(Seq(Int))
      /\ s.step_size \in Nat /\ a.step \in Nat /\ FullStep \in Nat
      /\ 0 \in Int /\ FullStep \in Int
  BY BfgsAssumption DEF OnLine, Fitting
<1>2. /\ Append(s.x, 0) \in Seq(Int) /\ Append(s.x, 0) # <<>>
      /\ Append(s.x, FullStep) \in Seq(Int) /\ Append(s.x, FullStep) # <<>>
  BY <1>1, LastAppended
<1>3. CASE s.current_pass = 0
  <2>1. t = FirstPass(s)
    BY <1>3 DEF Fitting, Question, Decided
  <2> HIDE DEF t
  <2>2. Started(s, t) /\ t.gradient_pass = FALSE /\ t.example_number = 0
    BY <2>1, FirstTurn
  <2>3. <<s.x>> \in Seq(Seq(Int)) /\ <<s.x>> # <<>> /\ Last(<<s.x>>) = s.x
    BY <1>1 DEF Last
  <2>4. Decision(s, t)
    BY <1>1, <1>2, <1>3, <2>2, <2>3 DEF Started, Decision, Along, OnLine
  <2> QED
    BY <2>4 DEF t
<1>4. CASE s.current_pass # 0 /\ s.gradient_pass
  <2>1. a.what \in {"back", "on"}
    BY <1>4 DEF Fitting, Question
  <2>2. s.path # <<>> /\ s.x = Append(Last(s.path), s.step_size)
    BY <1>4 DEF OnLine, Along
  <2>3. CASE a.what = "back"
    <3>1. t = StepBack(s, a.step)
      BY <2>3 DEF Decided
    <3> HIDE DEF t
    <3> DEFINE d == a.step - s.step_size
    <3>2. d \in Int /\ s.step_size \in Int /\ s.step_size + d = a.step
      BY <1>1
    <3>3. Moved(s, t, d, a.step)
      BY <1>1, <1>4, <3>1, StepBackMoves
    <3> HIDE DEF d
    <3>4. Decision(s, t)
      BY <1>1, <2>2, <3>2, <3>3, StepIsDecision
    <3> QED
      BY <3>4 DEF t
  <2>4. CASE a.what = "on"
    <3>1. t = NextDirection(s)
      BY <2>4 DEF Decided
    <3> HIDE DEF t
    <3>2. /\ Append(s.path, s.x) \in Seq(Seq(Int)) /\ Append(s.path, s.x) # <<>>
          /\ Last(Append(s.path, s.x)) = s.x
      BY <1>1, LastAppended
    <3>3. Turns(s, t)
      BY <3>1, DirectionTurns
    <3>4. Decision(s, t)
      BY <1>1, <1>2, <1>4, <3>2, <3>3 DEF Turns, Decision, Along
    <3> QED
      BY <3>4 DEF t
  <2> QED
    BY <2>1, <2>3, <2>4
<1>5. CASE s.current_pass # 0 /\ ~s.gradient_pass
  <2>1. t = NewtonStep(s, a.step)
    BY <1>5 DEF Fitting, Question, Decided
  <2> HIDE DEF t
  <2>2. s.path # <<>> /\ s.x = Append(Last(s.path), 0)
    BY <1>5 DEF OnLine, Along
  <2>3. Moved(s, t, a.step, a.step) /\ a.step \in Int /\ 0 + a.step = a.step
    BY <1>1, <2>1, NewtonMoves
  <2>4. Decision(s, t)
    BY <1>1, <2>2, <2>3, StepIsDecision
  <2> QED
    BY <2>4 DEF t
<1> QED
  BY <1>3, <1>4, <1>5

(* After the decision the next pass begins, or the rest of setup_bfgs.     *)
LEMMA PassFollows ==
  ASSUME NEW s, OnLine(s), NEW t, Decision(s, t)
  PROVE  OnLine(NextPassOf(t))
<1> DEFINE p == t.current_pass + 1
           next == [t EXCEPT !.pc = "examples", !.current_pass = p]
<1>1. p \in Nat /\ p # 0
  BY DEF Decision, OnLine
<1>2. /\ IsNode(next) /\ next.x = t.x /\ next.path = t.path
      /\ next.step_size = t.step_size /\ next.gradient_pass = t.gradient_pass
      /\ next.current_pass = p
  <2> HIDE DEF p
  <2> QED
    BY DEF Decision, IsNode, Fields
<1> HIDE DEF p
<1>3. OnLine(next)
  BY <1>1, <1>2 DEF Decision, OnLine, Along
<1>4. SameLine(next, ZeroPreconditioner(next))
  <2> HIDE DEF next
  <2> QED
    BY <1>3 DEF OnLine, SameLine, IsNode, Fields, ZeroPreconditioner
<1>5. OnLine(ZeroPreconditioner(next))
  BY <1>3, <1>4, StaysOnLine
<1>6. NextPassOf(t) = IF bfgsJob.output_regularizer /\ p = LastPass
                      THEN ZeroPreconditioner(next) ELSE next
  BY DEF NextPassOf, p
<1> QED
  BY <1>3, <1>5, <1>6

LEMMA EndFollows ==
  ASSUME NEW s, OnLine(s), s.current_pass # 0, NEW t, Decision(s, t)
  PROVE  OnLine(AfterLoop(t))
<1> DEFINE end == AfterLoop(t)
<1>1. /\ IsNode(end) /\ end.x = t.x /\ end.path = t.path
      /\ end.step_size = t.step_size /\ end.gradient_pass = t.gradient_pass
      /\ end.current_pass = t.current_pass
  BY DEF Decision, IsNode, Fields, AfterLoop
<1> HIDE DEF end
<1>2. OnLine(end)
  BY <1>1 DEF Decision, OnLine, Along
<1> QED
  BY <1>2 DEF end

LEMMA FailingStays ==
  ASSUME NEW s, OnLine(s)
  PROVE  /\ SameLine(s, [s EXCEPT !.pc = "failed"])
         /\ s.pc # "failed" => SameLine(s, [s EXCEPT !.pc = "done"])
         /\ s.pc # "failed" => SameLine(s, AfterLoop(s))
  BY DEF OnLine, SameLine, IsNode, Fields, AfterLoop

----------------------------------------------------------------------------
(* What may be answered fits the question; what was answered stays.        *)
LEMMA AnswersAreFitting ==
  ASSUME NEW s, OnLine(s), NEW a \in Answers(s)
  PROVE  Fitting(Question(s), a)
<1>1. CASE s.current_pass = 0
  BY <1>1 DEF Answers, Question, Fitting
<1>2. CASE s.current_pass # 0 /\ s.gradient_pass
  <2>1. WolfeEval(s) \subseteq Nat
    BY DEF OnLine, WolfeEval
  <2>2. a.step \in Nat /\ a.what \in {"back", "on", "fail"}
    BY <1>2, <2>1 DEF Answers
  <2> QED
    BY <1>2, <2>2 DEF Question, Fitting
<1>3. CASE s.current_pass # 0 /\ ~s.gradient_pass
  <2>1. Curvatures \subseteq Nat
    BY BfgsAssumption DEF Curvatures
  <2>2. a \in [what : {"step"}, step : Curvatures] \cup [what : {"fail"}, step : {0}]
    BY <1>3 DEF Answers
  <2>3. CASE a \in [what : {"step"}, step : Curvatures]
    BY <1>3, <2>1, <2>3 DEF Question, Fitting
  <2>4. CASE a \in [what : {"fail"}, step : {0}]
    BY <1>3, <2>4 DEF Question, Fitting
  <2> QED
    BY <2>2, <2>3, <2>4
<1> QED
  BY <1>1, <1>2, <1>3

LEMMA AnswersStay ==
  ASSUME AnswersFit, NEW q, NEW a, Fitting(q, a),
         answers' = [r \in DOMAIN answers \cup {q} |-> IF r = q THEN a ELSE answers[r]]
  PROVE  AnswersFit'
  BY DEF AnswersFit

----------------------------------------------------------------------------
(* The initial state, and each step.                                       *)
LEMMA InitLine == BfgsInit => LineInv
<1> SUFFICES ASSUME BfgsInit PROVE LineInv
  OBVIOUS
<1>1. AnswersFit
  BY DEF BfgsInit, BfgsStart, AnswersFit
<1>2. <<0>> \in Seq(Int) /\ <<0>> # <<>> /\ <<>> \in Seq(Seq(Int))
  OBVIOUS
<1>3. ASSUME NEW n \in BfgsNode PROVE OnLine(bfgs[n])
  BY <1>2 DEF BfgsInit, BfgsStart, OnLine, IsNode, Fields
<1>4. bfgs = [n \in BfgsNode |-> bfgs[n]]
  BY DEF BfgsInit, BfgsStart
<1> QED
  BY <1>1, <1>3, <1>4 DEF LineInv

LEMMA ReadingLine ==
  ASSUME LineInv, NEW n \in BfgsNode, BfgsReading(n)
  PROVE  LineInv'
<1> DEFINE s == bfgs[n]
           taken == IF s.gradient_pass THEN GradientStep(s, n) ELSE CurvatureStep(s, n)
           again == [s EXCEPT !.pass = s.pass + 1, !.next = 1]
           ended(c) == [s EXCEPT !.pc = "pass_end", !.calls = c]
           over(c) == [s EXCEPT !.pc = "job_end", !.calls = c]
<1>1. OnLine(s) /\ bfgs = [k \in BfgsNode |-> bfgs[k]]
  BY DEF LineInv
<1>2. AnswersFit'
  BY DEF LineInv, AnswersFit, BfgsReading, TakeExample, NextBfgsPass, EndBfgsPass
<1>3. CASE TakeExample(n)
  <2>1. OnLine(taken)
    BY <1>1, ExampleStays, StaysOnLine
  <2>2. bfgs' = [bfgs EXCEPT ![n] = taken]
    BY <1>3 DEF TakeExample
  <2> HIDE DEF taken
  <2> QED
    BY <1>2, <2>1, <2>2, OneNodeMoves
<1>4. CASE NextBfgsPass(n)
  <2>1. SameLine(s, again)
    BY <1>1 DEF OnLine, SameLine, IsNode, Fields
  <2>2. bfgs' = [bfgs EXCEPT ![n] = again]
    BY <1>1, <1>4 DEF NextBfgsPass
  <2>3. OnLine(again)
    BY <1>1, <2>1, StaysOnLine
  <2> HIDE DEF again
  <2> QED
    BY <1>2, <2>2, <2>3, OneNodeMoves
<1>5. CASE EndBfgsPass(n)
  <2>1. s.pc = "examples"
    BY <1>5 DEF EndBfgsPass
  <2>2. ASSUME NEW c PROVE OnLine(ended(c)) /\ OnLine(over(c))
    <3>1. SameLine(s, ended(c)) /\ SameLine(s, over(c))
      BY <1>1, <2>1 DEF OnLine, SameLine, IsNode, Fields
    <3> QED
      BY <1>1, <3>1, StaysOnLine
  <2>3. \E c : \/ bfgs' = [bfgs EXCEPT ![n] = ended(c)]
               \/ bfgs' = [bfgs EXCEPT ![n] = over(c)]
    <3>1. CASE bfgs' = [bfgs EXCEPT ![n].pc = "pass_end", ![n].calls = CallsOf(s)]
      <4>1. bfgs' = [bfgs EXCEPT ![n] = ended(CallsOf(s))]
        BY <1>1, <3>1
      <4> QED
        BY <4>1
    <3>2. CASE bfgs' = [bfgs EXCEPT ![n].pc = "job_end",
                          ![n].calls = IF s.current_pass # 0 THEN CallsOf(s) ELSE <<>>]
      <4>1. bfgs' = [bfgs EXCEPT ![n] =
                       over(IF s.current_pass # 0 THEN CallsOf(s) ELSE <<>>)]
        BY <1>1, <3>2
      <4> QED
        BY <4>1
    <3> QED
      BY <1>5, <3>1, <3>2 DEF EndBfgsPass
  <2> HIDE DEF ended, over
  <2> QED
    BY <1>2, <2>2, <2>3, OneNodeMoves
<1> QED
  BY <1>3, <1>4, <1>5 DEF BfgsReading

LEMMA ReduceLine ==
  ASSUME LineInv, BfgsReduce
  PROVE  LineInv'
<1>1. PICK total : bfgs' = [n \in BfgsNode |-> Received(bfgs[n], total)]
  BY DEF BfgsReduce
<1>2. ASSUME NEW n \in BfgsNode PROVE OnLine(Received(bfgs[n], total))
  <2>1. OnLine(bfgs[n])
    BY DEF LineInv
  <2>2. SameLine(bfgs[n], Received(bfgs[n], total))
    BY <2>1 DEF OnLine, SameLine, IsNode, Fields, Received
  <2> QED
    BY <2>1, <2>2, StaysOnLine
<1>3. AnswersFit'
  BY DEF LineInv, AnswersFit, BfgsReduce
<1> QED
  BY <1>1, <1>2, <1>3 DEF LineInv

LEMMA DecidingLine ==
  ASSUME LineInv, NEW n \in BfgsNode, BfgsDeciding(n)
  PROVE  LineInv'
<1> DEFINE s == bfgs[n]
           failed == [s EXCEPT !.pc = "failed"]
           done == [s EXCEPT !.pc = "done"]
<1>1. OnLine(s) /\ bfgs = [k \in BfgsNode |-> bfgs[k]] /\ AnswersFit
  BY DEF LineInv
<1>2. OnLine(failed) /\ (s.pc # "failed" => OnLine(done) /\ OnLine(AfterLoop(s)))
  BY <1>1, FailingStays, StaysOnLine
<1>3. CASE Decide(n)
  <2>1. PICK a \in IF Question(s) \in DOMAIN answers THEN {answers[Question(s)]}
                   ELSE Answers(s) :
          /\ answers' = [q \in DOMAIN answers \cup {Question(s)} |->
                           IF q = Question(s) THEN a ELSE answers[q]]
          /\ bfgs' = [bfgs EXCEPT ![n] =
                        IF a.what = "fail" THEN failed
                        ELSE IF s.pc = "pass_end" THEN NextPassOf(Decided(s, a))
                        ELSE AfterLoop(Decided(s, a))]
    BY <1>3 DEF Decide
  <2>2. s.pc # "failed" /\ (s.pc = "pass_end" \/ s.current_pass # 0)
    BY <1>3 DEF Decide
  <2>3. Fitting(Question(s), a)
    BY <1>1, <2>1, AnswersAreFitting DEF AnswersFit
  <2>4. AnswersFit'
    BY <1>1, <2>1, <2>3, AnswersStay
  <2> HIDE DEF failed
  <2>5. CASE a.what = "fail"
    <3>1. bfgs' = [bfgs EXCEPT ![n] = failed]
      BY <2>1, <2>5
    <3> QED
      BY <1>2, <2>4, <3>1, OneNodeMoves
  <2>6. CASE a.what # "fail" /\ s.pc = "pass_end"
    <3>1. bfgs' = [bfgs EXCEPT ![n] = NextPassOf(Decided(s, a))]
      BY <2>1, <2>6
    <3>2. Decision(s, Decided(s, a))
      BY <1>1, <2>2, <2>3, <2>6, Decisions
    <3>3. OnLine(NextPassOf(Decided(s, a)))
      BY <1>1, <3>2, PassFollows
    <3> QED
      BY <2>4, <3>1, <3>3, OneNodeMoves
  <2>7. CASE a.what # "fail" /\ s.pc # "pass_end"
    <3>1. bfgs' = [bfgs EXCEPT ![n] = AfterLoop(Decided(s, a))]
      BY <2>1, <2>7
    <3>2. Decision(s, Decided(s, a))
      BY <1>1, <2>2, <2>3, <2>7, Decisions
    <3>3. OnLine(AfterLoop(Decided(s, a)))
      BY <1>1, <2>2, <2>7, <3>2, EndFollows
    <3> QED
      BY <2>4, <3>1, <3>3, OneNodeMoves
  <2> QED
    BY <2>5, <2>6, <2>7
<1>4. CASE NothingToDecide(n)
  <2>1. bfgs' = [bfgs EXCEPT ![n] = AfterLoop(s)] /\ s.pc # "failed"
    BY <1>4 DEF NothingToDecide
  <2>2. AnswersFit'
    BY <1>1, <1>4 DEF NothingToDecide, AnswersFit
  <2> QED
    BY <1>2, <2>1, <2>2, OneNodeMoves
<1>5. CASE BfgsDone(n)
  <2>1. bfgs' = [bfgs EXCEPT ![n] = done] /\ s.pc # "failed"
    BY <1>1, <1>5 DEF BfgsDone
  <2>2. AnswersFit'
    BY <1>1, <1>5 DEF BfgsDone, AnswersFit
  <2> HIDE DEF done
  <2> QED
    BY <1>2, <2>1, <2>2, OneNodeMoves
<1> QED
  BY <1>3, <1>4, <1>5 DEF BfgsDeciding

LEMMA NextLine ==
  ASSUME LineInv, [BfgsReduce \/ \E n \in BfgsNode : BfgsStep(n)]_bfgsVars
  PROVE  LineInv'
<1>1. CASE UNCHANGED bfgsVars
  BY <1>1 DEF bfgsVars, LineInv, AnswersFit
<1> QED
  BY <1>1, ReduceLine, ReadingLine, DecidingLine DEF BfgsStep

(* work_on_weights: the weights are always where the line search began,    *)
(* plus step_size times the direction, however often it steps back and     *)
(* whatever passes come between, on every node.                            *)
THEOREM WeightsOnLine == BfgsSpec => []LineSearchPoint
<1>1. LineInv => LineSearchPoint
  BY DEF LineInv, OnLine, LineSearchPoint, Along
<1> QED
  BY <1>1, InitLine, NextLine, PTL DEF BfgsSpec

----------------------------------------------------------------------------
(* What was predicted.  A node with size examples is in the pass it works  *)
(* on, or, its parser ahead of it, at the beginning of the next one.  In a *)
(* gradient pass the predictions are those of the examples so far, in a    *)
(* curvature pass those of all examples, at the point accepted last.       *)
PredictedUpto(k, x) == [e \in 1..k |-> <<e, x>>]

Replay(s, size) ==
  /\ s.next \in 1..size + 1 /\ s.pass \in Nat /\ s.pass >= s.current_pass
  /\ s.pass # s.current_pass =>
       s.next = 1 /\ (size > 0 => s.pass = s.current_pass + 1)
  /\ s.pc = "pass_end" => s.pass # s.current_pass /\ size > 0
  /\ s.pc = "examples" /\ s.pass = s.current_pass =>
       IF s.gradient_pass THEN s.predictions = PredictedUpto(s.next - 1, s.x)
       ELSE s.example_number = s.next - 1
  /\ s.gradient_pass /\ (\/ s.pc \in {"pass_end", "job_end"}
                         \/ s.pc = "examples" /\ s.pass # s.current_pass) =>
       s.predictions = PredictedUpto(size, s.x)
  /\ ~s.gradient_pass /\ s.pc = "examples" =>
       s.predictions = PredictedUpto(size, Last(s.path))

ReplayInv ==
  /\ bfgsJob \in BfgsJobs
  /\ \A n \in BfgsNode : Replay(bfgs[n], bfgsJob.shard[n])

LEMMA OneMore ==
  ASSUME NEW k \in Nat, NEW x
  PROVE  Append(PredictedUpto(k, x), <<k + 1, x>>) = PredictedUpto(k + 1, x)
<1> DEFINE p == PredictedUpto(k, x)
<1>1. p \in Seq(Nat \X {x}) /\ Len(p) = k
  BY DEF PredictedUpto
<1>2. \A e \in 1..k + 1 : Append(p, <<k + 1, x>>)[e] = <<e, x>>
  BY <1>1 DEF PredictedUpto
<1>3. Append(p, <<k + 1, x>>) = [e \in 1..k + 1 |-> Append(p, <<k + 1, x>>)[e]]
  BY <1>1
<1> QED
  BY <1>2, <1>3 DEF PredictedUpto

LEMMA TakenReplay ==
  ASSUME NEW s, OnLine(s), NEW size \in Nat, Replay(s, size), NEW n,
         s.pc = "examples", s.next <= size, s.pass = s.current_pass
  PROVE  Replay(IF s.gradient_pass THEN GradientStep(s, n) ELSE CurvatureStep(s, n), size)
<1>1. s.next \in Nat /\ s.next - 1 \in Nat /\ s.next + 1 \in 1..size + 1
      /\ (s.next - 1) + 1 = s.next /\ (s.next + 1) - 1 = s.next
  BY DEF Replay
<1>2. CASE s.gradient_pass
  <2> DEFINE t == GradientStep(s, n)
  <2>1. /\ t.next = s.next + 1 /\ t.predictions = Append(s.predictions, <<s.next, s.x>>)
        /\ t.pc = s.pc /\ t.pass = s.pass
    BY DEF OnLine, IsNode, Fields, GradientStep
  <2>2. SameLine(s, t)
    BY ExampleStays
  <2> HIDE DEF t
  <2>3. t.predictions = PredictedUpto(s.next, s.x)
    BY <1>1, <1>2, <2>1, OneMore DEF Replay
  <2>4. Replay(t, size)
    BY <1>1, <1>2, <2>1, <2>2, <2>3 DEF Replay, SameLine
  <2> QED
    BY <1>2, <2>4 DEF t
<1>3. CASE ~s.gradient_pass
  <2> DEFINE t == CurvatureStep(s, n)
  <2>1. /\ t.next = s.next + 1 /\ t.predictions = s.predictions
        /\ t.example_number = s.example_number + 1
        /\ t.pc = s.pc /\ t.pass = s.pass
    BY DEF OnLine, IsNode, Fields, CurvatureStep
  <2>2. SameLine(s, t)
    BY ExampleStays
  <2> HIDE DEF t
  <2>3. Replay(t, size)
    BY <1>1, <1>3, <2>1, <2>2 DEF Replay, SameLine
  <2> QED
    BY <1>3, <2>3 DEF t
<1> QED
  BY <1>2, <1>3

LEMMA NextReplay ==
  ASSUME NEW s, OnLine(s), NEW size \in Nat, Replay(s, size),
         s.pc = "examples", s.next > size
  PROVE  Replay([s EXCEPT !.pass = s.pass + 1, !.next = 1], size)
<1> DEFINE t == [s EXCEPT !.pass = s.pass + 1, !.next = 1]
<1>1. /\ t.next = 1 /\ t.pass = s.pass + 1 /\ t.pc = s.pc
      /\ KeepsPredictions(s, t) /\ SameLine(s, t)
  BY DEF OnLine, IsNode, Fields, SameLine, KeepsPredictions
<1> HIDE DEF t
<1>2. s.pass \in Nat /\ s.current_pass \in Nat /\ s.pass >= s.current_pass
      /\ s.next \in 1..size + 1
  BY DEF Replay, OnLine
<1>3. s.gradient_pass => s.predictions = PredictedUpto(size, s.x)
  <2>1. CASE s.pass = s.current_pass
    <3>1. s.next - 1 = size
      BY <1>2
    <3> QED
      BY <2>1, <3>1 DEF Replay
  <2>2. CASE s.pass # s.current_pass
    BY <2>2 DEF Replay
  <2> QED
    BY <2>1, <2>2
<1>4. size > 0 => s.pass = s.current_pass
  BY <1>2 DEF Replay
<1>5. Replay(t, size)
  BY <1>1, <1>2, <1>3, <1>4 DEF Replay, SameLine, KeepsPredictions
<1> QED
  BY <1>5 DEF t

LEMMA EndReplay ==
  ASSUME NEW s, OnLine(s), NEW size \in Nat, Replay(s, size), s.pc = "examples", NEW c
  PROVE  /\ s.next <= size /\ s.pass # s.current_pass =>
              Replay([s EXCEPT !.pc = "pass_end", !.calls = c], size)
         /\ s.next > size => Replay([s EXCEPT !.pc = "job_end", !.calls = c], size)
<1> DEFINE t == [s EXCEPT !.pc = "pass_end", !.calls = c]
           u == [s EXCEPT !.pc = "job_end", !.calls = c]
<1>1. /\ t.pc = "pass_end" /\ u.pc = "job_end"
      /\ KeepsPlace(s, t) /\ KeepsPredictions(s, t) /\ SameLine(s, t)
      /\ KeepsPlace(s, u) /\ KeepsPredictions(s, u) /\ SameLine(s, u)
  BY DEF OnLine, IsNode, Fields, SameLine, KeepsPlace, KeepsPredictions
<1> HIDE DEF t, u
<1>2. ASSUME s.next <= size, s.pass # s.current_pass PROVE Replay(t, size)
  BY <1>1, <1>2 DEF Replay, SameLine, KeepsPlace, KeepsPredictions
<1>3. ASSUME s.next > size PROVE Replay(u, size)
  <2>1. s.pass = s.current_pass => s.next - 1 = size
    BY <1>3 DEF Replay
  <2> QED
    BY <1>1, <2>1 DEF Replay, SameLine, KeepsPlace, KeepsPredictions
<1> QED
  BY <1>2, <1>3 DEF t, u

LEMMA PassFollowsReplay ==
  ASSUME NEW s, OnLine(s), NEW size \in Nat, Replay(s, size), s.pc = "pass_end",
         NEW t, Decision(s, t)
  PROVE  Replay(NextPassOf(t), size)
<1> DEFINE u == NextPassOf(t)
<1>1. /\ u.pc = "examples" /\ u.current_pass = t.current_pass + 1
      /\ KeepsPlace(t, u) /\ KeepsPredictions(t, u)
      /\ u.x = t.x /\ u.path = t.path /\ u.gradient_pass = t.gradient_pass
  <2> DEFINE p == t.current_pass + 1
             next == [t EXCEPT !.pc = "examples", !.current_pass = p]
  <2>1. /\ IsNode(next) /\ next.pc = "examples" /\ next.current_pass = p
        /\ KeepsPlace(t, next) /\ KeepsPredictions(t, next)
        /\ next.x = t.x /\ next.path = t.path /\ next.gradient_pass = t.gradient_pass
    <3> HIDE DEF p
    <3> QED
      BY DEF Decision, IsNode, Fields, KeepsPlace, KeepsPredictions
  <2>2. u = IF bfgsJob.output_regularizer /\ p = LastPass
            THEN ZeroPreconditioner(next) ELSE next
    BY DEF NextPassOf
  <2> HIDE DEF next, u
  <2>3. /\ ZeroPreconditioner(next).pc = next.pc
        /\ ZeroPreconditioner(next).current_pass = next.current_pass
        /\ KeepsPlace(next, ZeroPreconditioner(next))
        /\ KeepsPredictions(next, ZeroPreconditioner(next))
        /\ ZeroPreconditioner(next).x = next.x
        /\ ZeroPreconditioner(next).path = next.path
        /\ ZeroPreconditioner(next).gradient_pass = next.gradient_pass
    BY <2>1 DEF IsNode, Fields, ZeroPreconditioner, KeepsPlace, KeepsPredictions
  <2> QED
    BY <2>1, <2>2, <2>3 DEF KeepsPlace, KeepsPredictions
<1> HIDE DEF u
<1>2. s.next = 1 /\ s.pass = s.current_pass + 1 /\ s.current_pass \in Nat
  BY DEF Replay, OnLine
<1>3. u.next = 1 /\ u.pass = u.current_pass /\ u.pass \in Nat
  BY <1>1, <1>2 DEF Decision, KeepsPlace
<1>4. CASE u.gradient_pass
  <2>1. u.predictions = <<>>
    BY <1>1, <1>4 DEF Decision, KeepsPredictions
  <2>2. PredictedUpto(u.next - 1, u.x) = <<>>
    BY <1>3 DEF PredictedUpto
  <2>3. Replay(u, size)
    BY <1>1, <1>3, <1>4, <2>1, <2>2 DEF Replay
  <2> QED
    BY <2>3 DEF u
<1>5. CASE ~u.gradient_pass
  <2>1. u.predictions = PredictedUpto(size, Last(u.path)) /\ u.example_number = 0
    BY <1>1, <1>5 DEF Decision, KeepsPredictions, Replay
  <2>2. Replay(u, size)
    BY <1>1, <1>3, <1>5, <2>1 DEF Replay
  <2> QED
    BY <2>2 DEF u
<1> QED
  BY <1>4, <1>5

(* Where nothing is replayed any more.                                     *)
LEMMA RestReplay ==
  ASSUME NEW s, OnLine(s), NEW size \in Nat, Replay(s, size),
         NEW t, KeepsPlace(s, t), t.current_pass = s.current_pass,
         t.pc \in {"failed", "regularizer", "done"}
  PROVE  Replay(t, size)
  BY DEF Replay, KeepsPlace

LEMMA RestingSteps ==
  ASSUME NEW s, IsNode(s)
  PROVE  /\ LET t == [s EXCEPT !.pc = "failed"] IN
            KeepsPlace(s, t) /\ t.current_pass = s.current_pass /\ t.pc = "failed"
         /\ LET t == [s EXCEPT !.pc = "done"] IN
            KeepsPlace(s, t) /\ t.current_pass = s.current_pass /\ t.pc = "done"
         /\ KeepsPlace(s, AfterLoop(s)) /\ AfterLoop(s).pc = "regularizer"
         /\ AfterLoop(s).current_pass = s.current_pass
  BY DEF IsNode, Fields, KeepsPlace, AfterLoop

LEMMA OneNodeReplays ==
  ASSUME LineInv, ReplayInv, NEW n \in BfgsNode, NEW t, Replay(t, bfgsJob.shard[n]),
         bfgs' = [bfgs EXCEPT ![n] = t], UNCHANGED bfgsJob
  PROVE  ReplayInv'
  BY DEF LineInv, ReplayInv

LEMMA Sizes ==
  ASSUME ReplayInv, NEW n \in BfgsNode
  PROVE  bfgsJob.shard[n] \in Nat
  BY BfgsAssumption DEF ReplayInv

LEMMA InitReplay == BfgsInit => ReplayInv
<1> SUFFICES ASSUME BfgsInit PROVE ReplayInv
  OBVIOUS
<1>1. bfgsJob \in BfgsJobs
  BY DEF BfgsInit, BfgsStart
<1>2. ASSUME NEW n \in BfgsNode PROVE Replay(bfgs[n], bfgsJob.shard[n])
  <2>1. /\ bfgs[n].next = 1 /\ bfgs[n].pass = 0 /\ bfgs[n].current_pass = 0
        /\ bfgs[n].pc = "examples" /\ bfgs[n].gradient_pass = TRUE
        /\ bfgs[n].predictions = <<>>
    BY DEF BfgsInit, BfgsStart
  <2>2. bfgsJob.shard[n] \in Nat
    BY <1>1, BfgsAssumption
  <2>3. PredictedUpto(bfgs[n].next - 1, bfgs[n].x) = <<>>
    BY <2>1 DEF PredictedUpto
  <2> QED
    BY <2>1, <2>2, <2>3 DEF Replay
<1> QED
  BY <1>1, <1>2 DEF ReplayInv

LEMMA ReadingReplay ==
  ASSUME LineInv, ReplayInv, NEW n \in BfgsNode, BfgsReading(n)
  PROVE  ReplayInv'
<1> DEFINE s == bfgs[n]
           size == bfgsJob.shard[n]
<1>1. OnLine(s) /\ bfgs = [k \in BfgsNode |-> bfgs[k]] /\ Replay(s, size)
  BY DEF LineInv, ReplayInv
<1>2. size \in Nat
  BY Sizes
<1>3. UNCHANGED bfgsJob
  BY DEF BfgsReading, TakeExample, NextBfgsPass, EndBfgsPass
<1>4. CASE TakeExample(n)
  <2> DEFINE t == IF s.gradient_pass THEN GradientStep(s, n) ELSE CurvatureStep(s, n)
  <2>1. /\ s.pc = "examples" /\ s.next <= size /\ s.pass = s.current_pass
        /\ bfgs' = [bfgs EXCEPT ![n] = t]
    BY <1>4 DEF TakeExample
  <2>2. Replay(t, size)
    BY <1>1, <1>2, <2>1, TakenReplay
  <2> HIDE DEF t
  <2> QED
    BY <1>3, <2>1, <2>2, OneNodeReplays
<1>5. CASE NextBfgsPass(n)
  <2> DEFINE t == [s EXCEPT !.pass = s.pass + 1, !.next = 1]
  <2>1. /\ s.pc = "examples" /\ s.next > size /\ bfgs' = [bfgs EXCEPT ![n] = t]
    BY <1>1, <1>5 DEF NextBfgsPass
  <2>2. Replay(t, size)
    BY <1>1, <1>2, <2>1, NextReplay
  <2> HIDE DEF t
  <2> QED
    BY <1>3, <2>1, <2>2, OneNodeReplays
<1>6. CASE EndBfgsPass(n)
  <2> DEFINE t(c) == [s EXCEPT !.pc = "pass_end", !.calls = c]
             u(c) == [s EXCEPT !.pc = "job_end", !.calls = c]
             calls == IF s.current_pass # 0 THEN CallsOf(s) ELSE <<>>
  <2>1. s.pc = "examples"
    BY <1>6 DEF EndBfgsPass
  <2>2. ASSUME NEW c
        PROVE  /\ s.next <= size /\ s.pass # s.current_pass => Replay(t(c), size)
               /\ s.next > size => Replay(u(c), size)
    BY <1>1, <1>2, <2>1, EndReplay
  <2>3. CASE /\ s.next <= size /\ s.pass # s.current_pass
             /\ bfgs' = [bfgs EXCEPT ![n].pc = "pass_end", ![n].calls = CallsOf(s)]
    <3>1. bfgs' = [bfgs EXCEPT ![n] = t(CallsOf(s))]
      BY <1>1, <2>3
    <3>2. Replay(t(CallsOf(s)), size)
      BY <2>2, <2>3
    <3> HIDE DEF t
    <3> QED
      BY <1>3, <3>1, <3>2, OneNodeReplays
  <2>4. CASE /\ s.next > size
             /\ bfgs' = [bfgs EXCEPT ![n].pc = "job_end", ![n].calls = calls]
    <3>1. bfgs' = [bfgs EXCEPT ![n] = u(calls)]
      BY <1>1, <2>4
    <3>2. Replay(u(calls), size)
      BY <2>2, <2>4
    <3> HIDE DEF u
    <3> QED
      BY <1>3, <3>1, <3>2, OneNodeReplays
  <2> QED
    BY <1>6, <2>3, <2>4 DEF EndBfgsPass
<1> QED
  BY <1>4, <1>5, <1>6 DEF BfgsReading

LEMMA ReduceReplay ==
  ASSUME LineInv, ReplayInv, BfgsReduce
  PROVE  ReplayInv'
<1>1. PICK total : bfgs' = [n \in BfgsNode |-> Received(bfgs[n], total)]
  BY DEF BfgsReduce
<1>2. ASSUME NEW n \in BfgsNode
      PROVE  Replay(Received(bfgs[n], total), bfgsJob.shard[n])
  <2> DEFINE s == bfgs[n]
             t == Received(s, total)
  <2>1. OnLine(s) /\ Replay(s, bfgsJob.shard[n])
    BY DEF LineInv, ReplayInv
  <2>2. /\ SameLine(s, t) /\ KeepsPlace(s, t) /\ KeepsPredictions(s, t) /\ t.pc = s.pc
    BY <2>1 DEF OnLine, SameLine, IsNode, Fields, Received, KeepsPlace, KeepsPredictions
  <2> HIDE DEF t
  <2>3. Replay(t, bfgsJob.shard[n])
    BY <2>1, <2>2 DEF Replay, SameLine, KeepsPlace, KeepsPredictions
  <2> QED
    BY <2>3 DEF t
<1>3. UNCHANGED bfgsJob
  BY DEF BfgsReduce
<1> QED
  BY <1>1, <1>2, <1>3 DEF ReplayInv

LEMMA DecidingReplay ==
  ASSUME LineInv, ReplayInv, NEW n \in BfgsNode, BfgsDeciding(n)
  PROVE  ReplayInv'
<1> DEFINE s == bfgs[n]
           size == bfgsJob.shard[n]
           failed == [s EXCEPT !.pc = "failed"]
           done == [s EXCEPT !.pc = "done"]
<1>1. /\ OnLine(s) /\ IsNode(s) /\ bfgs = [k \in BfgsNode |-> bfgs[k]] /\ AnswersFit
      /\ Replay(s, size) /\ size \in Nat
  BY Sizes DEF LineInv, OnLine, ReplayInv
<1>2. UNCHANGED bfgsJob
  BY DEF BfgsDeciding, Decide, NothingToDecide, BfgsDone
<1>3. Replay(failed, size) /\ Replay(done, size) /\ Replay(AfterLoop(s), size)
  <2>1. /\ KeepsPlace(s, failed) /\ failed.current_pass = s.current_pass
        /\ failed.pc = "failed"
        /\ KeepsPlace(s, done) /\ done.current_pass = s.current_pass
        /\ done.pc = "done"
    BY <1>1, RestingSteps
  <2> HIDE DEF failed, done
  <2> QED
    BY <1>1, <2>1, RestingSteps, RestReplay
<1>4. CASE Decide(n)
  <2>1. PICK a \in IF Question(s) \in DOMAIN answers THEN {answers[Question(s)]}
                   ELSE Answers(s) :
          bfgs' = [bfgs EXCEPT ![n] =
                     IF a.what = "fail" THEN failed
                     ELSE IF s.pc = "pass_end" THEN NextPassOf(Decided(s, a))
                     ELSE AfterLoop(Decided(s, a))]
    BY <1>4 DEF Decide
  <2>2. s.pc # "failed"
    BY <1>4 DEF Decide
  <2>3. Fitting(Question(s), a)
    BY <1>1, <2>1, AnswersAreFitting DEF AnswersFit
  <2> HIDE DEF failed
  <2>4. CASE a.what = "fail"
    <3>1. bfgs' = [bfgs EXCEPT ![n] = failed]
      BY <2>1, <2>4
    <3> QED
      BY <1>2, <1>3, <3>1, OneNodeReplays
  <2>5. CASE a.what # "fail" /\ s.pc = "pass_end"
    <3>1. bfgs' = [bfgs EXCEPT ![n] = NextPassOf(Decided(s, a))]
      BY <2>1, <2>5
    <3>2. Decision(s, Decided(s, a))
      BY <1>1, <2>2, <2>3, <2>5, Decisions
    <3>3. Replay(NextPassOf(Decided(s, a)), size)
      BY <1>1, <2>5, <3>2, PassFollowsReplay
    <3> QED
      BY <1>2, <3>1, <3>3, OneNodeReplays
  <2>6. CASE a.what # "fail" /\ s.pc # "pass_end"
    <3> DEFINE t == Decided(s, a)
    <3>1. bfgs' = [bfgs EXCEPT ![n] = AfterLoop(t)]
      BY <2>1, <2>6
    <3>2. Decision(s, t)
      BY <1>1, <2>2, <2>3, <2>6, Decisions
    <3> HIDE DEF t
    <3>3. /\ KeepsPlace(s, AfterLoop(t)) /\ AfterLoop(t).pc = "regularizer"
          /\ AfterLoop(t).current_pass = s.current_pass
      BY <3>2, RestingSteps DEF Decision, KeepsPlace
    <3>4. Replay(AfterLoop(t), size)
      BY <1>1, <3>3, RestReplay
    <3> QED
      BY <1>2, <3>1, <3>4, OneNodeReplays
  <2> QED
    BY <2>4, <2>5, <2>6
<1>5. CASE NothingToDecide(n)
  <2>1. bfgs' = [bfgs EXCEPT ![n] = AfterLoop(s)]
    BY <1>5 DEF NothingToDecide
  <2> QED
    BY <1>2, <1>3, <2>1, OneNodeReplays
<1>6. CASE BfgsDone(n)
  <2>1. bfgs' = [bfgs EXCEPT ![n] = done]
    BY <1>1, <1>6 DEF BfgsDone
  <2> HIDE DEF done
  <2> QED
    BY <1>2, <1>3, <2>1, OneNodeReplays
<1> QED
  BY <1>4, <1>5, <1>6 DEF BfgsDeciding

LEMMA NextReplays ==
  ASSUME LineInv, ReplayInv, [BfgsReduce \/ \E n \in BfgsNode : BfgsStep(n)]_bfgsVars
  PROVE  ReplayInv'
<1>1. CASE UNCHANGED bfgsVars
  BY <1>1 DEF bfgsVars, ReplayInv
<1> QED
  BY <1>1, ReduceReplay, ReadingReplay, DecidingReplay DEF BfgsStep

(* setup_bfgs: predictions[example_number++] is the prediction of the same *)
(* example at the point where the curvature is taken, for any number of    *)
(* steps back before, and however far the parser is ahead.                 *)
THEOREM PredictionsAreThose == BfgsSpec => []PredictionsReplayed
<1>1. LineInv /\ ReplayInv => PredictionsReplayed
  BY DEF ReplayInv, Replay, PredictionsReplayed, PredictedUpto
<1>2. BfgsSpec => []LineInv
  BY InitLine, NextLine, PTL DEF BfgsSpec
<1> QED
  BY <1>1, <1>2, InitReplay, NextReplays, PTL DEF BfgsSpec

----------------------------------------------------------------------------
(* Nodes in step.  What decides where a node goes next, and with which     *)
(* sums.                                                                   *)
SameMemory(s, t) == s.mem = t.mem /\ s.origin = t.origin
SameCore(s, t) ==
  /\ s.x = t.x /\ s.path = t.path /\ s.dir = t.dir /\ s.step_size = t.step_size
  /\ s.gradient_pass = t.gradient_pass /\ s.inverted = t.inverted
  /\ SameMemory(s, t) /\ s.rho = t.rho /\ s.lastj = t.lastj
  /\ s.previous_loss_sum = t.previous_loss_sum
SameTotals(s, t) ==
  IF s.gradient_pass THEN s.loss_sum = t.loss_sum /\ s.grad = t.grad
  ELSE s.curvature = t.curvature

LEMMA SameStored ==
  ASSUME NEW s, NEW t, SameMemory(s, t), NEW g, NEW x, NEW i
  PROVE  Stored(s, g, x) = Stored(t, g, x) /\ MemAt(s, i) = MemAt(t, i)
  BY DEF SameMemory, Stored, MemAt, MemSlot

LEMMA SameStart ==
  ASSUME NEW s, IsNode(s), NEW t, IsNode(t), SameCore(s, t), s.grad = t.grad
  PROVE  SameCore(IterStart(s), IterStart(t))
<1>1. SameMemory(s, t)
  BY DEF SameCore
<1>2. Stored(s, s.grad, s.x) = Stored(t, t.grad, t.x)
  BY <1>1, SameStored DEF SameCore
<1> QED
  BY <1>2 DEF SameCore, SameMemory, IterStart, IsNode, Fields

LEMMA SameConjugate ==
  ASSUME NEW s, IsNode(s), NEW t, IsNode(t), SameCore(s, t), s.grad = t.grad
  PROVE  SameCore(IterConjugate(s), IterConjugate(t))
<1>1. SameMemory(s, t)
  BY DEF SameCore
<1>2. Stored(s, s.grad, s.x) = Stored(t, t.grad, t.x) /\ MemAt(s, 0) = MemAt(t, 0)
  BY <1>1, SameStored DEF SameCore
<1> QED
  BY <1>2 DEF SameCore, SameMemory, IterConjugate, IsNode, Fields

LEMMA SameMiddle ==
  ASSUME NEW s, IsNode(s), NEW t, IsNode(t), SameCore(s, t), s.grad = t.grad
  PROVE  SameCore(IterMiddle(s), IterMiddle(t))
<1> DEFINE y(u) == <<u.grad, MemAt(u, 0)>>
           r(u) == <<u.x, MemAt(u, 1)>>
           stored(u) == Stored(u, y(u), r(u))
           p(u) == [u EXCEPT !.mem = stored(u), !.rho[0] = r(u)]
           pairs(u) == [j \in 1..u.lastj + 1 |->
                         <<MemAt(p(u), 2 * j - 2), MemAt(p(u), 2 * j - 1), p(u).rho[j - 1]>>]
           lastj(u) == NextLastj(u)
           origin(u) == Shifted(u)
           q(u) == [p(u) EXCEPT !.lastj = lastj(u), !.origin = origin(u)]
           rho(u) == [j \in DOMAIN q(u).rho |->
                        IF j \in 1..q(u).lastj THEN q(u).rho[j - 1] ELSE q(u).rho[j]]
           mem(u) == Stored(q(u), u.grad, u.x)
           d(u) == [grad |-> u.grad, pairs |-> pairs(u), inverted |-> u.inverted]
           middle(u) == [q(u) EXCEPT !.mem = mem(u), !.rho = rho(u), !.dir = d(u),
                                     !.x = Append(@, 0), !.path = Append(@, u.x),
                                     !.grad = EmptyBag]
<1>1. IterMiddle(s) = middle(s) /\ IterMiddle(t) = middle(t)
  BY DEF IterMiddle
<1>2. SameMemory(s, t) /\ s.x = t.x /\ s.path = t.path /\ s.rho = t.rho
      /\ s.lastj = t.lastj /\ s.inverted = t.inverted
  BY DEF SameCore
<1>3. y(s) = y(t) /\ r(s) = r(t) /\ lastj(s) = lastj(t) /\ origin(s) = origin(t)
  BY <1>2, SameStored DEF NextLastj, Shifted, SameMemory
<1> HIDE DEF y, r, lastj, origin
<1>4. stored(s) = stored(t)
  BY <1>2, <1>3, SameStored
<1> HIDE DEF stored
<1>5. /\ IsNode(p(s)) /\ IsNode(p(t)) /\ SameMemory(p(s), p(t))
      /\ p(s).rho = p(t).rho
      /\ p(s).x = s.x /\ p(t).x = t.x /\ p(s).path = s.path /\ p(t).path = t.path
      /\ p(s).step_size = s.step_size /\ p(t).step_size = t.step_size
      /\ p(s).gradient_pass = s.gradient_pass /\ p(t).gradient_pass = t.gradient_pass
      /\ p(s).inverted = s.inverted /\ p(t).inverted = t.inverted
      /\ p(s).previous_loss_sum = s.previous_loss_sum
      /\ p(t).previous_loss_sum = t.previous_loss_sum
  BY <1>2, <1>3, <1>4 DEF SameMemory, IsNode, Fields
<1> HIDE DEF p
<1>6. pairs(s) = pairs(t)
  <2>1. \A i : MemAt(p(s), i) = MemAt(p(t), i)
    BY <1>5, SameStored
  <2> QED
    BY <1>2, <1>5, <2>1
<1>7. d(s) = d(t)
  BY <1>2, <1>6
<1> HIDE DEF pairs, d
<1>8. /\ IsNode(q(s)) /\ IsNode(q(t)) /\ SameMemory(q(s), q(t))
      /\ q(s).rho = q(t).rho /\ q(s).lastj = q(t).lastj
      /\ q(s).x = s.x /\ q(t).x = t.x /\ q(s).path = s.path /\ q(t).path = t.path
      /\ q(s).step_size = s.step_size /\ q(t).step_size = t.step_size
      /\ q(s).gradient_pass = s.gradient_pass /\ q(t).gradient_pass = t.gradient_pass
      /\ q(s).inverted = s.inverted /\ q(t).inverted = t.inverted
      /\ q(s).previous_loss_sum = s.previous_loss_sum
      /\ q(t).previous_loss_sum = t.previous_loss_sum
  BY <1>3, <1>5 DEF SameMemory, IsNode, Fields
<1> HIDE DEF q
<1>9. rho(s) = rho(t) /\ mem(s) = mem(t)
  BY <1>2, <1>8, SameStored
<1> HIDE DEF rho, mem
<1>10. SameCore(middle(s), middle(t))
  BY <1>2, <1>7, <1>8, <1>9 DEF SameCore, SameMemory, IsNode, Fields
<1> QED
  BY <1>1, <1>10

LEMMA SameFirst ==
  ASSUME NEW s, IsNode(s), NEW t, IsNode(t), SameCore(s, t),
         s.grad = t.grad, s.loss_sum = t.loss_sum
  PROVE  SameCore(FirstPass(s), FirstPass(t))
<1> DEFINE u(v) == [Finalized(v) EXCEPT
                      !.previous_loss_sum = v.loss_sum, !.loss_sum = EmptyBag,
                      !.example_number = 0, !.curvature = EmptyBag,
                      !.gradient_pass = FALSE]
<1>1. /\ IsNode(u(s)) /\ IsNode(u(t)) /\ SameCore(u(s), u(t))
      /\ u(s).grad = s.grad /\ u(t).grad = t.grad
  BY DEF SameCore, SameMemory, Finalized, IsNode, Fields
<1>2. FirstPass(s) = IterStart(u(s)) /\ FirstPass(t) = IterStart(u(t))
  BY DEF FirstPass
<1> HIDE DEF u
<1> QED
  BY <1>1, <1>2, SameStart

LEMMA SameDirection ==
  ASSUME NEW s, IsNode(s), NEW t, IsNode(t), SameCore(s, t),
         s.grad = t.grad, s.loss_sum = t.loss_sum
  PROVE  SameCore(NextDirection(s), NextDirection(t))
<1> DEFINE v(w) == [w EXCEPT !.previous_loss_sum = w.loss_sum, !.loss_sum = EmptyBag,
                             !.example_number = 0, !.curvature = EmptyBag]
           u(w) == IF bfgsJob.m = 0 THEN IterConjugate(v(w)) ELSE IterMiddle(v(w))
           next(w) == IF bfgsJob.hessian_on THEN [w EXCEPT !.gradient_pass = FALSE]
                      ELSE [w EXCEPT !.step_size = FullStep, !.predictions = <<>>,
                                     !.x = Plus(w, FullStep)]
<1>1. /\ IsNode(v(s)) /\ IsNode(v(t)) /\ SameCore(v(s), v(t))
      /\ v(s).grad = v(t).grad
  BY DEF SameCore, SameMemory, IsNode, Fields
<1>2. NextDirection(s) = next(u(s)) /\ NextDirection(t) = next(u(t))
  BY DEF NextDirection
<1> HIDE DEF v
<1>3. IsNode(u(s)) /\ IsNode(u(t)) /\ SameCore(u(s), u(t))
  BY <1>1, SameConjugate, SameMiddle, ConjugateTurns, MiddleTurns DEF Turned
<1> HIDE DEF u
<1>4. SameCore(next(u(s)), next(u(t)))
  BY <1>3 DEF SameCore, SameMemory, IsNode, Fields, Plus
<1> QED
  BY <1>2, <1>4

(* Nodes with the same core and the same sums ask the same, and go to the  *)
(* same place by the same answer.                                          *)
LEMMA SameQuestion ==
  ASSUME NEW s, NEW t, SameCore(s, t), SameTotals(s, t), s.current_pass = t.current_pass
  PROVE  Question(s) = Question(t)
  BY DEF SameCore, SameTotals, Question

LEMMA SameNextPass ==
  ASSUME NEW s, IsNode(s), NEW t, IsNode(t), SameCore(s, t),
         s.current_pass = t.current_pass
  PROVE  SameCore(NextPassOf(s), NextPassOf(t))
  BY DEF SameCore, SameMemory, IsNode, Fields, NextPassOf, ZeroPreconditioner

LEMMA SameDecision ==
  ASSUME NEW s, OnLine(s), s.pc # "failed", NEW t, OnLine(t), t.pc # "failed",
         SameCore(s, t), SameTotals(s, t), s.current_pass = t.current_pass,
         NEW a, Fitting(Question(s), a), a.what # "fail"
  PROVE  SameCore(NextPassOf(Decided(s, a)), NextPassOf(Decided(t, a)))
<1>1. IsNode(s) /\ IsNode(t) /\ Fitting(Question(t), a)
  BY SameQuestion DEF OnLine
<1>2. SameCore(Decided(s, a), Decided(t, a))
  <2>1. CASE s.current_pass = 0
    <3>1. a.what = "first" /\ s.gradient_pass
      BY <2>1 DEF Fitting, Question, OnLine
    <3>2. s.grad = t.grad /\ s.loss_sum = t.loss_sum
      BY <3>1 DEF SameTotals
    <3>3. SameCore(FirstPass(s), FirstPass(t))
      BY <1>1, <3>2, SameFirst
    <3> QED
      BY <3>1, <3>3 DEF Decided
  <2>2. CASE s.current_pass # 0 /\ s.gradient_pass
    <3>1. a.what \in {"back", "on"} /\ s.grad = t.grad /\ s.loss_sum = t.loss_sum
      BY <2>2 DEF Fitting, Question, SameTotals
    <3>2. CASE a.what = "back"
      <4>1. SameCore(StepBack(s, a.step), StepBack(t, a.step))
        BY <1>1 DEF SameCore, SameMemory, IsNode, Fields, StepBack, ZeroDerivative, Plus
      <4> QED
        BY <3>2, <4>1 DEF Decided
    <3>3. CASE a.what = "on"
      BY <1>1, <3>1, <3>3, SameDirection DEF Decided
    <3> QED
      BY <3>1, <3>2, <3>3
  <2>3. CASE s.current_pass # 0 /\ ~s.gradient_pass
    <3>1. a.what = "step"
      BY <2>3 DEF Fitting, Question
    <3>2. SameCore(NewtonStep(s, a.step), NewtonStep(t, a.step))
      BY <1>1 DEF SameCore, SameMemory, IsNode, Fields, NewtonStep, Plus
    <3> QED
      BY <3>1, <3>2 DEF Decided
  <2> QED
    BY <2>1, <2>2, <2>3
<1>3. Decision(s, Decided(s, a)) /\ Decision(t, Decided(t, a))
  BY <1>1, Decisions
<1> QED
  BY <1>2, <1>3, SameNextPass DEF Decision

----------------------------------------------------------------------------
(* Two nodes of which both have examples and both are still searching are  *)
(* in the same pass, or next to each other.  In the same pass they have    *)
(* the same core; if both have ended it they make the same calls, and have *)
(* the same sums as far as all_reduce has given them out.  The node ahead  *)
(* has gone where the answer given to it will send the other one.          *)
Ends == {"pass_end", "job_end"}
Running == {"examples"} \cup Ends
Calls == {<<>>, <<"curvature">>, <<"grad">>, <<"loss_sum", "grad">>,
          <<"importance", "loss_sum", "grad">>,
          <<"cond", "importance", "loss_sum", "grad">>}

SameSums(s, t) ==
  /\ s.calls = <<>> => SameTotals(s, t)
  /\ s.gradient_pass /\ s.calls = <<"grad">> => s.loss_sum = t.loss_sum

Together(s, t) ==
  /\ SameCore(s, t)
  /\ s.pc = "examples" /\ t.pc # "examples" => t.calls = CallsOf(t)
  /\ t.pc = "examples" /\ s.pc # "examples" => s.calls = CallsOf(s)
  /\ s.pc # "examples" /\ t.pc # "examples" => s.calls = t.calls /\ SameSums(s, t)

Follows(s, t, known) ==
  /\ Question(t) \in DOMAIN known
  /\ known[Question(t)].what # "fail"
  /\ SameCore(s, NextPassOf(Decided(t, known[Question(t)])))

Ahead(s, t, known) ==
  /\ t.pc # "examples" /\ t.calls = <<>>
  /\ s.pc # "examples" => s.calls = CallsOf(s)
  /\ Follows(s, t, known)

Pair(s, t, known) ==
  /\ s.current_pass <= t.current_pass + 1
  /\ s.current_pass = t.current_pass => Together(s, t)
  /\ s.current_pass = t.current_pass + 1 => Ahead(s, t, known)

(* What a node makes sure of by itself.                                    *)
Alone(s, size) ==
  /\ s.pc \in Running \cup {"regularizer", "done", "failed"}
  /\ size = 0 => s.current_pass = 0
  /\ s.current_pass = 0 => s.x = <<0>> /\ s.step_size = 0
  /\ s.pc \in {"examples", "done", "failed"} => s.calls = <<>>
  /\ s.pc = "regularizer" => s.calls \in {<<>>, <<"cond">>}
  /\ s.pc \in Ends =>
       /\ s.calls \in Calls
       /\ s.calls # <<>> => (s.calls = <<"curvature">> <=> ~s.gradient_pass)
       /\ s.pc = "job_end" /\ size = 0 => s.calls = <<>>

Searching == {n \in BfgsNode : bfgsJob.shard[n] > 0 /\ bfgs[n].pc \in Running}

LockInv ==
  /\ \A n \in BfgsNode : Alone(bfgs[n], bfgsJob.shard[n])
  /\ \A n, k \in Searching : Pair(bfgs[n], bfgs[k], answers)

----------------------------------------------------------------------------
(* The options never change, and an answer once given stands.              *)
LEMMA SameOptionsStart ==
  ASSUME UNCHANGED bfgsJob, NEW s
  PROVE  IterStart(s)' = IterStart(s)
  BY DEF IterStart, Stored, MemAt, MemSlot, MemStride

LEMMA SameOptionsConjugate ==
  ASSUME UNCHANGED bfgsJob, NEW s
  PROVE  IterConjugate(s)' = IterConjugate(s)
  BY DEF IterConjugate, Stored, MemAt, MemSlot, MemStride

LEMMA SameOptionsMiddle ==
  ASSUME UNCHANGED bfgsJob, NEW s
  PROVE  IterMiddle(s)' = IterMiddle(s)
  BY DEF IterMiddle, Stored, MemAt, MemSlot, MemStride, NextLastj, Shifted

LEMMA SameOptionsDecided ==
  ASSUME UNCHANGED bfgsJob, NEW s, NEW a
  PROVE  Decided(s, a)' = Decided(s, a)
<1> DEFINE t == [s EXCEPT !.previous_loss_sum = s.loss_sum, !.loss_sum = EmptyBag,
                          !.example_number = 0, !.curvature = EmptyBag]
<1>1. FirstPass(s)' = FirstPass(s)
  BY SameOptionsStart DEF FirstPass
<1>2. NextDirection(s)' = NextDirection(s)
  <2> HIDE DEF t
  <2>1. IterMiddle(t)' = IterMiddle(t) /\ IterConjugate(t)' = IterConjugate(t)
    BY SameOptionsMiddle, SameOptionsConjugate
  <2> QED
    BY <2>1 DEF NextDirection, Plus, t
<1> QED
  BY <1>1, <1>2 DEF Decided

LEMMA SameOptions ==
  ASSUME UNCHANGED bfgsJob, NEW s, NEW a
  PROVE  NextPassOf(Decided(s, a))' = NextPassOf(Decided(s, a))
  BY SameOptionsDecided DEF NextPassOf, LastPass, ZeroPreconditioner

Keeps(known, later) ==
  \A q \in DOMAIN known : q \in DOMAIN later /\ later[q] = known[q]

LEMMA PairStays ==
  ASSUME UNCHANGED bfgsJob, NEW known, NEW later, Keeps(known, later),
         NEW s, NEW t, Pair(s, t, known)
  PROVE  Pair(s, t, later)'
<1> DEFINE a == known[Question(t)]
<1>1. ASSUME s.current_pass = t.current_pass + 1 PROVE Ahead(s, t, later)'
  <2>1. /\ t.pc # "examples" /\ t.calls = <<>>
        /\ s.pc # "examples" => s.calls = CallsOf(s)
        /\ Question(t) \in DOMAIN known /\ a.what # "fail"
        /\ SameCore(s, NextPassOf(Decided(t, a)))
    BY <1>1 DEF Pair, Ahead, Follows
  <2>2. Question(t) \in DOMAIN later /\ later[Question(t)] = a
    BY <2>1 DEF Keeps
  <2> HIDE DEF a
  <2>3. SameCore(s, NextPassOf(Decided(t, a))')
    BY <2>1, SameOptions
  <2> QED
    BY <2>1, <2>2, <2>3 DEF Ahead, Follows
<1> QED
  BY <1>1 DEF Pair, Together, SameSums

LEMMA OneNodeSearches ==
  ASSUME LineInv, ReplayInv, LockInv, NEW n \in BfgsNode, NEW t,
         bfgs' = [bfgs EXCEPT ![n] = t], UNCHANGED bfgsJob,
         NEW later, answers' = later, Keeps(answers, later),
         Alone(t, bfgsJob.shard[n]), OnLine(t),
         t.pc \in Running /\ bfgsJob.shard[n] > 0 =>
           \A k \in Searching \ {n} : Pair(t, bfgs[k], later) /\ Pair(bfgs[k], t, later)
  PROVE  LockInv'
<1>1. bfgs' = [k \in BfgsNode |-> IF k = n THEN t ELSE bfgs[k]]
  BY DEF LineInv
<1>2. \A k \in BfgsNode : Alone(bfgs[k], bfgsJob.shard[k])'
  BY <1>1 DEF LockInv
<1>3. \A k \in Searching' : k \in BfgsNode /\ (k # n => k \in Searching)
  BY <1>1 DEF Searching
<1>4. n \in Searching' => t.pc \in Running /\ bfgsJob.shard[n] > 0
  BY <1>1 DEF Searching
<1>5. Keeps(later, later)
  BY DEF Keeps
<1>6. Pair(t, t, later)
  <2>1. t.current_pass \in Nat
    BY DEF OnLine
  <2> QED
    BY <2>1 DEF Pair, Together, SameCore, SameMemory, SameSums, SameTotals
<1>7. ASSUME NEW i, NEW k, i \in Searching', k \in Searching',
             NEW x, NEW y, x = (IF i = n THEN t ELSE bfgs[i]),
             y = (IF k = n THEN t ELSE bfgs[k])
      PROVE  Pair(x, y, later)'
  <2>1. CASE i # n /\ k # n
    <3>1. Pair(x, y, answers)
      BY <1>3, <1>7, <2>1 DEF LockInv
    <3> QED
      BY <3>1, PairStays
  <2>2. CASE ~(i # n /\ k # n)
    <3>1. Pair(x, y, later)
      BY <1>3, <1>4, <1>6, <1>7, <2>2
    <3> QED
      BY <1>5, <3>1, PairStays
  <2> QED
    BY <2>1, <2>2
<1>8. ASSUME NEW i, NEW k, i \in Searching', k \in Searching'
      PROVE  Pair(bfgs[i], bfgs[k], answers)'
  <2>1. /\ bfgs'[i] = (IF i = n THEN t ELSE bfgs[i])
        /\ bfgs'[k] = (IF k = n THEN t ELSE bfgs[k])
    BY <1>1, <1>3, <1>8
  <2>2. \A x, y : x = bfgs'[i] /\ y = bfgs'[k] => Pair(x, y, later)'
    BY <1>7, <1>8, <2>1
  <2> QED
    BY <2>2
<1> QED
  BY <1>2, <1>8 DEF LockInv

----------------------------------------------------------------------------
(* Reading a pass leaves the core alone; ending it makes the calls.        *)
SamePlace(s, t) == SameCore(s, t) /\ t.current_pass = s.current_pass

LEMMA CallsOfCore ==
  ASSUME NEW s, OnLine(s), NEW t, SamePlace(s, t)
  PROVE  /\ CallsOf(t) = CallsOf(s)
         /\ CallsOf(s) \in Calls /\ CallsOf(s) # <<>> /\ CallsOf(s) # <<"grad">>
         /\ CallsOf(s) = <<"curvature">> <=> ~s.gradient_pass
<1>1. s.current_pass = 0 => s.gradient_pass = TRUE
  BY DEF OnLine
<1> QED
  BY <1>1 DEF SamePlace, SameCore, CallsOf, Calls

LEMMA StillFollows ==
  ASSUME NEW s, NEW t, SameCore(s, t), NEW u, NEW known, Follows(s, u, known)
  PROVE  Follows(t, u, known)
  BY DEF SameCore, SameMemory, Follows

LEMMA ReadsOn ==
  ASSUME NEW s, OnLine(s), s.pc = "examples", NEW t, SamePlace(s, t),
         t.pc = "examples", NEW u, OnLine(u), NEW known,
         Pair(s, u, known), Pair(u, s, known)
  PROVE  Pair(t, u, known) /\ Pair(u, t, known)
<1>1. ASSUME s.current_pass = u.current_pass PROVE Together(t, u) /\ Together(u, t)
  <2>1. Together(s, u)
    BY <1>1 DEF Pair
  <2> QED
    BY <2>1 DEF Together, SamePlace, SameCore, SameMemory
<1>2. ASSUME s.current_pass = u.current_pass + 1 PROVE Ahead(t, u, known)
  <2>1. Ahead(s, u, known) /\ SameCore(s, t)
    BY <1>2 DEF Pair, SamePlace
  <2>2. Follows(t, u, known)
    BY <2>1, StillFollows DEF Ahead
  <2> QED
    BY <2>1, <2>2 DEF Ahead
<1>3. u.current_pass # s.current_pass + 1
  BY DEF Pair, Ahead
<1> QED
  BY <1>1, <1>2, <1>3 DEF Pair, SamePlace

LEMMA EndsPass ==
  ASSUME NEW s, OnLine(s), s.pc = "examples", NEW t, SamePlace(s, t),
         t.pc # "examples", t.calls = CallsOf(s), NEW u, OnLine(u), NEW known,
         Pair(s, u, known), Pair(u, s, known)
  PROVE  Pair(t, u, known) /\ Pair(u, t, known)
<1>1. /\ CallsOf(t) = CallsOf(s)
      /\ CallsOf(s) # <<>> /\ CallsOf(s) # <<"grad">>
  BY CallsOfCore
<1>2. ASSUME s.current_pass = u.current_pass PROVE Together(t, u) /\ Together(u, t)
  <2>1. Together(s, u)
    BY <1>2 DEF Pair
  <2>2. CallsOf(u) = CallsOf(s)
    BY <1>2, <2>1, CallsOfCore DEF Together, SamePlace
  <2>3. SameCore(t, u) /\ SameCore(u, t)
    BY <2>1 DEF Together, SamePlace, SameCore, SameMemory
  <2>4. u.pc # "examples" => u.calls = t.calls
    BY <2>1, <2>2 DEF Together
  <2>5. u.pc # "examples" => SameSums(t, u) /\ SameSums(u, t)
    BY <1>1, <2>4 DEF SameSums
  <2> QED
    BY <1>1, <2>3, <2>4, <2>5 DEF Together
<1>3. ASSUME s.current_pass = u.current_pass + 1 PROVE Ahead(t, u, known)
  <2>1. Ahead(s, u, known) /\ SameCore(s, t)
    BY <1>3 DEF Pair, SamePlace
  <2>2. Follows(t, u, known)
    BY <2>1, StillFollows DEF Ahead
  <2> QED
    BY <1>1, <2>1, <2>2 DEF Ahead
<1>4. u.current_pass # s.current_pass + 1
  BY DEF Pair, Ahead
<1> QED
  BY <1>2, <1>3, <1>4 DEF Pair, SamePlace

LEMMA SearchingPeers ==
  ASSUME LineInv, LockInv, NEW n \in BfgsNode, bfgsJob.shard[n] > 0,
         bfgs[n].pc \in Running, NEW k \in Searching
  PROVE  /\ OnLine(bfgs[k]) /\ Pair(bfgs[n], bfgs[k], answers)
         /\ Pair(bfgs[k], bfgs[n], answers)
<1>1. n \in Searching /\ k \in BfgsNode
  BY DEF Searching
<1> QED
  BY <1>1 DEF LineInv, LockInv

LEMMA ReadingLock ==
  ASSUME LineInv, ReplayInv, LockInv, NEW n \in BfgsNode, BfgsReading(n)
  PROVE  LockInv'
<1> DEFINE s == bfgs[n]
           size == bfgsJob.shard[n]
           taken == IF s.gradient_pass THEN GradientStep(s, n) ELSE CurvatureStep(s, n)
           again == [s EXCEPT !.pass = s.pass + 1, !.next = 1]
           ended(c) == [s EXCEPT !.pc = "pass_end", !.calls = c]
           over(c) == [s EXCEPT !.pc = "job_end", !.calls = c]
<1>1. /\ OnLine(s) /\ IsNode(s) /\ bfgs = [k \in BfgsNode |-> bfgs[k]]
      /\ Alone(s, size) /\ Replay(s, size) /\ size \in Nat
  BY Sizes DEF LineInv, LockInv, ReplayInv, OnLine
<1>2. UNCHANGED <<bfgsJob, answers>> /\ s.pc = "examples"
  BY DEF BfgsReading, TakeExample, NextBfgsPass, EndBfgsPass
<1>3. Keeps(answers, answers)
  BY DEF Keeps
<1>4. s.calls = <<>>
  BY <1>1, <1>2 DEF Alone
<1>5. ASSUME NEW t, SamePlace(s, t), SameLine(s, t), t.pc = "examples", t.calls = s.calls,
             bfgs' = [bfgs EXCEPT ![n] = t]
      PROVE  LockInv'
  <2>1. Alone(t, size)
    BY <1>1, <1>2, <1>5 DEF Alone, SamePlace, SameCore, Ends, Running
  <2>2. OnLine(t)
    BY <1>1, <1>5, StaysOnLine
  <2>3. ASSUME size > 0, NEW k \in Searching
        PROVE  Pair(t, bfgs[k], answers) /\ Pair(bfgs[k], t, answers)
    <3>1. /\ OnLine(bfgs[k]) /\ Pair(s, bfgs[k], answers) /\ Pair(bfgs[k], s, answers)
      BY <1>2, <2>3, SearchingPeers DEF Running
    <3> QED
      BY <1>1, <1>2, <1>5, <3>1, ReadsOn
  <2> QED
    BY <1>2, <1>3, <1>5, <2>1, <2>2, <2>3, OneNodeSearches
<1>6. ASSUME NEW t, SamePlace(s, t), SameLine(s, t), t.pc \in Ends,
             t.calls = CallsOf(s) \/ (t.calls = <<>> /\ size = 0),
             size = 0 => t.pc = "job_end" /\ t.calls = <<>>,
             bfgs' = [bfgs EXCEPT ![n] = t]
      PROVE  LockInv'
  <2>1. /\ CallsOf(t) = CallsOf(s) /\ CallsOf(s) \in Calls
        /\ CallsOf(s) = <<"curvature">> <=> ~s.gradient_pass
    BY <1>1, <1>6, CallsOfCore
  <2>2. Alone(t, size)
    BY <1>1, <1>2, <1>6, <2>1 DEF Alone, SamePlace, SameCore, Ends, Running, Calls
  <2>3. OnLine(t)
    BY <1>1, <1>6, StaysOnLine
  <2>4. ASSUME size > 0, NEW k \in Searching
        PROVE  Pair(t, bfgs[k], answers) /\ Pair(bfgs[k], t, answers)
    <3>1. /\ OnLine(bfgs[k]) /\ Pair(s, bfgs[k], answers) /\ Pair(bfgs[k], s, answers)
      BY <1>2, <2>4, SearchingPeers DEF Running
    <3>2. t.calls = CallsOf(s) /\ t.pc # "examples"
      BY <1>6, <2>4 DEF Ends
    <3> QED
      BY <1>1, <1>2, <1>6, <3>1, <3>2, EndsPass
  <2> QED
    BY <1>2, <1>3, <1>6, <2>2, <2>3, <2>4, OneNodeSearches
<1>7. CASE TakeExample(n)
  <2>1. SamePlace(s, taken) /\ taken.pc = "examples" /\ taken.calls = s.calls
    BY <1>1, <1>2 DEF SamePlace, SameCore, SameMemory, IsNode, Fields, GradientStep,
                      CurvatureStep
  <2>2. SameLine(s, taken)
    BY <1>1, ExampleStays
  <2>3. bfgs' = [bfgs EXCEPT ![n] = taken]
    BY <1>7 DEF TakeExample
  <2> HIDE DEF taken
  <2> QED
    BY <1>5, <2>1, <2>2, <2>3
<1>8. CASE NextBfgsPass(n)
  <2>1. /\ SamePlace(s, again) /\ again.pc = "examples" /\ again.calls = s.calls
        /\ SameLine(s, again)
    BY <1>1, <1>2 DEF SamePlace, SameCore, SameMemory, SameLine, IsNode, Fields
  <2>2. bfgs' = [bfgs EXCEPT ![n] = again]
    BY <1>1, <1>8 DEF NextBfgsPass
  <2> HIDE DEF again
  <2> QED
    BY <1>5, <2>1, <2>2
<1>9. CASE EndBfgsPass(n)
  <2>1. ASSUME NEW c
        PROVE  /\ SamePlace(s, ended(c)) /\ SameLine(s, ended(c))
               /\ ended(c).pc = "pass_end" /\ ended(c).calls = c
               /\ SamePlace(s, over(c)) /\ SameLine(s, over(c))
               /\ over(c).pc = "job_end" /\ over(c).calls = c
    BY <1>1, <1>2 DEF SamePlace, SameCore, SameMemory, SameLine, IsNode, Fields
  <2>2. CASE /\ s.next <= size
             /\ bfgs' = [bfgs EXCEPT ![n].pc = "pass_end", ![n].calls = CallsOf(s)]
    <3> DEFINE t == ended(CallsOf(s))
    <3>1. bfgs' = [bfgs EXCEPT ![n] = t]
      BY <1>1, <2>2
    <3>2. size # 0
      BY <1>1, <2>2 DEF Replay
    <3>3. /\ SamePlace(s, t) /\ SameLine(s, t) /\ t.pc \in Ends /\ t.calls = CallsOf(s)
      BY <2>1 DEF Ends
    <3> HIDE DEF t
    <3> QED
      BY <1>6, <3>1, <3>2, <3>3
  <2>3. CASE /\ s.next > size /\ s.pass = LastPass
             /\ bfgs' = [bfgs EXCEPT ![n].pc = "job_end",
                           ![n].calls = IF s.current_pass # 0 THEN CallsOf(s) ELSE <<>>]
    <3> DEFINE c == IF s.current_pass # 0 THEN CallsOf(s) ELSE <<>>
               t == over(c)
    <3>1. bfgs' = [bfgs EXCEPT ![n] = t]
      BY <1>1, <2>3
    <3>2. size > 0 => s.current_pass # 0
      <4>1. LastPass \in Nat \ {0}
        BY BfgsAssumption DEF ReplayInv, LastPass
      <4> QED
        BY <1>1, <2>3, <4>1 DEF Replay
    <3>3. size = 0 => c = <<>>
      BY <1>1 DEF Alone
    <3>4. c = CallsOf(s) \/ (c = <<>> /\ size = 0)
      BY <1>1, <3>2, <3>3
    <3>5. SamePlace(s, t) /\ SameLine(s, t) /\ t.pc = "job_end" /\ t.calls = c
      BY <2>1
    <3> HIDE DEF t, c
    <3>6. t.pc \in Ends
      BY <3>5 DEF Ends
    <3> QED
      BY <1>6, <3>1, <3>3, <3>4, <3>5, <3>6
  <2> QED
    BY <1>9, <2>2, <2>3 DEF EndBfgsPass
<1> QED
  BY <1>7, <1>8, <1>9 DEF BfgsReading

----------------------------------------------------------------------------
(* all_reduce returns only when all call it: those still searching make    *)
(* the same call, and get the same sum.                                    *)
LEMMA ReceivedLeaves ==
  ASSUME NEW s, OnLine(s), NEW total
  PROVE  LET t == Received(s, total) IN
         SamePlace(s, t) /\ t.pc = s.pc /\ t.calls = Tail(s.calls)
  BY DEF OnLine, IsNode, Fields, Received, SamePlace, SameCore, SameMemory

LEMMA ReceivedSums ==
  ASSUME NEW s, OnLine(s), NEW total
  PROVE  LET t == Received(s, total)
             call == s.calls[1]
         IN /\ t.loss_sum = IF call = "loss_sum" THEN total ELSE s.loss_sum
            /\ t.grad = IF call = "grad" THEN total ELSE s.grad
            /\ t.curvature = IF call = "curvature" THEN total ELSE s.curvature
  BY DEF OnLine, IsNode, Fields, Received

LEMMA Tails ==
  ASSUME NEW a, NEW b, NEW c, NEW d
  PROVE  /\ Tail(<<a>>) = <<>> /\ Tail(<<a, b>>) = <<b>>
         /\ Tail(<<a, b, c>>) = <<b, c>> /\ Tail(<<a, b, c, d>>) = <<b, c, d>>
  OBVIOUS

(* The calls after the next one.                                           *)
LEMMA CallsLeft ==
  /\ Tail(<<"cond">>) = <<>> /\ Tail(<<"curvature">>) = <<>> /\ Tail(<<"grad">>) = <<>>
  /\ Tail(<<"loss_sum", "grad">>) = <<"grad">>
  /\ Tail(<<"importance", "loss_sum", "grad">>) = <<"loss_sum", "grad">>
  /\ Tail(<<"cond", "importance", "loss_sum", "grad">>)
       = <<"importance", "loss_sum", "grad">>
  BY Tails

LEMMA TailOfCalls ==
  ASSUME NEW c \in Calls, c # <<>>
  PROVE  /\ Tail(c) \in Calls /\ Tail(c) # <<"curvature">>
         /\ c = <<"curvature">> => Tail(c) = <<>>
<1>1. CASE c = <<"curvature">>
  BY <1>1, CallsLeft DEF Calls
<1>2. CASE c = <<"grad">>
  BY <1>2, CallsLeft DEF Calls
<1>3. CASE c = <<"loss_sum", "grad">>
  BY <1>3, CallsLeft DEF Calls
<1>4. CASE c = <<"importance", "loss_sum", "grad">>
  BY <1>4, CallsLeft DEF Calls
<1>5. CASE c = <<"cond", "importance", "loss_sum", "grad">>
  BY <1>5, CallsLeft DEF Calls
<1> QED
  BY <1>1, <1>2, <1>3, <1>4, <1>5 DEF Calls

LEMMA ReceivedAlone ==
  ASSUME NEW s, OnLine(s), NEW size, Alone(s, size), s.calls # <<>>, NEW total
  PROVE  Alone(Received(s, total), size)
<1> DEFINE t == Received(s, total)
<1>1. SamePlace(s, t) /\ t.pc = s.pc /\ t.calls = Tail(s.calls)
  BY ReceivedLeaves
<1> HIDE DEF t
<1>2. s.pc \in Ends \cup {"regularizer"}
  BY DEF Alone, Running, Ends
<1>3. ASSUME s.pc = "regularizer" PROVE t.calls = <<>>
  BY <1>1, <1>3, CallsLeft DEF Alone
<1>4. ASSUME s.pc \in Ends
      PROVE  t.calls \in Calls /\ t.calls # <<"curvature">>
             /\ (t.calls # <<>> => s.gradient_pass)
  <2>1. s.calls \in Calls /\ (s.calls = <<"curvature">> <=> ~s.gradient_pass)
    BY <1>4 DEF Alone
  <2> QED
    BY <1>1, <2>1, TailOfCalls DEF OnLine
<1>5. Alone(t, size)
  BY <1>1, <1>2, <1>3, <1>4 DEF Alone, SamePlace, SameCore, Ends, Running
<1> QED
  BY <1>5 DEF t

LEMMA ReceivedTogether ==
  ASSUME NEW s, OnLine(s), NEW t, OnLine(t), Together(s, t),
         s.pc \in Ends, t.pc \in Ends, NEW size, Alone(s, size), s.calls # <<>>, NEW total
  PROVE  Together(Received(s, total), Received(t, total))
<1> DEFINE a == Received(s, total)
           b == Received(t, total)
<1>1. /\ SameCore(s, t) /\ s.calls = t.calls /\ SameSums(s, t)
      /\ s.pc # "examples" /\ t.pc # "examples"
  BY DEF Together, Ends
<1>2. /\ SamePlace(s, a) /\ a.pc = s.pc /\ a.calls = Tail(s.calls)
      /\ SamePlace(t, b) /\ b.pc = t.pc /\ b.calls = Tail(t.calls)
  BY ReceivedLeaves
<1> DEFINE call == s.calls[1]
<1>3. /\ a.loss_sum = IF call = "loss_sum" THEN total ELSE s.loss_sum
      /\ b.loss_sum = IF call = "loss_sum" THEN total ELSE t.loss_sum
      /\ a.grad = IF call = "grad" THEN total ELSE s.grad
      /\ b.grad = IF call = "grad" THEN total ELSE t.grad
      /\ a.curvature = IF call = "curvature" THEN total ELSE s.curvature
      /\ b.curvature = IF call = "curvature" THEN total ELSE t.curvature
  <2>1. \A u : OnLine(u) =>
          LET v == Received(u, total)  first == u.calls[1] IN
          /\ v.loss_sum = IF first = "loss_sum" THEN total ELSE u.loss_sum
          /\ v.grad = IF first = "grad" THEN total ELSE u.grad
          /\ v.curvature = IF first = "curvature" THEN total ELSE u.curvature
    BY ReceivedSums
  <2> QED
    BY <1>1, <2>1
<1> HIDE DEF a, b, call
<1>4. SameCore(a, b)
  BY <1>1, <1>2 DEF SamePlace, SameCore, SameMemory
<1>5. SameSums(a, b)
  <2>1. s.calls \in Calls /\ (s.calls = <<"curvature">> <=> ~s.gradient_pass)
    BY DEF Alone
  <2>2. a.gradient_pass = s.gradient_pass
    BY <1>2 DEF SamePlace, SameCore
  <2>3. CASE s.calls = <<"curvature">>
    <3>1. call = "curvature"
      BY <2>3 DEF call
    <3> QED
      BY <1>3, <2>1, <2>2, <2>3, <3>1 DEF SameSums, SameTotals
  <2>4. CASE s.calls = <<"grad">>
    <3>1. call = "grad"
      BY <2>4 DEF call
    <3>2. s.loss_sum = t.loss_sum /\ s.gradient_pass
      BY <1>1, <2>1, <2>4 DEF SameSums
    <3> QED
      BY <1>3, <2>2, <3>1, <3>2 DEF SameSums, SameTotals
  <2>5. CASE s.calls = <<"loss_sum", "grad">>
    <3>1. call = "loss_sum"
      BY <2>5 DEF call
    <3>2. a.calls # <<>>
      BY <1>2, <2>5, CallsLeft
    <3> QED
      BY <1>3, <3>1, <3>2 DEF SameSums
  <2>6. CASE s.calls = <<"importance", "loss_sum", "grad">>
    <3>1. a.calls = <<"loss_sum", "grad">>
      BY <1>2, <2>6, CallsLeft
    <3> QED
      BY <3>1 DEF SameSums
  <2>7. CASE s.calls = <<"cond", "importance", "loss_sum", "grad">>
    <3>1. a.calls = <<"importance", "loss_sum", "grad">>
      BY <1>2, <2>7, CallsLeft
    <3> QED
      BY <3>1 DEF SameSums
  <2> QED
    BY <2>1, <2>3, <2>4, <2>5, <2>6, <2>7 DEF Calls
<1>6. Together(a, b)
  BY <1>1, <1>2, <1>4, <1>5 DEF Together
<1> QED
  BY <1>6 DEF a, b

LEMMA ReduceLock ==
  ASSUME LineInv, LockInv, BfgsReduce
  PROVE  LockInv'
<1>1. PICK total : bfgs' = [n \in BfgsNode |-> Received(bfgs[n], total)]
  BY DEF BfgsReduce
<1>2. UNCHANGED <<bfgsJob, answers>> /\ \A n \in BfgsNode : bfgs[n].calls # <<>>
  BY DEF BfgsReduce
<1>3. ASSUME NEW n \in BfgsNode
      PROVE  /\ OnLine(bfgs[n]) /\ bfgs'[n] = Received(bfgs[n], total)
             /\ SamePlace(bfgs[n], bfgs'[n]) /\ bfgs'[n].pc = bfgs[n].pc
             /\ Alone(bfgs[n], bfgsJob.shard[n])
  BY <1>1, ReceivedLeaves DEF LineInv, LockInv
<1>4. \A n \in BfgsNode : Alone(bfgs[n], bfgsJob.shard[n])'
  <2> TAKE n \in BfgsNode
  <2>1. Alone(Received(bfgs[n], total), bfgsJob.shard[n])
    BY <1>2, <1>3, ReceivedAlone
  <2> QED
    BY <1>2, <1>3, <2>1
<1>5. \A n \in Searching' : n \in BfgsNode /\ n \in Searching
  BY <1>2, <1>3 DEF Searching
<1>6. ASSUME NEW n, n \in Searching
      PROVE  bfgs[n].pc \in Ends /\ bfgs[n].calls # <<>> /\ n \in BfgsNode
  BY <1>2, <1>3, <1>6 DEF Searching, Alone, Running
<1>7. ASSUME NEW n, NEW k, n \in Searching, k \in Searching, NEW x, NEW y,
             x = bfgs'[n], y = bfgs'[k]
      PROVE  Pair(x, y, answers)
  <2> DEFINE s == bfgs[n]
             t == bfgs[k]
  <2>1. /\ Pair(s, t, answers) /\ Pair(t, s, answers)
        /\ OnLine(s) /\ OnLine(t) /\ s.calls # <<>> /\ t.calls # <<>>
        /\ s.pc \in Ends /\ t.pc \in Ends
    BY <1>3, <1>6, <1>7 DEF LockInv
  <2>2. s.current_pass \in Nat /\ t.current_pass \in Nat
    BY <2>1 DEF OnLine
  <2>3. s.current_pass = t.current_pass
    <3>1. /\ s.current_pass # t.current_pass + 1
          /\ t.current_pass # s.current_pass + 1
          /\ s.current_pass <= t.current_pass + 1
          /\ t.current_pass <= s.current_pass + 1
      BY <2>1 DEF Pair, Ahead
    <3> QED
      BY <2>2, <3>1
  <2>4. Together(s, t)
    BY <2>1, <2>3 DEF Pair
  <2>5. Together(Received(s, total), Received(t, total))
    BY <1>3, <1>6, <1>7, <2>1, <2>4, ReceivedTogether
  <2>6. Together(x, y)
    BY <1>3, <1>6, <1>7, <2>5
  <2>7. x.current_pass = s.current_pass /\ y.current_pass = t.current_pass
    BY <1>3, <1>6, <1>7 DEF SamePlace
  <2> HIDE DEF s, t
  <2> QED
    BY <2>2, <2>3, <2>6, <2>7 DEF Pair
<1>8. Keeps(answers, answers)
  BY DEF Keeps
<1>9. ASSUME NEW n, NEW k, n \in Searching', k \in Searching'
      PROVE  Pair(bfgs[n], bfgs[k], answers)'
  <2>1. \A x, y, known : x = bfgs'[n] /\ y = bfgs'[k] /\ known = answers
          => Pair(x, y, known)'
    BY <1>2, <1>5, <1>7, <1>8, <1>9, PairStays
  <2> QED
    BY <1>2, <2>1
<1> QED
  BY <1>4, <1>9 DEF LockInv

----------------------------------------------------------------------------
(* A node decides when its calls have returned: those in its pass wait to  *)
(* decide the same, those ahead have.                                      *)
LEMMA DecisionLeads ==
  ASSUME NEW s, OnLine(s), s.pc \in Ends, s.calls = <<>>,
         NEW u, OnLine(u), u.pc \in Running, NEW known, NEW later, NEW a,
         Keeps(known, later), Question(s) \in DOMAIN later, later[Question(s)] = a,
         Fitting(Question(s), a), a.what # "fail",
         NEW t, t = NextPassOf(Decided(s, a)), t.pc = "examples",
         t.current_pass = s.current_pass + 1,
         Pair(s, u, known), Pair(u, s, known)
  PROVE  Pair(t, u, later) /\ Pair(u, t, later)
<1>1. s.current_pass \in Nat /\ u.current_pass \in Nat
  BY DEF OnLine
<1>2. s.pc # "examples" /\ s.pc # "failed" /\ u.pc # "failed"
      /\ (u.pc = "examples" \/ u.pc \in Ends)
  BY DEF Ends, Running
<1>3. CallsOf(s) # <<>>
  BY DEF CallsOf
<1>4. s.current_pass # u.current_pass + 1
  BY <1>2, <1>3 DEF Pair, Ahead
<1>5. ASSUME u.current_pass = s.current_pass + 1 PROVE Together(t, u) /\ Together(u, t)
  <2>1. Ahead(u, s, known)
    BY <1>5 DEF Pair
  <2>2. SameCore(u, t)
    BY <2>1 DEF Ahead, Follows, Keeps
  <2> QED
    BY <2>1, <2>2 DEF Ahead, Together, SameCore, SameMemory
<1>6. ASSUME u.current_pass = s.current_pass PROVE Ahead(t, u, later)
  <2>1. Together(s, u) /\ Together(u, s)
    BY <1>6 DEF Pair
  <2>2. u.pc # "examples" /\ u.calls = <<>> /\ SameTotals(s, u) /\ SameCore(s, u)
    BY <1>2, <1>3, <2>1 DEF Together, SameSums
  <2>3. Question(u) = Question(s)
    BY <1>6, <2>2, SameQuestion
  <2>4. SameCore(t, NextPassOf(Decided(u, a)))
    BY <1>2, <1>6, <2>2, SameDecision
  <2> QED
    BY <2>2, <2>3, <2>4 DEF Ahead, Follows
<1>7. t.current_pass <= u.current_pass + 1 /\ u.current_pass <= t.current_pass + 1
      /\ (t.current_pass = u.current_pass => u.current_pass = s.current_pass + 1)
      /\ (t.current_pass = u.current_pass + 1 => u.current_pass = s.current_pass)
      /\ u.current_pass # t.current_pass + 1
  <2>1. s.current_pass <= u.current_pass + 1 /\ u.current_pass <= s.current_pass + 1
    BY DEF Pair
  <2> QED
    BY <1>1, <1>4, <2>1
<1> QED
  BY <1>5, <1>6, <1>7 DEF Pair

LEMMA LeavesLoop ==
  ASSUME NEW s, IsNode(s)
  PROVE  LET t == AfterLoop(s) IN
         /\ t.pc = "regularizer" /\ t.calls \in {<<>>, <<"cond">>}
         /\ t.current_pass = s.current_pass /\ t.x = s.x /\ t.step_size = s.step_size
  BY DEF IsNode, Fields, AfterLoop

LEMMA NextPassBegins ==
  ASSUME NEW t, IsNode(t)
  PROVE  LET u == NextPassOf(t) IN
         u.pc = "examples" /\ u.current_pass = t.current_pass + 1 /\ u.calls = t.calls
<1> DEFINE p == t.current_pass + 1
<1> HIDE DEF p
<1>1. LET u == NextPassOf(t) IN
      u.pc = "examples" /\ u.current_pass = p /\ u.calls = t.calls
  BY DEF IsNode, Fields, NextPassOf, ZeroPreconditioner, p
<1> QED
  BY <1>1 DEF p

LEMMA DecidingLock ==
  ASSUME LineInv, ReplayInv, LockInv, NEW n \in BfgsNode, BfgsDeciding(n)
  PROVE  LockInv'
<1> DEFINE s == bfgs[n]
           size == bfgsJob.shard[n]
           failed == [s EXCEPT !.pc = "failed"]
           done == [s EXCEPT !.pc = "done"]
<1>1. /\ OnLine(s) /\ IsNode(s) /\ bfgs = [k \in BfgsNode |-> bfgs[k]] /\ AnswersFit
      /\ Replay(s, size) /\ size \in Nat /\ Alone(s, size)
  BY Sizes DEF LineInv, OnLine, ReplayInv, LockInv
<1>2. UNCHANGED bfgsJob
  BY DEF BfgsDeciding, Decide, NothingToDecide, BfgsDone
<1>3. ASSUME NEW t, OnLine(t), t.pc \in {"regularizer", "done", "failed"}, Alone(t, size),
             bfgs' = [bfgs EXCEPT ![n] = t], Keeps(answers, answers')
      PROVE  LockInv'
  <2>1. t.pc \notin Running
    BY <1>3 DEF Running, Ends
  <2> DEFINE later == answers'
  <2>2. answers' = later /\ Keeps(answers, later)
    BY <1>3
  <2> HIDE DEF later
  <2> QED
    BY <1>2, <1>3, <2>1, <2>2, OneNodeSearches
<1>4. s.calls = <<>> => Alone(failed, size) /\ Alone(done, size)
      /\ failed.pc = "failed" /\ done.pc = "done"
  BY <1>1 DEF Alone, IsNode, Fields, Running, Ends
<1>5. OnLine(failed) /\ (s.pc # "failed" => OnLine(done) /\ OnLine(AfterLoop(s)))
  BY <1>1, FailingStays, StaysOnLine
<1>6. UNCHANGED answers => Keeps(answers, answers')
  BY DEF Keeps
<1>7. CASE Decide(n)
  <2>1. PICK a \in IF Question(s) \in DOMAIN answers THEN {answers[Question(s)]}
                   ELSE Answers(s) :
          /\ answers' = [q \in DOMAIN answers \cup {Question(s)} |->
                           IF q = Question(s) THEN a ELSE answers[q]]
          /\ bfgs' = [bfgs EXCEPT ![n] =
                        IF a.what = "fail" THEN failed
                        ELSE IF s.pc = "pass_end" THEN NextPassOf(Decided(s, a))
                        ELSE AfterLoop(Decided(s, a))]
    BY <1>7 DEF Decide
  <2>2. /\ s.pc \in Ends /\ s.calls = <<>> /\ s.pc # "failed"
        /\ s.pc = "pass_end" \/ s.current_pass # 0
    BY <1>7 DEF Decide, Ends
  <2>3. Fitting(Question(s), a)
    BY <1>1, <2>1, AnswersAreFitting DEF AnswersFit
  <2> DEFINE later == answers'
  <2>4. /\ Keeps(answers, later) /\ Question(s) \in DOMAIN later
        /\ later[Question(s)] = a /\ answers' = later
    BY <2>1 DEF Keeps
  <2> HIDE DEF failed, later
  <2>5. CASE a.what = "fail"
    <3>1. bfgs' = [bfgs EXCEPT ![n] = failed]
      BY <2>1, <2>5
    <3> QED
      BY <1>3, <1>4, <1>5, <2>2, <2>4, <3>1
  <2>6. CASE a.what # "fail" /\ s.pc = "pass_end"
    <3> DEFINE t == NextPassOf(Decided(s, a))
    <3>1. bfgs' = [bfgs EXCEPT ![n] = t]
      BY <2>1, <2>6
    <3>2. Decision(s, Decided(s, a))
      BY <1>1, <2>2, <2>3, <2>6, Decisions
    <3>3. /\ t.pc = "examples" /\ t.current_pass = s.current_pass + 1 /\ t.calls = <<>>
      BY <2>2, <3>2, NextPassBegins DEF Decision
    <3>4. OnLine(t)
      BY <1>1, <3>2, PassFollows
    <3>5. size # 0 /\ s.current_pass \in Nat
      BY <1>1, <2>6 DEF Replay, OnLine
    <3>6. Alone(t, size)
      <4> HIDE DEF t
      <4>1. t.current_pass # 0
        BY <3>3, <3>5
      <4> QED
        BY <3>3, <3>5, <4>1 DEF Alone, Running, Ends
    <3>7. ASSUME NEW k \in Searching
          PROVE  Pair(t, bfgs[k], later) /\ Pair(bfgs[k], t, later)
      <4>1. /\ OnLine(bfgs[k]) /\ Pair(s, bfgs[k], answers) /\ Pair(bfgs[k], s, answers)
        BY <1>1, <2>2, <3>5, SearchingPeers DEF Running
      <4>2. bfgs[k].pc \in Running
        BY DEF Searching
      <4> QED
        BY <1>1, <2>2, <2>3, <2>4, <2>6, <3>3, <4>1, <4>2, DecisionLeads
    <3> HIDE DEF t
    <3> QED
      BY <1>2, <2>4, <3>1, <3>4, <3>6, <3>7, OneNodeSearches
  <2>7. CASE a.what # "fail" /\ s.pc # "pass_end"
    <3> DEFINE t == AfterLoop(Decided(s, a))
    <3>1. bfgs' = [bfgs EXCEPT ![n] = t]
      BY <2>1, <2>7
    <3>2. Decision(s, Decided(s, a))
      BY <1>1, <2>2, <2>3, <2>7, Decisions
    <3>3. OnLine(t)
      BY <1>1, <2>2, <2>7, <3>2, EndFollows
    <3>4. /\ t.pc = "regularizer" /\ t.calls \in {<<>>, <<"cond">>}
          /\ t.current_pass = s.current_pass /\ s.current_pass # 0
      BY <2>2, <2>7, <3>2, LeavesLoop DEF Decision
    <3> HIDE DEF t
    <3>5. Alone(t, size)
      BY <1>1, <3>4 DEF Alone, Running, Ends
    <3> QED
      BY <1>3, <2>4, <3>1, <3>3, <3>4, <3>5
  <2> QED
    BY <2>5, <2>6, <2>7
<1>8. CASE NothingToDecide(n)
  <2> DEFINE t == AfterLoop(s)
  <2>1. bfgs' = [bfgs EXCEPT ![n] = t] /\ s.pc # "failed" /\ UNCHANGED answers
    BY <1>8 DEF NothingToDecide
  <2>2. /\ t.pc = "regularizer" /\ t.calls \in {<<>>, <<"cond">>}
        /\ t.current_pass = s.current_pass /\ t.x = s.x /\ t.step_size = s.step_size
    BY <1>1, LeavesLoop
  <2>3. OnLine(t)
    BY <1>5, <2>1
  <2> HIDE DEF t
  <2>4. Alone(t, size)
    BY <1>1, <2>2 DEF Alone, Running, Ends
  <2> QED
    BY <1>3, <1>6, <2>1, <2>2, <2>3, <2>4
<1>9. CASE BfgsDone(n)
  <2>1. /\ bfgs' = [bfgs EXCEPT ![n] = done] /\ s.pc # "failed" /\ s.calls = <<>>
        /\ UNCHANGED answers
    BY <1>1, <1>9 DEF BfgsDone
  <2> HIDE DEF done
  <2> QED
    BY <1>3, <1>4, <1>5, <1>6, <2>1
<1> QED
  BY <1>7, <1>8, <1>9 DEF BfgsDeciding

LEMMA InitLock == BfgsInit => LockInv
<1> SUFFICES ASSUME BfgsInit PROVE LockInv
  OBVIOUS
<1>1. ASSUME NEW n \in BfgsNode
      PROVE  /\ bfgs[n].pc = "examples" /\ bfgs[n].current_pass = 0
             /\ bfgs[n].x = <<0>> /\ bfgs[n].step_size = 0 /\ bfgs[n].calls = <<>>
  BY DEF BfgsInit, BfgsStart
<1>2. ASSUME NEW n \in BfgsNode PROVE Alone(bfgs[n], bfgsJob.shard[n])
  BY <1>1 DEF Alone, Running, Ends
<1>3. ASSUME NEW n \in BfgsNode, NEW k \in BfgsNode
      PROVE  SameCore(bfgs[n], bfgs[k])
  BY DEF BfgsInit, BfgsStart, SameCore, SameMemory
<1>4. ASSUME NEW n \in BfgsNode, NEW k \in BfgsNode
      PROVE  Pair(bfgs[n], bfgs[k], answers)
  BY <1>1, <1>3 DEF Pair, Together
<1> QED
  BY <1>2, <1>4 DEF LockInv, Searching

LEMMA NextLock ==
  ASSUME LineInv, ReplayInv, LockInv,
         [BfgsReduce \/ \E n \in BfgsNode : BfgsStep(n)]_bfgsVars
  PROVE  LockInv'
<1>1. CASE UNCHANGED bfgsVars
  <2>1. UNCHANGED <<bfgsJob, bfgs, answers>>
    BY <1>1 DEF bfgsVars
  <2>2. \A n \in BfgsNode : Alone(bfgs[n], bfgsJob.shard[n])'
    BY <2>1 DEF LockInv
  <2>3. ASSUME NEW n, NEW k, n \in Searching', k \in Searching'
        PROVE  Pair(bfgs[n], bfgs[k], answers)'
    <3>1. Pair(bfgs[n], bfgs[k], answers) /\ Keeps(answers, answers)
      BY <2>1, <2>3 DEF LockInv, Searching, Keeps
    <3>2. \A x, y, known : x = bfgs[n] /\ y = bfgs[k] /\ known = answers
            => Pair(x, y, known)'
      BY <2>1, <3>1, PairStays
    <3> QED
      BY <2>1, <3>2
  <2> QED
    BY <2>2, <2>3 DEF LockInv
<1> QED
  BY <1>1, ReduceLock, ReadingLock, DecidingLock DEF BfgsStep

LEMMA LockHolds ==
  ASSUME LineInv, ReplayInv, LockInv
  PROVE  BfgsLockstep
<1> SUFFICES ASSUME NEW n \in BfgsNode, NEW k \in BfgsNode,
                    bfgs[n].current_pass = bfgs[k].current_pass
             PROVE  LET s == bfgs[n]  t == bfgs[k] IN
                    /\ s.pc = "examples" /\ t.pc = "examples" =>
                         <<s.x, s.gradient_pass, s.dir, s.step_size>>
                           = <<t.x, t.gradient_pass, t.dir, t.step_size>>
                    /\ s.calls # <<>> /\ t.calls # <<>> /\ s.pc = t.pc =>
                         s.calls = t.calls
  BY DEF BfgsLockstep
<1> DEFINE s == bfgs[n]
           t == bfgs[k]
<1>1. /\ OnLine(s) /\ Alone(s, bfgsJob.shard[n]) /\ Replay(s, bfgsJob.shard[n])
      /\ OnLine(t) /\ Alone(t, bfgsJob.shard[k]) /\ Replay(t, bfgsJob.shard[k])
      /\ bfgsJob.shard[n] \in Nat /\ bfgsJob.shard[k] \in Nat
  BY Sizes DEF LineInv, LockInv, ReplayInv
<1>2. n \in Searching /\ k \in Searching => Together(s, t)
  BY DEF LockInv, Pair
<1>3. ASSUME s.pc = "examples", t.pc = "examples"
      PROVE  /\ s.x = t.x /\ s.gradient_pass = t.gradient_pass
             /\ s.dir = t.dir /\ s.step_size = t.step_size
  <2>1. CASE n \in Searching /\ k \in Searching
    BY <1>2, <2>1 DEF Together, SameCore
  <2>2. CASE ~(n \in Searching /\ k \in Searching)
    <3>1. bfgsJob.shard[n] = 0 \/ bfgsJob.shard[k] = 0
      BY <1>1, <1>3, <2>2 DEF Searching, Running
    <3>2. s.current_pass = 0 /\ t.current_pass = 0
      BY <1>1, <3>1 DEF Alone
    <3> QED
      BY <1>1, <3>2 DEF Alone, OnLine
  <2> QED
    BY <2>1, <2>2
<1>4. ASSUME s.calls # <<>>, t.calls # <<>>, s.pc = t.pc PROVE s.calls = t.calls
  <2>1. s.pc \in Ends \cup {"regularizer"}
    BY <1>1, <1>4 DEF Alone, Running
  <2>2. CASE s.pc = "regularizer"
    BY <1>1, <1>4, <2>2 DEF Alone
  <2>3. CASE s.pc \in Ends
    <3>1. bfgsJob.shard[n] # 0 /\ bfgsJob.shard[k] # 0
      BY <1>1, <1>4, <2>3 DEF Alone, Replay, Ends
    <3>2. n \in Searching /\ k \in Searching
      BY <1>1, <1>4, <2>3, <3>1 DEF Searching, Running
    <3> QED
      BY <1>2, <1>4, <2>3, <3>2 DEF Together, Ends
  <2> QED
    BY <2>1, <2>2, <2>3
<1> QED
  BY <1>3, <1>4

(* setup_bfgs, accumulate: nodes decide each for itself, from sums that    *)
(* all_reduce gave out at different times, and yet no two of them ever     *)
(* come to different weights in the same pass, or make different calls     *)
(* at its end, for any number of nodes, any shards and any answers.        *)
THEOREM NodesInLockstep == BfgsSpec => []BfgsLockstep
<1>1. BfgsSpec => [](LineInv /\ ReplayInv)
  BY InitLine, NextLine, InitReplay, NextReplays, PTL DEF BfgsSpec
<1> QED
  BY <1>1, InitLock, NextLock, LockHolds, PTL DEF BfgsSpec

----------------------------------------------------------------------------
(* Sums of the cluster.  FoldFunction picks the nodes in an order of its   *)
(* own.  That it comes to the union where nothing is counted twice is      *)
(* proved by the smallest set of nodes for which it would not.             *)
LEMMA SmallestSubset ==
  ASSUME NEW S, IsFiniteSet(S), NEW T \in SUBSET SUBSET S, T # {}
  PROVE  \E x \in T : \A y \in T : y \subseteq x => y = x
<1>1. T \subseteq FiniteSubsetsOf(S)
  BY FS_FiniteSubsetsOfFinite
<1>2. \E x \in T : \A y \in T : ~(<<y, x>> \in StrictSubsetOrdering(S))
  BY <1>1, FS_StrictSubsetOrderingWellFounded, WFMin, Zenon
<1> QED
  BY <1>2, Zenon DEF StrictSubsetOrdering

LEMMA BagsOfSets ==
  ASSUME NEW X, NEW Y, X \cap Y = {}
  PROVE  SetToBag(X) (+) SetToBag(Y) = SetToBag(X \cup Y)
<1>1. DOMAIN SetToBag(X) = X /\ DOMAIN SetToBag(Y) = Y
  BY DEF SetToBag
<1>2. SetToBag(X) (+) SetToBag(Y) =
        [e \in X \cup Y |-> (IF e \in X THEN 1 ELSE 0) + (IF e \in Y THEN 1 ELSE 0)]
  BY <1>1 DEF (+), SetToBag
<1>3. \A e \in X \cup Y : (IF e \in X THEN 1 ELSE 0) + (IF e \in Y THEN 1 ELSE 0) = 1
  OBVIOUS
<1> QED
  BY <1>2, <1>3 DEF SetToBag

LEMMA SumOfSets ==
  ASSUME NEW S, IsFiniteSet(S), NEW A,
         \A n, k \in S : n # k => A[n] \cap A[k] = {},
         NEW f, f = [n \in S |-> SetToBag(A[n])]
  PROVE  SumOf(f) = SetToBag(UNION {A[n] : n \in S})
<1> DEFINE chosen(s) == CHOOSE x \in s : TRUE
           all(s) == UNION {A[n] : n \in s}
           step(h) == [s \in SUBSET S |->
                         IF s = {} THEN EmptyBag ELSE f[chosen(s)] (+) h[s \ {chosen(s)}]]
           closed == [s \in SUBSET S |-> SetToBag(all(s))]
           h == CHOOSE h : h = step(h)
<1>1. \A s \in SUBSET S : s # {} => chosen(s) \in s
  OBVIOUS
<1>2. ASSUME NEW s \in SUBSET S, s # {}
      PROVE  f[chosen(s)] (+) closed[s \ {chosen(s)}] = closed[s]
  <2> DEFINE x == chosen(s)
             rest == s \ {x}
  <2>1. x \in s /\ x \in S /\ rest \in SUBSET S /\ x \notin rest
    BY <1>1, <1>2
  <2> HIDE DEF x
  <2>2. A[x] \cap all(rest) = {} /\ A[x] \cup all(rest) = all(s)
    BY <2>1
  <2>3. f[x] = SetToBag(A[x]) /\ closed[rest] = SetToBag(all(rest))
        /\ closed[s] = SetToBag(all(s))
    BY <2>1
  <2> HIDE DEF rest, all, closed
  <2>4. f[x] (+) closed[rest] = closed[s]
    BY <2>2, <2>3, BagsOfSets
  <2> QED
    BY <2>4 DEF x, rest
<1>3. closed = step(closed)
  <2>1. closed[{}] = EmptyBag
    BY DEF EmptyBag
  <2>2. \A s \in SUBSET S :
          closed[s] = IF s = {} THEN EmptyBag ELSE f[chosen(s)] (+) closed[s \ {chosen(s)}]
    BY <1>2, <2>1
  <2>3. closed = [s \in SUBSET S |-> closed[s]]
    OBVIOUS
  <2> HIDE DEF closed, chosen
  <2> QED
    BY <2>2, <2>3
<1> HIDE DEF closed
<1>4. h = step(h)
  <2> HIDE DEF step
  <2>1. \E g : g = step(g)
    BY <1>3
  <2> QED
    BY <2>1, Zenon
<1> HIDE DEF h
<1> DEFINE wrong == {s \in SUBSET S : h[s] # closed[s]}
<1>5. wrong = {}
  <2> SUFFICES ASSUME wrong # {} PROVE FALSE
    OBVIOUS
  <2> HIDE DEF step
  <2>0. wrong \in SUBSET SUBSET S
    OBVIOUS
  <2>1. PICK s \in wrong : \A r \in wrong : r \subseteq s => r = s
    <3> HIDE DEF wrong
    <3> QED
      BY <2>0, SmallestSubset
  <2> USE DEF step
  <2>2. s \in SUBSET S /\ h[s] # closed[s]
    BY <2>1
  <2>3. closed[s] = IF s = {} THEN EmptyBag ELSE f[chosen(s)] (+) closed[s \ {chosen(s)}]
    BY <1>3, <2>2
  <2>4. h[s] = IF s = {} THEN EmptyBag ELSE f[chosen(s)] (+) h[s \ {chosen(s)}]
    BY <1>4, <2>2
  <2>5. ASSUME s # {} PROVE h[s \ {chosen(s)}] = closed[s \ {chosen(s)}]
    <3>1. chosen(s) \in s
      BY <1>1, <2>2, <2>5
    <3> HIDE DEF chosen
    <3> QED
      BY <2>1, <2>2, <3>1
  <2> HIDE DEF chosen
  <2> QED
    BY <2>2, <2>3, <2>4, <2>5
<1>6. DOMAIN f = S
  OBVIOUS
<1>7. SumOf(f) = h[S]
  BY <1>6 DEF SumOf, FoldFunction, FoldFunctionOnSet, MapThenFoldSet, h
<1>8. h[S] = closed[S]
  BY <1>5
<1> QED
  BY <1>7, <1>8 DEF closed

(* What node n has added up of its first k examples, all at x.             *)
TermsUpto(n, k, x) == SetToBag({<<n, e, x>> : e \in 1..k})

LEMMA NoTerms ==
  ASSUME NEW n, NEW x
  PROVE  TermsUpto(n, 0, x) = EmptyBag
<1>1. {<<n, e, x>> : e \in 1..0} = {}
  OBVIOUS
<1> QED
  BY <1>1 DEF TermsUpto, EmptyBag

LEMMA OneMoreTerm ==
  ASSUME NEW n, NEW k \in Nat, NEW x
  PROVE  TermsUpto(n, k, x) (+) Term(n, k + 1, x) = TermsUpto(n, k + 1, x)
<1> DEFINE X == {<<n, e, x>> : e \in 1..k}
           Y == {<<n, k + 1, x>>}
           Z == {<<n, e, x>> : e \in 1..k + 1}
<1>1. X \cap Y = {} /\ X \cup Y = Z
  <2>1. 1..k + 1 = (1..k) \cup {k + 1} /\ k + 1 \notin 1..k
    OBVIOUS
  <2> QED
    BY <2>1
<1> HIDE DEF X, Y, Z
<1>2. SetToBag(X) (+) SetToBag(Y) = SetToBag(Z)
  BY <1>1, BagsOfSets
<1> QED
  BY <1>2 DEF X, Y, Z, TermsUpto, Term

(* The terms of at least one example tell at which point they were taken.  *)
LEMMA PointOfTerms ==
  ASSUME NEW n, NEW k \in Nat \ {0}, NEW x, NEW y, TermsUpto(n, k, x) = TermsUpto(n, k, y)
  PROVE  x = y
<1>1. {<<n, e, x>> : e \in 1..k} = {<<n, e, y>> : e \in 1..k}
  <2>1. \A X, Y : SetToBag(X) = SetToBag(Y) => X = Y
    <3>1. \A X : DOMAIN SetToBag(X) = X
      BY DEF SetToBag
    <3> QED
      BY <3>1
  <2> QED
    BY <2>1 DEF TermsUpto
<1>2. <<n, 1, x>> \in {<<n, e, x>> : e \in 1..k}
  <2>1. 1 \in 1..k
    OBVIOUS
  <2> QED
    BY <2>1
<1>3. <<n, 1, x>> \in {<<n, e, y>> : e \in 1..k}
  BY <1>1, <1>2
<1> QED
  BY <1>3

(* What all_reduce gives out when every node has counted its shard at x.   *)
LEMMA ClusterSum ==
  ASSUME NEW x, NEW f, f = [n \in BfgsNode |-> f[n]],
         \A n \in BfgsNode : f[n] = TermsUpto(n, bfgsJob.shard[n], x)
  PROVE  SumOf(f) = AllTerms(x)
<1> DEFINE A == [n \in BfgsNode |-> {<<n, e, x>> : e \in 1..bfgsJob.shard[n]}]
<1>1. \A n, k \in BfgsNode : n # k => A[n] \cap A[k] = {}
  OBVIOUS
<1>2. f = [n \in BfgsNode |-> SetToBag(A[n])]
  BY DEF TermsUpto
<1>3. {A[n] : n \in BfgsNode} = {{<<n, e, x>> : e \in 1..bfgsJob.shard[n]} : n \in BfgsNode}
  OBVIOUS
<1> HIDE DEF A
<1>4. SumOf(f) = SetToBag(UNION {A[n] : n \in BfgsNode})
  BY <1>1, <1>2, SumOfSets, BfgsNodesAssumption
<1> QED
  BY <1>3, <1>4 DEF AllTerms

----------------------------------------------------------------------------
(* Nodes that end the job.  The pass a node ends the job in is the last    *)
(* one, and who has left the loop leaves the others nothing to call for.   *)
(* With an empty shard among them no node gets further than all_reduce at  *)
(* the end of its first pass: who has no example does not call it there.   *)
FirstCalls == <<"cond", "importance", "loss_sum", "grad">>

Within(s, size) ==
  /\ s.pass <= LastPass
  /\ s.pc = "job_end" /\ size > 0 => s.current_pass = LastPass
  /\ s.pc \in {"regularizer", "done"} /\ size > 0 => s.current_pass = LastPass

Blocked(s, t) ==
  /\ s.pc # "failed"
  /\ t.current_pass = 0 /\ t.pc \in {"examples", "pass_end"}
  /\ t.pc = "pass_end" =>
       \/ t.calls = FirstCalls
       \/ t.calls = Tail(FirstCalls) /\ s.pc \in {"regularizer", "done"} /\ s.calls = <<>>

Closing(s, t) ==
  s.pc \in {"regularizer", "done"} /\ t.pc \in Running => t.pc = "job_end" /\ t.calls = <<>>

EndInv ==
  /\ \A n \in BfgsNode : Within(bfgs[n], bfgsJob.shard[n])
  /\ \A k, n \in BfgsNode : bfgsJob.shard[k] = 0 /\ bfgsJob.shard[n] > 0 =>
       Blocked(bfgs[k], bfgs[n])
  /\ \A k, n \in BfgsNode : bfgsJob.shard[k] > 0 /\ bfgsJob.shard[n] > 0 =>
       Closing(bfgs[k], bfgs[n])

----------------------------------------------------------------------------
(* What has been added up, of how many examples of a pass, and where.      *)
Counted(s, size) == IF s.pc = "examples" /\ s.pass = s.current_pass THEN s.next - 1 ELSE size
Base(s) == IF s.gradient_pass THEN s.x ELSE Last(s.path)
Diagonals(s) == s.current_pass = 0 \/ (bfgsJob.output_regularizer /\ s.current_pass = LastPass)

GradHeld(s, n, size) ==
  size > 0 /\ s.pc \in Running =>
    s.grad = IF ~s.gradient_pass THEN EmptyBag
             ELSE IF s.pc \in Ends /\ s.calls = <<>> THEN AllTerms(s.x)
             ELSE TermsUpto(n, Counted(s, size), s.x)

CondHeld(s, n, size) ==
  /\ s.pc \in Ends /\ s.calls = FirstCalls => s.current_pass = 0
  /\ s.pc \in Running /\ Diagonals(s)
     /\ (s.pc \in Ends => s.current_pass # 0 \/ s.calls = FirstCalls \/ size = 0) =>
       s.cond = TermsUpto(n, Counted(s, size), Base(s))
  /\ bfgsJob.output_regularizer /\ s.pc = "regularizer" /\ s.calls # <<>> =>
       \E x : s.cond = TermsUpto(n, size, x)
  /\ bfgsJob.output_regularizer /\ (s.pc = "done" \/ (s.pc = "regularizer" /\ s.calls = <<>>)) =>
       \E x : s.cond = AllTerms(x)

(* Those who have left the loop have summed the last diagonal at one point.*)
OnePoint(s, k, t, n) ==
  s.pc = "regularizer" /\ s.calls # <<>> =>
    /\ t.pc = "job_end" => s.cond = TermsUpto(k, bfgsJob.shard[k], Base(t))
    /\ t.pc = "regularizer" /\ t.calls # <<>> =>
         \E x : /\ s.cond = TermsUpto(k, bfgsJob.shard[k], x)
                /\ t.cond = TermsUpto(n, bfgsJob.shard[n], x)

HeldInv ==
  /\ \A n \in BfgsNode : /\ GradHeld(bfgs[n], n, bfgsJob.shard[n])
                         /\ CondHeld(bfgs[n], n, bfgsJob.shard[n])
  /\ \A k, n \in BfgsNode : bfgsJob.shard[k] > 0 /\ bfgsJob.shard[n] > 0 =>
       OnePoint(bfgs[k], k, bfgs[n], n)

----------------------------------------------------------------------------
(* The memory, from the path: the last point and gradient, and before them *)
(* the differences, newest first, as many as there were or mem has room for. *)
Remembers(s) ==
  LET path == s.path
      k == Len(path)
  IN /\ s.origin \in 0..MemStride - 1
     /\ MemAt(s, 0) = AllTerms(path[k])
     /\ bfgsJob.m = 0 => s.origin = 0
     /\ bfgsJob.m > 0 =>
          /\ s.lastj = IF k - 1 < bfgsJob.m - 1 THEN k - 1 ELSE bfgsJob.m - 1
          /\ MemAt(s, 1) = path[k]
          /\ DOMAIN s.rho = 0..bfgsJob.m - 1
          /\ \A j \in 1..s.lastj :
               LET pair == PairAt(path, k - j + 1) IN
               /\ MemAt(s, 2 * j) = pair[1] /\ MemAt(s, 2 * j + 1) = pair[2]
               /\ s.rho[j] = pair[2]

FromPath(s) ==
  LET path == s.path
      k == Len(path)
      pairs == s.dir.pairs
  IN /\ s.dir.grad = AllTerms(path[k])
     /\ bfgsJob.output_regularizer \/ s.dir.inverted
     /\ IF bfgsJob.m = 0
        THEN pairs = IF k = 1 THEN <<>> ELSE <<AllTerms(path[k - 1])>>
        ELSE /\ Len(pairs) = IF k - 1 < bfgsJob.m THEN k - 1 ELSE bfgsJob.m
             /\ \A j \in DOMAIN pairs :
                  LET pair == PairAt(path, k - j + 1) IN
                  pairs[j] = <<pair[1], pair[2], pair[2]>>

Fresh(s) == s.origin = 0 /\ DOMAIN s.rho = 0..bfgsJob.m - 1
Searched(s) ==
  Remembers(s) /\ FromPath(s) /\ (bfgsJob.output_regularizer \/ s.inverted)

Memory(s) == IF s.current_pass = 0 THEN Fresh(s) ELSE Searched(s)
MemoryInv == \A n \in BfgsNode : Memory(bfgs[n])

----------------------------------------------------------------------------
(* The slots of mem.                                                       *)
LEMMA Wrapped ==
  ASSUME NEW b \in Nat \ {0}, NEW a \in 0..2 * b - 1
  PROVE  a % b = IF a < b THEN a ELSE a - b
<1>1. CASE a < b
  BY <1>1
<1>2. CASE a >= b
  <2>1. a = b + (a - b) /\ a - b \in 0..b - 1
    BY <1>2
  <2> QED
    BY <1>2, <2>1, SMTT(30)
<1> QED
  BY <1>1, <1>2

LEMMA SlotAt ==
  ASSUME bfgsJob.m \in Nat \ {0}, NEW s, s.origin \in 0..MemStride - 1,
         NEW i \in 0..MemStride - 1
  PROVE  /\ MemStride = 2 * bfgsJob.m /\ MemStride \in Nat \ {0}
         /\ MemSlot(s, i) \in 0..MemStride - 1
         /\ MemSlot(s, i) = IF i + s.origin < MemStride THEN i + s.origin
                            ELSE i + s.origin - MemStride
<1>1. MemStride = 2 * bfgsJob.m /\ MemStride \in Nat \ {0}
  BY DEF MemStride
<1> DEFINE b == MemStride
           o == s.origin
<1>2. b \in Nat \ {0} /\ o \in 0..b - 1 /\ i \in 0..b - 1
  BY <1>1
<1> HIDE DEF b, o
<1> DEFINE a == i + o
<1>3. a \in 0..2 * b - 1
  BY <1>2
<1>4. MemSlot(s, i) = a % b
  BY DEF MemSlot, b, o
<1> HIDE DEF a
<1>5. MemSlot(s, i) = IF a < b THEN a ELSE a - b
  BY <1>2, <1>3, <1>4, Wrapped
<1>6. MemSlot(s, i) \in 0..b - 1
  BY <1>2, <1>3, <1>5
<1> QED
  BY <1>1, <1>5, <1>6 DEF a, b, o

LEMMA StoredAt ==
  ASSUME bfgsJob.m \in Nat, NEW s, s.origin \in 0..MemStride - 1, NEW g, NEW x,
         NEW t, t.origin = s.origin, t.mem = Stored(s, g, x)
  PROVE  /\ MemAt(t, 0) = g
         /\ bfgsJob.m > 0 => /\ MemAt(t, 1) = x
                             /\ \A i \in 2..MemStride - 1 : MemAt(t, i) = MemAt(s, i)
<1>1. \A i : MemSlot(t, i) = MemSlot(s, i)
  BY DEF MemSlot
<1>2. CASE bfgsJob.m = 0
  <2>1. MemStride = 1 /\ s.origin = 0
    BY <1>2 DEF MemStride
  <2>2. MemSlot(s, 0) = 0
    BY <2>1 DEF MemSlot
  <2> QED
    BY <1>1, <1>2, <2>1, <2>2 DEF Stored, MemAt
<1>3. CASE bfgsJob.m > 0
  <2>1. /\ bfgsJob.m \in Nat \ {0} /\ MemStride = 2 * bfgsJob.m
        /\ 0 \in 0..MemStride - 1 /\ 1 \in 0..MemStride - 1
        /\ 2..MemStride - 1 \subseteq 0..MemStride - 1
    BY <1>3 DEF MemStride
  <2>2. ASSUME NEW i \in 0..MemStride - 1
        PROVE  /\ MemSlot(s, i) \in 0..MemStride - 1
               /\ MemSlot(s, i) = IF i + s.origin < MemStride THEN i + s.origin
                                  ELSE i + s.origin - MemStride
    BY <2>1, SlotAt
  <2>3. MemSlot(s, 0) # MemSlot(s, 1)
        /\ \A i \in 2..MemStride - 1 : MemSlot(s, i) # MemSlot(s, 0) /\ MemSlot(s, i) # MemSlot(s, 1)
    BY <2>1, <2>2
  <2>4. \A k \in 0..MemStride - 1 :
          t.mem[k] = CASE k = MemSlot(s, 0) -> g
                       [] k = MemSlot(s, 1) -> x
                       [] OTHER -> s.mem[k]
    BY <1>3 DEF Stored
  <2>5. t.mem[MemSlot(s, 0)] = g /\ t.mem[MemSlot(s, 1)] = x
    BY <2>1, <2>2, <2>3, <2>4
  <2>6. \A i \in 2..MemStride - 1 : t.mem[MemSlot(s, i)] = s.mem[MemSlot(s, i)]
    BY <2>1, <2>2, <2>3, <2>4
  <2> QED
    BY <1>1, <2>5, <2>6 DEF MemAt
<1> QED
  BY <1>2, <1>3

LEMMA ShiftedAt ==
  ASSUME bfgsJob.m \in Nat \ {0}, NEW s, s.origin \in 0..MemStride - 1,
         NEW t, t.origin = Shifted(s), t.mem = s.mem
  PROVE  /\ t.origin \in 0..MemStride - 1
         /\ \A i \in 2..MemStride - 1 : MemAt(t, i) = MemAt(s, i - 2)
<1> DEFINE b == MemStride
           o == s.origin
<1>1. b = 2 * bfgsJob.m /\ b \in Nat \ {0} /\ b >= 2 /\ o \in 0..b - 1
  BY DEF MemStride
<1> HIDE DEF b, o
<1>2. o + b - 2 \in 0..2 * b - 1
  BY <1>1
<1>3. t.origin = IF o + b - 2 < b THEN o + b - 2 ELSE o - 2
  <2> DEFINE a == o + b - 2
  <2>1. a \in 0..2 * b - 1
    BY <1>2
  <2> HIDE DEF a
  <2>2. a % b = IF a < b THEN a ELSE a - b
    BY <1>1, <2>1, Wrapped
  <2>3. t.origin = a % b
    BY DEF Shifted, a, b, o
  <2> QED
    BY <1>1, <2>2, <2>3 DEF a
<1>4. t.origin \in 0..b - 1
  BY <1>1, <1>3
<1>5. ASSUME NEW i \in 2..b - 1 PROVE MemSlot(t, i) = MemSlot(s, i - 2)
  <2>1. i \in 0..b - 1 /\ i - 2 \in 0..b - 1
    BY <1>1
  <2>2. MemSlot(t, i) = IF i + t.origin < b THEN i + t.origin ELSE i + t.origin - b
    BY <1>4, <2>1, SlotAt DEF b
  <2>3. MemSlot(s, i - 2) = IF (i - 2) + o < b THEN (i - 2) + o ELSE (i - 2) + o - b
    BY <1>1, <2>1, SlotAt DEF b, o
  <2> QED
    BY <1>1, <1>3, <1>4, <2>2, <2>3
<1> QED
  BY <1>4, <1>5 DEF MemAt, b

----------------------------------------------------------------------------
(* Each new direction, and what mem holds after it.                        *)
LEMMA StartSearches ==
  ASSUME bfgsJob.m \in Nat, NEW s, IsNode(s), Fresh(s), s.grad = AllTerms(s.x),
         bfgsJob.output_regularizer \/ s.inverted
  PROVE  Searched(IterStart(s))
<1> DEFINE t == IterStart(s)
<1>1. /\ t.mem = Stored(s, s.grad, s.x) /\ t.origin = 0 /\ t.lastj = 0 /\ t.rho = s.rho
      /\ t.path = <<s.x>> /\ t.inverted = s.inverted
      /\ t.dir = [grad |-> s.grad, pairs |-> <<>>, inverted |-> s.inverted]
  BY DEF IterStart, IsNode, Fields
<1> HIDE DEF t
<1>2. Len(t.path) = 1 /\ t.path[1] = s.x
  BY <1>1
<1>3. s.origin = 0 /\ s.origin \in 0..MemStride - 1 /\ t.origin = s.origin
  BY <1>1 DEF Fresh, MemStride
<1>4. MemAt(t, 0) = s.grad /\ (bfgsJob.m > 0 => MemAt(t, 1) = s.x)
  BY <1>1, <1>3, StoredAt
<1>5. Remembers(t)
  BY <1>1, <1>2, <1>3, <1>4 DEF Remembers, Fresh
<1>6. FromPath(t)
  BY <1>1, <1>2 DEF FromPath
<1> QED
  BY <1>1, <1>5, <1>6 DEF Searched, t

LEMMA LongerPath ==
  ASSUME NEW path \in Seq(Seq(Int)), path # <<>>, NEW x \in Seq(Int)
  PROVE  LET longer == Append(path, x)
             k == Len(path)
         IN /\ Len(longer) = k + 1 /\ k \in Nat \ {0} /\ longer[k + 1] = x
            /\ longer[k] = path[k]
            /\ PairAt(longer, k + 1) =
                 << <<AllTerms(x), AllTerms(path[k])>>, <<x, path[k]>> >>
            /\ \A i \in 2..k : PairAt(longer, i) = PairAt(path, i)
<1> DEFINE longer == Append(path, x)
           k == Len(path)
<1>1. /\ Len(longer) = k + 1 /\ k \in Nat \ {0} /\ longer[k + 1] = x
      /\ \A i \in 1..k : longer[i] = path[i]
  OBVIOUS
<1> HIDE DEF longer, k
<1>2. k \in 1..k /\ (k + 1) - 1 = k
  BY <1>1
<1>3. \A i \in 2..k : i \in 1..k /\ i - 1 \in 1..k
  BY <1>1
<1>4. PairAt(longer, k + 1) = << <<AllTerms(x), AllTerms(path[k])>>, <<x, path[k]>> >>
  BY <1>1, <1>2 DEF PairAt
<1>5. \A i \in 2..k : PairAt(longer, i) = PairAt(path, i)
  BY <1>1, <1>3 DEF PairAt
<1> QED
  BY <1>1, <1>2, <1>4, <1>5 DEF longer, k

LEMMA ConjugateSearches ==
  ASSUME bfgsJob.m \in Nat, bfgsJob.m = 0, NEW s, IsNode(s), Remembers(s),
         s.path \in Seq(Seq(Int)), s.path # <<>>, s.x \in Seq(Int),
         s.grad = AllTerms(s.x), bfgsJob.output_regularizer \/ s.inverted
  PROVE  Searched(IterConjugate(s))
<1> DEFINE t == IterConjugate(s)
           k == Len(s.path)
<1>1. /\ t.mem = Stored(s, s.grad, s.x) /\ t.origin = s.origin
      /\ t.path = Append(s.path, s.x) /\ t.inverted = s.inverted
      /\ t.dir = [grad |-> s.grad, pairs |-> <<MemAt(s, 0)>>, inverted |-> s.inverted]
  BY DEF IterConjugate, IsNode, Fields
<1> HIDE DEF t
<1>2. /\ Len(t.path) = k + 1 /\ k \in Nat \ {0} /\ t.path[k + 1] = s.x
      /\ t.path[k] = s.path[k]
  BY <1>1, LongerPath
<1>3. MemAt(s, 0) = AllTerms(s.path[k]) /\ s.origin = 0
  BY DEF Remembers
<1> HIDE DEF k
<1>4. MemAt(t, 0) = s.grad
  <2>1. s.origin \in 0..MemStride - 1
    BY DEF Remembers
  <2> QED
    BY <1>1, <2>1, StoredAt
<1>5. Remembers(t)
  BY <1>1, <1>2, <1>3, <1>4 DEF Remembers
<1>6. (k + 1) - 1 = k /\ k + 1 # 1
  BY <1>2
<1>7. FromPath(t)
  BY <1>1, <1>2, <1>3, <1>6 DEF FromPath
<1> QED
  BY <1>1, <1>5, <1>7 DEF Searched, t

LEMMA MiddleSearches ==
  ASSUME bfgsJob.m \in Nat \ {0}, NEW s, IsNode(s), Remembers(s),
         s.path \in Seq(Seq(Int)), s.path # <<>>, s.x \in Seq(Int),
         s.grad = AllTerms(s.x), bfgsJob.output_regularizer \/ s.inverted
  PROVE  Searched(IterMiddle(s))
<1> DEFINE m == bfgsJob.m
           k == Len(s.path)
           y == <<s.grad, MemAt(s, 0)>>
           r == <<s.x, MemAt(s, 1)>>
           p == [s EXCEPT !.mem = Stored(s, y, r), !.rho[0] = r]
           pairs == [j \in 1..s.lastj + 1 |->
                       <<MemAt(p, 2 * j - 2), MemAt(p, 2 * j - 1), p.rho[j - 1]>>]
           lastj == NextLastj(s)
           origin == Shifted(s)
           q == [p EXCEPT !.lastj = lastj, !.origin = origin]
           rho == [j \in DOMAIN q.rho |-> IF j \in 1..q.lastj THEN q.rho[j - 1] ELSE q.rho[j]]
           mem == Stored(q, s.grad, s.x)
           d == [grad |-> s.grad, pairs |-> pairs, inverted |-> s.inverted]
           t == [q EXCEPT !.mem = mem, !.rho = rho, !.dir = d,
                          !.x = Append(@, 0), !.path = Append(@, s.x), !.grad = EmptyBag]
<1>1. IterMiddle(s) = t
  BY DEF IterMiddle
<1>2. /\ p.mem = Stored(s, y, r) /\ p.origin = s.origin /\ p.rho = [s.rho EXCEPT ![0] = r]
      /\ p.path = s.path /\ p.inverted = s.inverted /\ IsNode(p)
  BY DEF IsNode, Fields
<1> HIDE DEF p, y, r, lastj, origin
<1>3. /\ q.mem = p.mem /\ q.origin = origin /\ q.rho = p.rho /\ q.lastj = lastj
      /\ q.path = s.path /\ q.inverted = s.inverted /\ IsNode(q)
  BY <1>2 DEF IsNode, Fields
<1> HIDE DEF q, rho, mem, d
<1>4. /\ t.mem = mem /\ t.origin = origin /\ t.rho = rho /\ t.lastj = lastj
      /\ t.path = Append(s.path, s.x) /\ t.inverted = s.inverted /\ t.dir = d
  BY <1>3 DEF IsNode, Fields
<1> HIDE DEF t
<1>5. /\ Len(t.path) = k + 1 /\ k \in Nat \ {0} /\ t.path[k + 1] = s.x
      /\ t.path[k] = s.path[k]
      /\ PairAt(t.path, k + 1) =
           << <<AllTerms(s.x), AllTerms(s.path[k])>>, <<s.x, s.path[k]>> >>
      /\ \A i \in 2..k : PairAt(t.path, i) = PairAt(s.path, i)
  BY <1>4, LongerPath
<1>6. /\ m \in Nat \ {0} /\ MemStride = 2 * m
      /\ s.origin \in 0..MemStride - 1
      /\ MemAt(s, 0) = AllTerms(s.path[k]) /\ MemAt(s, 1) = s.path[k]
      /\ s.lastj = IF k - 1 < m - 1 THEN k - 1 ELSE m - 1
      /\ DOMAIN s.rho = 0..m - 1
      /\ \A j \in 1..s.lastj :
           /\ MemAt(s, 2 * j) = PairAt(s.path, k - j + 1)[1]
           /\ MemAt(s, 2 * j + 1) = PairAt(s.path, k - j + 1)[2]
           /\ s.rho[j] = PairAt(s.path, k - j + 1)[2]
  BY DEF Remembers, MemStride
<1> HIDE DEF m, k
<1>7. /\ s.lastj \in 0..m - 1 /\ s.lastj <= k - 1
      /\ lastj = IF k < m - 1 THEN k ELSE m - 1
      /\ lastj \in 0..m - 1 /\ lastj <= s.lastj + 1
      /\ s.lastj + 1 = IF k < m THEN k ELSE m
  <2>1. lastj = IF s.lastj < m - 1 THEN s.lastj + 1 ELSE m - 1
    BY DEF lastj, NextLastj, m
  <2>2. k \in Nat /\ k >= 1 /\ m \in Nat /\ m >= 1
    BY <1>5, <1>6
  <2>3. s.lastj = IF k - 1 < m - 1 THEN k - 1 ELSE m - 1
    BY <1>6
  <2> HIDE DEF lastj
  <2> QED
    BY <2>1, <2>2, <2>3
<1>8. /\ y = PairAt(t.path, k + 1)[1] /\ r = PairAt(t.path, k + 1)[2]
  BY <1>5, <1>6 DEF y, r
(* With the new differences the pairs are those of the longer path.        *)
<1>9. /\ MemAt(p, 0) = y /\ MemAt(p, 1) = r
      /\ \A i \in 2..MemStride - 1 : MemAt(p, i) = MemAt(s, i)
  BY <1>2, <1>6, StoredAt DEF m
<1>10. DOMAIN p.rho = 0..m - 1 /\ p.rho[0] = r /\ \A j \in 1..m - 1 : p.rho[j] = s.rho[j]
  BY <1>2, <1>6
<1>11. ASSUME NEW j \in 1..s.lastj + 1
       PROVE  LET pair == PairAt(t.path, (k + 1) - j + 1) IN
              /\ MemAt(p, 2 * j - 2) = pair[1] /\ MemAt(p, 2 * j - 1) = pair[2]
              /\ p.rho[j - 1] = pair[2]
  <2>1. CASE j = 1
    <3>1. (k + 1) - j + 1 = k + 1 /\ 2 * j - 2 = 0 /\ 2 * j - 1 = 1 /\ j - 1 = 0
      BY <1>5, <2>1
    <3> QED
      BY <1>8, <1>9, <1>10, <3>1
  <2>2. CASE j # 1
    <3> DEFINE i == j - 1
    <3>1. /\ i \in 1..s.lastj /\ i \in 1..m - 1
          /\ 2 * i \in 2..MemStride - 1 /\ 2 * i + 1 \in 2..MemStride - 1
          /\ 2 * j - 2 = 2 * i /\ 2 * j - 1 = 2 * i + 1
          /\ (k + 1) - j + 1 = k - i + 1 /\ k - i + 1 \in 2..k
      BY <1>5, <1>6, <1>7, <2>2
    <3>2. PairAt(t.path, k - i + 1) = PairAt(s.path, k - i + 1)
      BY <1>5, <3>1
    <3>3. /\ MemAt(s, 2 * i) = PairAt(s.path, k - i + 1)[1]
          /\ MemAt(s, 2 * i + 1) = PairAt(s.path, k - i + 1)[2]
          /\ s.rho[i] = PairAt(s.path, k - i + 1)[2]
      BY <1>6, <3>1
    <3> HIDE DEF i
    <3>4. MemAt(p, 2 * i) = MemAt(s, 2 * i) /\ MemAt(p, 2 * i + 1) = MemAt(s, 2 * i + 1)
          /\ p.rho[i] = s.rho[i]
      BY <1>9, <1>10, <3>1
    <3>5. p.rho[j - 1] = p.rho[i]
      BY DEF i
    <3> QED
      BY <3>1, <3>2, <3>3, <3>4, <3>5
  <2> QED
    BY <2>1, <2>2
(* They move by two slots, but for the oldest when mem is full.            *)
<1>12. /\ q.origin \in 0..MemStride - 1
       /\ \A i \in 2..MemStride - 1 : MemAt(q, i) = MemAt(p, i - 2)
  <2>1. q.origin = Shifted(p) /\ p.origin \in 0..MemStride - 1
    BY <1>2, <1>3, <1>6 DEF origin, Shifted
  <2> QED
    BY <1>3, <1>6, <2>1, ShiftedAt DEF m
<1>13. /\ t.origin \in 0..MemStride - 1
       /\ MemAt(t, 0) = s.grad /\ MemAt(t, 1) = s.x
       /\ \A i \in 2..MemStride - 1 : MemAt(t, i) = MemAt(p, i - 2)
  <2> DEFINE g == s.grad
             x == s.x
  <2>1. t.origin = q.origin /\ t.mem = Stored(q, g, x)
    BY <1>3, <1>4 DEF mem
  <2> HIDE DEF g, x
  <2>2. /\ MemAt(t, 0) = g /\ MemAt(t, 1) = x
        /\ \A i \in 2..MemStride - 1 : MemAt(t, i) = MemAt(q, i)
    BY <1>6, <1>12, <2>1, StoredAt DEF m
  <2> QED
    BY <1>12, <2>1, <2>2 DEF g, x
<1>14. /\ DOMAIN t.rho = 0..m - 1
       /\ \A j \in 1..lastj : t.rho[j] = p.rho[j - 1]
  <2>1. \A j \in 1..lastj : j \in 0..m - 1
    BY <1>6, <1>7
  <2> QED
    BY <1>3, <1>4, <1>10, <2>1 DEF rho
<1>15. ASSUME NEW j \in 1..lastj
       PROVE  LET pair == PairAt(t.path, (k + 1) - j + 1) IN
              /\ MemAt(t, 2 * j) = pair[1] /\ MemAt(t, 2 * j + 1) = pair[2]
              /\ t.rho[j] = pair[2]
  <2>1. /\ j \in 1..s.lastj + 1
        /\ 2 * j \in 2..MemStride - 1 /\ 2 * j + 1 \in 2..MemStride - 1
        /\ (2 * j + 1) - 2 = 2 * j - 1
    BY <1>6, <1>7
  <2>2. MemAt(t, 2 * j) = MemAt(p, 2 * j - 2) /\ MemAt(t, 2 * j + 1) = MemAt(p, 2 * j - 1)
    BY <1>13, <2>1
  <2>3. t.rho[j] = p.rho[j - 1]
    BY <1>14
  <2> QED
    BY <1>11, <2>1, <2>2, <2>3
<1>16. Remembers(t)
  <2>1. (k + 1) - 1 = k
    BY <1>5
  <2> QED
    BY <1>4, <1>5, <1>6, <1>7, <1>13, <1>14, <1>15, <2>1 DEF Remembers, m
<1>17. FromPath(t)
  <2>1. t.dir.grad = s.grad /\ t.dir.inverted = s.inverted /\ t.dir.pairs = pairs
    BY <1>4 DEF d
  <2>2. Len(pairs) = s.lastj + 1 /\ DOMAIN pairs = 1..s.lastj + 1
    BY <1>7
  <2>3. (k + 1) - 1 = k
    BY <1>5
  <2>4. \A j \in 1..s.lastj + 1 :
          LET pair == PairAt(t.path, (k + 1) - j + 1) IN
          pairs[j] = <<pair[1], pair[2], pair[2]>>
    BY <1>11
  <2> HIDE DEF pairs
  <2> QED
    BY <1>5, <1>6, <1>7, <2>1, <2>2, <2>3, <2>4 DEF FromPath, m
<1> QED
  BY <1>1, <1>4, <1>16, <1>17 DEF Searched

KeepsMemory(s, t) ==
  /\ t.path = s.path /\ t.dir = s.dir /\ t.mem = s.mem /\ t.origin = s.origin
  /\ t.lastj = s.lastj /\ t.rho = s.rho
  /\ t.inverted = s.inverted \/ bfgsJob.output_regularizer

LEMMA SearchedStays ==
  ASSUME NEW s, NEW t, KeepsMemory(s, t)
  PROVE  /\ Searched(s) => Searched(t)
         /\ Fresh(s) => Fresh(t)
<1>1. \A i : MemAt(t, i) = MemAt(s, i)
  BY DEF KeepsMemory, MemAt, MemSlot
<1>2. Remembers(s) => Remembers(t)
  BY <1>1 DEF KeepsMemory, Remembers
<1>3. FromPath(s) => FromPath(t)
  BY DEF KeepsMemory, FromPath
<1> QED
  BY <1>2, <1>3 DEF KeepsMemory, Searched, Fresh

(* A decision is taken on the gradient of the cluster, and forgets it.     *)
LEMMA DirectionSearches ==
  ASSUME bfgsJob.m \in Nat, NEW s, OnLine(s), s.path # <<>>, Searched(s),
         s.grad = AllTerms(s.x)
  PROVE  LET t == NextDirection(s) IN
         Searched(t) /\ t.grad = EmptyBag /\ t.cond = s.cond
<1> DEFINE v == [s EXCEPT !.previous_loss_sum = s.loss_sum, !.loss_sum = EmptyBag,
                          !.example_number = 0, !.curvature = EmptyBag]
           u == IF bfgsJob.m = 0 THEN IterConjugate(v) ELSE IterMiddle(v)
           t == IF bfgsJob.hessian_on THEN [u EXCEPT !.gradient_pass = FALSE]
                ELSE [u EXCEPT !.step_size = FullStep, !.predictions = <<>>,
                               !.x = Plus(u, FullStep)]
<1>1. /\ IsNode(v) /\ KeepsMemory(s, v) /\ v.x = s.x /\ v.path = s.path
      /\ v.grad = s.grad /\ v.cond = s.cond /\ v.inverted = s.inverted
  BY DEF OnLine, IsNode, Fields, KeepsMemory
<1>2. NextDirection(s) = t
  BY DEF NextDirection
<1> HIDE DEF v
<1>3. /\ s.x \in Seq(Int) /\ s.path \in Seq(Seq(Int))
      /\ bfgsJob.output_regularizer \/ s.inverted
  BY DEF OnLine, Searched
<1>4. Remembers(v)
  BY <1>1, SearchedStays DEF Searched
<1>5. Searched(u)
  <2>1. CASE bfgsJob.m = 0
    BY <1>1, <1>3, <1>4, <2>1, ConjugateSearches
  <2>2. CASE bfgsJob.m # 0
    <3>1. bfgsJob.m \in Nat \ {0}
      BY <2>2
    <3>2. Searched(IterMiddle(v))
      BY <1>1, <1>3, <1>4, <3>1, MiddleSearches
    <3> QED
      BY <2>2, <3>2
  <2> QED
    BY <2>1, <2>2
<1>6. IsNode(u)
  BY <1>1, ConjugateTurns, MiddleTurns DEF Turned
<1>7. u.grad = EmptyBag /\ u.cond = s.cond
  <2>1. IterConjugate(v).grad = EmptyBag /\ IterConjugate(v).cond = v.cond
    BY <1>1 DEF IterConjugate, IsNode, Fields
  <2>2. IterMiddle(v).grad = EmptyBag /\ IterMiddle(v).cond = v.cond
    BY <1>1 DEF IterMiddle, IsNode, Fields
  <2> QED
    BY <1>1, <2>1, <2>2
<1> HIDE DEF u
<1>8. KeepsMemory(u, t) /\ t.grad = u.grad /\ t.cond = u.cond
  BY <1>6 DEF IsNode, Fields, KeepsMemory
<1> HIDE DEF t
<1>9. Searched(t)
  BY <1>5, <1>8, SearchedStays
<1> QED
  BY <1>2, <1>7, <1>8, <1>9

LEMMA DecidedMemory ==
  ASSUME bfgsJob.m \in Nat, NEW s, OnLine(s), s.pc # "failed", NEW a,
         Fitting(Question(s), a), a.what # "fail", Memory(s),
         s.grad = IF s.gradient_pass THEN AllTerms(s.x) ELSE EmptyBag
  PROVE  LET t == Decided(s, a) IN
         Searched(t) /\ t.grad = EmptyBag /\ t.cond = s.cond
<1>1. IsNode(s)
  BY DEF OnLine
<1>2. CASE s.current_pass = 0
  <2> DEFINE t == [Finalized(s) EXCEPT
                     !.previous_loss_sum = s.loss_sum, !.loss_sum = EmptyBag,
                     !.example_number = 0, !.curvature = EmptyBag,
                     !.gradient_pass = FALSE]
             u == IterStart(t)
  <2>1. Decided(s, a) = u
    BY <1>2 DEF Fitting, Question, Decided, FirstPass
  <2>2. s.grad = AllTerms(s.x) /\ Fresh(s)
    BY <1>2 DEF OnLine, Memory
  <2>3. IsNode(Finalized(s)) /\ Finalized(s).inverted = TRUE
    BY <1>1 DEF IsNode, Fields, Finalized
  <2>4. /\ IsNode(t) /\ t.inverted = TRUE /\ t.x = s.x /\ t.grad = s.grad
        /\ t.cond = s.cond /\ t.origin = s.origin /\ t.rho = s.rho
    BY <1>1 DEF IsNode, Fields, Finalized
  <2> HIDE DEF t
  <2>5. Searched(u)
    BY <2>2, <2>4, StartSearches DEF Fresh
  <2>6. u.grad = EmptyBag /\ u.cond = t.cond
    BY <2>4 DEF IsNode, Fields, IterStart
  <2> HIDE DEF u
  <2> QED
    BY <2>1, <2>4, <2>5, <2>6
<1>3. CASE s.current_pass # 0 /\ s.gradient_pass
  <2>1. a.what \in {"back", "on"} /\ Searched(s) /\ s.path # <<>>
        /\ s.grad = AllTerms(s.x)
    BY <1>3 DEF Fitting, Question, Memory, OnLine
  <2>2. CASE a.what = "back"
    <3> DEFINE t == StepBack(s, a.step)
    <3>1. Decided(s, a) = t
      BY <2>2 DEF Decided
    <3>2. KeepsMemory(s, t) /\ t.grad = EmptyBag /\ t.cond = s.cond
      BY <1>1 DEF IsNode, Fields, StepBack, ZeroDerivative, KeepsMemory
    <3> HIDE DEF t
    <3> QED
      BY <2>1, <3>1, <3>2, SearchedStays
  <2>3. CASE a.what = "on"
    <3>1. Decided(s, a) = NextDirection(s)
      BY <2>3 DEF Decided
    <3> QED
      BY <2>1, <3>1, DirectionSearches
  <2> QED
    BY <2>1, <2>2, <2>3
<1>4. CASE s.current_pass # 0 /\ ~s.gradient_pass
  <2> DEFINE t == NewtonStep(s, a.step)
  <2>1. Decided(s, a) = t /\ Searched(s) /\ s.grad = EmptyBag
    BY <1>4 DEF Fitting, Question, Decided, Memory
  <2>2. KeepsMemory(s, t) /\ t.grad = s.grad /\ t.cond = s.cond
    BY <1>1 DEF IsNode, Fields, NewtonStep, KeepsMemory
  <2> HIDE DEF t
  <2> QED
    BY <2>1, <2>2, SearchedStays
<1> QED
  BY <1>2, <1>3, <1>4

----------------------------------------------------------------------------
(* How nodes leave the loop.                                               *)
LEMMA LastIsLater ==
  ASSUME ReplayInv
  PROVE  LastPass \in Nat \ {0} /\ bfgsJob.m \in Nat
  BY BfgsAssumption DEF ReplayInv, LastPass

LEMMA OneNodeEnds ==
  ASSUME LineInv, ReplayInv, EndInv, NEW n \in BfgsNode, NEW t,
         bfgs' = [bfgs EXCEPT ![n] = t], UNCHANGED bfgsJob, Within(t, bfgsJob.shard[n]),
         \A k \in BfgsNode : bfgsJob.shard[k] = 0 /\ bfgsJob.shard[n] > 0 =>
           Blocked(bfgs[k], t),
         \A k \in BfgsNode : bfgsJob.shard[n] = 0 /\ bfgsJob.shard[k] > 0 =>
           Blocked(t, bfgs[k]),
         \A k \in BfgsNode \ {n} : bfgsJob.shard[n] > 0 /\ bfgsJob.shard[k] > 0 =>
           Closing(bfgs[k], t) /\ Closing(t, bfgs[k])
  PROVE  EndInv'
<1>1. bfgs' = [k \in BfgsNode |-> IF k = n THEN t ELSE bfgs[k]]
  BY DEF LineInv
<1>2. \A k \in BfgsNode : Within(bfgs[k], bfgsJob.shard[k])'
  <2> TAKE k \in BfgsNode
  <2>1. Within(bfgs'[k], bfgsJob.shard[k])
    BY <1>1 DEF EndInv
  <2> QED
    BY <2>1 DEF Within, LastPass
<1>3. Closing(t, t)
  BY DEF Closing, Running, Ends
<1>4. \A k \in BfgsNode : bfgsJob.shard[k] \in Nat
  BY Sizes
<1>5. \A k, i \in BfgsNode : bfgsJob.shard[k] = 0 /\ bfgsJob.shard[i] > 0 =>
        Blocked(bfgs'[k], bfgs'[i])
  BY <1>1, <1>4 DEF EndInv
<1>6. \A k, i \in BfgsNode : bfgsJob.shard[k] > 0 /\ bfgsJob.shard[i] > 0 =>
        Closing(bfgs'[k], bfgs'[i])
  BY <1>1, <1>3 DEF EndInv
<1> QED
  BY <1>2, <1>5, <1>6 DEF EndInv, Blocked, Closing

LEMMA EmptyNodeEnds ==
  ASSUME LineInv, ReplayInv, EndInv, NEW n \in BfgsNode, NEW t,
         bfgs' = [bfgs EXCEPT ![n] = t], UNCHANGED bfgsJob, Within(t, bfgsJob.shard[n]),
         bfgsJob.shard[n] = 0,
         \A k \in BfgsNode : bfgsJob.shard[k] > 0 => Blocked(t, bfgs[k])
  PROVE  EndInv'
<1>1. ~(bfgsJob.shard[n] > 0)
  OBVIOUS
<1>2. /\ \A k \in BfgsNode : bfgsJob.shard[k] = 0 /\ bfgsJob.shard[n] > 0 =>
           Blocked(bfgs[k], t)
      /\ \A k \in BfgsNode : bfgsJob.shard[n] = 0 /\ bfgsJob.shard[k] > 0 =>
           Blocked(t, bfgs[k])
      /\ \A k \in BfgsNode \ {n} : bfgsJob.shard[n] > 0 /\ bfgsJob.shard[k] > 0 =>
           Closing(bfgs[k], t) /\ Closing(t, bfgs[k])
  BY <1>1, Zenon
<1> QED
  BY <1>2, OneNodeEnds, Zenon

LEMMA NodeWithDataEnds ==
  ASSUME LineInv, ReplayInv, EndInv, NEW n \in BfgsNode, NEW t,
         bfgs' = [bfgs EXCEPT ![n] = t], UNCHANGED bfgsJob, Within(t, bfgsJob.shard[n]),
         bfgsJob.shard[n] > 0,
         \A k \in BfgsNode : bfgsJob.shard[k] = 0 => Blocked(bfgs[k], t),
         \A k \in BfgsNode \ {n} : bfgsJob.shard[k] > 0 =>
           Closing(bfgs[k], t) /\ Closing(t, bfgs[k])
  PROVE  EndInv'
<1>1. bfgsJob.shard[n] # 0
  BY Sizes
<1>2. /\ \A k \in BfgsNode : bfgsJob.shard[k] = 0 /\ bfgsJob.shard[n] > 0 =>
           Blocked(bfgs[k], t)
      /\ \A k \in BfgsNode : bfgsJob.shard[n] = 0 /\ bfgsJob.shard[k] > 0 =>
           Blocked(t, bfgs[k])
      /\ \A k \in BfgsNode \ {n} : bfgsJob.shard[n] > 0 /\ bfgsJob.shard[k] > 0 =>
           Closing(bfgs[k], t) /\ Closing(t, bfgs[k])
  BY <1>1, Zenon
<1> QED
  BY <1>2, OneNodeEnds, Zenon

LEMMA ReadingEnds ==
  ASSUME LineInv, ReplayInv, LockInv, EndInv, NEW n \in BfgsNode, BfgsReading(n)
  PROVE  EndInv'
<1> DEFINE s == bfgs[n]
           size == bfgsJob.shard[n]
<1>1. /\ OnLine(s) /\ IsNode(s) /\ bfgs = [k \in BfgsNode |-> bfgs[k]]
      /\ Replay(s, size) /\ size \in Nat /\ Within(s, size) /\ LastPass \in Nat \ {0}
  BY Sizes, LastIsLater DEF LineInv, ReplayInv, OnLine, EndInv
<1>2. UNCHANGED bfgsJob /\ s.pc = "examples"
  BY DEF BfgsReading, TakeExample, NextBfgsPass, EndBfgsPass
<1>3. \A k \in BfgsNode :
        /\ bfgsJob.shard[k] = 0 /\ size > 0 => Blocked(bfgs[k], s)
        /\ size = 0 /\ bfgsJob.shard[k] > 0 => Blocked(s, bfgs[k])
        /\ size > 0 /\ bfgsJob.shard[k] > 0 => Closing(bfgs[k], s)
  BY DEF EndInv
<1>4. ASSUME NEW t, t.pc = "examples", t.pass \in Nat, t.pass <= LastPass,
             t.current_pass = s.current_pass, t.calls = s.calls,
             bfgs' = [bfgs EXCEPT ![n] = t]
      PROVE  EndInv'
  <2>1. Within(t, size)
    BY <1>4 DEF Within
  <2>2. \A k \in BfgsNode :
          /\ bfgsJob.shard[k] = 0 /\ size > 0 => Blocked(bfgs[k], t)
          /\ size = 0 /\ bfgsJob.shard[k] > 0 => Blocked(t, bfgs[k])
          /\ size > 0 /\ bfgsJob.shard[k] > 0 => Closing(bfgs[k], t) /\ Closing(t, bfgs[k])
    BY <1>2, <1>3, <1>4 DEF Blocked, Closing
  <2> QED
    BY <1>2, <1>4, <2>1, <2>2, OneNodeEnds
<1>5. CASE TakeExample(n)
  <2> DEFINE t == IF s.gradient_pass THEN GradientStep(s, n) ELSE CurvatureStep(s, n)
  <2>1. bfgs' = [bfgs EXCEPT ![n] = t]
    BY <1>5 DEF TakeExample
  <2>2. t.pc = s.pc /\ t.pass = s.pass /\ t.current_pass = s.current_pass /\ t.calls = s.calls
    BY <1>1 DEF IsNode, Fields, GradientStep, CurvatureStep
  <2> HIDE DEF t
  <2>3. s.pass \in Nat /\ s.pass <= LastPass
    BY <1>1 DEF Replay, Within
  <2> QED
    BY <1>2, <1>4, <2>1, <2>2, <2>3
<1>6. CASE NextBfgsPass(n)
  <2> DEFINE t == [s EXCEPT !.pass = s.pass + 1, !.next = 1]
  <2>1. bfgs' = [bfgs EXCEPT ![n] = t] /\ s.pass < LastPass
    BY <1>1, <1>6 DEF NextBfgsPass
  <2>2. t.pc = s.pc /\ t.pass = s.pass + 1 /\ t.current_pass = s.current_pass
        /\ t.calls = s.calls
    BY <1>1 DEF IsNode, Fields
  <2> HIDE DEF t
  <2>3. t.pass \in Nat /\ t.pass <= LastPass /\ t.pc = "examples"
    BY <1>1, <1>2, <2>1, <2>2 DEF Replay
  <2> QED
    BY <1>4, <2>1, <2>2, <2>3
<1>7. CASE EndBfgsPass(n)
  <2>1. ASSUME NEW t, t.pc \in Ends, t.pass = s.pass, t.current_pass = s.current_pass,
               t.pc = "pass_end" => t.calls = CallsOf(s) /\ size > 0,
               t.pc = "job_end" /\ size > 0 => s.current_pass = LastPass,
               bfgs' = [bfgs EXCEPT ![n] = t]
        PROVE  EndInv'
    <3>1. Within(t, size)
      BY <1>1, <2>1 DEF Within, Ends
    <3>2. s.current_pass = 0 => CallsOf(s) = FirstCalls
      BY DEF CallsOf, FirstCalls
    <3>3. ASSUME NEW k \in BfgsNode
          PROVE  /\ bfgsJob.shard[k] = 0 /\ size > 0 => Blocked(bfgs[k], t)
                 /\ size = 0 /\ bfgsJob.shard[k] > 0 => Blocked(t, bfgs[k])
                 /\ size > 0 /\ bfgsJob.shard[k] > 0 =>
                      Closing(bfgs[k], t) /\ Closing(t, bfgs[k])
      <4>1. ASSUME bfgsJob.shard[k] = 0, size > 0 PROVE Blocked(bfgs[k], t)
        BY <1>1, <1>3, <2>1, <3>2, <4>1 DEF Blocked, Ends
      <4>2. ASSUME size = 0, bfgsJob.shard[k] > 0 PROVE Blocked(t, bfgs[k])
        BY <1>2, <1>3, <2>1, <4>2 DEF Blocked, Ends
      <4>3. ASSUME size > 0, bfgsJob.shard[k] > 0
            PROVE  Closing(bfgs[k], t) /\ Closing(t, bfgs[k])
        BY <1>2, <1>3, <2>1, <4>3 DEF Closing, Running, Ends
      <4> QED
        BY <4>1, <4>2, <4>3
    <3> QED
      BY <1>2, <2>1, <3>1, <3>3, OneNodeEnds
  <2> DEFINE c == IF s.current_pass # 0 THEN CallsOf(s) ELSE <<>>
             t == [s EXCEPT !.pc = "pass_end", !.calls = CallsOf(s)]
             u == [s EXCEPT !.pc = "job_end", !.calls = c]
  <2>2. CASE /\ s.next <= size
             /\ bfgs' = [bfgs EXCEPT ![n].pc = "pass_end", ![n].calls = CallsOf(s)]
    <3>1. bfgs' = [bfgs EXCEPT ![n] = t]
      BY <1>1, <2>2
    <3>2. t.pc = "pass_end" /\ t.pass = s.pass /\ t.current_pass = s.current_pass
          /\ t.calls = CallsOf(s)
      BY <1>1 DEF IsNode, Fields
    <3> HIDE DEF t
    <3>3. size > 0 /\ t.pc \in Ends
      BY <1>1, <2>2, <3>2 DEF Replay, Ends
    <3> QED
      BY <2>1, <3>1, <3>2, <3>3
  <2>3. CASE /\ s.next > size /\ s.pass = LastPass
             /\ bfgs' = [bfgs EXCEPT ![n].pc = "job_end", ![n].calls = c]
    <3>1. bfgs' = [bfgs EXCEPT ![n] = u]
      BY <1>1, <2>3
    <3>2. u.pc = "job_end" /\ u.pass = s.pass /\ u.current_pass = s.current_pass
      BY <1>1 DEF IsNode, Fields
    <3> HIDE DEF u
    <3>3. size > 0 => s.current_pass = LastPass
      BY <1>1, <2>3 DEF Replay
    <3>4. u.pc \in Ends
      BY <3>2 DEF Ends
    <3> QED
      BY <2>1, <3>1, <3>2, <3>3, <3>4
  <2> QED
    BY <1>7, <2>2, <2>3 DEF EndBfgsPass
<1> QED
  BY <1>5, <1>6, <1>7 DEF BfgsReading

LEMMA ReduceEnds ==
  ASSUME LineInv, ReplayInv, LockInv, EndInv, BfgsReduce
  PROVE  EndInv'
<1>1. PICK total : bfgs' = [n \in BfgsNode |-> Received(bfgs[n], total)]
  BY DEF BfgsReduce
<1>2. UNCHANGED bfgsJob /\ \A n \in BfgsNode : bfgs[n].calls # <<>>
  BY DEF BfgsReduce
<1>3. ASSUME NEW n \in BfgsNode
      PROVE  LET s == bfgs[n]  t == bfgs'[n]  size == bfgsJob.shard[n] IN
             /\ t.pc = s.pc /\ t.pass = s.pass /\ t.current_pass = s.current_pass
             /\ t.calls = Tail(s.calls) /\ Alone(s, size) /\ Replay(s, size)
  BY <1>1 DEF LineInv, LockInv, ReplayInv, OnLine, IsNode, Fields, Received
<1>4. ASSUME NEW k \in BfgsNode, NEW n \in BfgsNode,
             bfgsJob.shard[k] = 0, bfgsJob.shard[n] > 0
      PROVE  Blocked(bfgs'[k], bfgs'[n])
  <2> DEFINE s == bfgs[k]
             t == bfgs[n]
  <2>1. Blocked(s, t) /\ s.calls # <<>> /\ t.calls # <<>>
    BY <1>2, <1>4 DEF EndInv
  <2>2. t.pc = "pass_end" /\ t.calls = FirstCalls
    BY <1>3, <2>1 DEF Blocked, Alone
  <2>3. s.pc = "regularizer" /\ s.calls = <<"cond">>
    BY <1>3, <1>4, <2>1 DEF Alone, Replay, Running, Ends
  <2>4. Tail(s.calls) = <<>>
    BY <2>3, CallsLeft
  <2> QED
    BY <1>3, <2>1, <2>2, <2>3, <2>4 DEF Blocked
<1>5. \A k, n \in BfgsNode : bfgsJob.shard[k] > 0 /\ bfgsJob.shard[n] > 0 =>
        Closing(bfgs'[k], bfgs'[n])
  BY <1>2, <1>3 DEF EndInv, Closing
<1>6. \A n \in BfgsNode : Within(bfgs[n], bfgsJob.shard[n])'
  BY <1>2, <1>3 DEF EndInv, Within, LastPass
<1> QED
  BY <1>2, <1>4, <1>5, <1>6 DEF EndInv, Blocked, Closing

(* When a node has been through the last pass, all others that still search *)
(* have been through it too.                                               *)
LEMMA LastTogether ==
  ASSUME LineInv, ReplayInv, LockInv, EndInv, NEW n \in Searching, NEW k \in BfgsNode,
         bfgsJob.shard[k] > 0, bfgs[k].pc \in Running,
         bfgs[n].pc = "job_end", bfgs[n].current_pass = LastPass, bfgs[n].calls = <<>>
  PROVE  bfgs[k].pc = "job_end" /\ bfgs[k].calls = <<>> /\ Together(bfgs[n], bfgs[k])
<1> DEFINE s == bfgs[n]
           u == bfgs[k]
           other == bfgsJob.shard[k]
<1>1. /\ k \in Searching /\ OnLine(u) /\ Replay(u, other) /\ Within(u, other)
      /\ LastPass \in Nat \ {0} /\ s.pc = "job_end" /\ s.current_pass = LastPass
      /\ s.calls = <<>>
  BY LastIsLater DEF Searching, LineInv, ReplayInv, EndInv
<1>2. Pair(s, u, answers) /\ Pair(u, s, answers)
  BY <1>1 DEF LockInv
<1>3. CallsOf(s) # <<>> /\ s.pc # "examples"
  BY <1>1 DEF CallsOf
<1>4. /\ u.current_pass \in Nat /\ u.pass \in Nat /\ u.pass >= u.current_pass
      /\ u.pass <= LastPass
  BY <1>1 DEF OnLine, Replay, Within
<1>5. s.current_pass # u.current_pass + 1
  BY <1>1, <1>2, <1>3 DEF Pair, Ahead
<1>6. u.current_pass = s.current_pass
  BY <1>1, <1>2, <1>4, <1>5 DEF Pair
<1>7. Together(s, u) /\ Together(u, s)
  BY <1>2, <1>6 DEF Pair
<1>8. u.pc # "examples" /\ u.calls = <<>>
  BY <1>1, <1>3, <1>7 DEF Together
<1>9. u.pc # "pass_end"
  BY <1>1, <1>4, <1>6 DEF Replay
<1> QED
  BY <1>7, <1>8, <1>9 DEF Running, Ends

LEMMA DecidingEnds ==
  ASSUME LineInv, ReplayInv, LockInv, EndInv, NEW n \in BfgsNode, BfgsDeciding(n)
  PROVE  EndInv'
<1> DEFINE s == bfgs[n]
           size == bfgsJob.shard[n]
           failed == [s EXCEPT !.pc = "failed"]
           done == [s EXCEPT !.pc = "done"]
<1>1. /\ OnLine(s) /\ IsNode(s) /\ bfgs = [k \in BfgsNode |-> bfgs[k]] /\ AnswersFit
      /\ Replay(s, size) /\ size \in Nat /\ Alone(s, size) /\ Within(s, size)
      /\ LastPass \in Nat \ {0} /\ s.current_pass \in Nat
  BY Sizes, LastIsLater DEF LineInv, OnLine, ReplayInv, LockInv, EndInv
<1>2. UNCHANGED bfgsJob
  BY DEF BfgsDeciding, Decide, NothingToDecide, BfgsDone
<1>3. ASSUME NEW k \in BfgsNode
      PROVE  /\ bfgsJob.shard[k] = 0 /\ size > 0 => Blocked(bfgs[k], s)
             /\ size = 0 /\ bfgsJob.shard[k] > 0 => Blocked(s, bfgs[k])
             /\ size > 0 /\ bfgsJob.shard[k] > 0 => Closing(bfgs[k], s) /\ Closing(s, bfgs[k])
  BY DEF EndInv
<1>4. CASE Decide(n)
  <2>1. PICK a \in IF Question(s) \in DOMAIN answers THEN {answers[Question(s)]}
                   ELSE Answers(s) :
          bfgs' = [bfgs EXCEPT ![n] =
                     IF a.what = "fail" THEN failed
                     ELSE IF s.pc = "pass_end" THEN NextPassOf(Decided(s, a))
                     ELSE AfterLoop(Decided(s, a))]
    BY <1>4 DEF Decide
  <2>2. /\ s.pc \in Ends /\ s.calls = <<>> /\ s.pc # "failed"
        /\ s.pc = "pass_end" \/ s.current_pass # 0
    BY <1>4 DEF Decide, Ends
  <2>3. Fitting(Question(s), a)
    BY <1>1, <2>1, AnswersAreFitting DEF AnswersFit
  <2>4. size > 0
    BY <1>1, <2>2 DEF Replay, Alone
  <2>5. \A k \in BfgsNode : bfgsJob.shard[k] # 0
    <3> SUFFICES ASSUME NEW k \in BfgsNode, bfgsJob.shard[k] = 0 PROVE FALSE
      OBVIOUS
    <3>1. Blocked(bfgs[k], s)
      BY <1>3, <2>4
    <3>2. Tail(FirstCalls) # <<>> /\ FirstCalls # <<>>
      BY CallsLeft DEF FirstCalls
    <3> QED
      BY <2>2, <3>1, <3>2 DEF Blocked, Ends
  <2>6. ASSUME NEW t, Within(t, size), bfgs' = [bfgs EXCEPT ![n] = t],
               \A k \in BfgsNode \ {n} : Closing(bfgs[k], t) /\ Closing(t, bfgs[k])
        PROVE  EndInv'
    BY <1>1, <1>2, <2>4, <2>5, <2>6, OneNodeEnds
  <2> HIDE DEF failed
  <2>7. CASE a.what = "fail"
    <3>1. bfgs' = [bfgs EXCEPT ![n] = failed]
      BY <2>1, <2>7
    <3>2. failed.pc = "failed" /\ failed.pass = s.pass
      BY <1>1 DEF failed, IsNode, Fields
    <3>3. Within(failed, size)
      BY <1>1, <3>2 DEF Within
    <3>4. \A k \in BfgsNode : Closing(bfgs[k], failed) /\ Closing(failed, bfgs[k])
      BY <3>2 DEF Closing, Running, Ends
    <3> QED
      BY <2>6, <3>1, <3>3, <3>4
  <2>8. CASE a.what # "fail" /\ s.pc = "pass_end"
    <3> DEFINE t == NextPassOf(Decided(s, a))
    <3>1. bfgs' = [bfgs EXCEPT ![n] = t]
      BY <2>1, <2>8
    <3>2. Decision(s, Decided(s, a))
      BY <1>1, <2>2, <2>3, <2>8, Decisions
    <3>3. Replay(t, size) /\ t.pc = "examples"
      BY <1>1, <2>8, <3>2, PassFollowsReplay, NextPassBegins DEF Decision
    <3>4. t.pass = s.pass
      <4> DEFINE u == Decided(s, a)
      <4>1. IsNode(u) /\ u.pass = s.pass
        BY <3>2 DEF Decision, KeepsPlace
      <4> HIDE DEF u
      <4>2. NextPassOf(u).pass = u.pass
        BY <4>1 DEF IsNode, Fields, NextPassOf, ZeroPreconditioner
      <4> QED
        BY <4>1, <4>2 DEF u
    <3> HIDE DEF t
    <3>5. Within(t, size)
      BY <1>1, <3>3, <3>4 DEF Within
    <3>6. ASSUME NEW k \in BfgsNode PROVE Closing(bfgs[k], t) /\ Closing(t, bfgs[k])
      <4>1. Closing(bfgs[k], s)
        BY <1>3, <2>4, <2>5, Sizes
      <4> QED
        BY <2>2, <2>8, <3>3, <4>1 DEF Closing, Running
    <3> QED
      BY <2>6, <3>1, <3>5, <3>6
  <2>9. CASE a.what # "fail" /\ s.pc # "pass_end"
    <3> DEFINE t == AfterLoop(Decided(s, a))
    <3>1. bfgs' = [bfgs EXCEPT ![n] = t]
      BY <2>1, <2>9
    <3>2. Decision(s, Decided(s, a))
      BY <1>1, <2>2, <2>3, <2>9, Decisions
    <3>3. /\ t.pc = "regularizer" /\ t.current_pass = s.current_pass /\ t.pass = s.pass
      BY <3>2, LeavesLoop, RestingSteps DEF Decision, KeepsPlace
    <3> HIDE DEF t
    <3>4. s.pc = "job_end" /\ s.current_pass = LastPass
      BY <1>1, <2>2, <2>4, <2>9 DEF Within, Ends
    <3>5. Within(t, size)
      BY <1>1, <3>3, <3>4 DEF Within
    <3>6. ASSUME NEW k \in BfgsNode, k # n PROVE Closing(bfgs[k], t) /\ Closing(t, bfgs[k])
      <4>1. n \in Searching /\ bfgsJob.shard[k] > 0
        BY <2>2, <2>4, <2>5, Sizes DEF Searching, Running
      <4> QED
        BY <2>2, <3>3, <3>4, <4>1, LastTogether DEF Closing, Running, Ends
    <3> QED
      BY <2>6, <3>1, <3>5, <3>6
  <2> QED
    BY <2>7, <2>8, <2>9
<1>5. CASE NothingToDecide(n)
  <2> DEFINE t == AfterLoop(s)
  <2>1. bfgs' = [bfgs EXCEPT ![n] = t] /\ s.pc = "job_end" /\ s.current_pass = 0
    BY <1>5 DEF NothingToDecide
  <2>2. t.pc = "regularizer" /\ t.pass = s.pass
    BY <1>1, LeavesLoop, RestingSteps DEF KeepsPlace
  <2> HIDE DEF t
  <2>3. size = 0
    BY <1>1, <2>1 DEF Within
  <2>4. Within(t, size)
    BY <1>1, <2>2, <2>3 DEF Within
  <2>5. \A k \in BfgsNode : bfgsJob.shard[k] > 0 => Blocked(t, bfgs[k])
    BY <1>3, <2>1, <2>2, <2>3 DEF Blocked
  <2> QED
    BY <1>2, <2>1, <2>3, <2>4, <2>5, EmptyNodeEnds, Zenon
<1>6. CASE BfgsDone(n)
  <2>1. bfgs' = [bfgs EXCEPT ![n] = done] /\ s.pc = "regularizer"
    BY <1>1, <1>6 DEF BfgsDone
  <2>2. done.pc = "done" /\ done.pass = s.pass /\ done.current_pass = s.current_pass
        /\ done.calls = s.calls
    BY <1>1 DEF IsNode, Fields
  <2> HIDE DEF done
  <2>3. Within(done, size)
    BY <1>1, <2>1, <2>2 DEF Within
  <2>4. ASSUME NEW k \in BfgsNode
        PROVE  /\ bfgsJob.shard[k] = 0 /\ size > 0 => Blocked(bfgs[k], done)
               /\ size = 0 /\ bfgsJob.shard[k] > 0 => Blocked(done, bfgs[k])
               /\ size > 0 /\ bfgsJob.shard[k] > 0 =>
                    Closing(bfgs[k], done) /\ Closing(done, bfgs[k])
    BY <1>3, <2>1, <2>2 DEF Blocked, Closing, Running, Ends
  <2>5. CASE size = 0
    <3>1. \A k \in BfgsNode : bfgsJob.shard[k] > 0 => Blocked(done, bfgs[k])
      BY <2>4, <2>5
    <3> QED
      BY <1>2, <2>1, <2>3, <2>5, <3>1, EmptyNodeEnds, Zenon
  <2>6. CASE size > 0
    <3>1. \A k \in BfgsNode : bfgsJob.shard[k] = 0 => Blocked(bfgs[k], done)
      BY <2>4, <2>6
    <3>2. \A k \in BfgsNode \ {n} : bfgsJob.shard[k] > 0 =>
            Closing(bfgs[k], done) /\ Closing(done, bfgs[k])
      BY <2>4, <2>6
    <3> QED
      BY <1>2, <2>1, <2>3, <2>6, <3>1, <3>2, NodeWithDataEnds, Zenon
  <2> QED
    BY <1>1, <2>5, <2>6
<1> QED
  BY <1>4, <1>5, <1>6 DEF BfgsDeciding

LEMMA InitEnds == BfgsInit => EndInv
<1> SUFFICES ASSUME BfgsInit PROVE EndInv
  OBVIOUS
<1>1. LastPass \in Nat
  BY InitReplay, LastIsLater
<1>2. ASSUME NEW n \in BfgsNode
      PROVE  bfgs[n].pc = "examples" /\ bfgs[n].pass = 0 /\ bfgs[n].current_pass = 0
  BY DEF BfgsInit, BfgsStart
<1> QED
  BY <1>1, <1>2 DEF EndInv, Within, Blocked, Closing

LEMMA NextEnds ==
  ASSUME LineInv, ReplayInv, LockInv, EndInv,
         [BfgsReduce \/ \E n \in BfgsNode : BfgsStep(n)]_bfgsVars
  PROVE  EndInv'
<1>1. CASE UNCHANGED bfgsVars
  BY <1>1 DEF bfgsVars, EndInv, Within, Blocked, Closing, LastPass
<1> QED
  BY <1>1, ReduceEnds, ReadingEnds, DecidingEnds DEF BfgsStep

----------------------------------------------------------------------------
(* What the other steps keep.                                              *)
LEMMA PassMemory ==
  ASSUME NEW t, IsNode(t)
  PROVE  LET u == NextPassOf(t)
             last == bfgsJob.output_regularizer /\ u.current_pass = LastPass
         IN /\ KeepsMemory(t, u) /\ KeepsPlace(t, u) /\ u.grad = t.grad
            /\ u.cond = IF last THEN EmptyBag ELSE t.cond
<1> DEFINE p == t.current_pass + 1
           v == [t EXCEPT !.pc = "examples", !.current_pass = p]
           w == [v EXCEPT !.cond = EmptyBag, !.inverted = FALSE]
           last == bfgsJob.output_regularizer /\ p = LastPass
<1> HIDE DEF p
<1>1. /\ IsNode(v) /\ v.current_pass = p /\ v.cond = t.cond /\ v.inverted = t.inverted
      /\ KeepsMemory(t, v) /\ KeepsPlace(t, v) /\ v.grad = t.grad
  BY DEF IsNode, Fields, KeepsMemory, KeepsPlace
<1> HIDE DEF v
<1>2. /\ w.current_pass = p /\ w.cond = EmptyBag
      /\ bfgsJob.output_regularizer => KeepsMemory(t, w)
      /\ KeepsPlace(t, w) /\ w.grad = t.grad
  BY <1>1 DEF IsNode, Fields, KeepsMemory, KeepsPlace
<1> HIDE DEF w
<1>3. NextPassOf(t) = IF last THEN w ELSE v
  BY DEF NextPassOf, ZeroPreconditioner, p, v, w
<1> QED
  BY <1>1, <1>2, <1>3

LEMMA LoopMemory ==
  ASSUME NEW t, IsNode(t)
  PROVE  LET u == AfterLoop(t) IN
         /\ KeepsMemory(t, u) /\ u.grad = t.grad /\ u.cond = t.cond
         /\ u.calls = IF bfgsJob.output_regularizer THEN <<"cond">> ELSE <<>>
  BY DEF IsNode, Fields, KeepsMemory, AfterLoop

LEMMA RestingMemory ==
  ASSUME NEW s, IsNode(s)
  PROVE  /\ KeepsMemory(s, [s EXCEPT !.pc = "failed"])
         /\ LET t == [s EXCEPT !.pc = "done"] IN
            KeepsMemory(s, t) /\ t.cond = s.cond /\ t.calls = s.calls
  BY DEF IsNode, Fields, KeepsMemory

LEMMA ReadingMemory ==
  ASSUME NEW s, IsNode(s), NEW n, NEW c
  PROVE  /\ KeepsMemory(s, GradientStep(s, n)) /\ KeepsMemory(s, CurvatureStep(s, n))
         /\ KeepsMemory(s, [s EXCEPT !.pass = s.pass + 1, !.next = 1])
         /\ KeepsMemory(s, [s EXCEPT !.pc = "pass_end", !.calls = c])
         /\ KeepsMemory(s, [s EXCEPT !.pc = "job_end", !.calls = c])
  BY DEF IsNode, Fields, KeepsMemory, GradientStep, CurvatureStep

LEMMA ReceivedMemory ==
  ASSUME NEW s, IsNode(s), NEW total
  PROVE  /\ KeepsMemory(s, Received(s, total))
         /\ Received(s, total).cond = IF s.calls[1] = "cond" THEN total ELSE s.cond
  BY DEF IsNode, Fields, KeepsMemory, Received

LEMMA HeldLater ==
  ASSUME UNCHANGED bfgsJob,
         \A n \in BfgsNode : /\ GradHeld(bfgs'[n], n, bfgsJob.shard[n])
                             /\ CondHeld(bfgs'[n], n, bfgsJob.shard[n]),
         \A k, n \in BfgsNode : bfgsJob.shard[k] > 0 /\ bfgsJob.shard[n] > 0 =>
           OnePoint(bfgs'[k], k, bfgs'[n], n)
  PROVE  HeldInv'
<1>1. ASSUME NEW n \in BfgsNode PROVE GradHeld(bfgs[n], n, bfgsJob.shard[n])'
  <2>1. GradHeld(bfgs'[n], n, bfgsJob.shard[n])
    OBVIOUS
  <2> QED
    BY <2>1 DEF GradHeld, Counted, AllTerms, TermsUpto
<1>2. ASSUME NEW n \in BfgsNode PROVE CondHeld(bfgs[n], n, bfgsJob.shard[n])'
  <2>1. CondHeld(bfgs'[n], n, bfgsJob.shard[n])
    OBVIOUS
  <2>2. Diagonals(bfgs[n])' <=> Diagonals(bfgs'[n])
    BY DEF Diagonals, LastPass
  <2>3. TermsUpto(n, Counted(bfgs[n], bfgsJob.shard[n]), Base(bfgs[n]))'
          = TermsUpto(n, Counted(bfgs'[n], bfgsJob.shard[n]), Base(bfgs'[n]))
    BY DEF Counted, Base, TermsUpto
  <2>4. (\E x : bfgs[n].cond = TermsUpto(n, bfgsJob.shard[n], x))'
          <=> \E x : bfgs'[n].cond = TermsUpto(n, bfgsJob.shard[n], x)
    BY DEF TermsUpto
  <2>5. (\E x : bfgs[n].cond = AllTerms(x))' <=> \E x : bfgs'[n].cond = AllTerms(x)
    BY DEF AllTerms
  <2> QED
    BY <2>1, <2>2, <2>3, <2>4, <2>5 DEF CondHeld
<1>3. ASSUME NEW k \in BfgsNode, NEW n \in BfgsNode,
             bfgsJob.shard[k] > 0, bfgsJob.shard[n] > 0
      PROVE  OnePoint(bfgs[k], k, bfgs[n], n)'
  <2>1. OnePoint(bfgs'[k], k, bfgs'[n], n)
    BY <1>3
  <2> QED
    BY <2>1 DEF OnePoint, Base, TermsUpto
<1> QED
  BY <1>1, <1>2, <1>3 DEF HeldInv

LEMMA OneNodeHeld ==
  ASSUME LineInv, HeldInv, NEW n \in BfgsNode, NEW t,
         bfgs' = [bfgs EXCEPT ![n] = t], UNCHANGED bfgsJob,
         GradHeld(t, n, bfgsJob.shard[n]), CondHeld(t, n, bfgsJob.shard[n]),
         OnePoint(t, n, t, n),
         bfgsJob.shard[n] > 0 => \A k \in BfgsNode \ {n} : bfgsJob.shard[k] > 0 =>
           OnePoint(bfgs[k], k, t, n) /\ OnePoint(t, n, bfgs[k], k)
  PROVE  HeldInv'
<1>1. \A k \in BfgsNode : bfgs'[k] = IF k = n THEN t ELSE bfgs[k]
  BY DEF LineInv
<1>2. \A k \in BfgsNode : /\ GradHeld(bfgs'[k], k, bfgsJob.shard[k])
                          /\ CondHeld(bfgs'[k], k, bfgsJob.shard[k])
  BY <1>1 DEF HeldInv
<1>3. ASSUME NEW k \in BfgsNode, NEW i \in BfgsNode,
             bfgsJob.shard[k] > 0, bfgsJob.shard[i] > 0
      PROVE  OnePoint(bfgs'[k], k, bfgs'[i], i)
  BY <1>1, <1>3 DEF HeldInv
<1> QED
  BY <1>2, <1>3, HeldLater

(* While examples are read.                                                *)
LEMMA TakenHeld ==
  ASSUME NEW s, OnLine(s), NEW size \in Nat, Replay(s, size), NEW n,
         s.pc = "examples", s.next <= size, s.pass = s.current_pass,
         GradHeld(s, n, size), CondHeld(s, n, size), NEW t,
         t = IF s.gradient_pass THEN GradientStep(s, n) ELSE CurvatureStep(s, n)
  PROVE  GradHeld(t, n, size) /\ CondHeld(t, n, size)
<1> DEFINE k == s.next - 1
<1>1. /\ k \in Nat /\ s.next = k + 1 /\ size > 0 /\ (s.next + 1) - 1 = k + 1
      /\ s.next \in 1..size
  BY DEF Replay
<1>2. /\ t.pc = "examples" /\ t.pass = t.current_pass /\ t.next = s.next + 1
      /\ t.calls = s.calls /\ t.current_pass = s.current_pass
      /\ t.gradient_pass = s.gradient_pass /\ t.x = s.x /\ t.path = s.path
  BY DEF OnLine, IsNode, Fields, GradientStep, CurvatureStep
<1>3. Counted(s, size) = k /\ Counted(t, size) = k + 1 /\ Base(t) = Base(s)
      /\ (Diagonals(t) <=> Diagonals(s))
  BY <1>1, <1>2 DEF Counted, Base, Diagonals
<1> HIDE DEF k
<1>4. \A x : TermsUpto(n, k, x) (+) Term(n, s.next, x) = TermsUpto(n, k + 1, x)
  BY <1>1, OneMoreTerm
<1>5. s.pc \in Running /\ s.pc \notin Ends /\ t.pc \in Running /\ t.pc \notin Ends
  BY <1>2 DEF Running, Ends
<1>6. CASE s.gradient_pass
  <2>1. /\ t.grad = s.grad (+) Term(n, s.next, s.x)
        /\ t.cond = IF s.current_pass = 0 THEN s.cond (+) Term(n, s.next, s.x)
                    ELSE Diagonal(s, n, s.next, s.x)
    BY <1>6 DEF OnLine, IsNode, Fields, GradientStep
  <2>2. Base(s) = s.x
    BY <1>6 DEF Base
  <2>3. s.grad = TermsUpto(n, k, s.x) /\ (Diagonals(s) => s.cond = TermsUpto(n, k, s.x))
    BY <1>1, <1>3, <1>5, <1>6, <2>2 DEF GradHeld, CondHeld
  <2>4. t.grad = TermsUpto(n, k + 1, s.x)
    BY <1>4, <2>1, <2>3
  <2>5. Diagonals(s) => t.cond = s.cond (+) Term(n, s.next, s.x)
    BY <2>1 DEF Diagonals, Diagonal
  <2>6. Diagonals(s) => t.cond = TermsUpto(n, k + 1, s.x)
    BY <1>4, <2>3, <2>5
  <2> QED
    BY <1>2, <1>3, <1>5, <1>6, <2>2, <2>4, <2>6 DEF GradHeld, CondHeld
<1>7. CASE ~s.gradient_pass
  <2> DEFINE x == Last(s.path)
             replayed == s.predictions[s.example_number + 1]
  <2>1. replayed = <<s.next, x>> /\ s.current_pass # 0
    <3>1. s.example_number + 1 = s.next /\ s.predictions = PredictedUpto(size, x)
      BY <1>1, <1>7 DEF Replay
    <3> QED
      BY <1>1, <1>7, <3>1 DEF PredictedUpto, OnLine
  <2>2. t.grad = s.grad /\ t.cond = Diagonal(s, n, replayed[1], replayed[2])
    BY <1>7 DEF OnLine, IsNode, Fields, CurvatureStep
  <2> HIDE DEF replayed
  <2>3. t.cond = Diagonal(s, n, s.next, x)
    BY <2>1, <2>2
  <2>4. Base(s) = x
    BY <1>7 DEF Base
  <2> HIDE DEF x
  <2>5. s.grad = EmptyBag /\ (Diagonals(s) => s.cond = TermsUpto(n, k, x))
    BY <1>1, <1>3, <1>5, <1>7, <2>4 DEF GradHeld, CondHeld
  <2>6. Diagonals(s) => t.cond = s.cond (+) Term(n, s.next, x)
    BY <2>1, <2>3 DEF Diagonals, Diagonal
  <2>7. Diagonals(s) => t.cond = TermsUpto(n, k + 1, x)
    BY <1>4, <2>5, <2>6
  <2> QED
    BY <1>2, <1>3, <1>5, <1>7, <2>2, <2>4, <2>5, <2>7 DEF GradHeld, CondHeld
<1> QED
  BY <1>6, <1>7

(* Where a pass is over, or is none of the passes that count.              *)
LEMMA RestsHeld ==
  ASSUME NEW s, NEW t, NEW size, NEW n, GradHeld(s, n, size), CondHeld(s, n, size),
         s.pc = "examples", t.pc \in Running, Counted(t, size) = Counted(s, size),
         t.grad = s.grad, t.cond = s.cond, t.x = s.x, t.path = s.path,
         t.gradient_pass = s.gradient_pass, t.current_pass = s.current_pass,
         t.pc \in Ends => (t.calls = FirstCalls => s.current_pass = 0),
         t.pc \in Ends /\ size > 0 => t.calls # <<>>
  PROVE  GradHeld(t, n, size) /\ CondHeld(t, n, size)
<1>1. /\ s.pc \in Running /\ s.pc \notin Ends
      /\ t.pc \notin {"regularizer", "done"}
  BY DEF Running, Ends
<1>2. Base(t) = Base(s) /\ (Diagonals(t) <=> Diagonals(s))
  BY DEF Base, Diagonals
<1> QED
  BY <1>1, <1>2 DEF GradHeld, CondHeld

LEMMA ReadingHeld ==
  ASSUME LineInv, ReplayInv, LockInv, EndInv, HeldInv, NEW n \in BfgsNode, BfgsReading(n)
  PROVE  HeldInv'
<1> DEFINE s == bfgs[n]
           size == bfgsJob.shard[n]
<1>1. /\ OnLine(s) /\ IsNode(s) /\ Replay(s, size) /\ size \in Nat /\ Within(s, size)
      /\ GradHeld(s, n, size) /\ CondHeld(s, n, size) /\ LastPass \in Nat \ {0}
  BY Sizes, LastIsLater DEF LineInv, ReplayInv, OnLine, EndInv, HeldInv
<1>2. UNCHANGED bfgsJob /\ s.pc = "examples"
  BY DEF BfgsReading, TakeExample, NextBfgsPass, EndBfgsPass
<1>3. \A k \in BfgsNode : size > 0 /\ bfgsJob.shard[k] > 0 =>
        bfgs[k].pc # "regularizer"
  BY <1>2 DEF EndInv, Closing, Running
<1>4. ASSUME NEW t, t.pc \in Running, bfgs' = [bfgs EXCEPT ![n] = t],
             GradHeld(t, n, size), CondHeld(t, n, size)
      PROVE  HeldInv'
  <2>1. t.pc # "regularizer"
    BY <1>4 DEF Running, Ends
  <2>2. OnePoint(t, n, t, n)
    BY <2>1 DEF OnePoint
  <2>3. size > 0 => \A k \in BfgsNode \ {n} : bfgsJob.shard[k] > 0 =>
          OnePoint(bfgs[k], k, t, n) /\ OnePoint(t, n, bfgs[k], k)
    BY <1>3, <2>1 DEF OnePoint
  <2> QED
    BY <1>2, <1>4, <2>2, <2>3, OneNodeHeld
<1>5. CASE TakeExample(n)
  <2> DEFINE t == IF s.gradient_pass THEN GradientStep(s, n) ELSE CurvatureStep(s, n)
  <2>1. /\ bfgs' = [bfgs EXCEPT ![n] = t] /\ s.next <= size /\ s.pass = s.current_pass
    BY <1>5 DEF TakeExample
  <2>2. t.pc \in Running
    BY <1>1, <1>2 DEF IsNode, Fields, GradientStep, CurvatureStep, Running
  <2>3. GradHeld(t, n, size) /\ CondHeld(t, n, size)
    <3> HIDE DEF size
    <3> QED
      BY <1>1, <1>2, <2>1, TakenHeld DEF size
  <2> QED
    BY <1>4, <2>1, <2>2, <2>3
<1>6. CASE NextBfgsPass(n)
  <2> DEFINE t == [s EXCEPT !.pass = s.pass + 1, !.next = 1]
  <2>1. bfgs' = [bfgs EXCEPT ![n] = t] /\ s.next > size
    BY <1>1, <1>6 DEF NextBfgsPass
  <2>2. /\ t.pc = s.pc /\ t.pass = s.pass + 1 /\ t.current_pass = s.current_pass
        /\ t.grad = s.grad /\ t.cond = s.cond /\ t.x = s.x /\ t.path = s.path
        /\ t.gradient_pass = s.gradient_pass
    BY <1>1 DEF IsNode, Fields
  <2> HIDE DEF t
  <2>3. Counted(s, size) = size /\ Counted(t, size) = size
    <3>1. /\ s.next \in 1..size + 1 /\ s.pass \in Nat /\ s.current_pass \in Nat
          /\ s.pass >= s.current_pass
      BY <1>1 DEF Replay, OnLine
    <3>2. s.next - 1 = size /\ t.pass # t.current_pass
      BY <1>1, <2>1, <2>2, <3>1
    <3> QED
      BY <3>2 DEF Counted
  <2>4. t.pc \in Running /\ t.pc \notin Ends
    BY <1>2, <2>2 DEF Running, Ends
  <2>5. GradHeld(t, n, size) /\ CondHeld(t, n, size)
    BY <1>1, <1>2, <2>2, <2>3, <2>4, RestsHeld
  <2> QED
    BY <1>4, <2>1, <2>4, <2>5
<1>7. CASE EndBfgsPass(n)
  <2> DEFINE c == IF s.current_pass # 0 THEN CallsOf(s) ELSE <<>>
             t == [s EXCEPT !.pc = "pass_end", !.calls = CallsOf(s)]
             u == [s EXCEPT !.pc = "job_end", !.calls = c]
  <2>1. /\ CallsOf(s) # <<>> /\ (CallsOf(s) = FirstCalls => s.current_pass = 0)
        /\ FirstCalls # <<>>
    BY DEF CallsOf, FirstCalls
  <2>2. \A v : v.pc \in Ends => v.pc \in Running /\ v.pc # "examples"
    BY DEF Running, Ends
  <2>3. CASE /\ s.next <= size /\ s.pass # s.current_pass
             /\ bfgs' = [bfgs EXCEPT ![n].pc = "pass_end", ![n].calls = CallsOf(s)]
    <3>1. bfgs' = [bfgs EXCEPT ![n] = t]
      BY <1>1, <2>3
    <3>2. /\ t.pc = "pass_end" /\ t.calls = CallsOf(s) /\ t.current_pass = s.current_pass
          /\ t.grad = s.grad /\ t.cond = s.cond /\ t.x = s.x /\ t.path = s.path
          /\ t.gradient_pass = s.gradient_pass
      BY <1>1 DEF IsNode, Fields
    <3> HIDE DEF t
    <3>3. Counted(s, size) = size /\ Counted(t, size) = size /\ t.pc \in Ends
      BY <2>3, <3>2 DEF Counted, Ends
    <3>4. GradHeld(t, n, size) /\ CondHeld(t, n, size)
      BY <1>1, <1>2, <2>1, <2>2, <3>2, <3>3, RestsHeld
    <3> QED
      BY <1>4, <2>2, <3>1, <3>3, <3>4
  <2>4. CASE /\ s.next > size /\ s.pass = LastPass
             /\ bfgs' = [bfgs EXCEPT ![n].pc = "job_end", ![n].calls = c]
    <3>1. bfgs' = [bfgs EXCEPT ![n] = u]
      BY <1>1, <2>4
    <3>2. /\ u.pc = "job_end" /\ u.calls = c /\ u.current_pass = s.current_pass
          /\ u.grad = s.grad /\ u.cond = s.cond /\ u.x = s.x /\ u.path = s.path
          /\ u.gradient_pass = s.gradient_pass
      BY <1>1 DEF IsNode, Fields
    <3> HIDE DEF u
    <3>3. Counted(s, size) = size /\ Counted(u, size) = size /\ u.pc \in Ends
      BY <1>1, <2>4, <3>2 DEF Counted, Ends, Replay
    <3>4. size > 0 => s.current_pass # 0
      BY <1>1, <2>4 DEF Replay, OnLine
    <3>5. GradHeld(u, n, size) /\ CondHeld(u, n, size)
      BY <1>1, <1>2, <2>1, <2>2, <3>2, <3>3, <3>4, RestsHeld
    <3> QED
      BY <1>4, <2>2, <3>1, <3>3, <3>5
  <2> QED
    BY <1>7, <2>3, <2>4 DEF EndBfgsPass
<1> QED
  BY <1>5, <1>6, <1>7 DEF BfgsReading

(* Who meets in all_reduce: nodes that have all left the loop; nodes that  *)
(* all have examples and are all at the end of a pass; or, with empty      *)
(* shards among them, those at the end of the first pass and those who had *)
(* nothing to do in it.                                                    *)
AllLeft == \A n \in BfgsNode : bfgs[n].pc = "regularizer" /\ bfgs[n].calls = <<"cond">>
AllEnd == \A n \in BfgsNode : bfgsJob.shard[n] > 0 /\ bfgs[n].pc \in Ends
SomeEmpty ==
  \A n \in BfgsNode :
    /\ bfgsJob.shard[n] = 0 => bfgs[n].pc = "regularizer" /\ bfgs[n].calls = <<"cond">>
    /\ bfgsJob.shard[n] > 0 => /\ bfgs[n].pc = "pass_end" /\ bfgs[n].calls = FirstCalls
                               /\ bfgs[n].current_pass = 0

LEMMA WhoMeets ==
  ASSUME LineInv, ReplayInv, LockInv, EndInv, \A n \in BfgsNode : bfgs[n].calls # <<>>
  PROVE  AllLeft \/ AllEnd \/ SomeEmpty
<1>1. ASSUME NEW n \in BfgsNode
      PROVE  /\ \/ bfgs[n].pc = "regularizer" /\ bfgs[n].calls = <<"cond">>
                \/ bfgs[n].pc \in Ends /\ bfgsJob.shard[n] > 0
             /\ bfgsJob.shard[n] \in Nat
  <2>1. Alone(bfgs[n], bfgsJob.shard[n]) /\ Replay(bfgs[n], bfgsJob.shard[n])
        /\ bfgsJob.shard[n] \in Nat /\ bfgs[n].calls # <<>>
    BY Sizes DEF LockInv, ReplayInv
  <2>2. bfgs[n].pc \in Ends \cup {"regularizer"}
    BY <2>1 DEF Alone, Running
  <2>3. bfgs[n].pc \in Ends => bfgsJob.shard[n] > 0
    BY <2>1 DEF Alone, Replay, Ends
  <2> QED
    BY <2>1, <2>2, <2>3 DEF Alone
<1>2. CASE \E k \in BfgsNode : bfgsJob.shard[k] = 0
  <2>1. PICK k \in BfgsNode : bfgsJob.shard[k] = 0
    BY <1>2
  <2>2. ASSUME NEW n \in BfgsNode, bfgsJob.shard[n] > 0
        PROVE  /\ bfgs[n].pc = "pass_end" /\ bfgs[n].calls = FirstCalls
               /\ bfgs[n].current_pass = 0
    <3>1. Blocked(bfgs[k], bfgs[n])
      BY <2>1, <2>2 DEF EndInv
    <3>2. bfgs[n].pc # "examples" /\ bfgs[k].calls # <<>>
      BY <1>1, <2>2 DEF Ends
    <3> QED
      BY <3>1, <3>2 DEF Blocked
  <2>3. SomeEmpty
    BY <1>1, <2>2 DEF SomeEmpty
  <2> QED
    BY <2>3
<1>3. CASE \A k \in BfgsNode : bfgsJob.shard[k] # 0
  <2>1. \A k \in BfgsNode : bfgsJob.shard[k] > 0
    BY <1>1, <1>3
  <2>2. \A k, n \in BfgsNode : ~(bfgs[k].pc = "regularizer" /\ bfgs[n].pc \in Ends)
    BY <2>1 DEF EndInv, Closing, Running
  <2> QED
    BY <1>1, <2>1, <2>2 DEF AllLeft, AllEnd
<1> QED
  BY <1>2, <1>3

(* The sum, where every node has counted its shard at the same point.      *)
LEMMA TotalAt ==
  ASSUME NEW x, \A n \in BfgsNode : Sent(n) = TermsUpto(n, bfgsJob.shard[n], x)
  PROVE  SumOf([n \in BfgsNode |-> Sent(n)]) = AllTerms(x)
<1> DEFINE f == [n \in BfgsNode |-> Sent(n)]
<1>1. f = [n \in BfgsNode |-> f[n]]
      /\ \A n \in BfgsNode : f[n] = TermsUpto(n, bfgsJob.shard[n], x)
  OBVIOUS
<1> HIDE DEF f
<1>2. SumOf(f) = AllTerms(x)
  BY <1>1, ClusterSum
<1> QED
  BY <1>2 DEF f

LEMMA LeftTotal ==
  ASSUME ReplayInv, HeldInv, AllLeft, bfgsJob.output_regularizer
  PROVE  \E x : SumOf([n \in BfgsNode |-> Sent(n)]) = AllTerms(x)
<1>1. ASSUME NEW n \in BfgsNode
      PROVE  /\ bfgs[n].pc = "regularizer" /\ bfgs[n].calls # <<>>
             /\ Sent(n) = bfgs[n].cond /\ bfgsJob.shard[n] \in Nat
             /\ \E x : bfgs[n].cond = TermsUpto(n, bfgsJob.shard[n], x)
  <2>1. bfgs[n].pc = "regularizer" /\ bfgs[n].calls = <<"cond">>
    BY DEF AllLeft
  <2>2. bfgs[n].calls # <<>> /\ bfgs[n].calls[1] = "cond"
    BY <2>1
  <2>3. CondHeld(bfgs[n], n, bfgsJob.shard[n]) /\ bfgsJob.shard[n] \in Nat
    BY Sizes DEF HeldInv
  <2> QED
    BY <2>1, <2>2, <2>3 DEF Sent, CondHeld
<1>2. \E x : \A n \in BfgsNode : bfgsJob.shard[n] > 0 =>
        bfgs[n].cond = TermsUpto(n, bfgsJob.shard[n], x)
  <2>1. CASE \E k \in BfgsNode : bfgsJob.shard[k] > 0
    <3>1. PICK k \in BfgsNode : bfgsJob.shard[k] > 0
      BY <2>1
    <3>2. PICK x : bfgs[k].cond = TermsUpto(k, bfgsJob.shard[k], x)
      BY <1>1
    <3>3. ASSUME NEW n \in BfgsNode, bfgsJob.shard[n] > 0
          PROVE  bfgs[n].cond = TermsUpto(n, bfgsJob.shard[n], x)
      <4>1. OnePoint(bfgs[k], k, bfgs[n], n)
        BY <3>1, <3>3 DEF HeldInv
      <4>2. PICK y : /\ bfgs[k].cond = TermsUpto(k, bfgsJob.shard[k], y)
                     /\ bfgs[n].cond = TermsUpto(n, bfgsJob.shard[n], y)
        BY <1>1, <4>1 DEF OnePoint
      <4>3. bfgsJob.shard[k] \in Nat \ {0}
        BY <1>1, <3>1
      <4>4. TermsUpto(k, bfgsJob.shard[k], x) = TermsUpto(k, bfgsJob.shard[k], y)
        BY <3>2, <4>2
      <4>5. x = y
        BY <4>3, <4>4, PointOfTerms
      <4> QED
        BY <4>2, <4>5
    <3> QED
      BY <3>3
  <2> QED
    BY <2>1
<1>3. PICK x : \A n \in BfgsNode : bfgsJob.shard[n] > 0 =>
        bfgs[n].cond = TermsUpto(n, bfgsJob.shard[n], x)
  BY <1>2
<1>4. ASSUME NEW n \in BfgsNode PROVE Sent(n) = TermsUpto(n, bfgsJob.shard[n], x)
  <2>1. CASE bfgsJob.shard[n] > 0
    BY <1>1, <1>3, <2>1
  <2>2. CASE bfgsJob.shard[n] = 0
    BY <1>1, <2>2, NoTerms
  <2> QED
    BY <1>1, <2>1, <2>2
<1> QED
  BY <1>4, TotalAt

LEMMA EmptyTotal ==
  ASSUME LineInv, ReplayInv, LockInv, HeldInv, SomeEmpty, bfgsJob.output_regularizer
  PROVE  SumOf([n \in BfgsNode |-> Sent(n)]) = AllTerms(<<0>>)
<1>1. ASSUME NEW n \in BfgsNode PROVE Sent(n) = TermsUpto(n, bfgsJob.shard[n], <<0>>)
  <2> DEFINE s == bfgs[n]
             size == bfgsJob.shard[n]
  <2>1. CondHeld(s, n, size) /\ size \in Nat /\ OnLine(s) /\ Alone(s, size)
    BY Sizes DEF HeldInv, LineInv, LockInv
  <2>2. CASE size = 0
    <3>1. s.pc = "regularizer" /\ s.calls = <<"cond">>
      BY <2>2 DEF SomeEmpty
    <3>2. s.calls # <<>> /\ s.calls[1] = "cond"
      BY <3>1
    <3>3. \E x : s.cond = TermsUpto(n, 0, x)
      BY <2>1, <2>2, <3>1, <3>2 DEF CondHeld
    <3> QED
      BY <2>2, <3>2, <3>3, NoTerms DEF Sent
  <2>3. CASE size > 0
    <3>1. s.pc = "pass_end" /\ s.calls = FirstCalls /\ s.current_pass = 0
      BY <2>3 DEF SomeEmpty
    <3>2. s.calls[1] = "cond"
      BY <3>1 DEF FirstCalls
    <3>3. s.pc \in Running /\ Diagonals(s) /\ Counted(s, size) = size
      BY <3>1 DEF Running, Ends, Diagonals, Counted
    <3>4. Base(s) = <<0>>
      BY <2>1, <3>1 DEF Base, OnLine, Alone
    <3>5. s.cond = TermsUpto(n, size, <<0>>)
      BY <2>1, <3>1, <3>3, <3>4 DEF CondHeld
    <3> QED
      BY <3>2, <3>5 DEF Sent
  <2> QED
    BY <2>1, <2>2, <2>3
<1> QED
  BY <1>1, TotalAt

LEMMA EndTotal ==
  ASSUME LineInv, ReplayInv, LockInv, HeldInv, AllEnd,
         \A k \in BfgsNode : bfgs[k].calls # <<>>,
         NEW n \in BfgsNode, bfgs[n].gradient_pass, bfgs[n].calls = <<"grad">>
  PROVE  SumOf([k \in BfgsNode |-> Sent(k)]) = AllTerms(bfgs[n].x)
<1> DEFINE s == bfgs[n]
<1>1. ASSUME NEW k \in BfgsNode PROVE Sent(k) = TermsUpto(k, bfgsJob.shard[k], s.x)
  <2> DEFINE t == bfgs[k]
             size == bfgsJob.shard[k]
  <2>1. /\ GradHeld(t, k, size) /\ size > 0 /\ t.pc \in Ends /\ t.calls # <<>>
        /\ s.pc \in Ends /\ s.calls # <<>> /\ bfgsJob.shard[n] > 0
        /\ OnLine(s) /\ OnLine(t)
    BY DEF HeldInv, AllEnd, LineInv
  <2>2. t.pc \in Running /\ s.pc \in Running /\ t.pc # "examples" /\ s.pc # "examples"
    BY <2>1 DEF Running, Ends
  <2>3. Pair(s, t, answers) /\ Pair(t, s, answers)
    BY <2>1, <2>2, SearchingPeers DEF Searching
  <2>4. s.current_pass \in Nat /\ t.current_pass \in Nat
    BY <2>1 DEF OnLine
  <2>5. s.current_pass = t.current_pass
    BY <2>1, <2>3, <2>4 DEF Pair, Ahead
  <2>6. Together(s, t)
    BY <2>3, <2>5 DEF Pair
  <2>7. t.calls = <<"grad">> /\ t.gradient_pass /\ t.x = s.x
    BY <2>2, <2>6 DEF Together, SameCore
  <2>8. t.calls[1] = "grad"
    BY <2>7
  <2>9. Counted(t, size) = size
    BY <2>2 DEF Counted
  <2>10. t.grad = TermsUpto(k, size, s.x)
    BY <2>1, <2>2, <2>7, <2>9 DEF GradHeld
  <2> QED
    BY <2>8, <2>10 DEF Sent
<1> QED
  BY <1>1, TotalAt

(* The calls at the end of a pass: what the next one sums, and what is     *)
(* left after it.                                                          *)
LEMMA NextCall ==
  ASSUME NEW c \in Calls, c # <<>>
  PROVE  /\ c[1] = "grad" <=> c = <<"grad">>
         /\ c[1] = "cond" <=> c = FirstCalls
         /\ Tail(c) = <<>> <=> c \in {<<"grad">>, <<"curvature">>}
         /\ Tail(c) # FirstCalls
<1>1. CASE c = <<"curvature">>
  BY <1>1, CallsLeft DEF FirstCalls
<1>2. CASE c = <<"grad">>
  BY <1>2, CallsLeft DEF FirstCalls
<1>3. CASE c = <<"loss_sum", "grad">>
  BY <1>3, CallsLeft DEF FirstCalls
<1>4. CASE c = <<"importance", "loss_sum", "grad">>
  BY <1>4, CallsLeft DEF FirstCalls
<1>5. CASE c = FirstCalls
  BY <1>5, CallsLeft DEF FirstCalls
<1> QED
  BY <1>1, <1>2, <1>3, <1>4, <1>5 DEF Calls, FirstCalls

LEMMA ReceivedHeld ==
  ASSUME NEW s, OnLine(s), NEW size \in Nat \ {0}, Alone(s, size), s.pc \in Ends, s.calls # <<>>,
         NEW n, GradHeld(s, n, size), CondHeld(s, n, size), NEW total,
         s.gradient_pass /\ s.calls = <<"grad">> => total = AllTerms(s.x),
         NEW t, t = Received(s, total)
  PROVE  GradHeld(t, n, size) /\ CondHeld(t, n, size)
<1> DEFINE c == s.calls
<1>1. /\ SamePlace(s, t) /\ t.pc = s.pc /\ t.calls = Tail(c)
      /\ t.grad = IF c[1] = "grad" THEN total ELSE s.grad
      /\ t.cond = IF c[1] = "cond" THEN total ELSE s.cond
  BY ReceivedLeaves, ReceivedSums, ReceivedMemory DEF OnLine
<1>2. c \in Calls /\ c # <<>> /\ (c = <<"curvature">> <=> ~s.gradient_pass)
  BY DEF Alone
<1> HIDE DEF c
<1>3. /\ c[1] = "grad" <=> c = <<"grad">>
      /\ c[1] = "cond" <=> c = FirstCalls
      /\ Tail(c) = <<>> <=> c \in {<<"grad">>, <<"curvature">>}
      /\ Tail(c) # FirstCalls
  BY <1>2, NextCall
<1>4. /\ s.pc \in Running /\ s.pc # "examples" /\ s.pc \notin {"regularizer", "done"}
      /\ Counted(s, size) = size /\ Counted(t, size) = size /\ size > 0
  BY <1>1 DEF Running, Ends, Counted
<1>5. t.x = s.x /\ t.gradient_pass = s.gradient_pass /\ t.current_pass = s.current_pass
      /\ Base(t) = Base(s) /\ (Diagonals(t) <=> Diagonals(s))
  BY <1>1 DEF SamePlace, SameCore, Base, Diagonals
<1>6. GradHeld(t, n, size)
  <2>1. s.grad = IF ~s.gradient_pass THEN EmptyBag ELSE TermsUpto(n, size, s.x)
    BY <1>2, <1>4 DEF GradHeld, c
  <2>2. CASE ~s.gradient_pass
    <3>1. c # <<"grad">>
      BY <1>2, <2>2
    <3> QED
      BY <1>1, <1>3, <1>5, <2>1, <2>2, <3>1 DEF GradHeld
  <2>3. CASE s.gradient_pass /\ c = <<"grad">>
    BY <1>1, <1>3, <1>5, <2>3 DEF GradHeld, c
  <2>4. CASE s.gradient_pass /\ c # <<"grad">>
    BY <1>1, <1>2, <1>3, <1>4, <1>5, <2>1, <2>4 DEF GradHeld
  <2> QED
    BY <2>2, <2>3, <2>4
<1>7. CondHeld(t, n, size)
  <2>1. c = FirstCalls => s.current_pass = 0
    BY DEF CondHeld, c
  <2>2. s.current_pass # 0 /\ Diagonals(s) => s.cond = TermsUpto(n, size, Base(s))
    BY <1>4 DEF CondHeld
  <2> QED
    BY <1>1, <1>3, <1>4, <1>5, <2>1, <2>2 DEF CondHeld
<1> QED
  BY <1>6, <1>7

LEMMA ReduceHeld ==
  ASSUME LineInv, ReplayInv, LockInv, EndInv, HeldInv, BfgsReduce
  PROVE  HeldInv'
<1> DEFINE total == SumOf([n \in BfgsNode |-> Sent(n)])
<1>1. /\ bfgs' = [n \in BfgsNode |-> Received(bfgs[n], total)]
      /\ UNCHANGED bfgsJob /\ \A n \in BfgsNode : bfgs[n].calls # <<>>
  BY DEF BfgsReduce
<1>2. AllLeft \/ AllEnd \/ SomeEmpty
  BY <1>1, WhoMeets
<1>3. AllLeft /\ bfgsJob.output_regularizer => \E x : total = AllTerms(x)
  BY LeftTotal
<1>4. SomeEmpty /\ bfgsJob.output_regularizer => \E x : total = AllTerms(x)
  BY EmptyTotal
<1>5. ASSUME NEW n \in BfgsNode, AllEnd, bfgs[n].gradient_pass, bfgs[n].calls = <<"grad">>
      PROVE  total = AllTerms(bfgs[n].x)
  BY <1>1, <1>5, EndTotal
<1> HIDE DEF total
<1>6. ASSUME NEW n \in BfgsNode
      PROVE  LET s == bfgs[n]  t == bfgs'[n]  size == bfgsJob.shard[n] IN
             /\ SamePlace(s, t) /\ t.pc = s.pc /\ t.calls = Tail(s.calls)
             /\ t.grad = IF s.calls[1] = "grad" THEN total ELSE s.grad
             /\ t.cond = IF s.calls[1] = "cond" THEN total ELSE s.cond
             /\ t = Received(s, total)
             /\ OnLine(s) /\ Alone(s, size) /\ size \in Nat
             /\ GradHeld(s, n, size) /\ CondHeld(s, n, size)
  <2>1. bfgs'[n] = Received(bfgs[n], total) /\ OnLine(bfgs[n]) /\ IsNode(bfgs[n])
        /\ bfgsJob.shard[n] \in Nat /\ Alone(bfgs[n], bfgsJob.shard[n])
    BY <1>1, Sizes DEF LineInv, OnLine, LockInv
  <2> QED
    BY <2>1, ReceivedLeaves, ReceivedSums, ReceivedMemory DEF HeldInv
<1>7. ASSUME NEW n \in BfgsNode, bfgs[n].pc = "regularizer", bfgs[n].calls = <<"cond">>,
             bfgsJob.output_regularizer => \E x : total = AllTerms(x)
      PROVE  /\ GradHeld(bfgs'[n], n, bfgsJob.shard[n]) /\ CondHeld(bfgs'[n], n, bfgsJob.shard[n])
             /\ bfgs'[n].calls = <<>>
  <2> DEFINE t == bfgs'[n]
  <2>1. t.pc = "regularizer" /\ t.calls = <<>> /\ t.cond = total
    <3>1. bfgs[n].calls[1] = "cond" /\ Tail(bfgs[n].calls) = <<>>
      BY <1>7, CallsLeft
    <3> QED
      BY <1>6, <1>7, <3>1
  <2>2. t.pc \notin Running /\ t.pc \notin Ends
    BY <2>1 DEF Running, Ends
  <2> QED
    BY <1>7, <2>1, <2>2 DEF GradHeld, CondHeld
<1>8. CASE AllLeft
  <2>1. \A n \in BfgsNode : bfgs[n].pc = "regularizer" /\ bfgs[n].calls = <<"cond">>
    BY <1>8 DEF AllLeft
  <2>2. \A n \in BfgsNode :
          /\ GradHeld(bfgs'[n], n, bfgsJob.shard[n]) /\ CondHeld(bfgs'[n], n, bfgsJob.shard[n])
          /\ bfgs'[n].calls = <<>>
    BY <1>3, <1>7, <1>8, <2>1
  <2> QED
    BY <1>1, <2>2, HeldLater DEF OnePoint
<1>9. CASE AllEnd
  <2>1. ASSUME NEW n \in BfgsNode
        PROVE  /\ GradHeld(bfgs'[n], n, bfgsJob.shard[n]) /\ CondHeld(bfgs'[n], n, bfgsJob.shard[n])
               /\ bfgs'[n].pc # "regularizer"
    <3> DEFINE s == bfgs[n]
               t == bfgs'[n]
               size == bfgsJob.shard[n]
    <3>1. /\ OnLine(s) /\ Alone(s, size) /\ size \in Nat \ {0} /\ s.pc \in Ends /\ s.calls # <<>>
          /\ GradHeld(s, n, size) /\ CondHeld(s, n, size) /\ t = Received(s, total)
          /\ t.pc = s.pc
      BY <1>1, <1>6, <1>9 DEF AllEnd
    <3>2. s.gradient_pass /\ s.calls = <<"grad">> => total = AllTerms(s.x)
      BY <1>5, <1>9
    <3>3. t.pc # "regularizer"
      BY <3>1 DEF Ends
    <3> HIDE DEF s, t, size
    <3>4. GradHeld(t, n, size) /\ CondHeld(t, n, size)
      BY <3>1, <3>2, ReceivedHeld
    <3> QED
      BY <3>3, <3>4 DEF t, size
  <2> QED
    BY <1>1, <2>1, HeldLater DEF OnePoint
<1>10. CASE SomeEmpty
  <2>1. ASSUME NEW n \in BfgsNode, bfgsJob.shard[n] = 0
        PROVE  GradHeld(bfgs'[n], n, bfgsJob.shard[n]) /\ CondHeld(bfgs'[n], n, bfgsJob.shard[n])
    <3>1. bfgs[n].pc = "regularizer" /\ bfgs[n].calls = <<"cond">>
      BY <1>10, <2>1 DEF SomeEmpty
    <3> QED
      BY <1>4, <1>7, <1>10, <3>1
  <2>2. ASSUME NEW n \in BfgsNode, bfgsJob.shard[n] > 0
        PROVE  /\ GradHeld(bfgs'[n], n, bfgsJob.shard[n]) /\ CondHeld(bfgs'[n], n, bfgsJob.shard[n])
               /\ bfgs'[n].pc # "regularizer"
    <3> DEFINE s == bfgs[n]
               t == bfgs'[n]
               size == bfgsJob.shard[n]
    <3>1. s.pc = "pass_end" /\ s.calls = FirstCalls /\ s.current_pass = 0
      BY <1>10, <2>2 DEF SomeEmpty
    <3>2. /\ OnLine(s) /\ Alone(s, size) /\ size \in Nat \ {0} /\ s.pc \in Ends /\ s.calls # <<>>
          /\ GradHeld(s, n, size) /\ CondHeld(s, n, size) /\ t = Received(s, total)
          /\ t.pc = s.pc
      BY <1>1, <1>6, <2>2, <3>1 DEF Ends
    <3>3. s.calls # <<"grad">> /\ t.pc # "regularizer"
      BY <3>1, <3>2 DEF FirstCalls
    <3> HIDE DEF s, t, size
    <3>4. GradHeld(t, n, size) /\ CondHeld(t, n, size)
      BY <3>2, <3>3, ReceivedHeld
    <3> QED
      BY <3>3, <3>4 DEF t, size
  <2>3. \A n \in BfgsNode :
          /\ GradHeld(bfgs'[n], n, bfgsJob.shard[n]) /\ CondHeld(bfgs'[n], n, bfgsJob.shard[n])
          /\ bfgsJob.shard[n] > 0 => bfgs'[n].pc # "regularizer"
    BY <1>6, <2>1, <2>2
  <2> QED
    BY <1>1, <2>3, HeldLater DEF OnePoint
<1> QED
  BY <1>2, <1>8, <1>9, <1>10

(* A node that has left the loop, and one that is about to.                *)
LEMMA LeftHeld ==
  ASSUME NEW s, NEW n, NEW size, NEW t, t.pc = "regularizer", t.cond = s.cond,
         t.calls = IF bfgsJob.output_regularizer THEN <<"cond">> ELSE <<>>,
         bfgsJob.output_regularizer => s.cond = TermsUpto(n, size, Base(s))
  PROVE  GradHeld(t, n, size) /\ CondHeld(t, n, size)
<1>1. t.pc \notin Running /\ t.pc \notin Ends /\ <<"cond">> # <<>>
  BY DEF Running, Ends
<1> QED
  BY <1>1 DEF GradHeld, CondHeld

LEMMA DecidingHeld ==
  ASSUME LineInv, ReplayInv, LockInv, EndInv, HeldInv, MemoryInv,
         NEW n \in BfgsNode, BfgsDeciding(n)
  PROVE  HeldInv'
<1> DEFINE s == bfgs[n]
           size == bfgsJob.shard[n]
           failed == [s EXCEPT !.pc = "failed"]
           done == [s EXCEPT !.pc = "done"]
<1>1. /\ OnLine(s) /\ IsNode(s) /\ bfgs = [k \in BfgsNode |-> bfgs[k]] /\ AnswersFit
      /\ Replay(s, size) /\ size \in Nat /\ Alone(s, size) /\ Within(s, size)
      /\ GradHeld(s, n, size) /\ CondHeld(s, n, size) /\ Memory(s)
      /\ LastPass \in Nat \ {0} /\ bfgsJob.m \in Nat
  BY Sizes, LastIsLater DEF LineInv, OnLine, ReplayInv, LockInv, EndInv, HeldInv, MemoryInv
<1>2. UNCHANGED bfgsJob
  BY DEF BfgsDeciding, Decide, NothingToDecide, BfgsDone
<1>3. \A k \in BfgsNode : size > 0 /\ bfgsJob.shard[k] > 0 =>
        OnePoint(bfgs[k], k, s, n) /\ OnePoint(s, n, bfgs[k], k)
  BY DEF HeldInv
(* A node that is not at the accumulation of the diagonal has nothing to   *)
(* agree on.                                                               *)
<1>4. ASSUME NEW t, bfgs' = [bfgs EXCEPT ![n] = t], t.pc # "job_end",
             t.pc = "regularizer" => t.calls = <<>>,
             GradHeld(t, n, size), CondHeld(t, n, size)
      PROVE  HeldInv'
  <2>1. \A k : OnePoint(bfgs[k], k, t, n) /\ OnePoint(t, n, bfgs[k], k)
    BY <1>4 DEF OnePoint
  <2>2. OnePoint(t, n, t, n)
    BY <1>4 DEF OnePoint
  <2> QED
    BY <1>2, <1>4, <2>1, <2>2, OneNodeHeld
<1>5. CASE Decide(n)
  <2>1. PICK a \in IF Question(s) \in DOMAIN answers THEN {answers[Question(s)]}
                   ELSE Answers(s) :
          bfgs' = [bfgs EXCEPT ![n] =
                     IF a.what = "fail" THEN failed
                     ELSE IF s.pc = "pass_end" THEN NextPassOf(Decided(s, a))
                     ELSE AfterLoop(Decided(s, a))]
    BY <1>5 DEF Decide
  <2>2. /\ s.pc \in Ends /\ s.calls = <<>> /\ s.pc # "failed"
        /\ s.pc = "pass_end" \/ s.current_pass # 0
    BY <1>5 DEF Decide, Ends
  <2>3. Fitting(Question(s), a)
    BY <1>1, <2>1, AnswersAreFitting DEF AnswersFit
  <2>4. size > 0
    BY <1>1, <2>2 DEF Replay, Alone
  <2>5. s.pc \in Running /\ Counted(s, size) = size
    BY <2>2 DEF Running, Ends, Counted
  <2>6. s.grad = IF s.gradient_pass THEN AllTerms(s.x) ELSE EmptyBag
    BY <1>1, <2>2, <2>4, <2>5 DEF GradHeld, OnLine
  <2> HIDE DEF failed
  <2>7. CASE a.what = "fail"
    <3>1. bfgs' = [bfgs EXCEPT ![n] = failed]
      BY <2>1, <2>7
    <3>2. failed.pc = "failed"
      BY <1>1 DEF failed, IsNode, Fields
    <3>3. GradHeld(failed, n, size) /\ CondHeld(failed, n, size)
      BY <3>2 DEF GradHeld, CondHeld, Running, Ends
    <3> QED
      BY <1>4, <3>1, <3>2, <3>3
  <2>8. ASSUME a.what # "fail"
        PROVE  LET d == Decided(s, a) IN
               /\ Decision(s, d) /\ IsNode(d) /\ d.grad = EmptyBag /\ d.cond = s.cond
    <3>1. Decision(s, Decided(s, a))
      BY <1>1, <2>2, <2>3, <2>8, Decisions
    <3>2. Decided(s, a).grad = EmptyBag /\ Decided(s, a).cond = s.cond
      BY <1>1, <2>2, <2>3, <2>6, <2>8, DecidedMemory
    <3> QED
      BY <3>1, <3>2 DEF Decision
  <2>9. CASE a.what # "fail" /\ s.pc = "pass_end"
    <3> DEFINE d == Decided(s, a)
               t == NextPassOf(d)
    <3>1. bfgs' = [bfgs EXCEPT ![n] = t]
      BY <2>1, <2>9
    <3>2. Decision(s, d) /\ IsNode(d) /\ d.grad = EmptyBag
      BY <2>8, <2>9
    <3> HIDE DEF d
    <3>3. /\ KeepsPlace(d, t) /\ t.grad = EmptyBag
          /\ bfgsJob.output_regularizer /\ t.current_pass = LastPass => t.cond = EmptyBag
      BY <3>2, PassMemory
    <3>4. t.pc = "examples" /\ t.current_pass = d.current_pass + 1
      BY <3>2, NextPassBegins
    <3> HIDE DEF t
    <3>5. /\ s.next = 1 /\ s.pass = s.current_pass + 1 /\ s.current_pass \in Nat
      BY <1>1, <2>9 DEF Replay, OnLine
    <3>6. t.next = 1 /\ t.pass = t.current_pass /\ t.current_pass # 0
      BY <3>2, <3>3, <3>4, <3>5 DEF Decision, KeepsPlace
    <3>7. Counted(t, size) = 0
      BY <3>4, <3>6 DEF Counted
    <3>8. t.pc \notin Ends
      BY <3>4 DEF Ends
    <3>9. \A x : TermsUpto(n, 0, x) = EmptyBag
      BY NoTerms
    <3>10. GradHeld(t, n, size)
      BY <3>3, <3>7, <3>8, <3>9 DEF GradHeld
    <3>11. CondHeld(t, n, size)
      BY <3>3, <3>4, <3>6, <3>7, <3>8, <3>9 DEF CondHeld, Diagonals
    <3> QED
      BY <1>4, <3>1, <3>4, <3>10, <3>11
  <2>10. CASE a.what # "fail" /\ s.pc # "pass_end"
    <3> DEFINE d == Decided(s, a)
               t == AfterLoop(d)
    <3>1. bfgs' = [bfgs EXCEPT ![n] = t]
      BY <2>1, <2>10
    <3>2. IsNode(d) /\ d.cond = s.cond
      BY <2>8, <2>10
    <3> HIDE DEF d
    <3>3. /\ t.pc = "regularizer" /\ t.cond = s.cond
          /\ t.calls = IF bfgsJob.output_regularizer THEN <<"cond">> ELSE <<>>
      BY <3>2, LeavesLoop, LoopMemory
    <3> HIDE DEF t
    <3>4. s.pc = "job_end" /\ s.current_pass = LastPass
      BY <1>1, <2>2, <2>4, <2>10 DEF Within, Ends
    <3>5. bfgsJob.output_regularizer => s.cond = TermsUpto(n, size, Base(s))
      BY <1>1, <2>5, <3>4 DEF CondHeld, Diagonals
    <3>6. GradHeld(t, n, size) /\ CondHeld(t, n, size)
      BY <3>3, <3>5, LeftHeld
    <3>7. CASE ~bfgsJob.output_regularizer
      BY <1>4, <3>1, <3>3, <3>6, <3>7
    <3>8. CASE bfgsJob.output_regularizer
      <4>1. t.cond = TermsUpto(n, size, Base(s))
        BY <3>3, <3>5, <3>8
      <4>2. OnePoint(t, n, t, n)
        BY <3>3, <4>1 DEF OnePoint
      <4>3. ASSUME NEW k \in BfgsNode \ {n}, bfgsJob.shard[k] > 0
            PROVE  OnePoint(bfgs[k], k, t, n) /\ OnePoint(t, n, bfgs[k], k)
        <5> DEFINE u == bfgs[k]
        <5>1. u.pc = "regularizer" /\ u.calls # <<>> =>
                u.cond = TermsUpto(k, bfgsJob.shard[k], Base(s))
          BY <1>3, <2>4, <3>4, <4>3 DEF OnePoint
        <5>2. u.pc = "job_end" => Base(u) = Base(s)
          <6>1. SUFFICES ASSUME u.pc = "job_end" PROVE Base(u) = Base(s)
            OBVIOUS
          <6>2. u.pc \in Running /\ n \in Searching
            BY <2>4, <2>5, <6>1 DEF Running, Ends, Searching
          <6>3. Together(s, u)
            BY <2>2, <3>4, <4>3, <6>2, LastTogether
          <6> QED
            BY <6>3 DEF Together, SameCore, Base
        <5>3. OnePoint(u, k, t, n)
          BY <3>3, <4>1, <5>1 DEF OnePoint
        <5>4. OnePoint(t, n, u, k)
          BY <4>1, <5>1, <5>2 DEF OnePoint
        <5> QED
          BY <5>3, <5>4
      <4> QED
        BY <1>2, <3>1, <3>6, <4>2, <4>3, OneNodeHeld
    <3> QED
      BY <3>7, <3>8
  <2> QED
    BY <2>7, <2>9, <2>10
<1>6. CASE NothingToDecide(n)
  <2> DEFINE t == AfterLoop(s)
  <2>1. bfgs' = [bfgs EXCEPT ![n] = t] /\ s.pc = "job_end" /\ s.current_pass = 0
    BY <1>6 DEF NothingToDecide
  <2>2. /\ t.pc = "regularizer" /\ t.cond = s.cond
        /\ t.calls = IF bfgsJob.output_regularizer THEN <<"cond">> ELSE <<>>
    BY <1>1, LeavesLoop, LoopMemory
  <2> HIDE DEF t
  <2>3. size = 0
    BY <1>1, <2>1 DEF Within
  <2>4. s.cond = TermsUpto(n, size, Base(s))
    <3>1. s.pc \in Running /\ Diagonals(s) /\ Counted(s, size) = size
      BY <2>1 DEF Running, Ends, Diagonals, Counted
    <3> QED
      BY <1>1, <2>3, <3>1 DEF CondHeld
  <2>5. GradHeld(t, n, size) /\ CondHeld(t, n, size)
    BY <2>2, <2>4, LeftHeld
  <2>6. OnePoint(t, n, t, n)
    BY <2>2, <2>4 DEF OnePoint
  <2>7. ~(size > 0)
    BY <2>3
  <2> HIDE DEF size
  <2> QED
    BY <1>2, <2>1, <2>5, <2>6, <2>7, OneNodeHeld DEF size
<1>7. CASE BfgsDone(n)
  <2>1. bfgs' = [bfgs EXCEPT ![n] = done] /\ s.pc = "regularizer" /\ s.calls = <<>>
    BY <1>1, <1>7 DEF BfgsDone
  <2>2. done.pc = "done" /\ done.cond = s.cond
    BY <1>1, RestingSteps, RestingMemory
  <2> HIDE DEF done
  <2>3. done.pc \notin Running /\ done.pc \notin Ends
    BY <2>2 DEF Running, Ends
  <2>4. GradHeld(done, n, size) /\ CondHeld(done, n, size)
    BY <1>1, <2>1, <2>2, <2>3 DEF GradHeld, CondHeld
  <2> QED
    BY <1>4, <2>1, <2>2, <2>4
<1> QED
  BY <1>5, <1>6, <1>7 DEF BfgsDeciding

LEMMA InitHeld == BfgsInit => HeldInv
<1> SUFFICES ASSUME BfgsInit PROVE HeldInv
  OBVIOUS
<1>1. ASSUME NEW n \in BfgsNode
      PROVE  LET s == bfgs[n]  size == bfgsJob.shard[n] IN
             /\ GradHeld(s, n, size) /\ CondHeld(s, n, size) /\ s.pc # "regularizer"
  <2> DEFINE s == bfgs[n]
             size == bfgsJob.shard[n]
  <2>1. /\ s.pc = "examples" /\ s.pass = s.current_pass /\ s.next = 1
        /\ s.grad = EmptyBag /\ s.cond = EmptyBag /\ s.gradient_pass = TRUE
    BY DEF BfgsInit, BfgsStart
  <2>2. s.pc \notin Ends /\ Counted(s, size) = 0
    BY <2>1 DEF Ends, Counted
  <2>3. \A x : TermsUpto(n, 0, x) = EmptyBag
    BY NoTerms
  <2> QED
    BY <2>1, <2>2, <2>3 DEF GradHeld, CondHeld
<1> QED
  BY <1>1 DEF HeldInv, OnePoint

LEMMA NextHeld ==
  ASSUME LineInv, ReplayInv, LockInv, EndInv, HeldInv, MemoryInv,
         [BfgsReduce \/ \E n \in BfgsNode : BfgsStep(n)]_bfgsVars
  PROVE  HeldInv'
<1>1. CASE UNCHANGED bfgsVars
  <2>1. UNCHANGED bfgsJob /\ bfgs' = bfgs
    BY <1>1 DEF bfgsVars
  <2>2. \A n \in BfgsNode : /\ GradHeld(bfgs'[n], n, bfgsJob.shard[n])
                            /\ CondHeld(bfgs'[n], n, bfgsJob.shard[n])
    BY <2>1 DEF HeldInv
  <2>3. \A k, n \in BfgsNode : bfgsJob.shard[k] > 0 /\ bfgsJob.shard[n] > 0 =>
          OnePoint(bfgs'[k], k, bfgs'[n], n)
    BY <2>1 DEF HeldInv
  <2> QED
    BY <2>1, <2>2, <2>3, HeldLater
<1> QED
  BY <1>1, ReduceHeld, ReadingHeld, DecidingHeld DEF BfgsStep

----------------------------------------------------------------------------
(* mem, the direction and the preconditioner.                              *)
LEMMA MemoryLater ==
  ASSUME UNCHANGED bfgsJob, \A n \in BfgsNode : Memory(bfgs'[n])
  PROVE  MemoryInv'
<1> SUFFICES ASSUME NEW n \in BfgsNode PROVE Memory(bfgs[n])'
  BY DEF MemoryInv
<1>1. Memory(bfgs'[n])
  OBVIOUS
<1>2. Fresh(bfgs[n])' <=> Fresh(bfgs'[n])
  BY DEF Fresh
<1>3. Remembers(bfgs[n])' <=> Remembers(bfgs'[n])
  BY DEF Remembers, MemAt, MemSlot, MemStride, PairAt, AllTerms
<1>4. FromPath(bfgs[n])' <=> FromPath(bfgs'[n])
  BY DEF FromPath, PairAt, AllTerms
<1> QED
  BY <1>1, <1>2, <1>3, <1>4 DEF Memory, Searched

LEMMA MemoryStays ==
  ASSUME NEW s, NEW t, KeepsMemory(s, t), Memory(s), t.current_pass = s.current_pass
  PROVE  Memory(t)
  BY SearchedStays DEF Memory

LEMMA OneNodeRemembers ==
  ASSUME LineInv, MemoryInv, NEW n \in BfgsNode, NEW t, Memory(t),
         bfgs' = [bfgs EXCEPT ![n] = t], UNCHANGED bfgsJob
  PROVE  MemoryInv'
<1>1. \A k \in BfgsNode : Memory(bfgs'[k])
  BY DEF LineInv, MemoryInv
<1> QED
  BY <1>1, MemoryLater

LEMMA ReadingRemembers ==
  ASSUME LineInv, MemoryInv, NEW n \in BfgsNode, BfgsReading(n)
  PROVE  MemoryInv'
<1> DEFINE s == bfgs[n]
<1>1. OnLine(s) /\ IsNode(s) /\ Memory(s) /\ bfgs = [k \in BfgsNode |-> bfgs[k]]
  BY DEF LineInv, OnLine, MemoryInv
<1>2. UNCHANGED bfgsJob
  BY DEF BfgsReading, TakeExample, NextBfgsPass, EndBfgsPass
<1>3. ASSUME NEW t, bfgs' = [bfgs EXCEPT ![n] = t], KeepsMemory(s, t),
             t.current_pass = s.current_pass
      PROVE  MemoryInv'
  BY <1>1, <1>2, <1>3, MemoryStays, OneNodeRemembers
<1>4. CASE TakeExample(n)
  <2> DEFINE t == IF s.gradient_pass THEN GradientStep(s, n) ELSE CurvatureStep(s, n)
  <2>1. bfgs' = [bfgs EXCEPT ![n] = t]
    BY <1>4 DEF TakeExample
  <2>2. KeepsMemory(s, t) /\ t.current_pass = s.current_pass
    BY <1>1, ReadingMemory, ExampleStays DEF SameLine
  <2> HIDE DEF t
  <2> QED
    BY <1>3, <2>1, <2>2
<1>5. CASE NextBfgsPass(n)
  <2> DEFINE t == [s EXCEPT !.pass = s.pass + 1, !.next = 1]
  <2>1. bfgs' = [bfgs EXCEPT ![n] = t]
    BY <1>1, <1>5 DEF NextBfgsPass
  <2>2. t.current_pass = s.current_pass
    BY <1>1 DEF IsNode, Fields
  <2>3. KeepsMemory(s, t)
    BY <1>1, ReadingMemory
  <2> HIDE DEF t
  <2> QED
    BY <1>3, <2>1, <2>2, <2>3
<1>6. CASE EndBfgsPass(n)
  <2> DEFINE c == IF s.current_pass # 0 THEN CallsOf(s) ELSE <<>>
             t == [s EXCEPT !.pc = "pass_end", !.calls = CallsOf(s)]
             u == [s EXCEPT !.pc = "job_end", !.calls = c]
  <2>1. bfgs' = [bfgs EXCEPT ![n] = t] \/ bfgs' = [bfgs EXCEPT ![n] = u]
    BY <1>1, <1>6 DEF EndBfgsPass
  <2>2. t.current_pass = s.current_pass /\ u.current_pass = s.current_pass
    BY <1>1 DEF IsNode, Fields
  <2>3. KeepsMemory(s, t) /\ KeepsMemory(s, u)
    <3> HIDE DEF c
    <3> QED
      BY <1>1, ReadingMemory
  <2> HIDE DEF t, u
  <2> QED
    BY <1>3, <2>1, <2>2, <2>3
<1> QED
  BY <1>4, <1>5, <1>6 DEF BfgsReading

LEMMA ReduceRemembers ==
  ASSUME LineInv, MemoryInv, BfgsReduce
  PROVE  MemoryInv'
<1>1. PICK total : bfgs' = [n \in BfgsNode |-> Received(bfgs[n], total)]
  BY DEF BfgsReduce
<1>2. UNCHANGED bfgsJob
  BY DEF BfgsReduce
<1>3. ASSUME NEW n \in BfgsNode PROVE Memory(bfgs'[n])
  <2>1. bfgs'[n] = Received(bfgs[n], total) /\ OnLine(bfgs[n]) /\ Memory(bfgs[n])
    BY <1>1 DEF LineInv, MemoryInv
  <2>2. KeepsMemory(bfgs[n], bfgs'[n])
    BY <2>1, ReceivedMemory DEF OnLine
  <2>3. bfgs'[n].current_pass = bfgs[n].current_pass
    BY <2>1, ReceivedLeaves DEF SamePlace
  <2> QED
    BY <2>1, <2>2, <2>3, MemoryStays
<1> QED
  BY <1>2, <1>3, MemoryLater

LEMMA DecidingRemembers ==
  ASSUME LineInv, ReplayInv, LockInv, HeldInv, MemoryInv, NEW n \in BfgsNode, BfgsDeciding(n)
  PROVE  MemoryInv'
<1> DEFINE s == bfgs[n]
           size == bfgsJob.shard[n]
           failed == [s EXCEPT !.pc = "failed"]
           done == [s EXCEPT !.pc = "done"]
<1>1. /\ OnLine(s) /\ IsNode(s) /\ bfgs = [k \in BfgsNode |-> bfgs[k]] /\ AnswersFit
      /\ Replay(s, size) /\ size \in Nat /\ Alone(s, size)
      /\ GradHeld(s, n, size) /\ Memory(s) /\ bfgsJob.m \in Nat
  BY Sizes, LastIsLater DEF LineInv, OnLine, ReplayInv, LockInv, HeldInv, MemoryInv
<1>2. UNCHANGED bfgsJob
  BY DEF BfgsDeciding, Decide, NothingToDecide, BfgsDone
<1>3. ASSUME NEW t, bfgs' = [bfgs EXCEPT ![n] = t], Memory(t)
      PROVE  MemoryInv'
  BY <1>2, <1>3, OneNodeRemembers
<1>4. CASE Decide(n)
  <2>1. PICK a \in IF Question(s) \in DOMAIN answers THEN {answers[Question(s)]}
                   ELSE Answers(s) :
          bfgs' = [bfgs EXCEPT ![n] =
                     IF a.what = "fail" THEN failed
                     ELSE IF s.pc = "pass_end" THEN NextPassOf(Decided(s, a))
                     ELSE AfterLoop(Decided(s, a))]
    BY <1>4 DEF Decide
  <2>2. /\ s.pc \in Ends /\ s.calls = <<>> /\ s.pc # "failed"
        /\ s.pc = "pass_end" \/ s.current_pass # 0
    BY <1>4 DEF Decide, Ends
  <2>3. Fitting(Question(s), a)
    BY <1>1, <2>1, AnswersAreFitting DEF AnswersFit
  <2>4. size > 0
    BY <1>1, <2>2 DEF Replay, Alone
  <2>5. s.grad = IF s.gradient_pass THEN AllTerms(s.x) ELSE EmptyBag
    <3>1. s.pc \in Running
      BY <2>2 DEF Running
    <3> QED
      BY <1>1, <2>2, <2>4, <3>1 DEF GradHeld, OnLine
  <2> HIDE DEF failed
  <2>6. CASE a.what = "fail"
    <3>1. bfgs' = [bfgs EXCEPT ![n] = failed]
      BY <2>1, <2>6
    <3>2. KeepsMemory(s, failed) /\ failed.current_pass = s.current_pass
      BY <1>1, RestingMemory, RestingSteps DEF failed
    <3> QED
      BY <1>1, <1>3, <3>1, <3>2, MemoryStays
  <2>7. CASE a.what # "fail"
    <3> DEFINE d == Decided(s, a)
               t == NextPassOf(d)
               u == AfterLoop(d)
    <3>1. bfgs' = [bfgs EXCEPT ![n] = IF s.pc = "pass_end" THEN t ELSE u]
      BY <2>1, <2>7
    <3>2. Decision(s, d) /\ IsNode(d)
      BY <1>1, <2>2, <2>3, <2>7, Decisions DEF Decision
    <3>3. Searched(d)
      BY <1>1, <2>2, <2>3, <2>5, <2>7, DecidedMemory
    <3>4. d.current_pass = s.current_pass /\ s.current_pass \in Nat
      BY <1>1, <3>2 DEF Decision, OnLine
    <3> HIDE DEF d
    <3>5. Searched(t) /\ t.current_pass = d.current_pass + 1
      BY <3>2, <3>3, PassMemory, NextPassBegins, SearchedStays
    <3>6. Searched(u) /\ u.current_pass = d.current_pass
      BY <3>2, <3>3, LoopMemory, LeavesLoop, SearchedStays
    <3> HIDE DEF t, u
    <3>7. Memory(t)
      BY <3>4, <3>5 DEF Memory
    <3>8. s.pc # "pass_end" => Memory(u)
      BY <2>2, <3>4, <3>6 DEF Memory
    <3> QED
      BY <1>3, <3>1, <3>7, <3>8
  <2> QED
    BY <2>6, <2>7
<1>5. CASE NothingToDecide(n)
  <2>1. bfgs' = [bfgs EXCEPT ![n] = AfterLoop(s)]
    BY <1>5 DEF NothingToDecide
  <2>2. KeepsMemory(s, AfterLoop(s)) /\ AfterLoop(s).current_pass = s.current_pass
    BY <1>1, LoopMemory, LeavesLoop
  <2> QED
    BY <1>1, <1>3, <2>1, <2>2, MemoryStays
<1>6. CASE BfgsDone(n)
  <2>1. bfgs' = [bfgs EXCEPT ![n] = done]
    BY <1>1, <1>6 DEF BfgsDone
  <2>2. KeepsMemory(s, done) /\ done.current_pass = s.current_pass
    BY <1>1, RestingMemory, RestingSteps
  <2> HIDE DEF done
  <2> QED
    BY <1>1, <1>3, <2>1, <2>2, MemoryStays
<1> QED
  BY <1>4, <1>5, <1>6 DEF BfgsDeciding

LEMMA InitRemembers == BfgsInit => MemoryInv
<1> SUFFICES ASSUME BfgsInit, NEW n \in BfgsNode PROVE Memory(bfgs[n])
  BY DEF MemoryInv
<1>1. bfgs[n].current_pass = 0 /\ bfgs[n].origin = 0
      /\ bfgs[n].rho = [j \in 0..bfgsJob.m - 1 |-> NoBfgs]
  BY DEF BfgsInit, BfgsStart
<1> QED
  BY <1>1 DEF Memory, Fresh

LEMMA NextRemembers ==
  ASSUME LineInv, ReplayInv, LockInv, HeldInv, MemoryInv,
         [BfgsReduce \/ \E n \in BfgsNode : BfgsStep(n)]_bfgsVars
  PROVE  MemoryInv'
<1>1. CASE UNCHANGED bfgsVars
  <2>1. UNCHANGED bfgsJob /\ \A n \in BfgsNode : Memory(bfgs'[n])
    BY <1>1 DEF bfgsVars, MemoryInv
  <2> QED
    BY <2>1, MemoryLater
<1> QED
  BY <1>1, ReduceRemembers, ReadingRemembers, DecidingRemembers DEF BfgsStep

LEMMA SumsInvariant ==
  BfgsSpec => [](LineInv /\ LockInv /\ EndInv /\ HeldInv /\ MemoryInv)
<1>1. BfgsSpec => [](LineInv /\ ReplayInv)
  BY InitLine, NextLine, InitReplay, NextReplays, PTL DEF BfgsSpec
<1>2. BfgsSpec => []LockInv
  BY <1>1, InitLock, NextLock, PTL DEF BfgsSpec
<1>3. BfgsSpec => []EndInv
  BY <1>1, <1>2, InitEnds, NextEnds, PTL DEF BfgsSpec
<1>4. BfgsInit => HeldInv /\ MemoryInv
  BY InitHeld, InitRemembers
<1>5. LineInv /\ ReplayInv /\ LockInv /\ EndInv /\ HeldInv /\ MemoryInv
      /\ [BfgsReduce \/ \E n \in BfgsNode : BfgsStep(n)]_bfgsVars
      => (HeldInv /\ MemoryInv)'
  BY NextHeld, NextRemembers
<1> QED
  BY <1>1, <1>2, <1>3, <1>4, <1>5, PTL DEF BfgsSpec

(* bfgs_iter_start, bfgs_iter_middle: with any number of nodes, shards and *)
(* passes, any --mem and any answers, each direction is made of the whole  *)
(* cluster's gradient at the point accepted last and of the latest pairs   *)
(* of differences, as many as mem has room for, newest first.              *)
THEOREM DirectionsFromPath == BfgsSpec => []DirectionFromPath
<1>1. LineInv /\ MemoryInv => DirectionFromPath
  <2> SUFFICES ASSUME LineInv, MemoryInv, NEW n \in BfgsNode, bfgs[n].dir # NoBfgs
               PROVE  FromPath(bfgs[n])
    BY DEF DirectionFromPath, FromPath
  <2>1. OnLine(bfgs[n]) /\ Memory(bfgs[n])
    BY DEF LineInv, MemoryInv
  <2> QED
    BY <2>1 DEF OnLine, Memory, Searched
<1> QED
  BY <1>1, SumsInvariant, PTL

(* preconditioner_to_regularizer: with any number of nodes, with examples  *)
(* or without, what is saved with --output_feature_regularizer_* counts    *)
(* every example of the cluster once, all of them at one point.            *)
THEOREM RegularizerIsComplete == BfgsSpec => []RegularizerComplete
<1>1. HeldInv => RegularizerComplete
  <2> SUFFICES ASSUME HeldInv, NEW n \in BfgsNode, bfgsJob.output_regularizer,
                      bfgs[n].pc = "done"
               PROVE  \E x \in {t[3] : t \in BagToSet(bfgs[n].cond)} \cup {<<>>} :
                        bfgs[n].cond = AllTerms(x)
    BY DEF RegularizerComplete
  <2> DEFINE c == bfgs[n].cond
             terms(x) == UNION {{<<k, e, x>> : e \in 1..bfgsJob.shard[k]} : k \in BfgsNode}
  <2>1. PICK x : c = AllTerms(x)
    BY DEF HeldInv, CondHeld
  <2> HIDE DEF c
  <2>2. BagToSet(c) = terms(x)
    BY <2>1 DEF AllTerms, SetToBag, BagToSet
  <2>3. CASE terms(x) = {}
    <3>1. terms(<<>>) = {}
      <4>1. \A k \in BfgsNode : \A e \in 1..bfgsJob.shard[k] : <<k, e, x>> \in terms(x)
        OBVIOUS
      <4>2. \A k \in BfgsNode : 1..bfgsJob.shard[k] = {}
        BY <2>3, <4>1
      <4> QED
        BY <4>2
    <3>2. AllTerms(<<>>) = AllTerms(x)
      BY <2>3, <3>1 DEF AllTerms
    <3> QED
      BY <2>1, <3>2 DEF c
  <2>4. CASE terms(x) # {}
    <3>1. PICK t \in terms(x) : TRUE
      BY <2>4
    <3>2. t[3] = x
      BY <3>1
    <3>3. t \in BagToSet(c)
      BY <2>2, <3>1
    <3>4. x \in {t3[3] : t3 \in BagToSet(c)}
      BY <3>2, <3>3
    <3> QED
      BY <2>1, <3>4 DEF c
  <2> QED
    BY <2>3, <2>4
<1> QED
  BY <1>1, SumsInvariant, PTL

=============================================================================
