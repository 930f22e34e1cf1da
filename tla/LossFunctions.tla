--------------------------- MODULE LossFunctions ----------------------------
(***************************************************************************)
(* The loss functions (loss_functions.cc): what a prediction costs, what   *)
(* its derivative is (bfgs.cc descends along it), and how far one update   *)
(* moves a prediction (gd.cc).  One is Unit, a number a multiple of its    *)
(* fractions; tau is Tau out of Taus, and a quantile loss Taus-fold.  An   *)
(* update is multiplied by norm, which getUpdate divides by: it is how far *)
(* the prediction moves.  logloss has no values that can be enumerated.    *)
(***************************************************************************)
EXTENDS Integers

CONSTANTS Unit,     \* 1.0
          Numbers,  \* predictions
          Labels,   \* labels of regression, from min_label to max_label
          Tau, Taus,
          Etas      \* learning rates, a number of halvings or of Units

ASSUME LossAssumption ==
  /\ Unit \in Nat \ {0} /\ Numbers \subseteq Int /\ Labels \subseteq Numbers
  /\ Tau \in 0..Taus /\ Etas \subseteq Nat

MinLabel == CHOOSE a \in Labels : \A b \in Labels : a <= b
MaxLabel == CHOOSE a \in Labels : \A b \in Labels : a >= b
Unclipped(p) == p
Clipped(p) == IF p < MinLabel THEN MinLabel ELSE IF p > MaxLabel THEN MaxLabel ELSE p
LabelsOf(f) == IF f = "hinge" THEN {-Unit, Unit} ELSE Labels

(* getLoss: squaredloss goes on along the tangent outside of the range.    *)
SquaredLoss(p, y) ==
  IF p < MinLabel
  THEN (y - MinLabel) ^ 2 + 2 * (y - MinLabel) * (MinLabel - p)
  ELSE IF p > MaxLabel
  THEN (MaxLabel - y) ^ 2 + 2 * (MaxLabel - y) * (p - MaxLabel)
  ELSE (p - y) ^ 2
HingeLoss(p, y) == IF Unit ^ 2 > y * p THEN Unit ^ 2 - y * p ELSE 0
QuantileLoss(p, y) == IF y > p THEN Tau * (y - p) ELSE (Taus - Tau) * (p - y)

Loss(f, p, y) ==
  CASE f = "squared" -> SquaredLoss(p, y)
    [] f = "classic" -> (p - y) ^ 2
    [] f = "hinge" -> HingeLoss(p, y)
    [] f = "quantile" -> QuantileLoss(p, y)

(* first_derivative.                                                       *)
FirstDerivative(f, p, y) ==
  CASE f = "squared" -> 2 * (Clipped(p) - y)
    [] f = "classic" -> 2 * (p - y)
    [] f = "hinge" -> IF y * p >= y * y THEN 0 ELSE -y
    [] f = "quantile" -> IF y = p THEN 0 ELSE IF y > p THEN -Tau ELSE Taus - Tau

(* getUpdate: 1 - exp(-eta) of the way for eta = n * log 2, n halvings; a  *)
(* hinge update never leads past the label.                                *)
SquaredUpdate(p, y, n) == ((y - p) * (2 ^ n - 1)) \div 2 ^ n
HingeUpdate(p, y, eta) ==
  LET err == Unit - (y * p) \div Unit IN
  IF y * p >= y * y THEN 0
  ELSE (y \div Unit) * IF eta < err THEN eta ELSE err

Updated(f, p, y, eta) ==
  p + IF f = "hinge" THEN HingeUpdate(p, y, eta) ELSE SquaredUpdate(p, y, eta)
==============================================================================
