---------------------------- MODULE MatrixFactor ----------------------------
(***************************************************************************)
(* --rank: gd_mf.cc, with one thread.  Every feature has a linear weight,  *)
(* rank left and rank right ones; a pair of namespaces adds the products   *)
(* of their dot products to the prediction.  mf_inline_predict leaves them *)
(* in topic_predictions of the example, and mf_inline_train picks each     *)
(* factor up there by its position.  A slot of the example ring holds one  *)
(* example after another, and its topic_predictions remain.  A number is   *)
(* named for what it is: <<"l", e, pair, k>> is x_dot_l, k of that pair in *)
(* the e-th example of the slot.                                           *)
(***************************************************************************)
EXTENDS Integers, SequencesExt

CONSTANTS Ranks,     \* --rank
          Pairs,     \* -q, sequences of pairs of namespaces
          Contents  \* the namespaces of an example that are not empty

ASSUME MatrixAssumption ==
  /\ Ranks \subseteq Nat \ {0}
  /\ \A ps \in Pairs : \A i \in DOMAIN ps : ps[i] \in Seq(STRING)

Present(ps, ec) == SelectSeq(ps, LAMBDA p : p[1] \in ec /\ p[2] \in ec)

(* mf_inline_predict: erase(), then push() one after the other.            *)
NotErased(topics) == topics
Erased(topics) == <<>>
Predicted(topics, e, ec, ps, rank) ==
  Erased(topics) \o << <<"linear", e>> >>
    \o FlattenSeq([i \in DOMAIN Present(ps, ec) |->
         FlattenSeq([k \in 1..rank |->
           << <<"l", e, Present(ps, ec)[i], k>>, <<"r", e, Present(ps, ec)[i], k>> >>])])

(* The prediction is the linear part and the products.                     *)
ProductsOf(e, ec, ps, rank) ==
  {<< <<"l", e, p, k>>, <<"r", e, p, k>> >> : p \in Range(Present(ps, ec)), k \in 1..rank}

(* mf_inline_train: which weights of which namespace move, at which offset *)
(* of their block, and by which factor besides update and x.               *)
Factor(topics, i) == topics[i + 1]
Moves(topics, ec, ps, rank) ==
  UNION {{<<p[1], k, Factor(topics, 2 * k)>>,
          <<p[2], k + rank, Factor(topics, 2 * k - 1)>>} :
           p \in Range(Present(ps, ec)), k \in 1..rank}

(* What the derivative of the products by these weights is.                *)
Gradient(e, ec, ps, rank) ==
  UNION {{<<p[1], k, <<"r", e, p, k>> >>, <<p[2], k + rank, <<"l", e, p, k>> >>} :
           p \in Range(Present(ps, ec)), k \in 1..rank}
==============================================================================
