------------------------------- MODULE Example -------------------------------
(***************************************************************************)
(* One example on its way through the parser thread and a learner.  What   *)
(* is computed of it there depends on little of what it holds, which       *)
(* differs from stage to stage: "grams" and "parts" are setup_example's,   *)
(* "cache" is what the first pass writes and the second one reads, "loss"  *)
(* is what a linear learner and "factors" what gd_mf makes of it.  An      *)
(* example is looked at in one of the stages, with all that matters there. *)
(***************************************************************************)
EXTENDS CacheCodec, Features, LossFunctions, MatrixFactor

VARIABLE example

FeatureLists == UNION {[1..n -> 0..2 ^ MaskBits - 1] : n \in 0..MaxFeatures}

Inputs ==
  [stage : {"grams"}, ngram : 2..MaxGram, skips : 0..MaxSkips, length : 0..MaxLength]
  \cup [stage : {"parts"}, features : {UniqueSorted(f) : f \in FeatureLists}]
  \cup [stage : {"cache"}, features : Namespaces]
  \cup UNION {[stage : {"loss"}, loss : {f}, label : LabelsOf(f), partial : Numbers] :
                f \in {"squared", "classic", "hinge", "quantile"}}
  \cup [stage : {"factors"}, rank : Ranks, pairs : Pairs, slot : Contents,
         present : Contents]

ExampleStart == example = [stage |-> "unread"]

(* The parser thread fills a slot of the ring; the learner finishes it.    *)
ReadExample == /\ example.stage = "unread"
               /\ example' \in Inputs
FinishExample == /\ example.stage \notin {"unread", "finished"}
                 /\ example' = [stage |-> "finished"]
ExampleEnded == example.stage = "finished"

----------------------------------------------------------------------------
(* addgrams, generateGrams: with up to `skips' features left out of a gram *)
(* in all, each gram of 2 to ngram features is made, and made once, in     *)
(* spite of the two recursions.  (The comment at parser.cc:542 lists more  *)
(* than these: see GramsAsDescribed.)                                      *)
EveryGramOnce ==
  example.stage = "grams" =>
    LET made == Grams(example.ngram, example.skips, example.length) IN
    /\ Range(made) = GramChoices(example.ngram, example.skips, example.length)
    /\ IsInjective(made)

(* search, setup_example: part e of sorted features are those with an      *)
(* index in its range, for any number of parts; the hosts of --sendto get  *)
(* every feature, and every pair of features of two namespaces, one time.  *)
EachPartOnce ==
  example.stage = "parts" =>
    LET f == example.features IN
    /\ \A parts \in {2 ^ k : k \in 0..MaskBits} :
         LET size == 2 ^ MaskBits \div parts IN
         \A e \in 1..parts :
           Part(f, parts, e, e) = {i \in Range(f) : i \div size = e - 1}
    /\ \A hosts \in 1..MaxHosts :
         LET one == Split(hosts, FALSE)
             two == Split(hosts, TRUE)
         IN /\ \A i \in Range(f) :
                 Cardinality({h \in Hosts(one) : i \in SentTo(f, one, h, FALSE)}) = 1
            /\ \A i, j \in Range(f) :
                 Cardinality({h \in Hosts(two) : i \in SentTo(f, two, h, FALSE)
                                           /\ j \in SentTo(f, two, h, TRUE)}) = 1

(* parser.cc:547, "h(a, b) = h(a)*X + h(b), where X is a random no.": for  *)
(* some numbers drawn another feature in a gram gives it another index.    *)
ToldApart(gram) ==
  \A k \in DOMAIN gram :
    \E draws \in [DOMAIN gram -> Draws] : \E i, j \in 0..2 ^ MaskBits - 1 :
      LET with(a) == [n \in 1..example.length |-> IF n = gram[k] THEN a ELSE 0]
          random_nos == [n \in DOMAIN gram |-> RandomNo(draws[n])]
      IN GramIndex(with(i), gram, random_nos) # GramIndex(with(j), gram, random_nos)

(* The comment at parser.cc:539 says what generateGrams adds.  Its example *)
(* of 1-skip-3-grams, of the features a to f: each gram it lists, "ace"    *)
(* and "bdf" too, is made, and its index depends on each of its features.  *)
GramsAsDescribed ==
  example = [stage |-> "grams", ngram |-> 3, skips |-> 1, length |-> 6] =>
    \A gram \in GramsListed(3, 1, 6) :
      gram \in Range(Grams(3, 1, 6)) /\ ToldApart(gram)

----------------------------------------------------------------------------
(* Features that the cache is given in order of their indexes.             *)
WrittenInOrder ==
  /\ example.stage = "cache"
  /\ \A k \in 2..Len(example.features) :
       example.features[k - 1][1] <= example.features[k][1]

(* output_features, read_cached_features: as long as the largest index,    *)
(* doubled and shifted by two, still fits an unsigned int, the features of *)
(* a namespace are read back as they were up to the first that comes out   *)
(* of order; ae->sorted tells whether there is one; all features, and      *)
(* their kinds, are read; and their runs are no longer than what buf_write *)
(* made room for (sizeof int_size bytes each).                             *)
IntSize == 6
IndexRoundTrip ==
  (example.stage = "cache" /\ CacheBits <= Width - 3) =>
    LET f == example.features
        back == ReadNamespace(Bytes(f))
        ordered(n) == \A k \in 2..n : f[k - 1][1] <= f[k][1]
    IN /\ Len(back.features) = Len(f)
       /\ \A n \in DOMAIN f : /\ back.features[n][2] = f[n][2]
                               /\ ordered(n) => back.features[n] = f[n]
                               /\ Len(RunOf[CodeOf(f, n)]) <= IntSize
       /\ back.sorted = ordered(Len(f))

(* parse_args.cc:133, "turn this on to disregard order in which features   *)
(* have been defined": without --sort_features, the default, features come *)
(* to the cache in any order, and are read back from it in this order,     *)
(* which is what a difference below 0 and its zig-zag code are for.        *)
UnsortedRoundTrip ==
  example.stage = "cache" =>
    ReadNamespace(Bytes(example.features)).features = example.features

(* cache.cc:191: the comment there stores the size of a namespace before   *)
(* its bytes, so that the reader takes up these and leaves the next ones.  *)
CacheRoundTrip ==
  WrittenInOrder =>
    LET written == Output(example.features) IN
    ReadNamespace(SubSeq(written, 2, 1 + written[1])).features = example.features

----------------------------------------------------------------------------
(* first_derivative is a slope of the graph of getLoss that supports it    *)
(* everywhere, on both sides of every kink and of the range of labels: a   *)
(* line search along it cannot be sent uphill by a loss that disagrees.    *)
DerivativeSupportsLoss ==
  LET f == example.loss
      y == example.label
      p == example.partial
  IN \A q \in Numbers :
       Loss(f, q, y) >= Loss(f, p, y) + FirstDerivative(f, p, y) * (q - p)

(* getUpdate of the two losses made for importance weights: an example of  *)
(* weight a + b moves a prediction as the same example of weight a, then   *)
(* of weight b, would, and never makes the loss larger.                    *)
WeightAsRepetition ==
  LET f == example.loss
      y == example.label
      p == example.partial
  IN \A a, b \in Etas :
       LET once == Updated(f, p, y, a + b) IN
       /\ Updated(f, Updated(f, p, y, a), y, b) = once
       /\ (f = "squared" => p \in MinLabel..MaxLabel) =>
            Loss(f, once, y) <= Loss(f, p, y)

LossesAndUpdates ==
  example.stage = "loss" =>
    /\ DerivativeSupportsLoss
    /\ example.loss \in {"squared", "hinge"} => WeightAsRepetition

----------------------------------------------------------------------------
(* mf_inline_predict, mf_inline_train: an example that comes into a slot   *)
(* after another, with other namespaces, moves each weight by the other    *)
(* factor of its own product.  (Of several pairs that are present the      *)
(* later ones take the factors of the first.)                              *)
FactorsMatched ==
  (example.stage = "factors" /\ Len(Present(example.pairs, example.present)) <= 1) =>
    LET rank == example.rank
        ps == example.pairs
        ec == example.present
        topics == Predicted(Predicted(<<>>, 1, example.slot, ps, rank), 2, ec, ps, rank)
    IN /\ Moves(topics, ec, ps, rank) = Gradient(2, ec, ps, rank)
       /\ {<<topics[n], topics[n + 1]>> :
              n \in {2 * k : k \in 1..(Len(topics) - 1) \div 2}}
            = ProductsOf(2, ec, ps, rank)
=============================================================================
