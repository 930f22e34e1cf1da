------------------------------ MODULE Features ------------------------------
(***************************************************************************)
(* What the parser makes of the features of a namespace before a learner   *)
(* sees them: k-skip-n-grams, sorting, and the boundaries of the parts     *)
(* that the threads of a learner, or the hosts of --sendto, work on        *)
(* (parser.cc, unique_sort.cc, sender.cc).  A feature is its index.        *)
(***************************************************************************)
EXTENDS Integers, FiniteSets, SequencesExt

CONSTANTS MaxLength,  \* bound: features grams are made of
          MaxFeatures, \* bound: features that are divided
          MaxGram, MaxSkips,  \* bounds: --ngram, --skips
          MaskBits,   \* bound: the b of 2^b indexes
          RandMax,    \* RAND_MAX
          DrawUnit,   \* drand48() draws one of so many parts of 1
          MaxHosts    \* bound: hosts of --sendto

ASSUME FeaturesAssumption ==
  /\ {MaxLength, MaxFeatures, MaxGram, MaxSkips, MaskBits, MaxHosts,
      RandMax, DrawUnit} \subseteq Nat
  /\ DrawUnit > 0

----------------------------------------------------------------------------
(* addgrams: the masks of offsets it makes, in order; every one is laid on *)
(* each position where it fits.                                            *)
RECURSIVE Masks(_, _, _, _)
Masks(ngram, skip_gram, mask, skips) ==
  IF ngram = 0 THEN <<mask>>
  ELSE Masks(ngram - 1, skip_gram, Append(mask, Last(mask) + 1 + skips), 0)
       \o IF skip_gram = 0 THEN <<>>
          ELSE Masks(ngram, skip_gram - 1, mask, skips + 1)

Laid(mask, length) ==
  [i \in 1..(IF Last(mask) < length THEN length - Last(mask) ELSE 0) |->
     [n \in DOMAIN mask |-> i + mask[n]]]

(* generateGrams: 2-grams, 3-grams, up to ngram-grams.                     *)
UptoLess(ngram) == [n \in 1..ngram - 2 |-> n]
Upto(ngram) == [n \in 1..ngram - 1 |-> n]
Grams(ngram, skips, length) ==
  FlattenSeq([n \in DOMAIN Upto(ngram) |->
    FlattenSeq([k \in DOMAIN Masks(n, skips, <<0>>, 0) |->
      Laid(Masks(n, skips, <<0>>, 0)[k], length)])])

(* start_parser draws random_nos; the cast is applied to the draw alone.   *)
Draws == 0..DrawUnit - 1
RandomNo(draw) == (draw \div DrawUnit) * RandMax

(* The index a gram gets, of features with the indexes f.                  *)
GramIndex(f, gram, random_nos) ==
  FoldLeftDomain(LAMBDA index, n :
                   index + (IF n = 1 THEN 1 ELSE random_nos[n]) * f[gram[n]],
                 0, gram) % 2 ^ MaskBits

(* k-skip-n-grams: every choice of 2 to ngram features in their order that *)
(* leaves out no more than k = skips between the first and the last one,   *)
(* as addgrams passes on what is left of skip_gram.                        *)
GramChoices(ngram, skips, length) ==
  {g \in UNION {[1..n -> 1..length] : n \in 2..ngram} :
     /\ \A i \in 2..Len(g) : g[i - 1] < g[i]
     /\ g[Len(g)] - g[1] - (Len(g) - 1) <= skips}

(* The two lists in the comment at parser.cc:542, which are of one rule:   *)
(* up to k features are left out between each two of a gram.               *)
GramsListed(ngram, skips, length) ==
  {g \in [1..ngram -> 1..length] :
     \A i \in 2..ngram : g[i] - g[i - 1] \in 1..skips + 1}

----------------------------------------------------------------------------
(* unique_sort_features: in order, each index once.                        *)
UniqueSorted(features) == SetToSortSeq(Range(features), <)

(* search: the first position in from..to whose index is >= value, or to.  *)
RECURSIVE SearchAfter(_, _, _, _)
SearchAfter(f, from, value, to) ==
  IF to - from <= 1 THEN IF f[from] > value THEN from ELSE to
  ELSE LET middle == from + (to - from) \div 2 IN
       IF f[middle] > value THEN SearchAfter(f, from, value, middle)
       ELSE SearchAfter(f, middle, value, to)
RECURSIVE Search(_, _, _, _)
Search(f, from, value, to) ==
  IF to - from <= 1 THEN IF f[from] >= value THEN from ELSE to
  ELSE LET middle == from + (to - from) \div 2 IN
       IF f[middle] >= value THEN Search(f, from, value, middle)
       ELSE Search(f, middle, value, to)

(* setup_example: part e begins at subsets[e] and ends before the next.    *)
RECURSIVE Boundaries(_, _, _, _)
Boundaries(f, current, size, from) ==
  IF current > 2 ^ MaskBits THEN <<from>>
  ELSE LET end == Len(f) + 1
           next == IF end > from THEN Search(f, from, current, end) ELSE from
       IN <<from>> \o Boundaries(f, current + size, size, next)

Subsets(f, parts) ==
  LET size == 2 ^ MaskBits \div parts IN Boundaries(f, size, size, 1)

Part(f, parts, first, last) ==
  {f[i] : i \in Subsets(f, parts)[first]..Subsets(f, parts)[last + 1] - 1}

----------------------------------------------------------------------------
(* find_split, send_features: host <<i, j>> gets of a namespace that is    *)
(* the second of a pair the j-th piece, of any other the i-th.             *)
Log2(n) == CHOOSE k \in 0..n : 2 ^ k <= n /\ n < 2 ^ (k + 1)
Split(hosts, pairs) ==
  LET log_2 == Log2(hosts)
      a == IF pairs THEN log_2 \div 2 ELSE 0
  IN <<2 ^ (log_2 - a), 2 ^ a>>

SentTo(f, d, host, second) ==
  LET parts == d[1] * d[2]
      first == IF second THEN host[2] * d[1] ELSE host[1] * d[2]
      count == IF second THEN d[1] ELSE d[2]
  IN Part(f, parts, first + 1, first + count)

Hosts(d) == (0..d[1] - 1) \X (0..d[2] - 1)
==============================================================================
