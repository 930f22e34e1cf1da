----------------------------- MODULE LdaProofs ------------------------------
(***************************************************************************)
(* Proofs about Lda, for any documents, words, minibatch and ring.         *)
(***************************************************************************)
EXTENDS Lda, TLAPS

LdaTypeOK ==
  /\ ldaJob \in LdaJobs
  /\ parsedDocs \in Nat /\ usedDocs \in Nat /\ ldaDone \in BOOLEAN
  /\ batch \in Seq(Nat) /\ batch_size \in Nat /\ finishedDocs \in Seq(Nat)
  /\ example_t \in Nat \ {0} /\ levels \in Seq(Nat)
  /\ last_t \in [Word -> Nat] /\ DOMAIN decayed = Word
  /\ ldaEnded \in BOOLEAN

(* Every level adds up one minibatch more than the one before; a word was  *)
(* met in a minibatch there was.                                           *)
LevelsInv ==
  /\ ~ldaEnded => levels = [i \in 1..example_t |-> i - 1]
  /\ ~ldaEnded => \A w \in Word : last_t[w] <= example_t - 1

DecayInv == LdaTypeOK /\ LevelsInv /\ DecayedOncePerBatch

----------------------------------------------------------------------------
(* Runs of minibatches that follow each other.                             *)
LEMMA RunsJoin ==
  ASSUME NEW a \in Nat, NEW b \in Nat, NEW c \in Nat, a <= b, b <= c
  PROVE  SetToBag(a + 1..b) (+) SetToBag(b + 1..c) = SetToBag(a + 1..c)
<1> DEFINE S == a + 1..b
           T == b + 1..c
<1>1. S \cap T = {} /\ S \cup T = a + 1..c
  OBVIOUS
<1>2. /\ DOMAIN SetToBag(S) = S /\ DOMAIN SetToBag(T) = T
      /\ \A e \in S : SetToBag(S)[e] = 1
      /\ \A e \in T : SetToBag(T)[e] = 1
  BY DEF SetToBag
<1> HIDE DEF S, T
<1>3. SetToBag(S) (+) SetToBag(T) =
        [e \in S \cup T |-> (IF e \in S THEN 1 ELSE 0) + (IF e \in T THEN 1 ELSE 0)]
  BY <1>2 DEF (+)
<1>4. \A e \in S \cup T :
        (IF e \in S THEN 1 ELSE 0) + (IF e \in T THEN 1 ELSE 0) = 1
  BY <1>1
<1> QED
  BY <1>1, <1>3, <1>4 DEF SetToBag, S, T

LEMMA RunsFromOne ==
  ASSUME NEW b \in Nat, NEW c \in Nat, b <= c
  PROVE  SetToBag(1..b) (+) SetToBag(b + 1..c) = SetToBag(1..c)
<1> DEFINE a == 0
<1>1. a \in Nat /\ a <= b /\ a + 1 = 1
  OBVIOUS
<1> HIDE DEF a
<1>2. SetToBag(a + 1..b) (+) SetToBag(b + 1..c) = SetToBag(a + 1..c)
  BY <1>1, RunsJoin
<1> QED
  BY <1>1, <1>2

LEMMA RunIsOne ==
  ASSUME NEW a \in Nat
  PROVE  SetToBag({a + 1}) = SetToBag(a + 1..a + 1)
<1>1. {a + 1} = a + 1..a + 1
  OBVIOUS
<1> QED
  BY <1>1

LEMMA InitDecay == LdaInit => DecayInv
<1> SUFFICES ASSUME LdaInit PROVE DecayInv
  OBVIOUS
<1>1. ldaJob \in LdaJobs /\ ldaJob.minibatch \in Nat
  BY LdaAssumption DEF LdaInit, LdaStart
<1>2. LdaTypeOK
  <2>1. <<>> \in Seq(Nat) /\ <<0>> \in Seq(Nat)
    OBVIOUS
  <2>2. /\ ldaJob \in LdaJobs /\ parsedDocs = 0 /\ usedDocs = 0 /\ ldaDone = FALSE
        /\ batch = <<>> /\ batch_size = ldaJob.minibatch /\ finishedDocs = <<>>
        /\ example_t = 1 /\ levels = <<0>> /\ ldaEnded = FALSE
    BY DEF LdaInit, LdaStart
  <2>3. last_t \in [Word -> Nat] /\ DOMAIN decayed = Word
    BY DEF LdaInit, LdaStart
  <2>4. ldaDone \in BOOLEAN /\ ldaEnded \in BOOLEAN
    BY <2>2
  <2>5. example_t \in Nat \ {0} /\ parsedDocs \in Nat /\ usedDocs \in Nat
    BY <2>2
  <2>6. batch \in Seq(Nat) /\ finishedDocs \in Seq(Nat) /\ levels \in Seq(Nat)
    BY <2>1, <2>2
  <2> QED
    BY <1>1, <2>2, <2>3, <2>4, <2>5, <2>6 DEF LdaTypeOK
<1>3. LevelsInv
  <2>1. <<0>> = [i \in 1..1 |-> i - 1]
    OBVIOUS
  <2> QED
    BY <2>1 DEF LdaInit, LdaStart, LevelsInv
<1>4. SetToBag(1..0) = EmptyBag
  <2>1. 1..0 = {}
    OBVIOUS
  <2> QED
    BY <2>1 DEF EmptyBag
<1> QED
  BY <1>2, <1>3, <1>4 DEF DecayInv, DecayedOncePerBatch, LdaInit, LdaStart

(* The minibatch itself.                                                   *)
LEMMA BatchDecay ==
  ASSUME DecayInv, ProcessBatch
  PROVE  DecayInv'
<1> DEFINE lv == Append(levels, Last(levels) + 1)
           t == example_t
           met == WordsIn(batch)
           seen == [w \in Word |-> IF w \in met THEN t ELSE last_t[w]]
           caughtUp == [w \in Word |->
             IF w \in met
             THEN decayed[w] (+) Between(lv, LevelOf(lv, t, w), Len(lv) - 1)
                             (+) SetToBag({t})
             ELSE decayed[w]]
           swept == [w \in Word |->
             IF w \in met THEN caughtUp[w]
             ELSE caughtUp[w] (+) Between(lv, LevelOf(lv, t, w), Len(lv))]
<1>1. /\ ~ldaEnded /\ last_t' = seen /\ levels' = lv
      /\ decayed' = IF ThreadDone THEN swept ELSE caughtUp
      /\ finishedDocs' = finishedDocs \o batch /\ batch' = <<>>
      /\ ldaEnded' = ThreadDone
      /\ example_t' = IF ThreadDone THEN t ELSE t + 1
      /\ batch_size' = IF ThreadDone THEN batch_size ELSE ldaJob.minibatch
      /\ UNCHANGED <<ldaJob, parsedDocs, usedDocs, ldaDone>>
  BY DEF ProcessBatch
<1>2. t \in Nat \ {0} /\ levels = [i \in 1..t |-> i - 1]
  BY <1>1 DEF DecayInv, LdaTypeOK, LevelsInv
<1>3. lv = [i \in 1..t + 1 |-> i - 1] /\ Len(lv) = t + 1
  <2>1. Len(levels) = t /\ Last(levels) = t - 1
    BY <1>2 DEF Last
  <2> QED
    BY <1>2, <2>1
<1> HIDE DEF lv
<1>4. ASSUME NEW w \in Word
      PROVE  /\ last_t[w] \in Nat /\ last_t[w] <= t - 1
             /\ decayed[w] = SetToBag(1..last_t[w])
             /\ LevelOf(lv, t, w) = last_t[w] + 1
  <2>1. last_t[w] \in Nat /\ last_t[w] <= t - 1 /\ decayed[w] = SetToBag(1..last_t[w])
    BY <1>1 DEF DecayInv, LdaTypeOK, LevelsInv, DecayedOncePerBatch
  <2> QED
    BY <1>2, <1>3, <2>1 DEF LevelOf
<1>5. ASSUME NEW l \in Nat, l <= t - 1
      PROVE  lv[l + 1] = l /\ lv[t] = t - 1 /\ lv[t + 1] = t
  BY <1>2, <1>3, <1>5
<1>6. ASSUME NEW w \in Word, w \in met
      PROVE  caughtUp[w] = SetToBag(1..t)
  <2> DEFINE l == last_t[w]
             last == t - 1
  <2>1. l \in Nat /\ l <= last /\ last \in Nat /\ t = last + 1
    BY <1>2, <1>4
  <2>2. Between(lv, LevelOf(lv, t, w), Len(lv) - 1) = SetToBag(l + 1..last)
    <3>1. LevelOf(lv, t, w) = l + 1 /\ Len(lv) - 1 = t
      BY <1>2, <1>3, <1>4
    <3>2. lv[l + 1] = l /\ lv[t] = last
      BY <1>5, <2>1
    <3> QED
      BY <3>1, <3>2 DEF Between
  <2>3. caughtUp[w] = SetToBag(1..l) (+) SetToBag(l + 1..last) (+) SetToBag({t})
    BY <1>4, <1>6, <2>2
  <2> HIDE DEF l, last
  <2>4. SetToBag(1..l) (+) SetToBag(l + 1..last) = SetToBag(1..last)
    BY <2>1, RunsFromOne
  <2>5. SetToBag(1..last) (+) SetToBag({last + 1}) = SetToBag(1..last + 1)
    <3>1. last + 1 \in Nat /\ last <= last + 1
      BY <2>1
    <3>2. SetToBag(1..last) (+) SetToBag(last + 1..last + 1) = SetToBag(1..last + 1)
      BY <2>1, <3>1, RunsFromOne
    <3>3. SetToBag({last + 1}) = SetToBag(last + 1..last + 1)
      BY <2>1, RunIsOne
    <3> QED
      BY <3>2, <3>3
  <2> QED
    BY <2>1, <2>3, <2>4, <2>5
<1>7. ASSUME NEW w \in Word, w \notin met
      PROVE  /\ caughtUp[w] = SetToBag(1..last_t[w])
             /\ swept[w] = SetToBag(1..t)
  <2> DEFINE l == last_t[w]
  <2>1. l \in Nat /\ l <= t - 1 /\ l <= t /\ t \in Nat
    BY <1>2, <1>4
  <2>2. caughtUp[w] = SetToBag(1..l)
    BY <1>4, <1>7
  <2>3. Between(lv, LevelOf(lv, t, w), Len(lv)) = SetToBag(l + 1..t)
    <3>1. LevelOf(lv, t, w) = l + 1 /\ Len(lv) = t + 1
      BY <1>3, <1>4
    <3>2. lv[l + 1] = l /\ lv[t + 1] = t
      BY <1>5, <2>1
    <3> QED
      BY <3>1, <3>2 DEF Between
  <2>4. swept[w] = SetToBag(1..l) (+) SetToBag(l + 1..t)
    BY <1>7, <2>2, <2>3
  <2> HIDE DEF l
  <2>5. SetToBag(1..l) (+) SetToBag(l + 1..t) = SetToBag(1..t)
    BY <2>1, RunsFromOne
  <2> QED
    BY <2>2, <2>4, <2>5 DEF l
<1> HIDE DEF caughtUp
<1>9. DecayedOncePerBatch'
  <2> SUFFICES ASSUME NEW w \in Word
               PROVE  decayed'[w] =
                        SetToBag(1..(IF ldaEnded' THEN example_t' ELSE last_t'[w]))
    BY DEF DecayedOncePerBatch
  <2>1. CASE ThreadDone
    <3>1. decayed'[w] = swept[w]
      BY <1>1, <2>1
    <3>2. swept[w] = SetToBag(1..t)
      BY <1>6, <1>7
    <3> QED
      BY <1>1, <2>1, <3>1, <3>2
  <2>2. CASE ~ThreadDone
    <3>1. decayed'[w] = caughtUp[w] /\ last_t'[w] = IF w \in met THEN t ELSE last_t[w]
      BY <1>1, <2>2
    <3>2. ldaEnded' = FALSE
      BY <1>1, <2>2
    <3> QED
      BY <1>6, <1>7, <3>1, <3>2
  <2> QED
    BY <2>1, <2>2
<1>10. LdaTypeOK'
  <2>1. DOMAIN decayed' = Word
    BY <1>1 DEF caughtUp
  <2>2. lv \in Seq(Nat)
    BY <1>2, <1>3
  <2>3. seen \in [Word -> Nat]
    BY <1>2, <1>4
  <2>4. ldaJob.minibatch \in Nat
    BY LdaAssumption DEF DecayInv, LdaTypeOK
  <2>5. ThreadDone \in BOOLEAN
    BY DEF ThreadDone, DecayInv, LdaTypeOK
  <2>6. batch' \in Seq(Nat) /\ finishedDocs' \in Seq(Nat)
    BY <1>1 DEF DecayInv, LdaTypeOK
  <2> QED
    BY <1>1, <1>2, <2>1, <2>2, <2>3, <2>4, <2>5, <2>6 DEF DecayInv, LdaTypeOK
<1>11. LevelsInv'
  <2>1. CASE ThreadDone
    BY <1>1, <2>1 DEF LevelsInv
  <2>2. CASE ~ThreadDone
    <3>1. example_t' = t + 1 /\ levels' = lv /\ last_t' = seen
      BY <1>1, <2>2
    <3>2. \A w \in Word : seen[w] <= t
      BY <1>2, <1>4
    <3> HIDE DEF seen
    <3>3. \A w \in Word : last_t'[w] <= example_t' - 1
      BY <1>2, <3>1, <3>2
    <3> QED
      BY <1>3, <3>1, <3>3 DEF LevelsInv
  <2> QED
    BY <2>1, <2>2
<1> QED
  BY <1>9, <1>10, <1>11 DEF DecayInv

(* The other steps touch no weights.                                       *)
LEMMA OtherDecay ==
  ASSUME DecayInv,
         LdaParsing \/ GetDoc \/ CutBatch \/ UNCHANGED ldaVars
  PROVE  DecayInv'
<1>1. UNCHANGED <<ldaJob, example_t, levels, last_t, decayed, finishedDocs, ldaEnded>>
  BY DEF LdaParsing, ParseDoc, ParserEnds, GetDoc, CutBatch, ldaVars
<1>2. ldaDone' \in BOOLEAN
  BY DEF DecayInv, LdaTypeOK, LdaParsing, ParseDoc, ParserEnds, GetDoc, CutBatch, ldaVars
<1>3. /\ parsedDocs' \in Nat /\ usedDocs' \in Nat
      /\ batch' \in Seq(Nat) /\ batch_size' \in Nat
  <2> USE DEF DecayInv, LdaTypeOK
  <2>1. CASE LdaParsing
    BY <2>1 DEF LdaParsing, ParseDoc, ParserEnds
  <2>2. CASE GetDoc
    BY <2>2 DEF GetDoc
  <2>3. CASE CutBatch
    BY <2>3 DEF CutBatch
  <2>4. CASE UNCHANGED ldaVars
    BY <2>4 DEF ldaVars
  <2> QED
    BY <2>1, <2>2, <2>3, <2>4
<1> QED
  BY <1>1, <1>2, <1>3 DEF DecayInv, LdaTypeOK, LevelsInv, DecayedOncePerBatch

LEMMA NextDecay ==
  ASSUME DecayInv, [LdaParsing \/ LdaLearning]_ldaVars
  PROVE  DecayInv'
  BY BatchDecay, OtherDecay DEF LdaLearning

(* start_lda: the lazy decay misses no minibatch and makes up for none     *)
(* twice, for any documents, however long a word is not met.               *)
THEOREM DecayIsComplete == LdaSpec => []DecayedOncePerBatch
<1>1. DecayInv => DecayedOncePerBatch
  BY DEF DecayInv
<1> QED
  BY <1>1, InitDecay, NextDecay, PTL DEF LdaSpec

----------------------------------------------------------------------------
(* Where the documents are.  Minibatches before the current one were full; *)
(* it is smaller than the others only when the documents have run out.     *)
Upto(n) == [d \in 1..n |-> d]

DocsInv ==
  /\ LdaTypeOK
  /\ finishedDocs \o batch = Upto(usedDocs)
  /\ usedDocs <= parsedDocs /\ parsedDocs <= Len(ldaJob.docs)
  /\ ldaDone => parsedDocs = Len(ldaJob.docs)
  /\ ~ldaEnded =>
       /\ Len(finishedDocs) = (example_t - 1) * ldaJob.minibatch
       /\ Len(batch) <= batch_size /\ batch_size <= ldaJob.minibatch
       /\ batch_size < ldaJob.minibatch => ThreadDone
  /\ ldaEnded => /\ usedDocs = Len(ldaJob.docs)
                 /\ (example_t - 1) * ldaJob.minibatch <= usedDocs
                 /\ usedDocs <= example_t * ldaJob.minibatch

LEMMA Sizes ==
  ASSUME LdaTypeOK
  PROVE  ldaJob.minibatch \in Nat \ {0} /\ Len(ldaJob.docs) \in Nat
  BY LdaAssumption DEF LdaTypeOK

LEMMA InitDocs == LdaInit => DocsInv
<1> SUFFICES ASSUME LdaInit PROVE DocsInv
  OBVIOUS
<1>1. LdaTypeOK
  BY InitDecay DEF DecayInv
<1>2. ldaJob.minibatch \in Nat \ {0} /\ Len(ldaJob.docs) \in Nat
  BY <1>1, Sizes
<1>3. <<>> \o <<>> = Upto(0)
  BY DEF Upto
<1>4. 0 = (1 - 1) * ldaJob.minibatch
  BY <1>2
<1> QED
  BY <1>1, <1>2, <1>3, <1>4 DEF LdaInit, LdaStart, DocsInv

LEMMA ParsingDocs ==
  ASSUME DocsInv, LdaTypeOK', LdaParsing \/ UNCHANGED ldaVars
  PROVE  DocsInv'
<1>1. Len(ldaJob.docs) \in Nat /\ parsedDocs \in Nat
  BY Sizes DEF DocsInv, LdaTypeOK
<1>2. UNCHANGED <<ldaJob, usedDocs, batch, batch_size, example_t, finishedDocs, ldaEnded>>
  BY DEF LdaParsing, ParseDoc, ParserEnds, ldaVars
<1>3. /\ parsedDocs <= parsedDocs' /\ parsedDocs' <= Len(ldaJob.docs)
      /\ ldaDone' => parsedDocs' = Len(ldaJob.docs)
      /\ ThreadDone => ThreadDone'
  BY <1>1, <1>2 DEF LdaParsing, ParseDoc, ParserEnds, ldaVars, DocsInv, LdaTypeOK, ThreadDone
<1>4. usedDocs' <= parsedDocs'
  BY <1>1, <1>2, <1>3 DEF DocsInv, LdaTypeOK
<1> QED
  BY <1>2, <1>3, <1>4 DEF DocsInv

LEMMA GettingDocs ==
  ASSUME DocsInv, LdaTypeOK', GetDoc
  PROVE  DocsInv'
<1>1. /\ usedDocs < parsedDocs /\ usedDocs' = usedDocs + 1
      /\ batch' = Append(batch, usedDocs + 1) /\ Len(batch) < batch_size
      /\ ~ldaEnded
      /\ UNCHANGED <<ldaJob, parsedDocs, ldaDone, batch_size, example_t, finishedDocs,
                     ldaEnded>>
  BY DEF GetDoc
<1>2. /\ usedDocs \in Nat /\ parsedDocs \in Nat /\ batch \in Seq(Nat) /\ batch_size \in Nat
      /\ finishedDocs \in Seq(Nat)
  BY DEF DocsInv, LdaTypeOK
<1>3. finishedDocs' \o batch' = Upto(usedDocs')
  <2>1. finishedDocs \o batch' = Append(finishedDocs \o batch, usedDocs + 1)
    BY <1>1, <1>2
  <2>2. Append(Upto(usedDocs), usedDocs + 1) = Upto(usedDocs + 1)
    BY <1>2 DEF Upto
  <2> QED
    BY <1>1, <2>1, <2>2 DEF DocsInv
<1>4. Len(batch') <= batch_size
  BY <1>1, <1>2
<1>5. ~ThreadDone
  BY <1>1, <1>2 DEF ThreadDone
<1>6. usedDocs' <= parsedDocs
  BY <1>1, <1>2
<1> QED
  BY <1>1, <1>3, <1>4, <1>5, <1>6 DEF DocsInv

LEMMA CuttingDocs ==
  ASSUME DocsInv, LdaTypeOK', CutBatch
  PROVE  DocsInv'
<1>1. /\ ~ldaEnded /\ Len(batch) < batch_size /\ ThreadDone /\ batch_size' = Len(batch)
      /\ UNCHANGED <<ldaJob, parsedDocs, usedDocs, ldaDone, batch, example_t,
                     finishedDocs, ldaEnded>>
  BY DEF CutBatch
<1>2. Len(batch) \in Nat /\ batch_size \in Nat /\ ldaJob.minibatch \in Nat
  BY Sizes DEF DocsInv, LdaTypeOK
<1>3. ThreadDone' /\ Len(batch') <= batch_size' /\ batch_size' <= ldaJob.minibatch
  BY <1>1, <1>2 DEF ThreadDone, DocsInv
<1> QED
  BY <1>1, <1>3 DEF DocsInv

(* One more minibatch of s documents.                                      *)
LEMMA NextMultiple ==
  ASSUME NEW t \in Nat \ {0}, NEW s \in Nat
  PROVE  t * s = (t - 1) * s + s /\ (t - 1) * s \in Nat
<1> DEFINE k == t - 1
<1>1. k \in Nat /\ t = k + 1
  OBVIOUS
<1> HIDE DEF k
<1>2. (k + 1) * s = k * s + s /\ k * s \in Nat
  BY <1>1
<1> QED
  BY <1>1, <1>2 DEF k

LEMMA BatchDocs ==
  ASSUME DocsInv, LdaTypeOK', ProcessBatch
  PROVE  DocsInv'
<1> DEFINE size == ldaJob.minibatch
           n == Len(finishedDocs)
<1>1. /\ ~ldaEnded /\ Len(batch) = batch_size
      /\ finishedDocs' = finishedDocs \o batch /\ batch' = <<>>
      /\ ldaEnded' = ThreadDone
      /\ example_t' = IF ThreadDone THEN example_t ELSE example_t + 1
      /\ batch_size' = IF ThreadDone THEN batch_size ELSE size
      /\ UNCHANGED <<ldaJob, parsedDocs, usedDocs, ldaDone>>
  BY DEF ProcessBatch
<1>2. /\ batch \in Seq(Nat) /\ finishedDocs \in Seq(Nat) /\ size \in Nat \ {0}
      /\ example_t \in Nat \ {0} /\ usedDocs \in Nat /\ parsedDocs \in Nat
      /\ batch_size \in Nat
  BY Sizes DEF DocsInv, LdaTypeOK
<1>3. finishedDocs' \o batch' = Upto(usedDocs') /\ usedDocs = n + batch_size
  <2>1. finishedDocs' \o batch' = finishedDocs \o batch
    BY <1>1, <1>2
  <2>2. Len(finishedDocs \o batch) = n + batch_size
    BY <1>1, <1>2
  <2>3. Len(Upto(usedDocs)) = usedDocs
    BY <1>2 DEF Upto
  <2> QED
    BY <1>1, <2>1, <2>2, <2>3 DEF DocsInv
<1>4. n = (example_t - 1) * size /\ batch_size <= size
      /\ (batch_size < size => ThreadDone)
  BY <1>1 DEF DocsInv
<1>5. /\ example_t * size = (example_t - 1) * size + size
      /\ (example_t - 1) * size \in Nat
  BY <1>2, NextMultiple
<1>6. CASE ThreadDone
  <2>1. usedDocs = Len(ldaJob.docs)
    BY <1>6 DEF ThreadDone, DocsInv
  <2>2. (example_t - 1) * size <= usedDocs /\ usedDocs <= example_t * size
    BY <1>2, <1>3, <1>4, <1>5
  <2>3. ldaEnded' /\ example_t' = example_t
    BY <1>1, <1>6
  <2> QED
    BY <1>1, <1>3, <2>1, <2>2, <2>3 DEF DocsInv
<1>7. CASE ~ThreadDone
  <2>1. batch_size = size
    BY <1>2, <1>4, <1>7
  <2>2. ~ldaEnded' /\ example_t' - 1 = example_t /\ batch_size' = size
    BY <1>1, <1>2, <1>7
  <2>3. Len(finishedDocs') = n + batch_size
    BY <1>1, <1>2
  <2>4. Len(finishedDocs') = example_t * size
    BY <1>4, <1>5, <2>1, <2>3
  <2>5. Len(batch') <= batch_size' /\ batch_size' <= size /\ ~(batch_size' < size)
    BY <1>1, <1>2, <2>2
  <2> QED
    BY <1>1, <1>3, <2>2, <2>4, <2>5 DEF DocsInv
<1> QED
  BY <1>6, <1>7

(* start_lda: no document is lost or met twice, and only the last          *)
(* minibatch is not full, whatever the parser and the learner do when.     *)
THEOREM DocsAreKept == LdaSpec => []EveryDocOnce
<1>1. DocsInv => EveryDocOnce
  BY DEF DocsInv, EveryDocOnce, Upto
<1>2. (DecayInv /\ DocsInv) /\ [LdaParsing \/ LdaLearning]_ldaVars
        => (DecayInv /\ DocsInv)'
  BY NextDecay, ParsingDocs, GettingDocs, CuttingDocs, BatchDocs DEF LdaLearning, DecayInv
<1>3. LdaInit => DecayInv /\ DocsInv
  BY InitDecay, InitDocs
<1> QED
  BY <1>1, <1>2, <1>3, PTL DEF LdaSpec

=============================================================================
