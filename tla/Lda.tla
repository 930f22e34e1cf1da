-------------------------------- MODULE Lda ---------------------------------
(***************************************************************************)
(* --lda: start_lda (lda_core.cc).  The learner collects a minibatch of    *)
(* documents from the parser's ring, brings the weights of their words up  *)
(* to date, learns from them and gives the documents back.  A word that no *)
(* document of a minibatch has is left alone; the decay it missed is made  *)
(* up for when it is met again, or after the last minibatch, from          *)
(* decay_levels and the minibatch that the word's last entry remembers.    *)
(*                                                                         *)
(* A weight is the bag of minibatches it was decayed for; a level of       *)
(* decay_levels is the number of minibatches added up in it.  Topic        *)
(* inference for a document (lda_loop) is arithmetic without a trace here. *)
(***************************************************************************)
EXTENDS Integers, FiniteSets, Bags, SequencesExt

CONSTANTS Word,       \* the words of the documents
          LdaJobs,    \* the documents and --minibatch vw may be called with
          BaseRing    \* the size of the example ring before it is raised

ASSUME LdaAssumption ==
  /\ LdaJobs \subseteq [docs : Seq(SUBSET Word), minibatch : Nat \ {0}]
  /\ BaseRing \in Nat \ {0}

VARIABLES ldaJob,     \* the documents, sets of words, and the minibatch
          parsedDocs, \* how many the parser has published
          usedDocs,   \* how many the learner has taken
          ldaDone,    \* the parser is done
          batch,      \* the documents of the minibatch, by number
          batch_size, \* --minibatch, or how many were left
          example_t,  \* minibatches so far, this one included
          levels,     \* decay_levels: level i adds up levels[i] minibatches
          last_t,     \* last_t[w]: the last entry of a word's weights
          decayed,    \* decayed[w]: what its weights were decayed for
          finishedDocs, ldaEnded

ldaVars == <<ldaJob, parsedDocs, usedDocs, ldaDone, batch, batch_size,
             example_t, levels, last_t, decayed, finishedDocs, ldaEnded>>

----------------------------------------------------------------------------
(* next_pow2 and the ring that --minibatch asks for.                       *)
NextPow2(n) == CHOOSE p \in {2 ^ i : i \in 0..n} :
                 p >= n /\ \A i \in 0..n : 2 ^ i >= n => p <= 2 ^ i
RingAsItWas(minibatch) == BaseRing
RingSizeFor(minibatch) ==
  IF BaseRing > NextPow2(minibatch) THEN BaseRing ELSE NextPow2(minibatch)

LdaStart(jobs) ==
  /\ ldaJob \in jobs
  /\ parsedDocs = 0 /\ usedDocs = 0 /\ ldaDone = FALSE
  /\ batch = <<>> /\ batch_size = ldaJob.minibatch
  /\ example_t = 1 /\ levels = <<0>>
  /\ last_t = [w \in Word |-> 0] /\ decayed = [w \in Word |-> EmptyBag]
  /\ finishedDocs = <<>> /\ ldaEnded = FALSE
LdaInit == LdaStart(LdaJobs)

(* The parser thread: a document goes into the ring when a slot is free.   *)
ParseDoc ==
  /\ parsedDocs < Len(ldaJob.docs)
  /\ parsedDocs - Len(finishedDocs) < RingSizeFor(ldaJob.minibatch)
  /\ parsedDocs' = parsedDocs + 1
  /\ UNCHANGED <<ldaJob, usedDocs, ldaDone, batch, batch_size, example_t,
                 levels, last_t, decayed, finishedDocs, ldaEnded>>

ParserEnds ==
  /\ parsedDocs = Len(ldaJob.docs)
  /\ ~ldaDone
  /\ ldaDone' = TRUE
  /\ UNCHANGED <<ldaJob, parsedDocs, usedDocs, batch, batch_size, example_t,
                 levels, last_t, decayed, finishedDocs, ldaEnded>>

(* get_example; when it has none the loop tries again (d--), unless the    *)
(* parser is done: then the minibatch is what there is.                    *)
GetDoc ==
  /\ ~ldaEnded
  /\ Len(batch) < batch_size
  /\ usedDocs < parsedDocs
  /\ usedDocs' = usedDocs + 1
  /\ batch' = Append(batch, usedDocs + 1)
  /\ UNCHANGED <<ldaJob, parsedDocs, ldaDone, batch_size, example_t, levels,
                 last_t, decayed, finishedDocs, ldaEnded>>

ThreadDoneEarly == ldaDone
ThreadDone == ldaDone /\ usedDocs = parsedDocs

CutBatch ==
  /\ ~ldaEnded
  /\ Len(batch) < batch_size
  /\ ThreadDone
  /\ batch_size' = Len(batch)
  /\ UNCHANGED <<ldaJob, parsedDocs, usedDocs, ldaDone, batch, example_t,
                 levels, last_t, decayed, finishedDocs, ldaEnded>>

(* exp(level[to] - level[from]): the minibatches in one and not the other. *)
Between(lv, from, to) == SetToBag((lv[from] + 1)..lv[to])

(* decay_levels.end[-1 - example_t + last_t]: counted from the end, so     *)
(* that it is the level the word was brought up to.                        *)
LevelAfter(lv, t, w) == Len(lv) + 1 + (0 - t + last_t[w])
LevelOf(lv, t, w) == Len(lv) + 1 + (-1 - t + last_t[w])

WordsIn(docs) == UNION {ldaJob.docs[d] : d \in Range(docs)}

(* One minibatch: the words' missing decay up to the level before, then    *)
(* minuseta, the decay of this minibatch; the documents are given back.    *)
(* When that was the end, every word is brought up to the last level.      *)
ProcessBatch ==
  /\ ~ldaEnded
  /\ Len(batch) = batch_size
  /\ LET lv == Append(levels, Last(levels) + 1)
         met == WordsIn(batch)
         seen == [w \in Word |-> IF w \in met THEN example_t ELSE last_t[w]]
         caughtUp == [w \in Word |->
           IF w \in met
           THEN decayed[w] (+) Between(lv, LevelOf(lv, example_t, w), Len(lv) - 1)
                           (+) SetToBag({example_t})
           ELSE decayed[w]]
         swept == [w \in Word |->
           IF w \in met THEN caughtUp[w]
           ELSE caughtUp[w] (+) Between(lv, LevelOf(lv, example_t, w), Len(lv))]
     IN /\ last_t' = seen
        /\ decayed' = IF ThreadDone THEN swept ELSE caughtUp
        /\ levels' = lv
  /\ finishedDocs' = finishedDocs \o batch
  /\ ldaEnded' = ThreadDone
  /\ example_t' = IF ThreadDone THEN example_t ELSE example_t + 1
  /\ batch' = <<>>
  /\ batch_size' = IF ThreadDone THEN batch_size ELSE ldaJob.minibatch
  /\ UNCHANGED <<ldaJob, parsedDocs, usedDocs, ldaDone>>

LdaParsing == ParseDoc \/ ParserEnds
LdaLearning == GetDoc \/ CutBatch \/ ProcessBatch

(* Two threads, each of which runs on while it can.                        *)
LdaFairness == WF_ldaVars(LdaParsing) /\ WF_ldaVars(LdaLearning)
LdaSpec == LdaInit /\ [][LdaParsing \/ LdaLearning]_ldaVars /\ LdaFairness

----------------------------------------------------------------------------
(* start_lda: however long a word was not met, its weights have been       *)
(* decayed once for each minibatch up to the last they took part in, and,  *)
(* at the end, once for every minibatch there was.                         *)
DecayedOncePerBatch ==
  \A w \in Word :
    decayed[w] = SetToBag(1..(IF ldaEnded THEN example_t ELSE last_t[w]))

(* Documents are given back in the order they came, each once, and one     *)
(* minibatch after another fills up: only the last may be smaller, and it  *)
(* is empty only when the parser had not said it was done in time.         *)
EveryDocOnce ==
  /\ finishedDocs \o batch = [d \in 1..usedDocs |-> d]
  /\ ldaEnded => /\ usedDocs = Len(ldaJob.docs)
                 /\ (example_t - 1) * ldaJob.minibatch <= usedDocs
                 /\ usedDocs <= example_t * ldaJob.minibatch

=============================================================================
