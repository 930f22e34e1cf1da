------------------------- MODULE ClusterNodeProofs --------------------------
(***************************************************************************)
(* Proofs about ClusterNode, for any number of threads, any ring size and  *)
(* any input.                                                              *)
(***************************************************************************)
EXTENDS ClusterNode, FiniteSetTheorems, TLAPS

(* With --backprop, --corrective or --delayed_global there is a relay      *)
(* (initialize_delay_ring), and every example has a label: for one without *)
(* delay_example counts no second training, but delay_global_example tells *)
(* every learner to look for it.                                           *)
GlobalLabelled ==
  \A j \in NodeJobs :
    j.mode \in {"backprop", "delayed_global"} =>
      j.relay /\ \A e \in 1..Len(j.source) : j.source[e] = "train"

----------------------------------------------------------------------------
(* The claims on an example: each learner trains on it once or twice, and  *)
(* the relay sets its final prediction.  A claim is first on the slot of   *)
(* the delay ring, then on the example in somebody's hand; then it is      *)
(* done.                                                                   *)
Kinds == (IF DelayedOnly THEN {} ELSE {"train"})
           \cup IF Global THEN {"train again"} ELSE {}
Due(e) == IF ~Labelled(e) \/ Sending THEN {} ELSE Threads \X Kinds
RelayClaim == <<0, "relay">>
Claims(e) == Due(e) \cup (IF nodeJob.relay THEN {RelayClaim} ELSE {})

(* A first training is only ever due on the example delayed last.          *)
IsUntaken(c, e) ==
  \/ c[2] = "train" /\ e = sent /\ local_idx[c[1]] # local_index
  \/ c[2] = "train again" /\ global_idx[c[1]] < e
  \/ c[2] = "relay" /\ relay_idx < e
IsHeld(c, e) ==
  \/ c[2] # "relay" /\ at[c[1]] = c[2] /\ hand[c[1]] = e
  \/ c[2] = "relay" /\ relay_hand = e
Untaken(e) == {c \in Claims(e) : IsUntaken(c, e)}
Left(e) == {c \in Claims(e) : IsUntaken(c, e) \/ IsHeld(c, e)}

(* The index of example e in the delay ring, and who has yet to train on   *)
(* what was delayed last.                                                  *)
Place(e) == local_index + e - sent - 1
Pending(t) == ~Sending /\ ~DelayedOnly /\ local_idx[t] # local_index

NodeTypes ==
  /\ nodeJob \in NodeJobs
  /\ parsed \in 0..Len(nodeJob.source) /\ parserDone \in BOOLEAN
  /\ parserDone => parsed = Len(nodeJob.source)
  /\ used \in [Threads -> Nat] /\ shares \in [Examples -> Nat]
  /\ slot \in [0..NodeRing - 1 -> Nat] /\ users \in [0..NodeRing - 1 -> Nat]
  /\ local_idx \in [Threads -> Nat] /\ global_idx \in [Threads -> Nat]
  /\ local_index \in Nat /\ global_index \in Nat /\ relay_idx \in Nat
  /\ to_finish \in [Examples -> Nat] /\ finished \in Seq(Examples)
  /\ at \in [Threads -> {"delayed", "get", "sum", "train", "train again", "done"}]
  /\ hand \in [Threads -> Nat]
  /\ sent \in 0..Len(nodeJob.source) /\ answered \in Nat
  /\ relay_hand \in Nat /\ relay_done \in BOOLEAN
  /\ DOMAIN nodeTrained = Examples

(* A thread is ahead of what was sent only by examples without a label,    *)
(* and by one for whose sum it waits.  One that has yet to train on what   *)
(* was delayed last takes nothing new, unless nothing new will come.       *)
ThreadInv(t) ==
  /\ sent <= used[t] /\ used[t] <= parsed
  /\ \A e \in sent + 1..used[t] : Labelled(e) => e = used[t] /\ at[t] = "sum"
  /\ at[t] = "sum" => hand[t] = used[t] /\ hand[t] # 0
  /\ at[t] \in {"delayed", "get", "done"} => hand[t] = 0
  /\ at[t] = "train" => /\ hand[t] = sent /\ used[t] = sent /\ hand[t] # 0
                        /\ Labelled(sent) /\ ~Sending /\ ~DelayedOnly
                        /\ ~Pending(t)
  /\ at[t] = "train again" => hand[t] = global_idx[t] /\ Global /\ hand[t] # 0
  /\ Pending(t) => /\ local_idx[t] = local_index - 1 /\ used[t] = sent /\ sent # 0
                   /\ Labelled(sent)
                   /\ at[t] # "done" /\ (at[t] = "get" => AllParsed)
  /\ global_idx[t] <= global_index
  /\ at[t] = "done" => AllParsed /\ (Global => global_idx[t] = local_index)

(* Examples are sent in their order, by the last thread to predict them.   *)
OrderInv ==
  /\ \A e \in Examples : shares[e] = Cardinality({t \in Threads : used[t] < e})
  /\ \E t \in Threads : used[t] = sent

RelayInv ==
  /\ nodeJob.relay => local_index = sent
  /\ ~nodeJob.relay => relay_done
  /\ answered = relay_idx /\ answered <= sent /\ relay_hand \in {0, answered}
  /\ global_index = IF ~Global THEN 0
                    ELSE IF relay_hand = 0 THEN answered ELSE answered - 1
  /\ relay_done => relay_hand = 0
  /\ relay_done /\ nodeJob.relay =>
       answered = sent /\ \A t \in Threads : at[t] = "done"

(* A slot holds the example somebody has yet to take from it, and counts   *)
(* those who have.                                                         *)
SlotInv ==
  /\ \A e \in 1..sent : Untaken(e) # {} =>
       /\ slot[SlotAt(Place(e))] = e
       /\ users[SlotAt(Place(e))] = Cardinality(Untaken(e))
  /\ \A k \in 0..NodeRing - 1 : slot[k] # 0 =>
       \E e \in 1..sent : slot[k] = e /\ Untaken(e) # {} /\ k = SlotAt(Place(e))

(* threads_to_finish counts the claims that are left, and an example is    *)
(* output with the last of them.                                           *)
FinishInv ==
  /\ \A e \in Examples :
       /\ to_finish[e] = IF e <= sent THEN Cardinality(Left(e)) ELSE 0
       /\ e \in Range(finished) <=> e <= sent /\ Left(e) = {}
       /\ nodeTrained[e] = SetToBag(IF e <= sent THEN Due(e) \ Left(e) ELSE {})
  /\ IsInjective(finished)

IInv == /\ NodeTypes /\ \A t \in Threads : ThreadInv(t)
        /\ OrderInv /\ RelayInv /\ SlotInv /\ FinishInv /\ ~null

----------------------------------------------------------------------------
(* Bags, sequences and finite sets.                                        *)
LEMMA BagOfOne ==
  ASSUME NEW S, NEW c, c \notin S
  PROVE  SetToBag(S) (+) SetToBag({c}) = SetToBag(S \cup {c})
  BY DEF SetToBag, (+)

LEMMA AppendRange ==
  ASSUME NEW S, NEW s \in Seq(S), NEW e \in S
  PROVE  /\ Range(Append(s, e)) = Range(s) \cup {e}
         /\ IsInjective(s) /\ e \notin Range(s) => IsInjective(Append(s, e))
<1>1. /\ DOMAIN Append(s, e) = 1..Len(s) + 1 /\ DOMAIN s = 1..Len(s) /\ Len(s) \in Nat
      /\ \A i \in 1..Len(s) : Append(s, e)[i] = s[i]
      /\ Append(s, e)[Len(s) + 1] = e
  OBVIOUS
<1> DEFINE a == Append(s, e)
           n == Len(s)
<1> HIDE DEF a, n
<1>2. /\ DOMAIN a = 1..n + 1 /\ DOMAIN s = 1..n /\ n \in Nat
      /\ \A i \in 1..n : a[i] = s[i]
      /\ a[n + 1] = e
  BY <1>1 DEF a, n
<1>3. \A i \in 1..n + 1 : i \in 1..n \/ i = n + 1
  BY <1>2
<1>4. n + 1 \in 1..n + 1 /\ 1..n \subseteq 1..n + 1
  BY <1>2
<1>5. Range(a) = Range(s) \cup {e}
  BY ONLY <1>2, <1>3, <1>4, Zenon DEF Range
<1>6. IsInjective(s) /\ e \notin Range(s) => IsInjective(a)
  <2> SUFFICES ASSUME IsInjective(s), e \notin Range(s),
                      NEW i \in 1..n + 1, NEW j \in 1..n + 1, a[i] = a[j]
               PROVE  i = j
    BY <1>2 DEF IsInjective
  <2>1. \A k \in 1..n : s[k] # e
    BY <1>2 DEF Range
  <2> QED
    BY <1>2, <1>3, <2>1 DEF IsInjective
<1> QED
  BY <1>5, <1>6 DEF a

LEMMA ThreadsFinite ==
  ASSUME nodeJob \in NodeJobs
  PROVE  /\ nodeJob.threads \in Nat \ {0} /\ 1 \in Threads /\ 0 \notin Threads
         /\ IsFiniteSet(Threads) /\ Cardinality(Threads) = nodeJob.threads
         /\ \A S \in SUBSET Threads : IsFiniteSet(S)
<1>1. nodeJob.threads \in Nat \ {0}
  BY NodeAssumption
<1>2. IsFiniteSet(Threads) /\ Cardinality(Threads) = nodeJob.threads
  BY <1>1, FS_Interval DEF Threads
<1>3. \A S \in SUBSET Threads : IsFiniteSet(S)
  BY <1>2, FS_Subset
<1>4. 1 \in Threads /\ 0 \notin Threads
  BY <1>1 DEF Threads
<1> QED
  BY <1>1, <1>2, <1>3, <1>4

LEMMA Source ==
  ASSUME nodeJob \in NodeJobs
  PROVE  /\ Len(nodeJob.source) \in Nat /\ Examples = 1..Len(nodeJob.source)
         /\ nodeJob.relay \in BOOLEAN
         /\ nodeJob.mode \in {"plain", "backprop", "delayed_global", "send"}
  BY NodeAssumption DEF Examples

LEMMA SentNat ==
  ASSUME NodeTypes
  PROVE  sent \in Nat /\ \A e \in 1..sent : e \in Examples /\ e \in Nat \ {0}
<1>1. nodeJob \in NodeJobs /\ sent \in 0..Len(nodeJob.source)
  BY DEF NodeTypes
<1> QED
  BY <1>1, Source

LEMMA SlotAtType ==
  ASSUME NEW i \in Int
  PROVE  SlotAt(i) \in 0..NodeRing - 1
  BY NodeAssumption DEF SlotAt

(* How many claims there are on an example: delay_example counts them.     *)
Count(e) == IF Labelled(e) /\ ~Sending THEN nodeJob.threads ELSE 0

LEMMA KindsCount ==
  ASSUME nodeJob \in NodeJobs
  PROVE  /\ IsFiniteSet(Kinds) /\ Cardinality(Kinds) = IF nodeJob.mode = "backprop" THEN 2 ELSE 1
         /\ Kinds \subseteq {"train", "train again"}
         /\ "train" \in Kinds <=> ~DelayedOnly
         /\ "train again" \in Kinds <=> Global
<1>1. IsFiniteSet({"train"}) /\ Cardinality({"train"}) = 1
  BY FS_Singleton
<1>2. {"train"} \cup {"train again"} = {"train", "train again"}
  OBVIOUS
<1>3. IsFiniteSet({"train", "train again"}) /\ Cardinality({"train", "train again"}) = 2
  <2>1. /\ IsFiniteSet({"train"} \cup {"train again"})
        /\ Cardinality({"train"} \cup {"train again"}) = Cardinality({"train"}) + 1
    BY <1>1, FS_AddElement
  <2>2. /\ IsFiniteSet({"train", "train again"})
        /\ Cardinality({"train", "train again"}) = 1 + 1
    BY <1>1, <1>2, <2>1, Zenon
  <2>3. 1 + 1 = 2
    OBVIOUS
  <2> QED
    BY <2>2, <2>3, Zenon
<1>4. IsFiniteSet({"train again"}) /\ Cardinality({"train again"}) = 1
  BY FS_Singleton
<1>5. CASE nodeJob.mode = "backprop"
  <2>1. Kinds = {"train", "train again"}
    BY <1>5 DEF Kinds, Global, DelayedOnly
  <2> QED
    BY <1>3, <1>5, <2>1 DEF Global, DelayedOnly
<1>6. CASE nodeJob.mode = "delayed_global"
  <2>1. Kinds = {"train again"}
    BY <1>6 DEF Kinds, Global, DelayedOnly
  <2> QED
    BY <1>4, <1>6, <2>1 DEF Global, DelayedOnly
<1>7. CASE nodeJob.mode \notin {"backprop", "delayed_global"}
  <2>1. Kinds = {"train"}
    BY <1>7 DEF Kinds, Global, DelayedOnly
  <2> QED
    BY <1>1, <1>7, <2>1 DEF Global, DelayedOnly
<1> QED
  BY <1>5, <1>6, <1>7

LEMMA ClaimsCount ==
  ASSUME nodeJob \in NodeJobs, NEW e
  PROVE  /\ IsFiniteSet(Claims(e)) /\ Cardinality(Claims(e)) = Readers(Count(e))
         /\ \A S \in SUBSET Claims(e) : IsFiniteSet(S) /\ Cardinality(S) \in Nat
         /\ RelayClaim \notin Due(e) /\ Due(e) \subseteq Claims(e)
<1>1. IsFiniteSet(Due(e)) /\ Cardinality(Due(e)) = Count(e) + IF nodeJob.mode = "backprop" THEN Count(e) ELSE 0
  <2>1. CASE ~Labelled(e) \/ Sending
    BY <2>1, FS_EmptySet DEF Due, Count
  <2>2. CASE ~(~Labelled(e) \/ Sending)
    <3>1. Due(e) = Threads \X Kinds /\ Count(e) = nodeJob.threads
      BY <2>2 DEF Due, Count
    <3>2. /\ IsFiniteSet(Due(e))
          /\ Cardinality(Due(e)) = nodeJob.threads * Cardinality(Kinds)
      BY <3>1, ThreadsFinite, KindsCount, FS_Product
    <3>3. nodeJob.threads \in Nat
      BY ThreadsFinite
    <3>4. CASE nodeJob.mode = "backprop"
      <4>1. Cardinality(Kinds) = 2
        BY <3>4, KindsCount
      <4> QED
        BY <3>1, <3>2, <3>3, <3>4, <4>1
    <3>5. CASE nodeJob.mode # "backprop"
      <4>1. Cardinality(Kinds) = 1
        BY <3>5, KindsCount
      <4> QED
        BY <3>1, <3>2, <3>3, <3>5, <4>1
    <3> QED
      BY <3>4, <3>5
  <2> QED
    BY <2>1, <2>2
<1>2. RelayClaim \notin Due(e)
  BY ThreadsFinite DEF RelayClaim, Due
<1>3. IsFiniteSet(Claims(e)) /\ Cardinality(Claims(e)) = Cardinality(Due(e)) + Mesg
  <2>1. CASE nodeJob.relay
    <3>1. Claims(e) = Due(e) \cup {RelayClaim} /\ Mesg = 1
      BY <2>1 DEF Claims, Mesg
    <3> QED
      BY <1>1, <1>2, <3>1, FS_AddElement
  <2>2. CASE ~nodeJob.relay
    <3>1. Claims(e) = Due(e) /\ Mesg = 0
      BY <2>2 DEF Claims, Mesg
    <3>2. Cardinality(Due(e)) \in Nat
      BY <1>1, FS_CardinalityType
    <3> QED
      BY <1>1, <3>1, <3>2
  <2> QED
    BY <2>1, <2>2
<1>4. Cardinality(Claims(e)) = Readers(Count(e))
  <2>1. Count(e) \in Nat /\ Mesg \in Nat
    BY ThreadsFinite DEF Count, Mesg
  <2> QED
    BY <1>1, <1>3, <2>1 DEF Readers
<1> QED
  BY <1>2, <1>3, <1>4, FS_Subset, FS_CardinalityType DEF Claims

----------------------------------------------------------------------------
(* return_example takes one claim from a slot.                             *)
LEMMA TakeStep ==
  ASSUME NodeTypes, SlotInv, ~null, NEW e \in 1..sent, NEW c \in Untaken(e),
         TakeFrom(Place(e)), UNCHANGED <<nodeJob, sent, local_index>>,
         Untaken(e)' = Untaken(e) \ {c},
         \A d \in 1..sent : d # e => Untaken(d)' = Untaken(d)
  PROVE  /\ SlotInv' /\ ~null' /\ slot[SlotAt(Place(e))] = e
         /\ slot' \in [0..NodeRing - 1 -> Nat] /\ users' \in [0..NodeRing - 1 -> Nat]
<1> DEFINE k == SlotAt(Place(e))
<1>1. /\ sent \in Nat /\ local_index \in Nat /\ nodeJob \in NodeJobs
      /\ slot \in [0..NodeRing - 1 -> Nat] /\ users \in [0..NodeRing - 1 -> Nat]
  BY SentNat DEF NodeTypes
<1>2. \A d \in 1..sent : SlotAt(Place(d)) \in 0..NodeRing - 1
  <2> TAKE d \in 1..sent
  <2>1. Place(d) \in Int
    BY <1>1 DEF Place
  <2> QED
    BY <2>1, SlotAtType
<1>3. k \in 0..NodeRing - 1 /\ slot[k] = e /\ users[k] = Cardinality(Untaken(e))
  BY <1>2 DEF SlotInv
<1>4. /\ IsFiniteSet(Untaken(e)) /\ Cardinality(Untaken(e)) \in Nat
      /\ Cardinality(Untaken(e) \ {c}) = Cardinality(Untaken(e)) - 1
      /\ Cardinality(Untaken(e) \ {c}) \in Nat
      /\ Cardinality(Untaken(e) \ {c}) = 0 <=> Untaken(e) \ {c} = {}
  <2>1. Untaken(e) \in SUBSET Claims(e)
    BY DEF Untaken
  <2>2. IsFiniteSet(Untaken(e))
    BY <1>1, <2>1, ClaimsCount
  <2> QED
    BY <2>2, FS_RemoveElement, FS_CardinalityType, FS_EmptySet
<1>5. \A d : SlotAt(Place(d))' = SlotAt(Place(d))
  BY DEF SlotAt, Place
<1>6. /\ null' = (null \/ slot[k] = 0)
      /\ users' = [users EXCEPT ![k] = users[k] - 1]
      /\ slot' = [slot EXCEPT ![k] = IF users[k] = 1 THEN 0 ELSE slot[k]]
  BY DEF TakeFrom
<1> DEFINE left == Untaken(e) \ {c}
<1>7. /\ users' = [users EXCEPT ![k] = Cardinality(left)]
      /\ slot' = [slot EXCEPT ![k] = IF left = {} THEN 0 ELSE e]
  <2>1. users[k] - 1 = Cardinality(left)
    BY <1>3, <1>4
  <2>2. users[k] = 1 <=> left = {}
    BY <1>3, <1>4
  <2> HIDE DEF left
  <2> QED
    BY <1>3, <1>6, <2>1, <2>2
<1> HIDE DEF k
<1>8. slot' \in [0..NodeRing - 1 -> Nat] /\ users' \in [0..NodeRing - 1 -> Nat]
  BY <1>1, <1>3, <1>4, <1>7
<1>9. ASSUME NEW d \in 1..sent, Untaken(d)' # {}
      PROVE  /\ slot'[SlotAt(Place(d))] = d
             /\ users'[SlotAt(Place(d))] = Cardinality(Untaken(d)')
  <2>1. CASE d = e
    BY <1>1, <1>3, <1>7, <1>9, <2>1 DEF k
  <2>2. CASE d # e
    <3>1. /\ slot[SlotAt(Place(d))] = d /\ Untaken(d)' = Untaken(d)
          /\ users[SlotAt(Place(d))] = Cardinality(Untaken(d))
      BY <1>9, <2>2 DEF SlotInv
    <3>2. SlotAt(Place(d)) # k
      BY <1>3, <2>2, <3>1
    <3> QED
      BY <1>1, <1>2, <1>7, <3>1, <3>2
  <2> QED
    BY <2>1, <2>2
<1>10. ASSUME NEW i \in 0..NodeRing - 1, slot'[i] # 0
       PROVE  \E d \in 1..sent : slot'[i] = d /\ Untaken(d)' # {} /\ i = SlotAt(Place(d))
  <2>1. CASE i = k
    <3>1. slot'[i] = e /\ left # {}
      BY <1>1, <1>7, <1>10, <2>1
    <3> QED
      BY <2>1, <3>1 DEF k
  <2>2. CASE i # k
    <3>1. slot'[i] = slot[i]
      BY <1>1, <1>7, <2>2
    <3>2. PICK d \in 1..sent : slot[i] = d /\ Untaken(d) # {} /\ i = SlotAt(Place(d))
      BY <1>10, <3>1 DEF SlotInv
    <3>3. d # e
      BY <2>2, <3>2 DEF k
    <3>4. Untaken(d)' = Untaken(d)
      BY <3>3
    <3> QED
      BY <3>1, <3>2, <3>4
  <2> QED
    BY <2>1, <2>2
<1>11. SlotInv'
  <2>1. ASSUME NEW d \in 1..sent', Untaken(d)' # {}
        PROVE  /\ slot'[SlotAt(Place(d))'] = d
               /\ users'[SlotAt(Place(d))'] = Cardinality(Untaken(d)')
    BY <1>5, <1>9, <2>1
  <2>2. ASSUME NEW i \in 0..NodeRing - 1, slot'[i] # 0
        PROVE  \E d \in 1..sent' : slot'[i] = d /\ Untaken(d)' # {} /\ i = SlotAt(Place(d))'
    BY <1>5, <1>10, <2>2
  <2> QED
    BY <2>1, <2>2 DEF SlotInv
<1>12. ~null' /\ slot[k] = e
  <2>1. e # 0 /\ null' = (null \/ slot[k] = 0)
    BY <1>1, <1>6
  <2> QED
    BY <1>3, <2>1
<1> QED
  BY <1>8, <1>11, <1>12 DEF k

(* finish_example settles a claim; one of a learner is a training.         *)
LEMMA FinishStep ==
  ASSUME NodeTypes, FinishInv, NEW e \in 1..sent, NEW c \in Left(e),
         Finish(e), UNCHANGED <<nodeJob, sent>>,
         Left(e)' = Left(e) \ {c},
         \A d \in 1..sent : d # e => Left(d)' = Left(d),
         \/ c \notin Due(e) /\ nodeTrained' = nodeTrained
         \/ c \in Due(e) /\ nodeTrained' =
              [nodeTrained EXCEPT ![e] = nodeTrained[e] (+) SetToBag({c})]
  PROVE  /\ FinishInv' /\ to_finish' \in [Examples -> Nat] /\ finished' \in Seq(Examples)
         /\ DOMAIN nodeTrained' = Examples
<1>1. /\ nodeJob \in NodeJobs /\ to_finish \in [Examples -> Nat] /\ finished \in Seq(Examples)
      /\ DOMAIN nodeTrained = Examples /\ sent \in Nat
  BY SentNat DEF NodeTypes
<1>2. e \in Examples /\ e <= sent
  BY SentNat
<1>3. \A d : Due(d)' = Due(d) /\ Examples' = Examples
  BY DEF Due, Labelled, Sending, Threads, Kinds, DelayedOnly, Global, Examples
<1>4. /\ IsFiniteSet(Left(e)) /\ Cardinality(Left(e)) \in Nat
      /\ Cardinality(Left(e) \ {c}) = Cardinality(Left(e)) - 1
      /\ Cardinality(Left(e) \ {c}) \in Nat
      /\ Cardinality(Left(e) \ {c}) = 0 <=> Left(e) \ {c} = {}
  <2>1. Left(e) \in SUBSET Claims(e)
    BY DEF Left
  <2>2. IsFiniteSet(Left(e))
    BY <1>1, <2>1, ClaimsCount
  <2> QED
    BY <2>2, FS_RemoveElement, FS_CardinalityType, FS_EmptySet
<1>5. /\ to_finish[e] = Cardinality(Left(e)) /\ e \notin Range(finished)
      /\ nodeTrained[e] = SetToBag(Due(e) \ Left(e))
      /\ IsInjective(finished)
  BY <1>2 DEF FinishInv
<1> DEFINE left == Left(e) \ {c}
<1>6. /\ to_finish' = [to_finish EXCEPT ![e] = Cardinality(left)]
      /\ finished' = IF left = {} THEN Append(finished, e) ELSE finished
  <2>1. to_finish[e] - 1 = Cardinality(left) /\ (to_finish[e] = 1 <=> left = {})
    BY <1>4, <1>5
  <2>2. /\ to_finish' = [to_finish EXCEPT ![e] = to_finish[e] - 1]
        /\ finished' = IF to_finish[e] = 1 THEN Append(finished, e) ELSE finished
    BY DEF Finish
  <2> HIDE DEF left
  <2> QED
    BY <2>1, <2>2
<1>7. /\ finished' \in Seq(Examples) /\ IsInjective(finished')
      /\ Range(finished') = IF left = {} THEN Range(finished) \cup {e} ELSE Range(finished)
  <2> HIDE DEF left
  <2>1. CASE left = {}
    <3>1. Append(finished, e) \in Seq(Examples)
      BY <1>1, <1>2
    <3> QED
      BY <1>1, <1>2, <1>5, <1>6, <2>1, <3>1, AppendRange
  <2>2. CASE left # {}
    BY <1>1, <1>5, <1>6, <2>2
  <2> QED
    BY <2>1, <2>2
<1>8. /\ DOMAIN nodeTrained' = Examples
      /\ \A d \in Examples \ {e} : nodeTrained'[d] = nodeTrained[d]
      /\ nodeTrained'[e] = SetToBag(Due(e) \ left)
  <2>1. CASE c \notin Due(e) /\ nodeTrained' = nodeTrained
    <3>1. Due(e) \ left = Due(e) \ Left(e)
      BY <2>1
    <3> QED
      BY <1>1, <1>5, <2>1, <3>1
  <2>2. CASE c \in Due(e) /\ nodeTrained' =
              [nodeTrained EXCEPT ![e] = nodeTrained[e] (+) SetToBag({c})]
    <3>1. Due(e) \ left = (Due(e) \ Left(e)) \cup {c} /\ c \notin Due(e) \ Left(e)
      BY <2>2
    <3>2. nodeTrained[e] (+) SetToBag({c}) = SetToBag(Due(e) \ left)
      BY <1>5, <3>1, BagOfOne
    <3> HIDE DEF left
    <3> QED
      BY <1>1, <1>2, <2>2, <3>2
  <2> QED
    BY <2>1, <2>2
<1>9. ASSUME NEW d \in Examples
      PROVE  /\ to_finish'[d] = IF d <= sent THEN Cardinality(Left(d)') ELSE 0
             /\ d \in Range(finished') <=> d <= sent /\ Left(d)' = {}
             /\ nodeTrained'[d] =
                  SetToBag(IF d <= sent THEN Due(d) \ Left(d)' ELSE {})
  <2>1. CASE d = e
    <3>1. Left(d)' = left
      BY <2>1
    <3>2. left = {} => e \in Range(finished')
      BY <1>7
    <3>3. left # {} => e \notin Range(finished')
      BY <1>5, <1>7
    <3> HIDE DEF left
    <3>4. to_finish'[e] = Cardinality(left)
      BY <1>1, <1>2, <1>6
    <3> QED
      BY <1>2, <1>8, <2>1, <3>1, <3>2, <3>3, <3>4
  <2>2. CASE d # e
    <3>1. d <= sent => Left(d)' = Left(d)
      <4>1. d \in Nat \ {0}
        BY <1>1, Source
      <4> QED
        BY <1>1, <2>2, <4>1
    <3>2. /\ to_finish[d] = IF d <= sent THEN Cardinality(Left(d)) ELSE 0
          /\ d \in Range(finished) <=> d <= sent /\ Left(d) = {}
          /\ nodeTrained[d] = SetToBag(IF d <= sent THEN Due(d) \ Left(d) ELSE {})
      BY DEF FinishInv
    <3>3. to_finish'[d] = to_finish[d] /\ nodeTrained'[d] = nodeTrained[d]
      BY <1>1, <1>6, <1>8, <2>2
    <3>4. d \in Range(finished') <=> d \in Range(finished)
      BY <1>7, <2>2
    <3> QED
      BY <3>1, <3>2, <3>3, <3>4
  <2> QED
    BY <2>1, <2>2
<1>10. FinishInv'
  <2>1. ASSUME NEW d \in Examples'
        PROVE  /\ to_finish'[d] = IF d <= sent' THEN Cardinality(Left(d)') ELSE 0
               /\ d \in Range(finished') <=> d <= sent' /\ Left(d)' = {}
               /\ nodeTrained'[d] =
                    SetToBag(IF d <= sent' THEN Due(d)' \ Left(d)' ELSE {})
    BY <1>3, <1>9
  <2> QED
    BY <1>7, <2>1 DEF FinishInv
<1> QED
  BY <1>1, <1>4, <1>6, <1>7, <1>8, <1>10

(* Steps that touch neither ring nor claims.                               *)
ClaimVars == <<nodeJob, sent, local_idx, local_index, global_idx, relay_idx, relay_hand>>
SameHands == \A t \in Threads : \/ at'[t] = at[t] /\ hand'[t] = hand[t]
                                \/ {at[t], at'[t]} \cap {"train", "train again"} = {}

LEMMA ClaimsAlone ==
  ASSUME UNCHANGED ClaimVars, SameHands, nodeJob \in NodeJobs
  PROVE  \A e : Untaken(e)' = Untaken(e) /\ Left(e)' = Left(e)
<1> TAKE e
<1>1. Claims(e)' = Claims(e)
  BY DEF ClaimVars, Claims, Due, Labelled, Sending, Threads, Kinds, DelayedOnly, Global,
     RelayClaim
<1>2. ASSUME NEW c \in Claims(e)
      PROVE  (IsUntaken(c, e)' <=> IsUntaken(c, e)) /\ (IsHeld(c, e)' <=> IsHeld(c, e))
  <2>1. IsUntaken(c, e)' <=> IsUntaken(c, e)
    BY DEF ClaimVars, IsUntaken
  <2>2. IsHeld(c, e)' <=> IsHeld(c, e)
    <3>1. CASE c = RelayClaim
      BY <3>1 DEF ClaimVars, IsHeld, RelayClaim
    <3>2. CASE c \in Due(e)
      <4>1. c[1] \in Threads /\ c[2] \in {"train", "train again"}
        BY <3>2, KindsCount DEF Due
      <4> QED
        BY <4>1 DEF SameHands, IsHeld
    <3> QED
      BY <3>1, <3>2 DEF Claims
  <2> QED
    BY <2>1, <2>2
<1> QED
  BY <1>1, <1>2 DEF Untaken, Left

LEMMA SlotAlone ==
  ASSUME SlotInv, UNCHANGED <<nodeJob, sent, local_index, slot, users>>,
         \A e \in 1..sent : Untaken(e)' = Untaken(e)
  PROVE  SlotInv'
<1>1. \A e : SlotAt(Place(e))' = SlotAt(Place(e))
  BY DEF Place, SlotAt
<1>2. ASSUME NEW d \in 1..sent', Untaken(d)' # {}
      PROVE  /\ slot'[SlotAt(Place(d))'] = d
             /\ users'[SlotAt(Place(d))'] = Cardinality(Untaken(d)')
  BY <1>1, <1>2 DEF SlotInv
<1>3. ASSUME NEW i \in 0..NodeRing - 1, slot'[i] # 0
      PROVE  \E d \in 1..sent' : slot'[i] = d /\ Untaken(d)' # {} /\ i = SlotAt(Place(d))'
  <2>1. PICK d \in 1..sent : slot[i] = d /\ Untaken(d) # {} /\ i = SlotAt(Place(d))
    BY <1>3 DEF SlotInv
  <2> QED
    BY <1>1, <2>1
<1> QED
  BY <1>2, <1>3 DEF SlotInv

LEMMA FinishAlone ==
  ASSUME NodeTypes, FinishInv,
         UNCHANGED <<nodeJob, sent, to_finish, finished, nodeTrained>>,
         \A e \in 1..sent : Left(e)' = Left(e)
  PROVE  FinishInv'
<1>1. /\ Examples' = Examples
      /\ \A e : Due(e)' = Due(e)
  BY DEF Due, Labelled, Sending, Threads, Kinds, DelayedOnly, Global, Examples
<1>2. \A d \in Examples : d <= sent => Left(d)' = Left(d)
  <2>1. nodeJob \in NodeJobs /\ sent \in Nat
    BY SentNat DEF NodeTypes
  <2>2. \A d \in Examples : d \in Nat \ {0}
    BY <2>1, Source
  <2> QED
    BY <2>1, <2>2
<1>3. ASSUME NEW d \in Examples'
      PROVE  /\ to_finish'[d] = IF d <= sent' THEN Cardinality(Left(d)') ELSE 0
             /\ d \in Range(finished') <=> d <= sent' /\ Left(d)' = {}
             /\ nodeTrained'[d] =
                  SetToBag(IF d <= sent' THEN Due(d)' \ Left(d)' ELSE {})
  BY <1>1, <1>2 DEF FinishInv
<1> QED
  BY <1>3 DEF FinishInv

LEMMA RingAlone ==
  ASSUME NodeTypes, UNCHANGED ClaimVars, SameHands, SlotInv, FinishInv,
         UNCHANGED <<slot, users, to_finish, finished, nodeTrained>>
  PROVE  SlotInv' /\ FinishInv'
<1>1. \A e : Untaken(e)' = Untaken(e) /\ Left(e)' = Left(e)
  BY ClaimsAlone DEF NodeTypes
<1> QED
  BY <1>1, SlotAlone, FinishAlone DEF ClaimVars

(* A claim goes from the slot to a hand, or is settled.                    *)
LEMMA ClaimMoves ==
  ASSUME UNCHANGED nodeJob, NEW e \in Nat \ {0}, NEW c \in Untaken(e),
         \A d \in Nat \ {0} : \A b \in Claims(d) :
           /\ IsUntaken(b, d)' <=> IsUntaken(b, d) /\ ~(d = e /\ b = c)
           /\ IsHeld(b, d)' <=> IsHeld(b, d) \/ (d = e /\ b = c)
  PROVE  /\ Untaken(e)' = Untaken(e) \ {c}
         /\ \A d \in Nat \ {0} : d # e => Untaken(d)' = Untaken(d)
         /\ \A d \in Nat \ {0} : Left(d)' = Left(d)
<1>1. \A d : Claims(d)' = Claims(d)
  BY DEF Claims, Due, Labelled, Sending, Threads, Kinds, DelayedOnly, Global, RelayClaim
<1>2. c \in Claims(e) /\ IsUntaken(c, e)
  BY DEF Untaken
<1>3. \A d \in Nat \ {0} : \A b : b \in Left(d)' <=> b \in Left(d)
  BY <1>1, <1>2 DEF Left
<1>4. \A d \in Nat \ {0} : \A b : b \in Untaken(d)' <=> b \in Untaken(d) /\ ~(d = e /\ b = c)
  BY <1>1, <1>2 DEF Untaken
<1>5. ASSUME NEW d \in Nat \ {0}, d # e
      PROVE  Untaken(d)' = Untaken(d)
  <2>1. \A b : b \in Untaken(d)' <=> b \in Untaken(d)
    BY <1>4, <1>5
  <2> QED
    BY <2>1
<1>6. Untaken(e)' = Untaken(e) \ {c}
  BY <1>4
<1>7. ASSUME NEW d \in Nat \ {0}
      PROVE  Left(d)' = Left(d)
  BY <1>3
<1> QED
  BY <1>5, <1>6, <1>7

LEMMA ClaimSettled ==
  ASSUME UNCHANGED nodeJob, NEW e \in Nat \ {0}, NEW c \in Claims(e), ~IsUntaken(c, e), IsHeld(c, e),
         \A d \in Nat \ {0} : \A b \in Claims(d) :
           /\ IsUntaken(b, d)' <=> IsUntaken(b, d)
           /\ IsHeld(b, d)' <=> IsHeld(b, d) /\ ~(d = e /\ b = c)
  PROVE  /\ c \in Left(e) /\ Left(e)' = Left(e) \ {c}
         /\ \A d \in Nat \ {0} : d # e => Left(d)' = Left(d)
         /\ \A d \in Nat \ {0} : Untaken(d)' = Untaken(d)
<1>1. \A d : Claims(d)' = Claims(d)
  BY DEF Claims, Due, Labelled, Sending, Threads, Kinds, DelayedOnly, Global, RelayClaim
<1> QED
  BY <1>1 DEF Untaken, Left

LEMMA ClaimShape ==
  ASSUME nodeJob \in NodeJobs, NEW e, NEW c \in Claims(e)
  PROVE  \/ c = RelayClaim
         \/ \E t \in Threads : \E k \in {"train", "train again"} : c = <<t, k>>
<1>1. CASE c = RelayClaim
  BY <1>1
<1>2. CASE c \in Due(e)
  <2>1. c \in Threads \X Kinds
    BY <1>2 DEF Due
  <2>2. PICK t \in Threads, k \in Kinds : c = <<t, k>>
    BY <2>1
  <2>3. k \in {"train", "train again"}
    BY KindsCount
  <2> QED
    BY <2>2, <2>3
<1> QED
  BY <1>1, <1>2 DEF Claims

----------------------------------------------------------------------------
(* What a step leaves of each part of the invariant.                       *)
NumbersInv ==
  /\ parsed \in Nat /\ sent \in Nat /\ local_index \in Nat /\ global_index \in Nat
  /\ relay_idx \in Nat /\ answered \in Nat /\ relay_hand \in Nat
  /\ \A t \in Threads : /\ used[t] \in Nat /\ local_idx[t] \in Nat
                        /\ global_idx[t] \in Nat /\ hand[t] \in Nat

LEMMA Numbers ==
  ASSUME NodeTypes
  PROVE  NumbersInv
<1>1. parsed \in Nat /\ sent \in Nat
  <2>1. nodeJob \in NodeJobs /\ parsed \in 0..Len(nodeJob.source)
    BY DEF NodeTypes
  <2> QED
    BY <2>1, Source, SentNat
<1>2. \A t \in Threads : /\ used[t] \in Nat /\ local_idx[t] \in Nat
                         /\ global_idx[t] \in Nat /\ hand[t] \in Nat
  BY DEF NodeTypes
<1> QED
  BY <1>1, <1>2 DEF NumbersInv, NodeTypes

LEMMA ThreadSame ==
  ASSUME NodeTypes, NodeTypes', NEW t \in Threads, ThreadInv(t),
         UNCHANGED <<nodeJob, sent, local_index>>,
         parsed <= parsed', global_index <= global_index', AllParsed => AllParsed',
         /\ used'[t] = used[t] /\ at'[t] = at[t] /\ hand'[t] = hand[t]
         /\ local_idx'[t] = local_idx[t] /\ global_idx'[t] = global_idx[t]
  PROVE  ThreadInv(t)'
<1>1. NumbersInv /\ parsed' \in Int /\ global_index' \in Int
  <2>1. NumbersInv
    BY Numbers
  <2>2. parsed' \in 0..Len(nodeJob'.source) /\ global_index' \in Nat
    BY DEF NodeTypes
  <2> QED
    BY <2>1, <2>2
<1>2. (Pending(t)' <=> Pending(t)) /\ (Sending' <=> Sending)
      /\ (DelayedOnly' <=> DelayedOnly) /\ (Global' <=> Global)
      /\ (\A e : Labelled(e)' <=> Labelled(e)) /\ (Labelled(sent)' <=> Labelled(sent))
  BY DEF Pending, Sending, DelayedOnly, Global, Labelled
<1> HIDE DEF Pending, Sending, DelayedOnly, Global, Labelled
<1>3. /\ sent <= used[t] /\ used[t] <= parsed'
      /\ \A e \in sent + 1..used[t] : Labelled(e)' => e = used[t] /\ at[t] = "sum"
      /\ global_idx[t] <= global_index'
  <2>1. /\ sent <= used[t] /\ used[t] <= parsed /\ global_idx[t] <= global_index
        /\ \A e \in sent + 1..used[t] : Labelled(e) => e = used[t] /\ at[t] = "sum"
    BY DEF ThreadInv
  <2>2. /\ used[t] \in Nat /\ global_idx[t] \in Nat /\ parsed \in Nat
        /\ global_index \in Nat
    BY <1>1 DEF NumbersInv
  <2> QED
    BY <1>1, <1>2, <2>1, <2>2
<1>4. /\ at[t] = "sum" => hand[t] = used[t] /\ hand[t] # 0
      /\ at[t] \in {"delayed", "get", "done"} => hand[t] = 0
      /\ at[t] = "train" => /\ hand[t] = sent /\ used[t] = sent /\ hand[t] # 0
                            /\ Labelled(sent)' /\ ~Sending' /\ ~DelayedOnly'
                            /\ ~Pending(t)'
      /\ at[t] = "train again" => hand[t] = global_idx[t] /\ Global' /\ hand[t] # 0
      /\ Pending(t)' => /\ local_idx[t] = local_index - 1 /\ used[t] = sent /\ sent # 0
                        /\ Labelled(sent)'
                        /\ at[t] # "done" /\ (at[t] = "get" => AllParsed')
      /\ at[t] = "done" => AllParsed' /\ (Global' => global_idx[t] = local_index)
  BY <1>2 DEF ThreadInv
<1> QED
  BY <1>3, <1>4 DEF ThreadInv

LEMMA OrderSame ==
  ASSUME OrderInv, UNCHANGED <<nodeJob, used, shares, sent>>
  PROVE  OrderInv'
  BY DEF OrderInv, Threads, Examples

LEMMA RelaySame ==
  ASSUME RelayInv, UNCHANGED <<nodeJob, local_index, sent, relay_idx, global_index,
                               answered, relay_hand, relay_done>>,
         \A t \in Threads : at[t] = "done" => at'[t] = "done"
  PROVE  RelayInv'
<1>1. (Global' <=> Global) /\ Threads' = Threads
  BY DEF Global, Threads
<1> QED
  BY <1>1 DEF RelayInv

(* The parser, and the relay when it ends.                                 *)
LEMMA ParserStep ==
  ASSUME IInv, NodeParser
  PROVE  IInv'
<1> USE DEF IInv
<1>1. /\ UNCHANGED <<nodeJob, ringVars, relayVars, learnVars, null>>
      /\ parsed <= parsed' /\ ~AllParsed
      /\ parsed' \in 0..Len(nodeJob.source) /\ parserDone' \in BOOLEAN
      /\ parserDone' => parsed' = Len(nodeJob.source)
  <2>1. nodeJob \in NodeJobs /\ parsed \in 0..Len(nodeJob.source) /\ parserDone \in BOOLEAN
        /\ (parserDone => parsed = Len(nodeJob.source))
    BY DEF NodeTypes
  <2>2. Len(nodeJob.source) \in Nat
    BY <2>1, Source
  <2>3. CASE NodeParse
    BY <2>1, <2>2, <2>3 DEF NodeParse, AllParsed
  <2>4. CASE NodeParserDone
    BY <2>1, <2>2, <2>4 DEF NodeParserDone, AllParsed
  <2> QED
    BY <2>3, <2>4 DEF NodeParser
<1>2. NodeTypes'
  BY <1>1 DEF NodeTypes, ringVars, relayVars, learnVars, Threads, Examples
<1>3. ASSUME NEW t \in Threads
      PROVE  ThreadInv(t)'
  <2>1. NumbersInv
    BY Numbers
  <2> QED
    BY <1>1, <1>2, <2>1, ThreadSame DEF ringVars, relayVars, learnVars, NumbersInv
<1>4. OrderInv' /\ RelayInv'
  BY <1>1, OrderSame, RelaySame DEF ringVars, relayVars, learnVars
<1>5. SlotInv' /\ FinishInv'
  BY <1>1, RingAlone
     DEF ringVars, relayVars, learnVars, ClaimVars, SameHands, NodeTypes
<1>6. ~null' /\ Threads' = Threads
  BY <1>1 DEF Threads
<1> QED
  BY <1>2, <1>3, <1>4, <1>5, <1>6

LEMMA RelayEndStep ==
  ASSUME IInv, RelayEnds
  PROVE  IInv'
<1> USE DEF IInv
<1>1. /\ UNCHANGED <<inputVars, ringVars, global_index, waiting, answered, relay_hand,
                     learnVars, null>>
      /\ relay_hand = 0 /\ relay_done' = TRUE /\ answered = sent
      /\ \A t \in Threads : at[t] = "done"
  BY DEF RelayEnds
<1>2. NodeTypes'
  BY <1>1 DEF NodeTypes, inputVars, ringVars, learnVars, Threads, Examples
<1>3. ASSUME NEW t \in Threads
      PROVE  ThreadInv(t)'
  <2>1. NumbersInv /\ (AllParsed => AllParsed')
    BY <1>1, Numbers DEF inputVars, learnVars, AllParsed, Threads
  <2> QED
    BY <1>1, <1>2, <2>1, ThreadSame DEF inputVars, ringVars, learnVars, NumbersInv
<1>4. OrderInv'
  BY <1>1, OrderSame DEF inputVars, learnVars
<1>5. RelayInv'
  <2>1. (Global' <=> Global) /\ Threads' = Threads
    BY <1>1 DEF inputVars, Global, Threads
  <2> QED
    BY <1>1, <2>1 DEF RelayInv, inputVars, ringVars, learnVars
<1>6. SlotInv' /\ FinishInv'
  BY <1>1, RingAlone
     DEF inputVars, ringVars, learnVars, ClaimVars, SameHands, NodeTypes
<1>7. ~null' /\ Threads' = Threads
  BY <1>1 DEF inputVars, Threads
<1> QED
  BY <1>2, <1>3, <1>4, <1>5, <1>6, <1>7

(* A thread goes from one place where it has no claim to another.          *)
LEMMA MoveStep ==
  ASSUME IInv, NEW t \in Threads, NEW place \in {"delayed", "get", "done"},
         UNCHANGED <<inputVars, ringVars, global_index, answered, relay_hand, relay_done,
                     used, shares, sent, nodeTrained, null>>,
         at[t] \in {"delayed", "get", "sum"}, at' = [at EXCEPT ![t] = place],
         hand' = [hand EXCEPT ![t] = 0],
         \A e \in sent + 1..used[t] : ~Labelled(e),
         place = "get" /\ Pending(t) => AllParsed,
         place = "done" => /\ AllParsed /\ ~Pending(t)
                           /\ Global => global_idx[t] = local_index
  PROVE  IInv'
<1> USE DEF IInv
<1>1. at \in [Threads -> {"delayed", "get", "sum", "train", "train again", "done"}]
      /\ hand \in [Threads -> Nat]
  BY DEF NodeTypes
<1>2. NodeTypes' /\ Threads' = Threads
  BY <1>1 DEF NodeTypes, inputVars, ringVars, Threads, Examples
<1>3. AllParsed' <=> AllParsed
  BY DEF inputVars, AllParsed, Threads
<1>4. ASSUME NEW u \in Threads
      PROVE  ThreadInv(u)'
  <2>1. CASE u # t
    <3>1. at'[u] = at[u] /\ hand'[u] = hand[u]
      BY <1>1, <2>1
    <3>2. NumbersInv
      BY Numbers
    <3> QED
      BY <1>2, <1>3, <3>1, <3>2, ThreadSame DEF inputVars, ringVars, NumbersInv
  <2>2. CASE u = t
    <3>1. at'[t] = place /\ hand'[t] = 0
      BY <1>1
    <3>2. (Pending(t)' <=> Pending(t)) /\ (Global' <=> Global)
          /\ (\A e : Labelled(e)' <=> Labelled(e)) /\ (Labelled(sent)' <=> Labelled(sent))
      BY DEF inputVars, ringVars, Pending, Sending, DelayedOnly, Global, Labelled
    <3>3. ThreadInv(t)
      OBVIOUS
    <3>4. /\ sent' = sent /\ used' = used /\ parsed' = parsed /\ global_idx' = global_idx
          /\ local_idx' = local_idx /\ local_index' = local_index
          /\ global_index' = global_index
      BY DEF inputVars, ringVars
    <3>5. \A e \in sent' + 1..used'[t] : Labelled(e)' => e = used'[t] /\ at'[t] = "sum"
      BY <3>2, <3>4
    <3>6. /\ at'[t] = "sum" => hand'[t] = used'[t] /\ hand'[t] # 0
          /\ at'[t] \in {"delayed", "get", "done"} => hand'[t] = 0
          /\ at'[t] # "train" /\ at'[t] # "train again"
          /\ Pending(t)' =>
               /\ local_idx'[t] = local_index' - 1 /\ used'[t] = sent' /\ sent' # 0
               /\ Labelled(sent)' /\ at'[t] # "done" /\ (at'[t] = "get" => AllParsed')
          /\ at'[t] = "done" => AllParsed' /\ (Global' => global_idx'[t] = local_index')
      BY <1>3, <3>1, <3>2, <3>3, <3>4 DEF ThreadInv
    <3>7. sent' <= used'[t] /\ used'[t] <= parsed' /\ global_idx'[t] <= global_index'
      BY <3>3, <3>4 DEF ThreadInv
    <3> QED
      BY <2>2, <3>5, <3>6, <3>7 DEF ThreadInv
  <2> QED
    BY <2>1, <2>2
<1>5. OrderInv'
  BY OrderSame DEF inputVars
<1>6. RelayInv'
  <2>1. \A u \in Threads : at[u] = "done" => at'[u] = "done"
    BY <1>1
  <2> QED
    BY <2>1, RelaySame DEF inputVars, ringVars
<1>7. SlotInv' /\ FinishInv'
  <2>1. SameHands
    BY <1>1 DEF SameHands
  <2> QED
    BY <2>1, RingAlone DEF inputVars, ringVars, ClaimVars, NodeTypes
<1> QED
  BY <1>2, <1>4, <1>5, <1>6, <1>7

LEMMA NothingDelayedStep ==
  ASSUME IInv, NEW t \in Threads, NoneDelayed(t)
  PROVE  IInv'
<1>1. ThreadInv(t) /\ hand \in [Threads -> Nat] /\ at[t] = "delayed"
  BY DEF IInv, NodeTypes, NoneDelayed
<1>2. hand[t] = 0 /\ hand' = [hand EXCEPT ![t] = 0]
  BY <1>1 DEF ThreadInv, NoneDelayed
<1>3. \A e \in sent + 1..used[t] : ~Labelled(e)
  BY <1>1 DEF ThreadInv
<1>4. Pending(t) => AllParsed
  BY DEF NoneDelayed, Pending
<1>5. /\ UNCHANGED <<inputVars, ringVars, relayVars, used, shares, sent, nodeTrained, null>>
      /\ at' = [at EXCEPT ![t] = "get"]
  BY DEF NoneDelayed
<1> QED
  BY <1>1, <1>2, <1>3, <1>4, <1>5, MoveStep DEF relayVars

LEMMA NothingToGetStep ==
  ASSUME IInv, NEW t \in Threads, NothingToGet(t)
  PROVE  IInv'
<1>1. /\ ThreadInv(t) /\ hand \in [Threads -> Nat] /\ at[t] = "get"
  BY DEF IInv, NodeTypes, NothingToGet
<1>2. hand[t] = 0 /\ hand' = [hand EXCEPT ![t] = 0]
  BY <1>1 DEF ThreadInv, NothingToGet
<1>3. \A e \in sent + 1..used[t] : ~Labelled(e)
  BY <1>1 DEF ThreadInv
<1> DEFINE place == IF NodeThreadDone(t) THEN "done" ELSE "delayed"
<1>4. place = "done" => /\ AllParsed /\ ~Pending(t)
                        /\ Global => global_idx[t] = local_index
  BY DEF NodeThreadDone, Pending, Sending, DelayedOnly, Global
<1>5. /\ UNCHANGED <<inputVars, ringVars, relayVars, used, shares, sent, nodeTrained, null>>
      /\ at' = [at EXCEPT ![t] = place]
  BY DEF NothingToGet
<1>6. place \in {"delayed", "get", "done"} /\ place # "get"
  OBVIOUS
<1> HIDE DEF place
<1> QED
  BY <1>1, <1>2, <1>3, <1>4, <1>5, <1>6, MoveStep DEF relayVars

(* The sum of an example is there once the last thread has sent it.        *)
LEMMA SentAll ==
  ASSUME IInv, NEW e \in Examples, \A t \in Threads : used[t] >= e
  PROVE  e <= sent
  BY DEF IInv, OrderInv

LEMMA SharesLeft ==
  ASSUME IInv, NEW e \in Examples
  PROVE  /\ IsFiniteSet({t \in Threads : used[t] < e})
         /\ shares[e] = Cardinality({t \in Threads : used[t] < e})
         /\ shares[e] = 0 => \A t \in Threads : ~(used[t] < e)
<1>1. IsFiniteSet({t \in Threads : used[t] < e})
  <2>1. {t \in Threads : used[t] < e} \in SUBSET Threads
    OBVIOUS
  <2> QED
    BY <2>1, ThreadsFinite DEF IInv, NodeTypes
<1>2. shares[e] = Cardinality({t \in Threads : used[t] < e})
  BY DEF IInv, OrderInv
<1>3. shares[e] = 0 => {t \in Threads : used[t] < e} = {}
  BY <1>1, <1>2, FS_EmptySet
<1> QED
  BY <1>1, <1>2, <1>3

LEMMA SumStep ==
  ASSUME IInv, NEW t \in Threads, SumIsThere(t)
  PROVE  IInv'
<1>1. /\ ThreadInv(t) /\ at[t] = "sum" /\ NumbersInv /\ hand[t] = used[t] /\ hand[t] # 0
      /\ shares[hand[t]] = 0
  BY Numbers DEF IInv, SumIsThere, ThreadInv
<1>2. used[t] \in Nat \ {0} /\ sent \in Nat /\ used[t] <= parsed /\ sent <= used[t]
  BY <1>1 DEF NumbersInv, ThreadInv
<1>3. used[t] \in Examples
  <2>1. nodeJob \in NodeJobs /\ parsed \in 0..Len(nodeJob.source)
    BY DEF IInv, NodeTypes
  <2> QED
    BY <1>2, <2>1, Source
<1>4. used[t] <= sent
  <2>1. \A u \in Threads : ~(used[u] < used[t])
    BY <1>1, <1>3, SharesLeft
  <2>2. \A u \in Threads : used[u] >= used[t]
    BY <1>1, <2>1 DEF NumbersInv
  <2> QED
    BY <1>3, <2>2, SentAll
<1>5. \A e \in sent + 1..used[t] : ~Labelled(e)
  BY <1>2, <1>4
<1>6. /\ UNCHANGED <<inputVars, ringVars, relayVars, used, shares, sent, nodeTrained, null>>
      /\ at' = [at EXCEPT ![t] = "delayed"] /\ hand' = [hand EXCEPT ![t] = 0]
  BY DEF SumIsThere
<1> QED
  BY <1>1, <1>5, <1>6, MoveStep DEF relayVars

LEMMA AwaitStep ==
  ASSUME IInv, NEW t \in Threads, AwaitGlobal(t)
  PROVE  IInv'
<1> USE DEF IInv
<1>1. UNCHANGED <<inputVars, ringVars, global_index, answered, relay_hand, relay_done,
                  learnVars, null>>
  BY DEF AwaitGlobal
<1>2. NodeTypes' /\ Threads' = Threads /\ NumbersInv /\ (AllParsed => AllParsed')
  BY <1>1, Numbers
     DEF NodeTypes, inputVars, ringVars, learnVars, Threads, Examples, AllParsed
<1>3. ASSUME NEW u \in Threads
      PROVE  ThreadInv(u)'
  BY <1>1, <1>2, ThreadSame DEF inputVars, ringVars, learnVars, NumbersInv
<1>4. OrderInv' /\ RelayInv' /\ SlotInv' /\ FinishInv'
  BY <1>1, OrderSame, RelaySame, RingAlone
     DEF inputVars, ringVars, learnVars, ClaimVars, SameHands, NodeTypes
<1> QED
  BY <1>1, <1>2, <1>3, <1>4

----------------------------------------------------------------------------
(* A learner takes an example for its first training: the one that was     *)
(* delayed last.                                                           *)
LEMMA TakeLocalClaims ==
  ASSUME NodeTypes, NEW t \in Threads, ~Sending, ~DelayedOnly, at[t] = "delayed",
         local_idx[t] # local_index, Labelled(sent), sent # 0,
         local_idx' = [local_idx EXCEPT ![t] = local_index],
         at' = [at EXCEPT ![t] = "train"], hand' = [hand EXCEPT ![t] = sent],
         UNCHANGED <<nodeJob, sent, local_index, global_idx, relay_idx, relay_hand>>
  PROVE  /\ <<t, "train">> \in Untaken(sent)
         /\ \A d \in Nat \ {0} : \A b \in Claims(d) :
              /\ IsUntaken(b, d)' <=>
                   IsUntaken(b, d) /\ ~(d = sent /\ b = <<t, "train">>)
              /\ IsHeld(b, d)' <=> IsHeld(b, d) \/ (d = sent /\ b = <<t, "train">>)
<1>1. /\ local_idx \in [Threads -> Nat] /\ hand \in [Threads -> Nat] /\ nodeJob \in NodeJobs
      /\ at \in [Threads -> {"delayed", "get", "sum", "train", "train again", "done"}]
  BY DEF NodeTypes
<1>2. <<t, "train">> \in Untaken(sent)
  <2>1. <<t, "train">> \in Claims(sent)
    BY <1>1, KindsCount DEF Claims, Due
  <2> QED
    BY <2>1 DEF Untaken, IsUntaken
<1>3. ASSUME NEW d \in Nat \ {0}, NEW b \in Claims(d)
      PROVE  /\ IsUntaken(b, d)' <=>
                  IsUntaken(b, d) /\ ~(d = sent /\ b = <<t, "train">>)
             /\ IsHeld(b, d)' <=> IsHeld(b, d) \/ (d = sent /\ b = <<t, "train">>)
  <2>1. CASE b = RelayClaim
    <3>1. b # <<t, "train">>
      BY <2>1 DEF RelayClaim
    <3> QED
      BY <2>1, <3>1 DEF IsUntaken, IsHeld, RelayClaim
  <2>2. ASSUME NEW u \in Threads, NEW k \in {"train", "train again"}, b = <<u, k>>
        PROVE  /\ IsUntaken(b, d)' <=>
                    IsUntaken(b, d) /\ ~(d = sent /\ b = <<t, "train">>)
               /\ IsHeld(b, d)' <=> IsHeld(b, d) \/ (d = sent /\ b = <<t, "train">>)
    <3>1. CASE u = t
      <4>1. local_idx'[t] = local_index /\ at'[t] = "train" /\ hand'[t] = sent
        BY <1>1
      <4> QED
        BY <2>2, <3>1, <4>1 DEF IsUntaken, IsHeld
    <3>2. CASE u # t
      <4>1. local_idx'[u] = local_idx[u] /\ at'[u] = at[u] /\ hand'[u] = hand[u]
        BY <1>1, <3>2
      <4> QED
        BY <2>2, <3>2, <4>1 DEF IsUntaken, IsHeld
    <3> QED
      BY <3>1, <3>2
  <2>3. \/ b = RelayClaim
        \/ \E u \in Threads : \E k \in {"train", "train again"} : b = <<u, k>>
    BY <1>1, ClaimShape
  <2> QED
    BY <2>1, <2>2, <2>3
<1> QED
  BY <1>2, <1>3

LEMMA TakeLocalStep ==
  ASSUME IInv, NEW t \in Threads, TakeLocal(t)
  PROVE  IInv'
<1> USE DEF IInv
<1>1. /\ at[t] = "delayed" /\ ~Sending /\ local_idx[t] # local_index /\ ~DelayedOnly
      /\ TakeFrom(local_idx[t])
      /\ local_idx' = [local_idx EXCEPT ![t] = local_idx[t] + 1]
      /\ hand' = [hand EXCEPT ![t] = slot[SlotAt(local_idx[t])]]
      /\ at' = [at EXCEPT ![t] = "train"]
      /\ UNCHANGED <<inputVars, relay_idx, global_idx, local_index, to_finish, finished,
                     relayVars, used, shares, sent, nodeTrained>>
  BY DEF TakeLocal
<1>2. NumbersInv /\ ThreadInv(t)
  BY Numbers
<1>3. /\ local_idx[t] = local_index - 1 /\ used[t] = sent /\ sent # 0 /\ Labelled(sent)
      /\ hand[t] = 0
  BY <1>1, <1>2 DEF ThreadInv, Pending
<1>4. Place(sent) = local_idx[t] /\ local_idx[t] + 1 = local_index /\ sent \in 1..sent
  BY <1>2, <1>3 DEF Place, NumbersInv
<1> DEFINE c == <<t, "train">>
<1>5. slot[SlotAt(Place(sent))] = sent
  <2>1. c \in Untaken(sent)
    <3>1. c \in Claims(sent)
      BY <1>1, <1>3, KindsCount DEF NodeTypes, Claims, Due
    <3> QED
      BY <1>1, <3>1 DEF Untaken, IsUntaken
  <2> QED
    BY <1>4, <2>1 DEF SlotInv
<1>6. /\ hand' = [hand EXCEPT ![t] = sent]
      /\ local_idx' = [local_idx EXCEPT ![t] = local_index]
  BY <1>1, <1>4, <1>5
<1>7. UNCHANGED <<nodeJob, sent, local_index, global_idx, relay_idx, relay_hand>>
  BY <1>1 DEF inputVars, relayVars
<1>8. /\ c \in Untaken(sent)
      /\ \A d \in Nat \ {0} : \A b \in Claims(d) :
           /\ IsUntaken(b, d)' <=> IsUntaken(b, d) /\ ~(d = sent /\ b = c)
           /\ IsHeld(b, d)' <=> IsHeld(b, d) \/ (d = sent /\ b = c)
  BY <1>1, <1>3, <1>6, <1>7, TakeLocalClaims
<1> HIDE DEF c
<1>9. PICK e \in 1..sent : e = sent
  BY <1>4
<1>10. /\ Untaken(e)' = Untaken(e) \ {c}
       /\ \A d \in Nat \ {0} : d # e => Untaken(d)' = Untaken(d)
       /\ \A d \in Nat \ {0} : Left(d)' = Left(d)
  BY <1>7, <1>8, <1>9, SentNat, ClaimMoves
<1>11. /\ SlotInv' /\ ~null'
       /\ slot' \in [0..NodeRing - 1 -> Nat] /\ users' \in [0..NodeRing - 1 -> Nat]
  <2>1. TakeFrom(Place(e)) /\ c \in Untaken(e)
    BY <1>1, <1>4, <1>8, <1>9
  <2> QED
    BY <1>7, <1>10, <2>1, SentNat, TakeStep
<1>12. FinishInv'
  BY <1>1, <1>7, <1>10, SentNat, FinishAlone
<1>13. NodeTypes' /\ Threads' = Threads
  <2>1. /\ local_idx \in [Threads -> Nat] /\ hand \in [Threads -> Nat]
        /\ at \in [Threads -> {"delayed", "get", "sum", "train", "train again", "done"}]
        /\ sent \in Nat /\ local_index \in Nat
    BY <1>2 DEF NodeTypes, NumbersInv
  <2>2. /\ local_idx' \in [Threads -> Nat] /\ hand' \in [Threads -> Nat]
        /\ at' \in [Threads -> {"delayed", "get", "sum", "train", "train again", "done"}]
    BY <1>1, <1>6, <2>1
  <2>3. Threads' = Threads /\ Examples' = Examples
    BY <1>7 DEF Threads, Examples
  <2> QED
    BY <1>1, <1>11, <2>2, <2>3 DEF NodeTypes, inputVars, relayVars
<1>14. ASSUME NEW u \in Threads
       PROVE  ThreadInv(u)'
  <2>1. AllParsed => AllParsed'
    BY <1>1 DEF AllParsed, inputVars, Threads
  <2>2. local_idx \in [Threads -> Nat] /\ hand \in [Threads -> Nat] /\ DOMAIN at = Threads
    BY DEF NodeTypes
  <2>3. CASE u # t
    <3>1. local_idx'[u] = local_idx[u] /\ at'[u] = at[u] /\ hand'[u] = hand[u]
      BY <1>1, <1>6, <2>2, <2>3
    <3> QED
      BY <1>1, <1>2, <1>13, <2>1, <3>1, ThreadSame DEF inputVars, relayVars, NumbersInv
  <2>4. CASE u = t
    <3>1. local_idx'[t] = local_index /\ at'[t] = "train" /\ hand'[t] = sent
      BY <1>1, <1>6, <2>2
    <3>2. /\ Labelled(sent)' /\ ~Sending' /\ ~DelayedOnly' /\ ~Pending(t)'
      BY <1>1, <1>3, <1>7, <3>1 DEF Labelled, Sending, DelayedOnly, Pending
    <3>3. /\ sent' = sent /\ used' = used /\ parsed' = parsed /\ global_idx' = global_idx
          /\ global_index' = global_index
      BY <1>1 DEF inputVars, relayVars
    <3>4. /\ sent' <= used'[t] /\ used'[t] <= parsed' /\ global_idx'[t] <= global_index'
      BY <1>2, <3>3 DEF ThreadInv
    <3>5. sent' + 1..used'[t] = {}
      BY <1>2, <1>3, <3>3 DEF NumbersInv
    <3> QED
      BY <1>3, <2>4, <3>1, <3>2, <3>3, <3>4, <3>5 DEF ThreadInv
  <2> QED
    BY <2>3, <2>4
<1>15. OrderInv'
  BY <1>1, OrderSame DEF inputVars
<1>16. RelayInv'
  <2>1. \A u \in Threads : at[u] = "done" => at'[u] = "done"
    BY <1>1 DEF NodeTypes
  <2> QED
    BY <1>1, <2>1, RelaySame DEF inputVars, relayVars
<1> QED
  BY <1>11, <1>12, <1>13, <1>14, <1>15, <1>16

LEMMA NextIndex ==
  \A i, e, d \in Nat : e = i + 1 => (e < d <=> (i < d /\ d # e))
  OBVIOUS

(* A learner takes the next example that the relay is done with.           *)
LEMMA TakeGlobalClaims ==
  ASSUME NodeTypes, NEW t \in Threads, NEW e \in Nat \ {0}, ~Sending, Global,
         at[t] = "delayed", Labelled(e), e = global_idx[t] + 1,
         global_idx' = [global_idx EXCEPT ![t] = e],
         at' = [at EXCEPT ![t] = "train again"], hand' = [hand EXCEPT ![t] = e],
         UNCHANGED <<nodeJob, sent, local_idx, local_index, relay_idx, relay_hand>>
  PROVE  /\ <<t, "train again">> \in Untaken(e)
         /\ \A d \in Nat \ {0} : \A b \in Claims(d) :
              /\ IsUntaken(b, d)' <=>
                   IsUntaken(b, d) /\ ~(d = e /\ b = <<t, "train again">>)
              /\ IsHeld(b, d)' <=> IsHeld(b, d) \/ (d = e /\ b = <<t, "train again">>)
<1>1. /\ global_idx \in [Threads -> Nat] /\ hand \in [Threads -> Nat] /\ nodeJob \in NodeJobs
      /\ at \in [Threads -> {"delayed", "get", "sum", "train", "train again", "done"}]
      /\ global_idx[t] \in Nat
  BY DEF NodeTypes
<1>2. <<t, "train again">> \in Untaken(e)
  <2>1. <<t, "train again">> \in Claims(e)
    BY <1>1, KindsCount DEF Claims, Due
  <2>2. global_idx[t] < e
    <3>1. e = global_idx[t] + 1 /\ global_idx[t] \in Nat
      BY <1>1
    <3> QED
      BY ONLY <3>1
  <2> QED
    BY <2>1, <2>2 DEF Untaken, IsUntaken
<1>3. ASSUME NEW d \in Nat \ {0}, NEW b \in Claims(d)
      PROVE  /\ IsUntaken(b, d)' <=>
                  IsUntaken(b, d) /\ ~(d = e /\ b = <<t, "train again">>)
             /\ IsHeld(b, d)' <=> IsHeld(b, d) \/ (d = e /\ b = <<t, "train again">>)
  <2>1. CASE b = RelayClaim
    <3>1. b # <<t, "train again">>
      BY <2>1 DEF RelayClaim
    <3> QED
      BY <2>1, <3>1 DEF IsUntaken, IsHeld, RelayClaim
  <2>2. ASSUME NEW u \in Threads, NEW k \in {"train", "train again"}, b = <<u, k>>
        PROVE  /\ IsUntaken(b, d)' <=>
                    IsUntaken(b, d) /\ ~(d = e /\ b = <<t, "train again">>)
               /\ IsHeld(b, d)' <=> IsHeld(b, d) \/ (d = e /\ b = <<t, "train again">>)
    <3>1. CASE u = t
      <4>1. global_idx'[t] = e /\ at'[t] = "train again" /\ hand'[t] = e
        BY <1>1
      <4>2. e < d <=> global_idx[t] < d /\ d # e
        <5>1. e = global_idx[t] + 1 /\ global_idx[t] \in Nat /\ d \in Nat
          BY <1>1
        <5>2. e \in Nat
          OBVIOUS
        <5> QED
          BY ONLY <5>1, <5>2, NextIndex, Zenon
      <4> QED
        BY <2>2, <3>1, <4>1, <4>2 DEF IsUntaken, IsHeld
    <3>2. CASE u # t
      <4>1. global_idx'[u] = global_idx[u] /\ at'[u] = at[u] /\ hand'[u] = hand[u]
        BY <1>1, <3>2
      <4> QED
        BY <2>2, <3>2, <4>1 DEF IsUntaken, IsHeld
    <3> QED
      BY <3>1, <3>2
  <2>3. \/ b = RelayClaim
        \/ \E u \in Threads : \E k \in {"train", "train again"} : b = <<u, k>>
    BY <1>1, ClaimShape
  <2> QED
    BY <2>1, <2>2, <2>3
<1> QED
  BY <1>2, <1>3

LEMMA GlobalJob ==
  ASSUME GlobalLabelled, nodeJob \in NodeJobs, Global
  PROVE  nodeJob.relay /\ ~Sending /\ \A e \in Examples : Labelled(e)
  BY Source DEF GlobalLabelled, Global, Sending, Labelled

LEMMA TakeGlobalStep ==
  ASSUME GlobalLabelled, IInv, NEW t \in Threads, TakeGlobal(t)
  PROVE  IInv'
<1> USE DEF IInv
<1>1. /\ at[t] = "delayed" /\ WantsGlobal(t) /\ global_idx[t] < global_index
      /\ TakeFrom(global_idx[t])
      /\ global_idx' = [global_idx EXCEPT ![t] = global_idx[t] + 1]
      /\ hand' = [hand EXCEPT ![t] = slot[SlotAt(global_idx[t])]]
      /\ at' = [at EXCEPT ![t] = "train again"]
      /\ UNCHANGED <<inputVars, local_idx, relay_idx, local_index, to_finish, finished,
                     relayVars, used, shares, sent, nodeTrained>>
  BY DEF TakeGlobal
<1>2. NumbersInv /\ ThreadInv(t) /\ nodeJob \in NodeJobs
  BY Numbers DEF NodeTypes
<1>3. Global /\ nodeJob.relay /\ ~Sending /\ local_index = sent
  BY <1>1, <1>2, GlobalJob DEF WantsGlobal, RelayInv
<1> DEFINE e == global_idx[t] + 1
<1>4. e \in 1..sent /\ Place(e) = global_idx[t] /\ e <= global_index
  <2>1. global_index <= sent
    BY <1>2, <1>3 DEF RelayInv, NumbersInv
  <2>2. /\ global_idx[t] \in Nat /\ sent \in Nat /\ global_index \in Nat
        /\ local_index = sent /\ global_idx[t] < global_index
    BY <1>1, <1>2, <1>3 DEF NumbersInv
  <2>3. e \in 1..sent /\ e <= global_index
    BY ONLY <2>1, <2>2
  <2>4. Place(e) = global_idx[t]
    BY <2>2 DEF Place
  <2> QED
    BY <2>3, <2>4
<1>5. Labelled(e) /\ e \in Nat \ {0}
  BY <1>2, <1>3, <1>4, GlobalJob, SentNat
<1> DEFINE c == <<t, "train again">>
<1>6. slot[SlotAt(Place(e))] = e
  <2>1. c \in Untaken(e)
    <3>1. c \in Claims(e)
      BY <1>2, <1>3, <1>5, KindsCount DEF Claims, Due
    <3>2. global_idx[t] < e
      BY <1>2 DEF NumbersInv
    <3> QED
      BY <3>1, <3>2 DEF Untaken, IsUntaken
  <2> QED
    BY <1>4, <2>1 DEF SlotInv
<1>7. hand' = [hand EXCEPT ![t] = e] /\ global_idx' = [global_idx EXCEPT ![t] = e]
  BY <1>1, <1>4, <1>6
<1>8. UNCHANGED <<nodeJob, sent, local_idx, local_index, relay_idx, relay_hand>>
  BY <1>1 DEF inputVars, relayVars
<1>9. PICK n \in 1..sent : n = e
  BY <1>4
<1>10. n \in Nat \ {0} /\ n = global_idx[t] + 1 /\ Labelled(n) /\ Place(n) = global_idx[t]
       /\ n <= global_index /\ hand' = [hand EXCEPT ![t] = n]
       /\ global_idx' = [global_idx EXCEPT ![t] = n]
  BY <1>4, <1>5, <1>7, <1>9
<1> HIDE DEF c, e
<1>11. /\ c \in Untaken(n)
       /\ \A d \in Nat \ {0} : \A b \in Claims(d) :
            /\ IsUntaken(b, d)' <=> IsUntaken(b, d) /\ ~(d = n /\ b = c)
            /\ IsHeld(b, d)' <=> IsHeld(b, d) \/ (d = n /\ b = c)
  BY <1>1, <1>3, <1>8, <1>10, TakeGlobalClaims DEF c
<1>12. /\ Untaken(n)' = Untaken(n) \ {c}
       /\ \A d \in Nat \ {0} : d # n => Untaken(d)' = Untaken(d)
       /\ \A d \in Nat \ {0} : Left(d)' = Left(d)
  BY <1>8, <1>10, <1>11, ClaimMoves
<1>13. \A d \in 1..sent : d \in Nat \ {0}
  BY SentNat
<1>14. /\ SlotInv' /\ ~null'
       /\ slot' \in [0..NodeRing - 1 -> Nat] /\ users' \in [0..NodeRing - 1 -> Nat]
  <2>1. TakeFrom(Place(n)) /\ c \in Untaken(n)
    BY <1>1, <1>10, <1>11
  <2> QED
    BY <1>8, <1>12, <1>13, <2>1, TakeStep
<1>15. FinishInv'
  BY <1>1, <1>8, <1>12, <1>13, FinishAlone
<1>16. NodeTypes' /\ Threads' = Threads
  <2>1. /\ global_idx \in [Threads -> Nat] /\ hand \in [Threads -> Nat]
        /\ at \in [Threads -> {"delayed", "get", "sum", "train", "train again", "done"}]
    BY DEF NodeTypes
  <2>2. /\ global_idx' \in [Threads -> Nat] /\ hand' \in [Threads -> Nat]
        /\ at' \in [Threads -> {"delayed", "get", "sum", "train", "train again", "done"}]
    BY <1>1, <1>10, <2>1
  <2>3. Threads' = Threads /\ Examples' = Examples
    BY <1>8 DEF Threads, Examples
  <2> QED
    BY <1>1, <1>14, <2>2, <2>3 DEF NodeTypes, inputVars, relayVars
<1>17. ASSUME NEW u \in Threads
       PROVE  ThreadInv(u)'
  <2>1. AllParsed => AllParsed'
    BY <1>1 DEF AllParsed, inputVars, Threads
  <2>2. global_idx \in [Threads -> Nat] /\ hand \in [Threads -> Nat] /\ DOMAIN at = Threads
    BY DEF NodeTypes
  <2>3. CASE u # t
    <3>1. global_idx'[u] = global_idx[u] /\ at'[u] = at[u] /\ hand'[u] = hand[u]
      BY <1>1, <1>10, <2>2, <2>3
    <3>2. /\ UNCHANGED <<nodeJob, sent, local_index>> /\ used' = used
          /\ local_idx' = local_idx /\ parsed' = parsed /\ global_index' = global_index
      BY <1>1 DEF inputVars, relayVars
    <3>3. parsed <= parsed' /\ global_index <= global_index'
      <4>1. parsed \in Nat /\ global_index \in Nat
        BY <1>2 DEF NumbersInv
      <4> QED
        BY ONLY <3>2, <4>1
    <3> QED
      BY <1>16, <2>1, <3>1, <3>2, <3>3, ThreadSame
  <2>4. CASE u = t
    <3>1. global_idx'[t] = n /\ at'[t] = "train again" /\ hand'[t] = n
      BY <1>1, <1>10, <2>2
    <3>2. /\ Labelled(sent)' <=> Labelled(sent)
          /\ \A d : Labelled(d)' <=> Labelled(d)
          /\ Global' /\ (Pending(t)' <=> Pending(t))
      BY <1>3, <1>8 DEF Labelled, Sending, DelayedOnly, Global, Pending
    <3>3. /\ sent' = sent /\ used' = used /\ parsed' = parsed /\ local_idx' = local_idx
          /\ local_index' = local_index /\ global_index' = global_index
      BY <1>1 DEF inputVars, relayVars
    <3>4. /\ sent' <= used'[t] /\ used'[t] <= parsed' /\ global_idx'[t] <= global_index'
      BY <1>2, <1>10, <3>1, <3>3 DEF ThreadInv
    <3>5. \A d \in sent' + 1..used'[t] : ~Labelled(d)'
      BY <1>1, <1>2, <3>2, <3>3 DEF ThreadInv
    <3>6. Pending(t)' => /\ local_idx'[t] = local_index' - 1 /\ used'[t] = sent'
                         /\ sent' # 0 /\ Labelled(sent)'
      BY <1>2, <3>2, <3>3 DEF ThreadInv
    <3> QED
      BY <1>10, <2>4, <3>1, <3>2, <3>4, <3>5, <3>6 DEF ThreadInv
  <2> QED
    BY <2>3, <2>4
<1>18. OrderInv'
  BY <1>1, OrderSame DEF inputVars
<1>19. RelayInv'
  <2>1. \A u \in Threads : at[u] = "done" => at'[u] = "done"
    BY <1>1 DEF NodeTypes
  <2> QED
    BY <1>1, <2>1, RelaySame DEF inputVars, relayVars
<1> QED
  BY <1>14, <1>15, <1>16, <1>17, <1>18, <1>19

(* A learner trains on the example in its hand.                            *)
LEMMA TrainClaims ==
  ASSUME NodeTypes, NEW t \in Threads, NEW e, hand[t] = e,
         at[t] \in {"train", "train again"},
         at' = [at EXCEPT ![t] = "delayed"], hand' = [hand EXCEPT ![t] = 0],
         UNCHANGED <<nodeJob, sent, local_idx, local_index, global_idx, relay_idx,
                     relay_hand>>
  PROVE  /\ IsHeld(<<t, at[t]>>, e)
         /\ \A d \in Nat \ {0} : \A b \in Claims(d) :
              /\ IsUntaken(b, d)' <=> IsUntaken(b, d)
              /\ IsHeld(b, d)' <=> IsHeld(b, d) /\ ~(d = e /\ b = <<t, at[t]>>)
<1>1. /\ hand \in [Threads -> Nat] /\ nodeJob \in NodeJobs
      /\ at \in [Threads -> {"delayed", "get", "sum", "train", "train again", "done"}]
  BY DEF NodeTypes
<1>2. IsHeld(<<t, at[t]>>, e)
  BY DEF IsHeld
<1>3. ASSUME NEW d \in Nat \ {0}, NEW b \in Claims(d)
      PROVE  /\ IsUntaken(b, d)' <=> IsUntaken(b, d)
             /\ IsHeld(b, d)' <=> IsHeld(b, d) /\ ~(d = e /\ b = <<t, at[t]>>)
  <2>1. IsUntaken(b, d)' <=> IsUntaken(b, d)
    BY DEF IsUntaken
  <2>2. CASE b = RelayClaim
    <3>1. b # <<t, at[t]>>
      BY <2>2 DEF RelayClaim
    <3> QED
      BY <2>1, <2>2, <3>1 DEF IsHeld, RelayClaim
  <2>3. ASSUME NEW u \in Threads, NEW k \in {"train", "train again"}, b = <<u, k>>
        PROVE  IsHeld(b, d)' <=> IsHeld(b, d) /\ ~(d = e /\ b = <<t, at[t]>>)
    <3>1. CASE u = t
      <4>1. at'[t] = "delayed"
        BY <1>1
      <4> QED
        BY <2>3, <3>1, <4>1 DEF IsHeld
    <3>2. CASE u # t
      <4>1. at'[u] = at[u] /\ hand'[u] = hand[u]
        BY <1>1, <3>2
      <4> QED
        BY <2>3, <3>2, <4>1 DEF IsHeld
    <3> QED
      BY <3>1, <3>2
  <2>4. \/ b = RelayClaim
        \/ \E u \in Threads : \E k \in {"train", "train again"} : b = <<u, k>>
    BY <1>1, ClaimShape
  <2> QED
    BY <2>1, <2>2, <2>3, <2>4
<1> QED
  BY <1>2, <1>3

LEMMA TrainStep ==
  ASSUME GlobalLabelled, IInv, NEW t \in Threads, TrainOn(t)
  PROVE  IInv'
<1> USE DEF IInv
<1> DEFINE c == <<t, at[t]>>
<1>1. /\ at[t] \in {"train", "train again"} /\ hand[t] # 0
      /\ nodeTrained' = [nodeTrained EXCEPT ![hand[t]] = nodeTrained[hand[t]] (+) SetToBag({c})]
      /\ Finish(hand[t])
      /\ at' = [at EXCEPT ![t] = "delayed"] /\ hand' = [hand EXCEPT ![t] = 0]
      /\ UNCHANGED <<inputVars, slot, users, local_idx, relay_idx, global_idx, local_index,
                     relayVars, used, shares, sent, null>>
  BY DEF TrainOn
<1>2. NumbersInv /\ ThreadInv(t) /\ nodeJob \in NodeJobs
  BY Numbers DEF NodeTypes
<1>3. /\ hand[t] \in 1..sent /\ Labelled(hand[t]) /\ ~Sending
      /\ at[t] = "train" => hand[t] = sent /\ local_idx[t] = local_index /\ ~DelayedOnly
      /\ at[t] = "train again" => hand[t] = global_idx[t] /\ Global
  <2>1. CASE at[t] = "train"
    <3>1. /\ hand[t] = sent /\ hand[t] # 0 /\ Labelled(sent) /\ ~Sending /\ ~DelayedOnly
          /\ ~Pending(t)
      BY <1>2, <2>1 DEF ThreadInv
    <3>2. hand[t] \in 1..sent
      BY <1>2, <3>1 DEF NumbersInv
    <3> QED
      BY <2>1, <3>1, <3>2 DEF Pending
  <2>2. CASE at[t] = "train again"
    <3>1. hand[t] = global_idx[t] /\ Global /\ global_idx[t] <= global_index
      BY <1>2, <2>2 DEF ThreadInv
    <3>2. global_index <= sent
      BY <1>2 DEF RelayInv, NumbersInv
    <3>3. hand[t] \in Nat /\ global_index \in Nat /\ sent \in Nat /\ hand[t] # 0
      BY <1>1, <1>2 DEF NumbersInv
    <3>4. hand[t] \in 1..sent
      BY ONLY <3>1, <3>2, <3>3
    <3>5. hand[t] \in Examples
      BY <3>4, SentNat
    <3> QED
      BY <1>2, <2>2, <3>1, <3>4, <3>5, GlobalJob
  <2> QED
    BY <1>1, <2>1, <2>2
<1>4. PICK e \in 1..sent : e = hand[t]
  BY <1>3
<1>5. e \in Nat \ {0}
  BY SentNat
<1>6. c \in Due(e) /\ c \in Claims(e) /\ ~IsUntaken(c, e)
  <2>1. at[t] \in Kinds
    BY <1>1, <1>2, <1>3, KindsCount
  <2>2. c \in Due(e)
    BY <1>3, <1>4, <2>1 DEF Due
  <2>3. ~(global_idx[t] < e) \/ at[t] = "train"
    <3>1. CASE at[t] = "train again"
      <4>1. e = global_idx[t]
        BY <1>3, <1>4, <3>1
      <4> QED
        BY <1>5, <4>1
    <3> QED
      BY <1>1, <3>1
  <2>4. ~IsUntaken(c, e)
    BY <1>1, <1>3, <1>4, <2>3 DEF IsUntaken
  <2> QED
    BY <2>2, <2>4 DEF Claims
<1>7. UNCHANGED <<nodeJob, sent, local_idx, local_index, global_idx, relay_idx, relay_hand>>
  BY <1>1 DEF inputVars, relayVars
<1>8. /\ IsHeld(c, e)
      /\ \A d \in Nat \ {0} : \A b \in Claims(d) :
           /\ IsUntaken(b, d)' <=> IsUntaken(b, d)
           /\ IsHeld(b, d)' <=> IsHeld(b, d) /\ ~(d = e /\ b = c)
  BY <1>1, <1>4, <1>7, TrainClaims
<1>9. nodeTrained' = [nodeTrained EXCEPT ![e] = nodeTrained[e] (+) SetToBag({c})]
  BY <1>1, <1>4
<1> HIDE DEF c
<1>10. /\ c \in Left(e) /\ Left(e)' = Left(e) \ {c}
       /\ \A d \in Nat \ {0} : d # e => Left(d)' = Left(d)
       /\ \A d \in Nat \ {0} : Untaken(d)' = Untaken(d)
  BY <1>5, <1>6, <1>7, <1>8, ClaimSettled
<1>11. /\ FinishInv' /\ to_finish' \in [Examples -> Nat] /\ finished' \in Seq(Examples)
       /\ DOMAIN nodeTrained' = Examples
  <2>1. \A d \in 1..sent : d # e => Left(d)' = Left(d)
    BY <1>10, SentNat
  <2>2. Finish(e)
    BY <1>1, <1>4
  <2> QED
    BY <1>6, <1>7, <1>9, <1>10, <2>1, <2>2, FinishStep
<1>12. SlotInv'
  <2>1. \A d \in 1..sent : Untaken(d)' = Untaken(d)
    BY <1>10, SentNat
  <2> QED
    BY <1>1, <1>7, <2>1, SlotAlone
<1>13. NodeTypes' /\ Threads' = Threads
  <2>1. /\ hand \in [Threads -> Nat]
        /\ at \in [Threads -> {"delayed", "get", "sum", "train", "train again", "done"}]
    BY DEF NodeTypes
  <2>2. /\ hand' \in [Threads -> Nat]
        /\ at' \in [Threads -> {"delayed", "get", "sum", "train", "train again", "done"}]
    BY <1>1, <2>1
  <2>3. Threads' = Threads /\ Examples' = Examples
    BY <1>7 DEF Threads, Examples
  <2> QED
    BY <1>1, <1>11, <2>2, <2>3 DEF NodeTypes, inputVars, relayVars
<1>14. ASSUME NEW u \in Threads
       PROVE  ThreadInv(u)'
  <2>1. AllParsed' <=> AllParsed
    BY <1>1 DEF AllParsed, inputVars, Threads
  <2>2. hand \in [Threads -> Nat] /\ DOMAIN at = Threads
    BY DEF NodeTypes
  <2>3. /\ sent' = sent /\ used' = used /\ parsed' = parsed /\ local_idx' = local_idx
        /\ local_index' = local_index /\ global_index' = global_index
        /\ global_idx' = global_idx /\ nodeJob' = nodeJob
    BY <1>1 DEF inputVars, relayVars
  <2>4. CASE u # t
    <3>1. at'[u] = at[u] /\ hand'[u] = hand[u]
      BY <1>1, <2>2, <2>4
    <3>2. parsed <= parsed' /\ global_index <= global_index'
      BY <1>2, <2>3 DEF NumbersInv
    <3> QED
      BY <1>13, <2>1, <2>3, <3>1, <3>2, ThreadSame
  <2>5. CASE u = t
    <3>1. at'[t] = "delayed" /\ hand'[t] = 0
      BY <1>1, <2>2
    <3>2. /\ Labelled(sent)' <=> Labelled(sent)
          /\ \A d : Labelled(d)' <=> Labelled(d)
          /\ Pending(t)' <=> Pending(t)
      BY <1>7 DEF Labelled, Sending, DelayedOnly, Pending
    <3>3. /\ sent' <= used'[t] /\ used'[t] <= parsed' /\ global_idx'[t] <= global_index'
      BY <1>2, <2>3 DEF ThreadInv
    <3>4. \A d \in sent' + 1..used'[t] : ~Labelled(d)'
      BY <1>1, <1>2, <2>3, <3>2 DEF ThreadInv
    <3>5. Pending(t)' => /\ local_idx'[t] = local_index' - 1 /\ used'[t] = sent'
                         /\ sent' # 0 /\ Labelled(sent)'
      BY <1>2, <2>3, <3>2 DEF ThreadInv
    <3> QED
      BY <2>5, <3>1, <3>3, <3>4, <3>5 DEF ThreadInv
  <2> QED
    BY <2>4, <2>5
<1>15. OrderInv'
  BY <1>1, OrderSame DEF inputVars
<1>16. RelayInv'
  <2>1. \A u \in Threads : at[u] = "done" => at'[u] = "done"
    BY <1>1 DEF NodeTypes
  <2> QED
    BY <1>1, <2>1, RelaySame DEF inputVars, relayVars
<1>17. ~null'
  BY <1>1
<1> QED
  BY <1>11, <1>12, <1>13, <1>14, <1>15, <1>16, <1>17

(* The relay takes the example whose answer has come, and finishes it.     *)
LEMMA RelayClaimStep ==
  ASSUME nodeJob \in NodeJobs, nodeJob.relay, NEW d
  PROVE  /\ RelayClaim \in Claims(d)
         /\ \A b \in Claims(d) :
              \/ b = RelayClaim
              \/ b # RelayClaim /\ b[2] \in {"train", "train again"}
<1>1. RelayClaim \in Claims(d)
  BY DEF Claims
<1>2. ASSUME NEW b \in Claims(d), b # RelayClaim
      PROVE  b[2] \in {"train", "train again"}
  <2>1. PICK u \in Threads, k \in {"train", "train again"} : b = <<u, k>>
    BY <1>2, ClaimShape
  <2> QED
    BY <2>1
<1> QED
  BY <1>1, <1>2

LEMMA RelayTakeStep ==
  ASSUME IInv, RelayTake
  PROVE  IInv'
<1> USE DEF IInv
<1>1. /\ ~relay_done /\ relay_hand = 0 /\ answered < sent /\ TakeFrom(relay_idx)
      /\ relay_hand' = slot[SlotAt(relay_idx)] /\ relay_idx' = relay_idx + 1
      /\ answered' = answered + 1
      /\ UNCHANGED <<inputVars, local_idx, global_idx, local_index, to_finish, finished,
                     global_index, waiting, relay_done, learnVars>>
  BY DEF RelayTake
<1>2. NumbersInv /\ nodeJob \in NodeJobs
  BY Numbers DEF NodeTypes
<1>3. nodeJob.relay /\ local_index = sent /\ answered = relay_idx
  BY <1>1 DEF RelayInv
<1>4. PICK e \in 1..sent : e = relay_idx + 1
  BY <1>1, <1>2, <1>3 DEF NumbersInv
<1>5. e \in Nat \ {0} /\ Place(e) = relay_idx
  BY <1>2, <1>3, <1>4, SentNat DEF Place, NumbersInv
<1>6. UNCHANGED <<nodeJob, sent, local_idx, local_index, global_idx, at, hand>>
  BY <1>1 DEF inputVars, learnVars
<1>7. RelayClaim \in Untaken(e)
  <2>1. relay_idx < e
    BY <1>2, <1>4 DEF NumbersInv
  <2> QED
    BY <1>2, <1>3, <2>1, RelayClaimStep DEF Untaken, IsUntaken, RelayClaim
<1>8. relay_hand' = e /\ relay_idx' = e /\ answered' = e
  <2>1. slot[SlotAt(Place(e))] = e
    BY <1>7 DEF SlotInv
  <2> QED
    BY <1>1, <1>3, <1>4, <1>5, <2>1
<1>9. \A d \in Nat \ {0} : \A b \in Claims(d) :
        /\ IsUntaken(b, d)' <=> IsUntaken(b, d) /\ ~(d = e /\ b = RelayClaim)
        /\ IsHeld(b, d)' <=> IsHeld(b, d) \/ (d = e /\ b = RelayClaim)
  <2> TAKE d \in Nat \ {0}
  <2> TAKE b \in Claims(d)
  <2>1. CASE b = RelayClaim
    <3>1. e < d <=> (relay_idx < d /\ d # e)
      <4>1. relay_idx \in Nat /\ e \in Nat /\ d \in Nat
        BY <1>2, <1>5 DEF NumbersInv
      <4> QED
        BY <1>4, <4>1, NextIndex
    <3>2. ~(relay_hand = d /\ d = e)
      BY <1>1, <1>5
    <3>3. RelayClaim[2] = "relay"
      BY DEF RelayClaim
    <3>4. (IsUntaken(b, d)' <=> e < d) /\ (IsUntaken(b, d) <=> relay_idx < d)
      BY <1>8, <2>1, <3>3 DEF IsUntaken
    <3>5. (IsHeld(b, d)' <=> e = d) /\ (IsHeld(b, d) <=> relay_hand = d)
      BY <1>8, <2>1, <3>3 DEF IsHeld
    <3> QED
      BY <1>1, <2>1, <3>1, <3>4, <3>5
  <2>2. CASE b # RelayClaim
    <3>1. b[2] \in {"train", "train again"}
      BY <1>2, <1>3, <2>2, RelayClaimStep
    <3> QED
      BY <1>6, <2>2, <3>1 DEF IsUntaken, IsHeld
  <2> QED
    BY <2>1, <2>2
<1>10. /\ Untaken(e)' = Untaken(e) \ {RelayClaim}
       /\ \A d \in Nat \ {0} : d # e => Untaken(d)' = Untaken(d)
       /\ \A d \in Nat \ {0} : Left(d)' = Left(d)
  BY <1>5, <1>6, <1>7, <1>9, ClaimMoves
<1>11. \A d \in 1..sent : d \in Nat \ {0}
  BY SentNat
<1>12. /\ SlotInv' /\ ~null'
       /\ slot' \in [0..NodeRing - 1 -> Nat] /\ users' \in [0..NodeRing - 1 -> Nat]
  <2>1. TakeFrom(Place(e))
    BY <1>1, <1>5
  <2> QED
    BY <1>6, <1>7, <1>10, <1>11, <2>1, TakeStep
<1>13. FinishInv'
  BY <1>1, <1>6, <1>10, <1>11, FinishAlone DEF learnVars
<1>14. NodeTypes' /\ Threads' = Threads
  <2>1. relay_idx' \in Nat /\ answered' \in Nat /\ relay_hand' \in Nat
    BY <1>5, <1>8
  <2>2. Threads' = Threads /\ Examples' = Examples
    BY <1>6 DEF Threads, Examples
  <2> QED
    BY <1>1, <1>12, <2>1, <2>2 DEF NodeTypes, inputVars, learnVars
<1>15. ASSUME NEW u \in Threads
       PROVE  ThreadInv(u)'
  <2>1. AllParsed => AllParsed'
    BY <1>1 DEF AllParsed, inputVars, learnVars, Threads
  <2> QED
    BY <1>1, <1>2, <1>14, <2>1, ThreadSame DEF inputVars, learnVars, NumbersInv
<1>16. OrderInv'
  BY <1>1, OrderSame DEF inputVars, learnVars
<1>17. RelayInv'
  <2>1. (Global' <=> Global) /\ Threads' = Threads
    BY <1>6 DEF Global, Threads
  <2>2. e <= sent /\ e - 1 = answered /\ e # 0
    BY <1>2, <1>3, <1>4, <1>5 DEF NumbersInv
  <2>3. nodeJob'.relay /\ local_index' = sent' /\ ~relay_done' /\ sent' = sent
        /\ global_index' = global_index
    BY <1>1, <1>3 DEF inputVars, learnVars
  <2>4. global_index = IF ~Global THEN 0 ELSE answered
    BY <1>1 DEF RelayInv
  <2> QED
    BY <1>8, <2>1, <2>2, <2>3, <2>4 DEF RelayInv
<1> QED
  BY <1>12, <1>13, <1>14, <1>15, <1>16, <1>17

LEMMA RelayFinishStep ==
  ASSUME IInv, RelayFinish
  PROVE  IInv'
<1> USE DEF IInv
<1>1. /\ relay_hand # 0 /\ Finish(relay_hand) /\ relay_hand' = 0
      /\ global_index' = IF Global THEN global_index + 1 ELSE global_index
      /\ UNCHANGED <<inputVars, slot, users, local_idx, relay_idx, global_idx, local_index,
                     answered, relay_done, learnVars, null>>
  BY DEF RelayFinish
<1>2. NumbersInv /\ nodeJob \in NodeJobs
  BY Numbers DEF NodeTypes
<1>3. /\ ~relay_done /\ nodeJob.relay /\ local_index = sent /\ answered = relay_idx
      /\ relay_hand = answered /\ answered <= sent
  BY <1>1 DEF RelayInv
<1>4. PICK e \in 1..sent : e = relay_hand
  BY <1>1, <1>2, <1>3 DEF NumbersInv
<1>5. e \in Nat \ {0} /\ e = relay_idx /\ e = answered
  BY <1>3, <1>4, SentNat
<1>6. UNCHANGED <<nodeJob, sent, local_idx, local_index, global_idx, relay_idx, at, hand>>
  BY <1>1 DEF inputVars, learnVars
<1>7. RelayClaim \in Claims(e) /\ ~IsUntaken(RelayClaim, e) /\ IsHeld(RelayClaim, e)
  <2>1. RelayClaim \in Claims(e)
    BY <1>2, <1>3, RelayClaimStep
  <2>2. ~(relay_idx < e)
    BY <1>5
  <2> QED
    BY <1>4, <2>1, <2>2 DEF IsUntaken, IsHeld, RelayClaim
<1>8. \A d \in Nat \ {0} : \A b \in Claims(d) :
        /\ IsUntaken(b, d)' <=> IsUntaken(b, d)
        /\ IsHeld(b, d)' <=> IsHeld(b, d) /\ ~(d = e /\ b = RelayClaim)
  <2> TAKE d \in Nat \ {0}
  <2> TAKE b \in Claims(d)
  <2>1. IsUntaken(b, d)' <=> IsUntaken(b, d)
    BY <1>6 DEF IsUntaken
  <2>2. CASE b = RelayClaim
    BY <1>1, <1>4, <2>1, <2>2 DEF IsHeld, RelayClaim
  <2>3. CASE b # RelayClaim
    <3>1. b[2] \in {"train", "train again"}
      BY <1>2, <1>3, <2>3, RelayClaimStep
    <3> QED
      BY <1>6, <2>1, <2>3, <3>1 DEF IsHeld
  <2> QED
    BY <2>2, <2>3
<1>9. /\ RelayClaim \in Left(e) /\ Left(e)' = Left(e) \ {RelayClaim}
      /\ \A d \in Nat \ {0} : d # e => Left(d)' = Left(d)
      /\ \A d \in Nat \ {0} : Untaken(d)' = Untaken(d)
  BY <1>5, <1>6, <1>7, <1>8, ClaimSettled
<1>10. \A d \in 1..sent : d \in Nat \ {0}
  BY SentNat
<1>11. /\ FinishInv' /\ to_finish' \in [Examples -> Nat] /\ finished' \in Seq(Examples)
       /\ DOMAIN nodeTrained' = Examples
  <2>1. Finish(e) /\ nodeTrained' = nodeTrained
    BY <1>1, <1>4 DEF learnVars
  <2>2. RelayClaim \notin Due(e)
    BY <1>2, ClaimsCount
  <2> QED
    BY <1>6, <1>9, <1>10, <2>1, <2>2, FinishStep
<1>12. SlotInv'
  BY <1>1, <1>6, <1>9, <1>10, SlotAlone
<1>13. NodeTypes' /\ Threads' = Threads
  <2>1. global_index' \in Nat
    BY <1>1, <1>2 DEF NumbersInv
  <2>2. Threads' = Threads /\ Examples' = Examples
    BY <1>6 DEF Threads, Examples
  <2> QED
    BY <1>1, <1>11, <2>1, <2>2 DEF NodeTypes, inputVars, learnVars
<1>14. ASSUME NEW u \in Threads
       PROVE  ThreadInv(u)'
  <2>1. AllParsed => AllParsed'
    BY <1>1 DEF AllParsed, inputVars, learnVars, Threads
  <2>2. parsed <= parsed' /\ global_index <= global_index'
    BY <1>1, <1>2 DEF inputVars, NumbersInv
  <2> QED
    BY <1>1, <1>13, <2>1, <2>2, ThreadSame DEF inputVars, learnVars
<1>15. OrderInv'
  BY <1>1, OrderSame DEF inputVars, learnVars
<1>16. RelayInv'
  <2>1. (Global' <=> Global) /\ Threads' = Threads
    BY <1>6 DEF Global, Threads
  <2>2. nodeJob'.relay /\ local_index' = sent' /\ ~relay_done' /\ answered' = answered
        /\ relay_idx' = relay_idx /\ sent' = sent
    BY <1>1, <1>3 DEF inputVars, learnVars
  <2>3. global_index' = IF ~Global THEN 0 ELSE answered
    <3>1. global_index = IF ~Global THEN 0 ELSE answered - 1
      BY <1>1 DEF RelayInv
    <3>2. answered \in Nat
      BY <1>2 DEF NumbersInv
    <3> QED
      BY <1>1, <3>1, <3>2
  <2> QED
    BY <1>1, <1>3, <2>1, <2>2, <2>3 DEF RelayInv
<1> QED
  BY <1>1, <1>11, <1>12, <1>13, <1>14, <1>15, <1>16

(* A thread predicts an example: it is the last to do so, or there is one  *)
(* that has yet to.                                                        *)
LEMMA PredictShares ==
  ASSUME IInv, NEW t \in Threads, NEW e \in Examples, e = used[t] + 1,
         used' = [used EXCEPT ![t] = e], shares' = [shares EXCEPT ![e] = shares[e] - 1],
         UNCHANGED nodeJob
  PROVE  /\ shares' \in [Examples -> Nat] /\ used' \in [Threads -> Nat]
         /\ \A d \in Examples : shares'[d] = Cardinality({u \in Threads : used'[u] < d})
         /\ shares[e] = 1 => \A u \in Threads \ {t} : used[u] >= e
         /\ shares[e] # 1 => \E u \in Threads \ {t} : used[u] < e
<1>1. NumbersInv /\ nodeJob \in NodeJobs
  BY Numbers DEF IInv, NodeTypes
<1>2. /\ shares \in [Examples -> Nat] /\ used \in [Threads -> Nat]
      /\ \A d \in Examples : d \in Nat
  <2>1. \A d \in Examples : d \in Nat
    BY <1>1, Source
  <2> QED
    BY <2>1 DEF IInv, NodeTypes
<1> DEFINE S == {u \in Threads : used[u] < e}
<1>3. t \in S
  BY <1>2
<1>4. IsFiniteSet(S) /\ shares[e] = Cardinality(S)
  BY SharesLeft
<1>5. /\ Cardinality(S \ {t}) = shares[e] - 1 /\ Cardinality(S \ {t}) \in Nat
      /\ Cardinality(S \ {t}) = 0 <=> S \ {t} = {}
  <2> HIDE DEF S
  <2>1. IsFiniteSet(S \ {t}) /\ Cardinality(S \ {t}) = Cardinality(S) - 1
    BY <1>3, <1>4, FS_RemoveElement
  <2> QED
    BY <1>4, <2>1, FS_CardinalityType, FS_EmptySet
<1>6. shares' \in [Examples -> Nat] /\ used' \in [Threads -> Nat]
  BY <1>2, <1>5
<1>7. ASSUME NEW d \in Examples
      PROVE  shares'[d] = Cardinality({u \in Threads : used'[u] < d})
  <2>1. CASE d = e
    <3>1. {u \in Threads : used'[u] < e} = S \ {t}
      BY <1>2
    <3>2. shares'[e] = shares[e] - 1
      BY <1>2
    <3> QED
      BY <1>5, <2>1, <3>1, <3>2
  <2>2. CASE d # e
    <3>1. \A u \in Threads : used'[u] < d <=> used[u] < d
      BY <1>2, <2>2
    <3>2. {u \in Threads : used'[u] < d} = {u \in Threads : used[u] < d}
      BY <3>1
    <3>3. shares'[d] = shares[d]
      BY <1>2, <2>2
    <3> QED
      BY <3>2, <3>3, SharesLeft
  <2> QED
    BY <2>1, <2>2
<1>8. shares[e] = 1 => \A u \in Threads \ {t} : used[u] >= e
  <2>1. shares[e] = 1 => S \ {t} = {}
    BY <1>5
  <2>2. \A u \in Threads \ {t} : used[u] >= e \/ u \in S \ {t}
    BY <1>2
  <2> QED
    BY <2>1, <2>2
<1>9. shares[e] # 1 => \E u \in Threads \ {t} : used[u] < e
  <2>1. shares[e] # 1 => S \ {t} # {}
    BY <1>2, <1>5
  <2> QED
    BY <2>1
<1> QED
  BY <1>6, <1>7, <1>8, <1>9

(* What a thread knows that is about to predict.                           *)
LEMMA PredictReady ==
  ASSUME IInv, NEW t \in Threads, at[t] = "get", used[t] < parsed
  PROVE  /\ used[t] + 1 \in Examples /\ used[t] + 1 <= parsed /\ ~AllParsed
         /\ ~Pending(t) /\ hand[t] = 0 /\ sent <= used[t]
         /\ \A d \in sent + 1..used[t] : ~Labelled(d)
         /\ \A u \in Threads : at[u] # "done" /\ (Pending(u) => at[u] # "get")
<1>1. NumbersInv /\ nodeJob \in NodeJobs /\ parsed \in 0..Len(nodeJob.source)
      /\ \A u \in Threads : ThreadInv(u)
  BY Numbers DEF IInv, NodeTypes
<1>2. Len(nodeJob.source) \in Nat /\ Examples = 1..Len(nodeJob.source)
  BY <1>1, Source
<1>3. used[t] \in Nat /\ parsed \in Nat
  BY <1>1 DEF NumbersInv
<1>4. used[t] + 1 \in Examples /\ used[t] + 1 <= parsed
  BY <1>1, <1>2, <1>3
<1>5. ~AllParsed
  BY <1>3 DEF AllParsed
<1>6. \A u \in Threads : at[u] # "done" /\ (Pending(u) => at[u] # "get")
  BY <1>1, <1>5 DEF ThreadInv
<1> QED
  BY <1>1, <1>4, <1>5, <1>6 DEF ThreadInv

LEMMA PredictWaits ==
  ASSUME IInv, NEW t \in Threads, Predict(t), shares[used[t] + 1] # 1
  PROVE  IInv'
<1> USE DEF IInv
<1>1. /\ used[t] + 1 \in Examples /\ used[t] + 1 <= parsed /\ ~AllParsed
      /\ ~Pending(t) /\ hand[t] = 0 /\ sent <= used[t] /\ at[t] = "get"
      /\ \A d \in sent + 1..used[t] : ~Labelled(d)
  BY PredictReady DEF Predict
<1>2. PICK e \in Examples : e = used[t] + 1
  BY <1>1
<1>3. /\ used' = [used EXCEPT ![t] = e] /\ shares' = [shares EXCEPT ![e] = shares[e] - 1]
      /\ UNCHANGED <<sent, slot, users, local_idx, local_index, to_finish, finished>>
      /\ at' = [at EXCEPT ![t] = IF Labelled(e) THEN "sum" ELSE "delayed"]
      /\ hand' = [hand EXCEPT ![t] = IF Labelled(e) THEN e ELSE 0]
      /\ UNCHANGED <<inputVars, relay_idx, global_idx, relayVars, nodeTrained, null>>
      /\ shares[e] # 1
  BY <1>2 DEF Predict
<1>4. NumbersInv /\ nodeJob \in NodeJobs /\ UNCHANGED nodeJob
  BY <1>3, Numbers DEF NodeTypes, inputVars
<1>5. /\ shares' \in [Examples -> Nat] /\ used' \in [Threads -> Nat]
      /\ \A d \in Examples : shares'[d] = Cardinality({u \in Threads : used'[u] < d})
      /\ \E u \in Threads \ {t} : used[u] < e
  BY <1>2, <1>3, <1>4, PredictShares
<1>6. /\ hand \in [Threads -> Nat] /\ used \in [Threads -> Nat]
      /\ at \in [Threads -> {"delayed", "get", "sum", "train", "train again", "done"}]
  BY DEF NodeTypes
<1>7. e \in Nat \ {0}
  BY <1>4, Source
<1>8. Threads' = Threads /\ Examples' = Examples
  BY <1>4 DEF Threads, Examples
<1>9. NodeTypes'
  <2>1. /\ hand' \in [Threads -> Nat]
        /\ at' \in [Threads -> {"delayed", "get", "sum", "train", "train again", "done"}]
    BY <1>3, <1>6, <1>7
  <2> QED
    BY <1>3, <1>5, <1>8, <2>1 DEF NodeTypes, inputVars, relayVars
<1>10. OrderInv'
  <2>1. \E u \in Threads : used'[u] = sent
    <3>1. PICK v \in Threads : used[v] = sent
      BY DEF OrderInv
    <3>2. CASE v # t
      BY <1>3, <1>6, <3>1, <3>2
    <3>3. CASE v = t
      <4>1. PICK u \in Threads \ {t} : used[u] < e
        BY <1>5
      <4>2. sent <= used[u]
        BY <4>1 DEF ThreadInv
      <4>3. used[u] \in Nat /\ sent \in Nat /\ e = sent + 1
        BY <1>2, <1>4, <3>1, <3>3 DEF NumbersInv
      <4>4. used[u] = sent
        BY ONLY <4>1, <4>2, <4>3
      <4> QED
        BY <1>3, <1>6, <4>1, <4>4
    <3> QED
      BY <3>2, <3>3
  <2> QED
    BY <1>3, <1>5, <1>8, <2>1 DEF OrderInv
<1>11. RelayInv'
  <2>1. \A u \in Threads : at[u] = "done" => at'[u] = "done"
    BY <1>1, <1>3, <1>6
  <2> QED
    BY <1>3, <1>4, <2>1, RelaySame DEF inputVars, relayVars
<1>12. SlotInv' /\ FinishInv'
  <2>1. SameHands
    BY <1>1, <1>3, <1>6 DEF SameHands
  <2>2. UNCHANGED ClaimVars
    BY <1>3 DEF ClaimVars, inputVars, relayVars
  <2> QED
    BY <1>3, <2>1, <2>2, RingAlone
<1>13. ASSUME NEW u \in Threads
       PROVE  ThreadInv(u)'
  <2>1. CASE u # t
    <3>1. used'[u] = used[u] /\ at'[u] = at[u] /\ hand'[u] = hand[u]
      BY <1>3, <1>6, <2>1
    <3>2. parsed <= parsed' /\ global_index <= global_index'
      BY <1>3, <1>4 DEF inputVars, relayVars, NumbersInv
    <3>3. /\ UNCHANGED <<nodeJob, sent, local_index>> /\ local_idx' = local_idx
          /\ global_idx' = global_idx
      BY <1>3 DEF inputVars
    <3> QED
      BY <1>1, <1>9, <3>1, <3>2, <3>3, ThreadSame
  <2>2. CASE u = t
    <3>1. /\ used'[t] = e /\ at'[t] = IF Labelled(e) THEN "sum" ELSE "delayed"
          /\ hand'[t] = IF Labelled(e) THEN e ELSE 0
      BY <1>3, <1>6
    <3>2. /\ sent' = sent /\ parsed' = parsed /\ global_idx' = global_idx
          /\ global_index' = global_index
          /\ \A d : Labelled(d)' <=> Labelled(d)
          /\ Pending(t)' <=> Pending(t)
      BY <1>3 DEF inputVars, relayVars, Labelled, Pending, Sending, DelayedOnly
    <3>3. sent <= e /\ e <= parsed /\ global_idx[t] <= global_index
      <4>1. sent <= e
        BY <1>1, <1>2, <1>4 DEF NumbersInv
      <4> QED
        BY <1>1, <1>2, <4>1 DEF ThreadInv
    <3>4. \A d \in sent + 1..e : Labelled(d) => d = e
      <4>1. \A d \in sent + 1..e : d \in sent + 1..used[t] \/ d = e
        BY <1>2, <1>4 DEF NumbersInv
      <4> QED
        BY <1>1, <4>1
    <3>5. sent' <= used'[t] /\ used'[t] <= parsed' /\ global_idx'[t] <= global_index'
      BY <3>1, <3>2, <3>3
    <3>6. \A d \in sent' + 1..used'[t] : Labelled(d)' => d = used'[t] /\ at'[t] = "sum"
      BY <3>1, <3>2, <3>4
    <3>7. at'[t] = "sum" => hand'[t] = used'[t] /\ hand'[t] # 0
      BY <1>7, <3>1
    <3>8. at'[t] # "sum" => hand'[t] = 0 /\ at'[t] = "delayed"
      BY <3>1
    <3>9. at'[t] \in {"sum", "delayed"} /\ ~Pending(t)'
      BY <1>1, <3>1, <3>2
    <3> QED
      BY <2>2, <3>5, <3>6, <3>7, <3>8, <3>9 DEF ThreadInv
  <2> QED
    BY <2>1, <2>2
<1>14. ~null'
  BY <1>3
<1> QED
  BY <1>8, <1>9, <1>10, <1>11, <1>12, <1>13, <1>14

(* The last thread sends the prediction and delays the example, for        *)
(* everybody who has a claim on it.                                        *)
LEMMA LastPredict ==
  ASSUME IInv, NEW t \in Threads, Predict(t), shares[used[t] + 1] = 1
  PROVE  /\ used[t] = sent /\ sent + 1 \in Examples /\ sent + 1 <= parsed
         /\ \A u \in Threads \ {t} : used[u] >= sent + 1
         /\ \A u \in Threads : ~Pending(u) /\ at[u] \notin {"train", "done"}
         /\ hand[t] = 0
<1> USE DEF IInv
<1>1. /\ used[t] + 1 \in Examples /\ used[t] + 1 <= parsed /\ at[t] = "get"
      /\ ~Pending(t) /\ hand[t] = 0 /\ sent <= used[t]
      /\ \A u \in Threads : at[u] # "done"
  BY PredictReady DEF Predict
<1>2. PICK e \in Examples : e = used[t] + 1
  BY <1>1
<1>3. NumbersInv /\ nodeJob \in NodeJobs /\ UNCHANGED nodeJob
  BY Numbers DEF NodeTypes, Predict, inputVars
<1>4. \A u \in Threads \ {t} : used[u] >= e
  <2>1. /\ used' = [used EXCEPT ![t] = e]
        /\ shares' = [shares EXCEPT ![e] = shares[e] - 1] /\ shares[e] = 1
    BY <1>2 DEF Predict
  <2> QED
    BY <1>2, <1>3, <2>1, PredictShares
<1>5. used[t] = sent
  <2>1. PICK v \in Threads : used[v] = sent
    BY DEF OrderInv
  <2>2. CASE v # t
    <3>1. used[v] >= e /\ sent <= used[t] /\ e = used[t] + 1
      BY <1>1, <1>2, <1>4, <2>2
    <3>2. used[v] \in Nat /\ used[t] \in Nat
      BY <1>3 DEF NumbersInv
    <3> QED
      BY ONLY <2>1, <3>1, <3>2
  <2> QED
    BY <2>1, <2>2
<1>6. ASSUME NEW u \in Threads \ {t}
      PROVE  ~Pending(u) /\ at[u] # "train"
  <2>1. used[u] >= sent + 1 /\ used[u] \in Nat /\ sent \in Nat
    BY <1>2, <1>3, <1>4, <1>5 DEF NumbersInv
  <2>2. used[u] # sent
    BY ONLY <2>1
  <2> QED
    BY <2>2 DEF ThreadInv
<1> QED
  BY <1>1, <1>2, <1>4, <1>5, <1>6

LEMMA SendClaims ==
  ASSUME GlobalLabelled, IInv, NEW t \in Threads, NEW e \in Examples,
         e = sent + 1, sent' = e, at[t] = "get",
         \A u \in Threads : ~Pending(u),
         Due(e) # {} => local_index' = local_index + 1 /\ local_idx' = local_idx,
         at' = [at EXCEPT ![t] = "delayed"], hand' = [hand EXCEPT ![t] = 0],
         UNCHANGED <<nodeJob, global_idx, relay_idx, relay_hand>>
  PROVE  /\ \A d \in 1..sent : Untaken(d)' = Untaken(d) /\ Left(d)' = Left(d)
         /\ Untaken(e)' = Claims(e) /\ Left(e)' = Claims(e)
         /\ Claims(e) = {} => \A d \in 1..sent : Untaken(d) = {}
<1> USE DEF IInv
<1>1. NumbersInv /\ nodeJob \in NodeJobs
      /\ at \in [Threads -> {"delayed", "get", "sum", "train", "train again", "done"}]
      /\ hand \in [Threads -> Nat]
  BY Numbers DEF NodeTypes
<1>2. \A d : Claims(d)' = Claims(d)
  BY DEF Claims, Due, Labelled, Sending, Threads, Kinds, DelayedOnly, Global, RelayClaim
<1>3. \A d \in 1..sent : d # e
  <2>1. sent \in Nat
    BY <1>1 DEF NumbersInv
  <2> QED
    BY <2>1
<1>4. \A d : \A b \in Claims(d) :
        \/ b = RelayClaim /\ b[2] = "relay"
        \/ \E u \in Threads : \E k \in {"train", "train again"} : b = <<u, k>>
  <2> TAKE d
  <2> TAKE b \in Claims(d)
  <2>1. CASE b = RelayClaim
    BY <2>1 DEF RelayClaim
  <2> QED
    BY <1>1, <2>1, ClaimShape
<1>5. ASSUME NEW d, NEW u \in Threads, NEW k, <<u, k>> \in Claims(d)
      PROVE  /\ Due(d) # {} /\ ~Sending /\ k \in Kinds
             /\ k = "train" => local_idx[u] = local_index
  <2>1. <<u, k>> # RelayClaim
    BY <1>1, ThreadsFinite DEF RelayClaim
  <2>2. <<u, k>> \in Due(d)
    BY <1>5, <2>1 DEF Claims
  <2>3. ~Sending /\ k \in Kinds
    BY <2>2 DEF Due
  <2>4. k = "train" => ~DelayedOnly
    BY <1>1, <2>3, KindsCount
  <2> QED
    BY <2>2, <2>3, <2>4 DEF Pending
<1>6. ASSUME NEW d \in 1..sent, NEW b \in Claims(d)
      PROVE  (IsUntaken(b, d)' <=> IsUntaken(b, d)) /\ (IsHeld(b, d)' <=> IsHeld(b, d))
  <2>1. CASE b = RelayClaim /\ b[2] = "relay"
    BY <2>1 DEF IsUntaken, IsHeld
  <2>2. ASSUME NEW u \in Threads, NEW k \in {"train", "train again"}, b = <<u, k>>
        PROVE  (IsUntaken(b, d)' <=> IsUntaken(b, d)) /\ (IsHeld(b, d)' <=> IsHeld(b, d))
    <3>1. k = "train" => local_idx[u] = local_index
      BY <1>5, <2>2
    <3>2. IsUntaken(b, d)' <=> IsUntaken(b, d)
      BY <1>3, <2>2, <3>1 DEF IsUntaken
    <3>3. \/ at'[u] = at[u] /\ hand'[u] = hand[u]
          \/ at[u] = "get" /\ at'[u] = "delayed"
      BY <1>1
    <3>4. IsHeld(b, d)' <=> IsHeld(b, d)
      BY <2>2, <3>3 DEF IsHeld
    <3> QED
      BY <3>2, <3>4
  <2> QED
    BY <1>4, <2>1, <2>2
<1>7. ASSUME NEW b \in Claims(e)
      PROVE  IsUntaken(b, e)'
  <2>1. /\ sent \in Nat /\ answered \in Nat /\ global_index \in Nat
        /\ answered = relay_idx /\ answered <= sent /\ global_index <= sent
        /\ \A u \in Threads : global_idx[u] \in Nat /\ global_idx[u] <= global_index
    <3>1. \A u \in Threads : global_idx[u] \in Nat /\ global_idx[u] <= global_index
      BY <1>1 DEF NumbersInv, ThreadInv
    <3>2. /\ sent \in Nat /\ answered \in Nat /\ global_index \in Nat
          /\ answered = relay_idx /\ answered <= sent
          /\ global_index \in {0, answered, answered - 1}
      BY <1>1 DEF NumbersInv, RelayInv
    <3>3. global_index <= sent
      BY ONLY <3>2
    <3> QED
      BY <3>1, <3>2, <3>3
  <2>2. relay_idx < e /\ \A u \in Threads : global_idx[u] < e
    BY <2>1
  <2>3. CASE b = RelayClaim /\ b[2] = "relay"
    BY <2>2, <2>3 DEF IsUntaken
  <2>5. local_index # local_index + 1
    <3>1. local_index \in Nat
      BY <1>1 DEF NumbersInv
    <3>2. \A i \in Nat : i # i + 1
      OBVIOUS
    <3> QED
      BY ONLY <3>1, <3>2, Zenon
  <2>4. ASSUME NEW u \in Threads, NEW k \in {"train", "train again"}, b = <<u, k>>
        PROVE  IsUntaken(b, e)'
    <3>1. k = "train" => local_idx[u] = local_index
      BY <1>5, <2>4
    <3>2. Due(e) # {}
      BY <1>5, <2>4
    <3>3. k = "train" => local_idx'[u] # local_index'
      <4>1. local_index' = local_index + 1 /\ local_idx' = local_idx
        BY <3>2
      <4> QED
        BY <2>5, <3>1, <4>1, Zenon
    <3> QED
      BY <2>2, <2>4, <3>3 DEF IsUntaken
  <2> QED
    BY <1>4, <2>3, <2>4
<1>8. \A d \in 1..sent : Untaken(d)' = Untaken(d) /\ Left(d)' = Left(d)
  BY <1>2, <1>6 DEF Untaken, Left
<1>9. Untaken(e)' = Claims(e) /\ Left(e)' = Claims(e)
  BY <1>2, <1>7 DEF Untaken, Left
<1>10. ASSUME Claims(e) = {}, NEW d \in 1..sent, NEW b \in Claims(d)
       PROVE  ~IsUntaken(b, d)
  <2>1. ~nodeJob.relay
    BY <1>10 DEF Claims
  <2>2. ~Global
    BY <1>1, <2>1, GlobalJob
  <2>3. \E u \in Threads : \E k \in {"train", "train again"} : b = <<u, k>>
    <3>1. b \in Due(d) /\ RelayClaim \notin Due(d)
      BY <1>1, <2>1, ClaimsCount DEF Claims
    <3> QED
      BY <1>4, <3>1
  <2>4. PICK u \in Threads, k \in {"train", "train again"} : b = <<u, k>>
    BY <2>3
  <2>5. k \in Kinds /\ (k = "train" => local_idx[u] = local_index)
    BY <1>5, <1>10, <2>4
  <2>6. k = "train"
    BY <1>1, <2>2, <2>5, KindsCount
  <2> QED
    BY <2>4, <2>5, <2>6 DEF IsUntaken
<1>11. Claims(e) = {} => \A d \in 1..sent : Untaken(d) = {}
  BY <1>10 DEF Untaken
<1> QED
  BY <1>8, <1>9, <1>11

LEMMA SendSlot ==
  ASSUME NodeTypes, SlotInv, NEW e \in Examples, e = sent + 1, sent' = e,
         UNCHANGED nodeJob, Claims(e) # {},
         slot[SlotAt(local_index)] = 0,
         slot' = [slot EXCEPT ![SlotAt(local_index)] = e],
         users' = [users EXCEPT ![SlotAt(local_index)] = Readers(Count(e))],
         local_index' = local_index + 1,
         \A d \in 1..sent : Untaken(d)' = Untaken(d),
         Untaken(e)' = Claims(e)
  PROVE  /\ SlotInv'
         /\ slot' \in [0..NodeRing - 1 -> Nat] /\ users' \in [0..NodeRing - 1 -> Nat]
<1>1. /\ sent \in Nat /\ local_index \in Nat /\ nodeJob \in NodeJobs
      /\ slot \in [0..NodeRing - 1 -> Nat] /\ users \in [0..NodeRing - 1 -> Nat]
  BY SentNat DEF NodeTypes
<1> DEFINE k == SlotAt(local_index)
           n == Readers(Count(e))
<1>2. k \in 0..NodeRing - 1
  BY <1>1, SlotAtType
<1>3. n \in Nat /\ n = Cardinality(Claims(e)) /\ e \in Nat \ {0}
  <2>1. n \in Nat /\ n = Cardinality(Claims(e))
    BY <1>1, ClaimsCount
  <2> QED
    BY <1>1, <2>1
<1>4. \A d \in 1..sent : Place(d)' = Place(d)
  BY <1>1 DEF Place
<1>5. \A d \in 1..sent : SlotAt(Place(d))' = SlotAt(Place(d))
  BY <1>4 DEF SlotAt
<1>6. SlotAt(Place(e))' = k
  <2>1. Place(e)' = local_index
    BY <1>1 DEF Place
  <2> QED
    BY <2>1 DEF SlotAt
<1>7. \A d \in 1..sent : SlotAt(Place(d)) \in 0..NodeRing - 1
  <2> TAKE d \in 1..sent
  <2>1. Place(d) \in Int
    BY <1>1 DEF Place
  <2> QED
    BY <2>1, SlotAtType
<1>8. /\ slot' = [slot EXCEPT ![k] = e] /\ users' = [users EXCEPT ![k] = n]
      /\ slot[k] = 0
  OBVIOUS
<1> HIDE DEF k, n
<1>9. slot' \in [0..NodeRing - 1 -> Nat] /\ users' \in [0..NodeRing - 1 -> Nat]
  BY <1>1, <1>2, <1>3, <1>8
<1>10. \A d \in 1..sent' : d \in 1..sent \/ d = e
  BY <1>1
<1>11. ASSUME NEW d \in 1..sent', Untaken(d)' # {}
       PROVE  /\ slot'[SlotAt(Place(d))'] = d
              /\ users'[SlotAt(Place(d))'] = Cardinality(Untaken(d)')
  <2>1. CASE d = e
    BY <1>1, <1>2, <1>3, <1>6, <1>8, <2>1
  <2>2. CASE d \in 1..sent
    <3>1. /\ slot[SlotAt(Place(d))] = d /\ Untaken(d)' = Untaken(d)
          /\ users[SlotAt(Place(d))] = Cardinality(Untaken(d))
      BY <1>11, <2>2 DEF SlotInv
    <3>2. SlotAt(Place(d)) # k /\ SlotAt(Place(d)) \in 0..NodeRing - 1
      BY <1>1, <1>7, <1>8, <2>2, <3>1
    <3> QED
      BY <1>1, <1>5, <1>8, <2>2, <3>1, <3>2
  <2> QED
    BY <1>10, <2>1, <2>2
<1>12. ASSUME NEW i \in 0..NodeRing - 1, slot'[i] # 0
       PROVE  \E d \in 1..sent' : slot'[i] = d /\ Untaken(d)' # {} /\ i = SlotAt(Place(d))'
  <2>1. CASE i = k
    <3>1. slot'[i] = e /\ e \in 1..sent'
      BY <1>1, <1>3, <1>8, <2>1
    <3> QED
      BY <1>6, <2>1, <3>1
  <2>2. CASE i # k
    <3>1. slot'[i] = slot[i]
      BY <1>1, <1>8, <2>2
    <3>2. PICK d \in 1..sent : slot[i] = d /\ Untaken(d) # {} /\ i = SlotAt(Place(d))
      BY <1>12, <3>1 DEF SlotInv
    <3>3. d \in 1..sent'
      BY <1>1
    <3> QED
      BY <1>5, <3>1, <3>2, <3>3
  <2> QED
    BY <2>1, <2>2
<1>13. SlotInv'
  BY <1>11, <1>12 DEF SlotInv
<1> QED
  BY <1>9, <1>13

LEMMA SendNoSlot ==
  ASSUME NodeTypes, SlotInv, NEW e \in Examples, e = sent + 1, sent' = e,
         UNCHANGED <<nodeJob, slot, users>>,
         \A d \in 1..sent : Untaken(d)' = Untaken(d) /\ Untaken(d) = {},
         Untaken(e)' = {}
  PROVE  SlotInv'
<1>1. \A d \in 1..sent' : Untaken(d)' = {}
  <2>1. sent \in Nat
    BY SentNat
  <2>2. \A d \in 1..sent' : d \in 1..sent \/ d = e
    BY <2>1
  <2> QED
    BY <2>2
<1>2. \A i \in 0..NodeRing - 1 : slot[i] = 0
  BY DEF SlotInv
<1> QED
  BY <1>1, <1>2 DEF SlotInv

LEMMA SendFinish ==
  ASSUME NodeTypes, FinishInv, NEW e \in Examples, e = sent + 1, sent' = e,
         UNCHANGED <<nodeJob, nodeTrained>>,
         \A d \in 1..sent : Left(d)' = Left(d), Left(e)' = Claims(e),
         IF Claims(e) = {}
         THEN finished' = Append(finished, e) /\ to_finish' = to_finish
         ELSE /\ finished' = finished
              /\ to_finish' = [to_finish EXCEPT ![e] = Cardinality(Claims(e))]
  PROVE  FinishInv' /\ to_finish' \in [Examples -> Nat] /\ finished' \in Seq(Examples)
<1>1. /\ nodeJob \in NodeJobs /\ to_finish \in [Examples -> Nat] /\ finished \in Seq(Examples)
      /\ sent \in Nat
  BY SentNat DEF NodeTypes
<1>2. \A d : Due(d)' = Due(d) /\ Examples' = Examples
  BY DEF Due, Labelled, Sending, Threads, Kinds, DelayedOnly, Global, Examples
<1>3. Cardinality(Claims(e)) \in Nat /\ (Claims(e) = {} => Cardinality(Claims(e)) = 0)
      /\ Due(e) \subseteq Claims(e)
  <2>1. IsFiniteSet(Claims(e))
    BY <1>1, ClaimsCount
  <2> QED
    BY <1>1, <2>1, ClaimsCount, FS_CardinalityType, FS_EmptySet
<1>4. ~(e <= sent) /\ e \in Nat
  BY <1>1
<1>5. to_finish[e] = 0 /\ e \notin Range(finished) /\ nodeTrained[e] = SetToBag({})
      /\ IsInjective(finished)
  BY <1>4 DEF FinishInv
<1>6. /\ finished' \in Seq(Examples) /\ IsInjective(finished')
      /\ Range(finished') = IF Claims(e) = {} THEN Range(finished) \cup {e}
                            ELSE Range(finished)
  <2>1. CASE Claims(e) = {}
    <3>1. Append(finished, e) \in Seq(Examples)
      BY <1>1
    <3>2. finished' = Append(finished, e)
      BY <2>1
    <3>3. /\ Range(Append(finished, e)) = Range(finished) \cup {e}
          /\ IsInjective(Append(finished, e))
      BY <1>1, <1>5, AppendRange
    <3> QED
      BY <2>1, <3>1, <3>2, <3>3
  <2>2. CASE Claims(e) # {}
    BY <1>1, <1>5, <2>2
  <2> QED
    BY <2>1, <2>2
<1>7. to_finish' \in [Examples -> Nat] /\ to_finish'[e] = Cardinality(Claims(e))
      /\ \A d \in Examples \ {e} : to_finish'[d] = to_finish[d]
  BY <1>1, <1>3, <1>5
<1>8. ASSUME NEW d \in Examples
      PROVE  /\ to_finish'[d] = IF d <= sent' THEN Cardinality(Left(d)') ELSE 0
             /\ d \in Range(finished') <=> d <= sent' /\ Left(d)' = {}
             /\ nodeTrained'[d] =
                  SetToBag(IF d <= sent' THEN Due(d) \ Left(d)' ELSE {})
  <2>1. CASE d = e
    <3>1. d <= sent' /\ Left(d)' = Claims(e) /\ Due(d) \ Left(d)' = {}
      BY <1>3, <1>4, <2>1
    <3>2. d \in Range(finished') <=> Claims(e) = {}
      BY <1>5, <1>6, <2>1
    <3> QED
      BY <1>5, <1>7, <2>1, <3>1, <3>2
  <2>2. CASE d # e
    <3>1. d \in Nat \ {0}
      BY <1>1, Source
    <3>2. d <= sent' <=> d <= sent
      BY <1>1, <2>2, <3>1
    <3>3. d <= sent => Left(d)' = Left(d)
      BY <1>1, <3>1
    <3>4. /\ to_finish[d] = IF d <= sent THEN Cardinality(Left(d)) ELSE 0
          /\ d \in Range(finished) <=> d <= sent /\ Left(d) = {}
          /\ nodeTrained[d] = SetToBag(IF d <= sent THEN Due(d) \ Left(d) ELSE {})
      BY DEF FinishInv
    <3>5. to_finish'[d] = to_finish[d] /\ nodeTrained' = nodeTrained
          /\ (d \in Range(finished') <=> d \in Range(finished))
      BY <1>6, <1>7, <2>2
    <3> HIDE DEF FinishInv
    <3>6. CASE d <= sent
      BY <3>2, <3>3, <3>4, <3>5, <3>6
    <3>7. CASE ~(d <= sent)
      BY <3>2, <3>4, <3>5, <3>7
    <3> QED
      BY <3>6, <3>7
  <2> QED
    BY <2>1, <2>2
<1>9. FinishInv'
  <2>1. ASSUME NEW d \in Examples'
        PROVE  /\ to_finish'[d] = IF d <= sent' THEN Cardinality(Left(d)') ELSE 0
               /\ d \in Range(finished') <=> d <= sent' /\ Left(d)' = {}
               /\ nodeTrained'[d] =
                    SetToBag(IF d <= sent' THEN Due(d)' \ Left(d)' ELSE {})
    BY <1>2, <1>8
  <2> QED
    BY <1>6, <2>1 DEF FinishInv
<1> QED
  BY <1>6, <1>7, <1>9

LEMMA SendThreads ==
  ASSUME IInv, NEW t \in Threads, NEW e \in Examples, e = sent + 1, sent' = e,
         NEW u \in Threads,
         IF u = t THEN used'[u] = e /\ at'[u] = "delayed" /\ hand'[u] = 0
         ELSE used'[u] = used[u] /\ at'[u] = at[u] /\ hand'[u] = hand[u],
         u # t => used[u] >= e, e <= parsed,
         ~Pending(u), at[u] \notin {"train", "done"},
         \/ local_index' - local_idx'[u] = local_index - local_idx[u]
         \/ /\ Labelled(e)
            /\ local_index' = local_index + 1 /\ local_idx'[u] = local_idx[u],
         local_index' \in Nat, local_idx'[u] \in Nat,
         UNCHANGED <<nodeJob, parsed, parserDone, global_idx, global_index>>
  PROVE  ThreadInv(u)'
<1>1. NumbersInv /\ ThreadInv(u)
  BY Numbers DEF IInv
<1>2. /\ sent \in Nat /\ used[u] \in Nat /\ local_index \in Nat /\ local_idx[u] \in Nat
      /\ e \in Nat \ {0} /\ e > sent
  BY <1>1 DEF NumbersInv
<1>3. /\ \A d : Labelled(d)' <=> Labelled(d)
      /\ Labelled(sent)' <=> Labelled(e)
      /\ (Sending' <=> Sending) /\ (DelayedOnly' <=> DelayedOnly) /\ (Global' <=> Global)
  BY DEF Labelled, Sending, DelayedOnly, Global
<1>4. sent' <= used'[u] /\ used'[u] <= parsed' /\ global_idx'[u] <= global_index'
  <2>1. used[u] <= parsed /\ global_idx[u] <= global_index
    BY <1>1 DEF ThreadInv
  <2> QED
    BY <1>2, <2>1
<1>5. \A d \in sent' + 1..used'[u] : Labelled(d)' => d = used'[u] /\ at'[u] = "sum"
  <2>1. CASE u = t
    <3>1. sent' + 1..used'[u] = {}
      BY <1>2, <2>1
    <3> QED
      BY <3>1
  <2>2. CASE u # t
    <3>1. \A d \in sent' + 1..used'[u] : d \in sent + 1..used[u]
      BY <1>2, <2>2
    <3> QED
      BY <1>1, <1>3, <2>2, <3>1 DEF ThreadInv
  <2> QED
    BY <2>1, <2>2
<1>6. /\ at'[u] = "sum" => hand'[u] = used'[u] /\ hand'[u] # 0
      /\ at'[u] \in {"delayed", "get", "done"} => hand'[u] = 0
      /\ at'[u] # "train" /\ at'[u] # "done"
      /\ at'[u] = "train again" => /\ hand'[u] = global_idx'[u] /\ Global'
                                   /\ hand'[u] # 0
  BY <1>1, <1>3 DEF ThreadInv
<1>7. ASSUME Pending(u)'
      PROVE  /\ local_idx'[u] = local_index' - 1 /\ used'[u] = sent' /\ sent' # 0
             /\ Labelled(sent)' /\ at'[u] # "done" /\ (at'[u] = "get" => AllParsed')
  <2>1. ~Sending /\ ~DelayedOnly /\ local_idx'[u] # local_index'
    BY <1>3, <1>7 DEF Pending
  <2>2. local_idx[u] = local_index
    BY <2>1 DEF Pending
  <2>3. Labelled(e) /\ local_index' = local_index + 1 /\ local_idx'[u] = local_idx[u]
    <3>1. ~(local_index' - local_idx'[u] = local_index - local_idx[u])
      BY <1>2, <2>1, <2>2
    <3> QED
      BY <3>1
  <2>4. local_idx'[u] = local_index' - 1
    BY <1>2, <2>2, <2>3
  <2>5. used'[u] = e /\ at'[u] # "get"
    <3>1. CASE u = t
      BY <3>1
    <3>2. CASE u # t
      <4>1. e \in sent + 1..used[u]
        BY <1>2, <3>2
      <4> QED
        BY <1>1, <2>3, <3>2, <4>1 DEF ThreadInv
    <3> QED
      BY <3>1, <3>2
  <2> QED
    BY <1>2, <1>3, <1>6, <2>3, <2>4, <2>5
<1> QED
  BY <1>4, <1>5, <1>6, <1>7 DEF ThreadInv

LEMMA PredictSends ==
  ASSUME GlobalLabelled, IInv, NEW t \in Threads, Predict(t), shares[used[t] + 1] = 1
  PROVE  IInv'
<1> USE DEF IInv
<1>1. /\ used[t] = sent /\ sent + 1 \in Examples /\ sent + 1 <= parsed /\ at[t] = "get"
      /\ \A u \in Threads \ {t} : used[u] >= sent + 1
      /\ \A u \in Threads : ~Pending(u) /\ at[u] \notin {"train", "done"}
      /\ hand[t] = 0
  BY LastPredict DEF Predict
<1>2. PICK e \in Examples : e = sent + 1
  BY <1>1
<1>3. /\ used' = [used EXCEPT ![t] = e] /\ shares' = [shares EXCEPT ![e] = shares[e] - 1]
      /\ sent' = e /\ DelayOrOutput(e, Count(e))
      /\ at' = [at EXCEPT ![t] = "delayed"] /\ hand' = [hand EXCEPT ![t] = 0]
      /\ UNCHANGED <<inputVars, relay_idx, global_idx, relayVars, nodeTrained, null>>
  <2>1. e = used[t] + 1 /\ shares[e] = 1
    BY <1>1, <1>2
  <2> QED
    BY <1>2, <2>1 DEF Predict, Count
<1>4. NumbersInv /\ nodeJob \in NodeJobs /\ UNCHANGED nodeJob
  BY <1>3, Numbers DEF NodeTypes, inputVars
<1>5. /\ hand \in [Threads -> Nat] /\ used \in [Threads -> Nat]
      /\ at \in [Threads -> {"delayed", "get", "sum", "train", "train again", "done"}]
      /\ local_idx \in [Threads -> Nat] /\ local_index \in Nat
  BY DEF NodeTypes
<1>6. /\ shares' \in [Examples -> Nat] /\ used' \in [Threads -> Nat]
      /\ \A d \in Examples : shares'[d] = Cardinality({u \in Threads : used'[u] < d})
  BY <1>1, <1>2, <1>3, <1>4, PredictShares
<1>7. Threads' = Threads /\ Examples' = Examples
  BY <1>4 DEF Threads, Examples
<1>8. /\ Claims(e) = {} <=> Readers(Count(e)) = 0
      /\ Readers(Count(e)) = Cardinality(Claims(e))
      /\ Due(e) # {} <=> Count(e) # 0
      /\ Count(e) # 0 => Labelled(e)
  <2>1. Claims(e) = {} <=> Readers(Count(e)) = 0
    BY <1>4, ClaimsCount, FS_EmptySet
  <2>2. Due(e) # {} <=> Count(e) # 0
    <3>1. nodeJob.threads # 0 /\ 1 \in Threads /\ Kinds # {}
      <4>1. "train" \in Kinds \/ "train again" \in Kinds
        BY <1>4, KindsCount DEF DelayedOnly, Global
      <4> QED
        BY <1>4, <4>1, ThreadsFinite
    <3>2. PICK k \in Kinds : TRUE
      BY <3>1
    <3>3. <<1, k>> \in Threads \X Kinds
      BY <3>1
    <3>4. Threads \X Kinds # {}
      BY <3>3
    <3> QED
      BY <3>1, <3>4 DEF Due, Count
  <2>3. Count(e) # 0 => Labelled(e)
    BY DEF Count
  <2> QED
    BY <1>4, <2>1, <2>2, <2>3, ClaimsCount
<1>9. \/ /\ Claims(e) = {} /\ finished' = Append(finished, e)
         /\ UNCHANGED <<slot, users, local_idx, local_index, to_finish>>
      \/ /\ Claims(e) # {} /\ slot[SlotAt(local_index)] = 0
         /\ slot' = [slot EXCEPT ![SlotAt(local_index)] = e]
         /\ users' = [users EXCEPT ![SlotAt(local_index)] = Readers(Count(e))]
         /\ to_finish' = [to_finish EXCEPT ![e] = Readers(Count(e))]
         /\ local_index' = local_index + 1 /\ UNCHANGED finished
         /\ local_idx' = [u \in Threads |->
                            local_idx[u] + IF Count(e) = 0 THEN 1 ELSE 0]
  BY <1>3, <1>8 DEF DelayOrOutput
<1>10. Due(e) # {} => local_index' = local_index + 1 /\ local_idx' = local_idx
  <2>1. Due(e) # {} => Claims(e) # {} /\ Count(e) # 0
    BY <1>8 DEF Claims
  <2>2. Due(e) # {} => local_idx' = [u \in Threads |-> local_idx[u] + 0]
    BY <1>9, <2>1
  <2>3. [u \in Threads |-> local_idx[u] + 0] = local_idx
    <3>1. \A u \in Threads : local_idx[u] + 0 = local_idx[u]
      BY <1>4 DEF NumbersInv
    <3>2. local_idx = [u \in Threads |-> local_idx[u]]
      BY <1>5
    <3> QED
      BY <3>1, <3>2, Zenon
  <2> QED
    BY <1>9, <2>1, <2>2, <2>3
<1>11. /\ \A d \in 1..sent : Untaken(d)' = Untaken(d) /\ Left(d)' = Left(d)
       /\ Untaken(e)' = Claims(e) /\ Left(e)' = Claims(e)
       /\ Claims(e) = {} => \A d \in 1..sent : Untaken(d) = {}
  BY <1>1, <1>2, <1>3, <1>4, <1>10, SendClaims DEF relayVars
<1>12. /\ SlotInv'
       /\ slot' \in [0..NodeRing - 1 -> Nat] /\ users' \in [0..NodeRing - 1 -> Nat]
  <2>1. CASE Claims(e) = {}
    BY <1>2, <1>3, <1>4, <1>9, <1>11, <2>1, SendNoSlot DEF NodeTypes
  <2>2. CASE Claims(e) # {}
    BY <1>2, <1>3, <1>4, <1>9, <1>11, <2>2, SendSlot
  <2> QED
    BY <2>1, <2>2
<1>13. FinishInv' /\ to_finish' \in [Examples -> Nat] /\ finished' \in Seq(Examples)
  <2>1. IF Claims(e) = {}
        THEN finished' = Append(finished, e) /\ to_finish' = to_finish
        ELSE /\ finished' = finished
             /\ to_finish' = [to_finish EXCEPT ![e] = Cardinality(Claims(e))]
    BY <1>8, <1>9
  <2> QED
    BY <1>2, <1>3, <1>4, <1>11, <2>1, SendFinish
<1>14. local_index' \in Nat /\ local_idx' \in [Threads -> Nat]
       /\ \A u \in Threads :
            \/ local_index' - local_idx'[u] = local_index - local_idx[u]
            \/ /\ Labelled(e)
               /\ local_index' = local_index + 1 /\ local_idx'[u] = local_idx[u]
  <2>1. CASE Claims(e) = {}
    BY <1>5, <1>9, <2>1
  <2>2. CASE Claims(e) # {} /\ Count(e) = 0
    <3>1. local_idx' = [u \in Threads |-> local_idx[u] + 1] /\ local_index' = local_index + 1
      BY <1>9, <2>2
    <3>2. \A u \in Threads : local_idx[u] \in Nat /\ local_idx[u] + 1 \in Nat
      BY <1>4 DEF NumbersInv
    <3>3. \A u \in Threads : local_idx'[u] = local_idx[u] + 1
      BY <3>1
    <3>4. local_idx' \in [Threads -> Nat]
      BY <3>1, <3>2
    <3>5. \A i, j \in Nat : i + 1 \in Nat /\ (i + 1) - (j + 1) = i - j
      OBVIOUS
    <3>6. \A u \in Threads : local_index' - local_idx'[u] = local_index - local_idx[u]
      BY <1>5, <3>1, <3>2, <3>3, <3>5, Zenon
    <3>7. local_index' \in Nat
      BY <1>5, <3>1, <3>5, Zenon
    <3> QED
      BY <3>4, <3>6, <3>7, Zenon
  <2>3. CASE Claims(e) # {} /\ Count(e) # 0
    <3>1. Labelled(e) /\ local_index' = local_index + 1 /\ local_idx' = local_idx
      BY <1>8, <1>10, <2>3
    <3>2. \A i \in Nat : i + 1 \in Nat
      OBVIOUS
    <3> QED
      BY <1>5, <3>1, <3>2, Zenon
  <2> QED
    BY <2>1, <2>2, <2>3
<1>15. NodeTypes'
  <2>1. /\ hand' \in [Threads -> Nat]
        /\ at' \in [Threads -> {"delayed", "get", "sum", "train", "train again", "done"}]
    BY <1>3, <1>5
  <2>2. sent' \in 0..Len(nodeJob.source)
    BY <1>2, <1>3, <1>4, Source
  <2> QED
    BY <1>3, <1>4, <1>6, <1>7, <1>12, <1>13, <1>14, <2>1, <2>2
       DEF NodeTypes, inputVars, relayVars
<1>16. ASSUME NEW u \in Threads
       PROVE  ThreadInv(u)'
  <2>1. IF u = t THEN used'[u] = e /\ at'[u] = "delayed" /\ hand'[u] = 0
        ELSE used'[u] = used[u] /\ at'[u] = at[u] /\ hand'[u] = hand[u]
    BY <1>3, <1>5
  <2>2. /\ UNCHANGED <<nodeJob, parsed, parserDone, global_idx, global_index>>
        /\ local_idx'[u] \in Nat /\ local_index' \in Nat
    BY <1>3, <1>14 DEF inputVars, relayVars
  <2>3. /\ u # t => used[u] >= e
        /\ e <= parsed /\ ~Pending(u) /\ at[u] \notin {"train", "done"}
    BY <1>1, <1>2
  <2> QED
    BY <1>2, <1>3, <1>14, <2>1, <2>2, <2>3, SendThreads
<1>17. OrderInv'
  <2>1. used'[t] = sent'
    BY <1>3, <1>5
  <2> QED
    BY <1>6, <1>7, <2>1 DEF OrderInv
<1>18. RelayInv'
  <2>1. nodeJob.relay => local_index' = sent'
    <3>1. nodeJob.relay => Claims(e) # {}
      BY DEF Claims
    <3> QED
      BY <1>2, <1>3, <1>9, <3>1 DEF RelayInv
  <2>2. answered <= sent' /\ (relay_done => ~nodeJob.relay)
    <3>1. answered \in Nat /\ sent \in Nat /\ answered <= sent
      BY <1>4 DEF NumbersInv, RelayInv
    <3> QED
      BY <1>1, <1>2, <1>3, <3>1 DEF RelayInv
  <2>3. Global' <=> Global
    BY <1>4 DEF Global
  <2>4. /\ nodeJob' = nodeJob /\ answered' = answered /\ relay_idx' = relay_idx
        /\ relay_hand' = relay_hand /\ relay_done' = relay_done
        /\ global_index' = global_index
    BY <1>3 DEF inputVars, relayVars
  <2> QED
    BY <2>1, <2>2, <2>3, <2>4 DEF RelayInv
<1>19. ~null'
  BY <1>3
<1> QED
  BY <1>7, <1>12, <1>13, <1>15, <1>16, <1>17, <1>18, <1>19

----------------------------------------------------------------------------
LEMMA NodeStarts ==
  ASSUME NodeInit
  PROVE  IInv
<1>1. /\ nodeJob \in NodeJobs
      /\ parsed = 0 /\ parserDone = FALSE /\ used = [t \in Threads |-> 0]
      /\ shares = [e \in Examples |-> nodeJob.threads]
      /\ slot = [i \in 0..NodeRing - 1 |-> 0] /\ users = [i \in 0..NodeRing - 1 |-> 0]
      /\ local_idx = [t \in Threads |-> 0] /\ global_idx = [t \in Threads |-> 0]
      /\ relay_idx = 0 /\ local_index = 0 /\ global_index = 0
      /\ to_finish = [e \in Examples |-> 0] /\ finished = <<>>
      /\ at = [t \in Threads |-> "delayed"] /\ hand = [t \in Threads |-> 0]
      /\ sent = 0 /\ answered = 0 /\ relay_hand = 0 /\ relay_done = ~nodeJob.relay
      /\ nodeTrained = [e \in Examples |-> EmptyBag] /\ null = FALSE
  BY DEF NodeInit, NodeStart
<1>2. /\ Len(nodeJob.source) \in Nat /\ Examples = 1..Len(nodeJob.source)
      /\ nodeJob.threads \in Nat /\ 1 \in Threads /\ Cardinality(Threads) = nodeJob.threads
      /\ nodeJob.relay \in BOOLEAN
  BY <1>1, Source, ThreadsFinite
<1>3. NodeTypes
  <2>1. finished \in Seq(Examples)
    BY <1>1
  <2>2. parsed \in 0..Len(nodeJob.source) /\ sent \in 0..Len(nodeJob.source)
    BY <1>1, <1>2
  <2> QED
    BY <1>1, <1>2, <2>1, <2>2 DEF NodeTypes
<1>4. ASSUME NEW t \in Threads
      PROVE  ThreadInv(t)
  <2>1. used[t] = 0 /\ at[t] = "delayed" /\ hand[t] = 0 /\ global_idx[t] = 0
        /\ local_idx[t] = 0
    BY <1>1
  <2>2. ~Pending(t)
    BY <1>1, <2>1 DEF Pending
  <2>3. sent + 1..used[t] = {}
    BY <1>1, <2>1
  <2> QED
    BY <1>1, <2>1, <2>2, <2>3 DEF ThreadInv
<1>5. OrderInv
  <2>1. ASSUME NEW e \in Examples
        PROVE  {t \in Threads : used[t] < e} = Threads
    BY <1>1, <1>2
  <2> QED
    BY <1>1, <1>2, <2>1 DEF OrderInv
<1>6. RelayInv
  <2>1. relay_done <=> ~nodeJob.relay
    BY <1>1, Zenon
  <2>2. answered = relay_idx /\ answered <= sent /\ relay_hand \in {0, answered}
    BY <1>1
  <2>3. /\ local_index = sent /\ relay_hand = 0
        /\ global_index = IF ~Global THEN 0
                          ELSE IF relay_hand = 0 THEN answered ELSE answered - 1
    BY <1>1
  <2> QED
    BY <2>1, <2>2, <2>3 DEF RelayInv
<1>7. SlotInv
  BY <1>1 DEF SlotInv
<1>8. FinishInv
  <2>1. \A e \in Examples : ~(e <= sent)
    BY <1>1, <1>2
  <2>2. Range(finished) = {} /\ IsInjective(finished)
    BY <1>1 DEF Range, IsInjective
  <2> QED
    BY <1>1, <2>1, <2>2 DEF FinishInv, EmptyBag
<1> QED
  BY <1>1, <1>3, <1>4, <1>5, <1>6, <1>7, <1>8 DEF IInv

LEMMA ThreadStep ==
  ASSUME GlobalLabelled, IInv, NEW t \in Threads, NodeThread(t)
  PROVE  IInv'
<1>1. Predict(t) => IInv'
  BY PredictWaits, PredictSends
<1> QED
  BY <1>1, TakeGlobalStep, AwaitStep, TakeLocalStep, NothingDelayedStep, TrainStep, SumStep,
     NothingToGetStep DEF NodeThread

LEMMA NodeStutter ==
  ASSUME IInv, UNCHANGED nodeVars
  PROVE  IInv'
<1> USE DEF IInv
<1>1. UNCHANGED <<inputVars, ringVars, relayVars, learnVars, null>>
  BY DEF nodeVars
<1>2. NodeTypes' /\ Threads' = Threads
  BY <1>1 DEF NodeTypes, inputVars, ringVars, relayVars, learnVars, Threads, Examples
<1>3. ASSUME NEW u \in Threads
      PROVE  ThreadInv(u)'
  <2>1. NumbersInv /\ (AllParsed => AllParsed')
    BY <1>1, Numbers DEF inputVars, learnVars, AllParsed, Threads
  <2> QED
    BY <1>1, <1>2, <2>1, ThreadSame
       DEF inputVars, ringVars, relayVars, learnVars, NumbersInv
<1>4. OrderInv' /\ RelayInv' /\ SlotInv' /\ FinishInv'
  BY <1>1, OrderSame, RelaySame, RingAlone
     DEF inputVars, ringVars, relayVars, learnVars, ClaimVars, SameHands, NodeTypes
<1> QED
  BY <1>1, <1>2, <1>3, <1>4

(* The claims, the slots and the counts agree in every state of the node.  *)
LEMMA Invariance ==
  ASSUME GlobalLabelled
  PROVE  NodeSpec => []IInv
<1>1. NodeInit => IInv
  BY NodeStarts
<1>2. IInv /\ [NodeNext]_nodeVars => IInv'
  <2> SUFFICES ASSUME IInv, [NodeNext]_nodeVars
               PROVE  IInv'
    OBVIOUS
  <2>1. CASE NodeParser
    BY <2>1, ParserStep
  <2>2. CASE Relay
    BY <2>2, RelayTakeStep, RelayFinishStep, RelayEndStep DEF Relay
  <2>3. CASE \E t \in Threads : NodeThread(t)
    BY <2>3, ThreadStep
  <2>4. CASE UNCHANGED nodeVars
    BY <2>4, NodeStutter
  <2> QED
    BY <2>1, <2>2, <2>3, <2>4 DEF NodeNext
<1> QED
  BY <1>1, <1>2, PTL DEF NodeSpec

(* The relay gives the k-th answer to the example whose prediction left    *)
(* k-th, and nobody who moves an index of the delay ring on finds the      *)
(* slot empty (blocking_get_delay_example, return_example).                *)
THEOREM AnswersComeInOrder ==
  ASSUME GlobalLabelled
  PROVE  NodeSpec => []AnswersInOrder
<1>1. IInv => AnswersInOrder
  BY DEF IInv, RelayInv, AnswersInOrder
<1> QED
  BY <1>1, Invariance, PTL

LEMMA FinishedIsFree ==
  ASSUME GlobalLabelled, IInv, NEW e \in Range(finished)
  PROVE  /\ \A t \in Threads : hand[t] # e \/ at[t] = "sum"
         /\ relay_hand # e /\ e \notin Range(slot)
         /\ nodeTrained[e] = SetToBag(Due(e))
<1>1. /\ NumbersInv /\ nodeJob \in NodeJobs /\ finished \in Seq(Examples)
      /\ \A t \in Threads : ThreadInv(t)
      /\ DOMAIN slot = 0..NodeRing - 1
      /\ at \in [Threads -> {"delayed", "get", "sum", "train", "train again", "done"}]
  BY Numbers DEF IInv, NodeTypes
<1>2. e \in Examples
  <2>1. PICK i \in DOMAIN finished : e = finished[i]
    BY DEF Range
  <2>2. \A S : \A s \in Seq(S) : \A j \in DOMAIN s : s[j] \in S
    OBVIOUS
  <2> QED
    BY <1>1, <2>1, <2>2, Zenon
<1>3. e <= sent /\ Left(e) = {} /\ nodeTrained[e] = SetToBag(Due(e) \ Left(e))
  BY <1>2 DEF IInv, FinishInv
<1>4. \A c \in Claims(e) : ~IsUntaken(c, e) /\ ~IsHeld(c, e)
  BY <1>3 DEF Left
<1>5. e # 0
  <2>1. Len(nodeJob.source) \in Nat /\ e \in 1..Len(nodeJob.source)
    BY <1>1, <1>2, Source
  <2> QED
    BY ONLY <2>1
<1>6. ASSUME NEW t \in Threads, hand[t] = e, at[t] # "sum"
      PROVE  FALSE
  <2>1. at[t] \in {"train", "train again"}
    BY <1>1, <1>5, <1>6 DEF ThreadInv
  <2>2. /\ Labelled(e) /\ ~Sending
        /\ at[t] = "train" => ~DelayedOnly
        /\ at[t] = "train again" => Global
    <3>1. CASE at[t] = "train"
      BY <1>1, <1>6, <3>1 DEF ThreadInv
    <3>2. CASE at[t] = "train again"
      <4>1. Global
        BY <1>1, <3>2 DEF ThreadInv
      <4> QED
        BY <1>1, <1>2, <3>2, <4>1, GlobalJob
    <3> QED
      BY <2>1, <3>1, <3>2
  <2>3. at[t] \in Kinds
    BY <1>1, <2>1, <2>2, KindsCount
  <2>4. <<t, at[t]>> \in Claims(e)
    BY <2>2, <2>3 DEF Claims, Due
  <2>5. IsHeld(<<t, at[t]>>, e)
    BY <1>6, <2>1 DEF IsHeld
  <2> QED
    BY <1>4, <2>4, <2>5
<1>7. relay_hand # e
  <2>1. relay_hand # 0 => nodeJob.relay
    BY DEF IInv, RelayInv
  <2>2. nodeJob.relay => RelayClaim \in Claims(e)
    BY DEF Claims
  <2>3. relay_hand = e => IsHeld(RelayClaim, e)
    BY DEF IsHeld, RelayClaim
  <2> QED
    BY <1>4, <1>5, <2>1, <2>2, <2>3
<1>8. ASSUME NEW k \in 0..NodeRing - 1, slot[k] = e
      PROVE  FALSE
  <2>1. PICK d \in 1..sent : slot[k] = d /\ Untaken(d) # {}
    BY <1>5, <1>8 DEF IInv, SlotInv
  <2>2. Untaken(e) # {}
    BY <1>8, <2>1
  <2> QED
    BY <1>4, <2>2 DEF Untaken
<1>9. e \notin Range(slot)
  BY <1>1, <1>8 DEF Range
<1>10. nodeTrained[e] = SetToBag(Due(e))
  <2>1. Due(e) \ Left(e) = Due(e)
    BY <1>3
  <2> QED
    BY <1>3, <2>1
<1> QED
  BY <1>6, <1>7, <1>9, <1>10

LEMMA EndedIsFinished ==
  ASSUME GlobalLabelled, IInv, NodeEnded
  PROVE  Range(finished) = Examples
<1>1. /\ NumbersInv /\ nodeJob \in NodeJobs /\ finished \in Seq(Examples)
      /\ \A t \in Threads : ThreadInv(t) /\ at[t] = "done"
      /\ parserDone => parsed = Len(nodeJob.source)
  BY Numbers DEF IInv, NodeTypes, NodeEnded
<1>2. AllParsed /\ (Global => \A t \in Threads : global_idx[t] = local_index)
  <2>1. 1 \in Threads
    BY <1>1, ThreadsFinite
  <2> QED
    BY <1>1, <2>1 DEF ThreadInv
<1>3. sent = Len(nodeJob.source)
  BY <1>1, <1>2 DEF IInv, OrderInv, AllParsed
<1>4. \A t \in Threads : ~Pending(t)
  BY <1>1 DEF ThreadInv
<1>5. /\ relay_hand = 0
      /\ nodeJob.relay => local_index = sent /\ relay_idx = sent
  BY DEF IInv, RelayInv, NodeEnded
<1>6. ASSUME NEW e \in Examples, NEW c \in Claims(e)
      PROVE  ~IsUntaken(c, e) /\ ~IsHeld(c, e)
  <2>1. e <= sent /\ e # 0 /\ e \in Nat /\ sent \in Nat
    BY <1>1, <1>3, Source DEF NumbersInv
  <2>2. CASE c = RelayClaim
    <3>1. c[2] = "relay" /\ nodeJob.relay
      <4>1. RelayClaim \notin Due(e)
        BY <1>1, ClaimsCount
      <4> QED
        BY <2>2, <4>1 DEF Claims, RelayClaim
    <3>2. ~(relay_idx < e)
      BY <1>5, <2>1, <3>1
    <3> QED
      BY <1>5, <2>1, <3>1, <3>2 DEF IsUntaken, IsHeld
  <2>3. CASE c \in Due(e)
    <3>1. PICK t \in Threads, k \in Kinds : c = <<t, k>> /\ ~Sending
      BY <2>3 DEF Due
    <3>2. k \in {"train", "train again"} /\ (k = "train" => ~DelayedOnly)
          /\ (k = "train again" => Global)
      BY <1>1, <3>1, KindsCount
    <3>3. k = "train" => local_idx[t] = local_index
      BY <1>4, <3>1, <3>2 DEF Pending
    <3>4. k = "train again" => ~(global_idx[t] < e)
      <4>1. Global => nodeJob.relay
        BY <1>1, GlobalJob
      <4>2. k = "train again" => global_idx[t] = sent
        BY <1>2, <1>5, <3>2, <4>1
      <4>3. ~(sent < e)
        BY <2>1
      <4> QED
        BY <4>2, <4>3, Zenon
    <3> QED
      BY <1>1, <3>1, <3>2, <3>3, <3>4 DEF IsUntaken, IsHeld
  <2> QED
    BY <2>2, <2>3 DEF Claims
<1>7. ASSUME NEW e \in Examples
      PROVE  e \in Range(finished)
  <2>1. Left(e) = {}
    BY <1>6 DEF Left
  <2>2. e <= sent
    BY <1>1, <1>3, Source
  <2> QED
    BY <2>1, <2>2 DEF IInv, FinishInv
<1>8. Range(finished) \subseteq Examples
  BY <1>1 DEF Range
<1> QED
  BY <1>7, <1>8

(* An example is output and freed once, after each learner trained on it   *)
(* as often as the options say, and the relay is done with it; nobody      *)
(* holds it then, and when the node ends every example has been output     *)
(* (finish_example).                                                       *)
THEOREM OutputAfterAll ==
  ASSUME GlobalLabelled
  PROVE  NodeSpec => []FinishedAfterAll
<1>1. IInv => FinishedAfterAll
  <2> SUFFICES ASSUME IInv
               PROVE  FinishedAfterAll
    OBVIOUS
  <2>1. ASSUME NEW e
        PROVE  SetToBag(Due(e)) =
                 IF ~Labelled(e) \/ Sending THEN EmptyBag
                 ELSE SetToBag(Threads \X
                        ((IF DelayedOnly THEN {} ELSE {"train"})
                           \cup IF Global THEN {"train again"} ELSE {}))
    BY DEF Due, Kinds, EmptyBag
  <2>2. \A e \in Range(finished) :
          /\ \A t \in Threads : hand[t] # e \/ at[t] = "sum"
          /\ relay_hand # e /\ e \notin Range(slot)
          /\ nodeTrained[e] = SetToBag(Due(e))
    BY FinishedIsFree
  <2>3. IsInjective(finished) /\ (NodeEnded => Range(finished) = Examples)
    BY EndedIsFinished DEF IInv, FinishInv
  <2> QED
    BY <2>1, <2>2, <2>3 DEF FinishedAfterAll
<1> QED
  BY <1>1, Invariance, PTL

=============================================================================
