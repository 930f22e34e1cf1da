-------------------------- MODULE AllReduceProofs --------------------------
(***************************************************************************)
(* Proofs about AllReduce, for every number of nodes, tree, sequence of    *)
(* calls, piece size and socket size, with crashes and interrupted writes: *)
(* AllReduceInv!PositionsInv is inductive, and Watermarks, NoFalseAlarm    *)
(* and TypeOK follow.  What the bytes are is left to AllReduceRefinement.  *)
(***************************************************************************)
EXTENDS AllReduceInv, TLAPS

(* No call has more bytes than an int counts.                              *)
FitsInt == \A c \in 1..Len(Calls) : Calls[c] * FloatSize <= IntMax

(* The results of each node are a sequence.                                *)
ResultsInv == \A n \in Node : \E S : results[n] \in Seq(S)

-----------------------------------------------------------------------------
(* Arithmetic.                                                             *)

LEMMA ModSmall ==
  ASSUME NEW a \in Nat, NEW b \in Nat, a < b
  PROVE  a % b = a
  OBVIOUS

LEMMA ToIntSmall ==
  ASSUME NEW size \in Nat, size <= IntMax
  PROVE  ToInt(size) = size
<1>1. IntMax \in Nat
  BY AllReduceAssumption
<1>2. (size + IntMax + 1) % (2 * (IntMax + 1)) = size + IntMax + 1
  BY <1>1, ModSmall
<1> QED
  BY <1>1, <1>2 DEF ToInt

LEMMA WholeFloatsRises ==
  ASSUME NEW p \in Nat, NEW q \in Nat, p <= q
  PROVE  /\ WholeFloats(p) \in Nat
         /\ WholeFloats(p) <= WholeFloats(q)
<1>1. FloatSize \in Nat /\ FloatSize > 0
  BY AllReduceAssumption
<1>2. p \div FloatSize \in Nat /\ q \div FloatSize \in Nat
  BY <1>1
<1>3. p \div FloatSize <= q \div FloatSize
  BY <1>1
<1>4. ASSUME NEW x \in Nat, NEW y \in Nat, NEW f \in Nat, x <= y
      PROVE  x * f \in Nat /\ x * f <= y * f
  BY <1>4
<1> QED
  BY <1>1, <1>2, <1>3, <1>4 DEF WholeFloats

(* The length of the buffer of a node that is inside all_reduce.           *)
LEMMA BytesType ==
  ASSUME FitsInt, NEW n \in Node, Current(n) \in 1..Len(Calls)
  PROVE  Bytes(n) \in Nat /\ Bytes(n) > 0
<1> DEFINE length == Calls[Current(n)]
<1>1. length \in Nat \ {0} /\ FloatSize \in Nat \ {0}
  BY AllReduceAssumption
<1>2. length * FloatSize \in Nat /\ length * FloatSize > 0
  BY <1>1
<1>3. length * FloatSize <= IntMax
  BY DEF FitsInt
<1>4. ToInt(length * FloatSize) = length * FloatSize
  BY <1>2, <1>3, ToIntSmall
<1> QED
  BY <1>2, <1>4 DEF Bytes

-----------------------------------------------------------------------------
(* A step is a step of one node: the books of the others stay as they are. *)

Books(n) == <<pc[n], fds[n], child_read_pos[n], parent_sent_pos[n],
              parent_read_pos[n], children_sent_pos[n], results[n]>>

OthersKept(n) == UNCHANGED socks /\ \A m \in Node \ {n} : UNCHANGED Books(m)

LEMMA BooksKept ==
  ASSUME NEW m \in Node, NodeInv(m), UNCHANGED socks, UNCHANGED Books(m)
  PROVE  NodeInv(m)'
<1>1. /\ pc'[m] = pc[m] /\ fds'[m] = fds[m] /\ child_read_pos'[m] = child_read_pos[m]
      /\ parent_sent_pos'[m] = parent_sent_pos[m] /\ results'[m] = results[m]
      /\ parent_read_pos'[m] = parent_read_pos[m]
      /\ children_sent_pos'[m] = children_sent_pos[m]
      /\ parent' = parent /\ children' = children
  BY DEF Books, socks
<1>2. /\ Current(m)' = Current(m) /\ Bytes(m)' = Bytes(m) /\ Linked(m)' = Linked(m)
      /\ Unfinished(m)' = Unfinished(m)
  BY <1>1 DEF Current, Bytes, Linked, Unfinished
<1> QED
  BY <1>1, <1>2 DEF NodeInv, CallInv, FdsInv, UpInv, DownInv

LEMMA OneNode ==
  ASSUME NEW n \in Node, \A m \in Node : NodeInv(m),
         BookTypes', OthersKept(n), NodeInv(n)'
  PROVE  BooksInv'
BY BooksKept DEF BooksInv, OthersKept

-----------------------------------------------------------------------------
(* Entering and leaving all_reduce.                                        *)

LEMMA CallStep ==
  ASSUME BooksInv, FitsInt, ResultsInv, NEW n \in Node, Call(n)
  PROVE  BooksInv'
<1>1. Current(n) \in 1..Len(Calls)
  <2>1. Len(results[n]) \in Nat
    BY DEF ResultsInv
  <2>2. Len(Calls) \in Nat
    BY AllReduceAssumption
  <2> QED
    BY <2>1, <2>2 DEF Call, Current
<1>2. Bytes(n) \in Nat /\ Bytes(n) > 0
  BY <1>1, BytesType
<1>3. Current(n)' = Current(n) /\ Bytes(n)' = Bytes(n) /\ Linked(n)' = Linked(n)
  BY DEF Call, Current, Bytes, Linked, socks
<1>4. /\ pc'[n] = "passUp" /\ fds'[n] = Linked(n) /\ parent_sent_pos'[n] = 0
      /\ child_read_pos'[n] = [s \in Side |-> IF s \in Linked(n) THEN 0 ELSE Bytes(n)]
  BY DEF Call, Goto, BooksInv, BookTypes
<1>5. BookTypes'
  BY <1>2 DEF Call, Goto, BooksInv, BookTypes, spreading, Labels, ReduceLabels, Linked
<1>6. OthersKept(n)
  BY DEF Call, Goto, OthersKept, Books, spreading, BooksInv, BookTypes
<1>7. FdsInv(n)'
  BY <1>2, <1>3, <1>4 DEF FdsInv, Unfinished, Linked
<1>8. UpInv(n)'
  <2>1. WholeFloats(0) \in Nat /\ WholeFloats(Bytes(n)) \in Nat
    BY <1>2, WholeFloatsRises
  <2> QED
    BY <2>1, <1>2, <1>3, <1>4 DEF UpInv
<1>9. CallInv(n)' /\ DownInv(n)'
  BY <1>1, <1>3, <1>4 DEF CallInv, DownInv, BroadcastLabels
<1> QED
  BY <1>5, <1>6, <1>7, <1>8, <1>9, OneNode DEF BooksInv, NodeInv

LEMMA ReturnStep ==
  ASSUME BooksInv, NEW n \in Node, Return(n)
  PROVE  BooksInv'
<1>1. pc'[n] = "caller"
  BY DEF Return, Goto, BooksInv, BookTypes
<1>2. BookTypes'
  BY DEF Return, Goto, BooksInv, BookTypes, reducing, spreading, Labels
<1>3. OthersKept(n)
  BY DEF Return, Goto, OthersKept, Books, reducing, spreading, BooksInv, BookTypes
<1>4. NodeInv(n)'
  BY <1>1 DEF NodeInv, CallInv, FdsInv, UpInv, DownInv, ReduceLabels, BroadcastLabels
<1> QED
  BY <1>2, <1>3, <1>4, OneNode DEF BooksInv

(* Bytes on the way, writes half done, and nodes that die are not in the   *)
(* books.                                                                  *)
LEMMA OutsideStep ==
  ASSUME BooksInv, UNCHANGED <<socks, pc, reducing, spreading, results>>
  PROVE  BooksInv'
<1>1. BookTypes'
  BY DEF BooksInv, BookTypes, reducing, spreading
<1>2. ASSUME NEW m \in Node PROVE NodeInv(m)'
  BY BooksKept DEF Books, BooksInv, reducing, spreading
<1> QED
  BY <1>1, <1>2 DEF BooksInv

-----------------------------------------------------------------------------
(* reduce.                                                                 *)

(* The call goes on: the length of its buffer and the tree stay.           *)
LEMMA SameCall ==
  ASSUME NEW n \in Node, UNCHANGED <<socks, results>>
  PROVE  Current(n)' = Current(n) /\ Bytes(n)' = Bytes(n) /\ Linked(n)' = Linked(n)
BY DEF Current, Bytes, Linked, socks

(* Between pass_up and select nothing changes but the position sent.       *)
LEMMA UpSelectStep ==
  ASSUME BooksInv, NEW n \in Node, UNCHANGED <<socks, results>>,
         pc[n] \in {"passUp", "select"}, pc'[n] \in {"passUp", "select"},
         fds'[n] = fds[n], child_read_pos'[n] = child_read_pos[n],
         parent[n] # None => \A s \in Side :
           parent_sent_pos'[n] <= WholeFloats(child_read_pos[n][s])
  PROVE  NodeInv(n)'
<1>1. Current(n)' = Current(n) /\ Bytes(n)' = Bytes(n) /\ Linked(n)' = Linked(n)
  BY SameCall
<1>2. NodeInv(n) /\ pc[n] \in ReduceLabels /\ pc'[n] \in ReduceLabels
  BY DEF BooksInv, ReduceLabels
<1>3. CallInv(n)'
  BY <1>1, <1>2 DEF NodeInv, CallInv
<1>4. Unfinished(n)' = Unfinished(n)
  BY <1>1 DEF Unfinished
<1>5. FdsInv(n)'
  BY <1>1, <1>2, <1>4 DEF NodeInv, FdsInv
<1>6. UpInv(n)'
  BY <1>1, <1>2 DEF NodeInv, UpInv, socks
<1>7. DownInv(n)'
  BY <1>2 DEF DownInv, ReduceLabels, BroadcastLabels
<1> QED
  BY <1>3, <1>5, <1>6, <1>7 DEF NodeInv

LEMMA PassedUpStep ==
  ASSUME BooksInv, NEW n \in Node, PassedUp(n)
  PROVE  BooksInv'
<1>1. pc[n] = "passUp" /\ parent[n] # None
  BY DEF PassedUp, PassesUp, At
<1>2. /\ pc'[n] = "select" /\ fds'[n] = fds[n] /\ child_read_pos'[n] = child_read_pos[n]
      /\ parent_sent_pos'[n] = parent_sent_pos[n] + UpSize(n)
  BY DEF PassedUp, Goto, BooksInv, BookTypes
<1>3. \A s \in Side : WholeFloats(child_read_pos[n][s]) \in Int
  <2>1. ASSUME NEW s \in Side PROVE WholeFloats(child_read_pos[n][s]) \in Int
    <3>1. child_read_pos[n][s] \in Nat
      BY <1>1 DEF BooksInv, NodeInv, UpInv, ReduceLabels
    <3> QED
      BY <3>1, WholeFloatsRises
  <2> QED
    BY <2>1
<1>4. UpSize(n) \in Int /\ \A s \in Side :
        parent_sent_pos[n] + UpSize(n) <= WholeFloats(child_read_pos[n][s])
  <2>1. BufSize \in Int /\ parent_sent_pos[n] \in Int
    BY AllReduceAssumption DEF BooksInv, BookTypes
  <2> QED
    BY <1>3, <2>1 DEF UpSize, MinOf, Side
<1>5. BookTypes'
  BY <1>4 DEF PassedUp, Goto, BooksInv, BookTypes, spreading, Labels, ReduceLabels
<1>6. OthersKept(n)
  BY DEF PassedUp, Goto, OthersKept, Books, spreading, BooksInv, BookTypes
<1>7. NodeInv(n)'
  BY <1>1, <1>2, <1>4, UpSelectStep DEF PassedUp
<1> QED
  BY <1>5, <1>6, <1>7, OneNode DEF BooksInv

LEMMA NoPassUpStep ==
  ASSUME BooksInv, NEW n \in Node, NothingToPassUp(n) \/ KeepPassing(n)
  PROVE  BooksInv'
<1>1. /\ pc[n] \in {"passUp", "select"} /\ pc'[n] \in {"passUp", "select"}
      /\ UNCHANGED <<socks, results, reducing, spreading>>
      /\ \E l \in {"passUp", "select"} : Goto(n, l)
  BY DEF NothingToPassUp, KeepPassing, Goto, At, BooksInv, BookTypes
<1>2. BookTypes'
  BY <1>1 DEF Goto, BooksInv, BookTypes, reducing, spreading, Labels, ReduceLabels
<1>3. OthersKept(n)
  BY <1>1 DEF Goto, OthersKept, Books, reducing, spreading, BooksInv, BookTypes
<1>4. NodeInv(n)'
  <2>1. parent[n] # None => \A s \in Side :
          parent_sent_pos'[n] <= WholeFloats(child_read_pos[n][s])
    BY <1>1 DEF BooksInv, NodeInv, UpInv, ReduceLabels, reducing
  <2> QED
    BY <1>1, <2>1, UpSelectStep DEF reducing
<1> QED
  BY <1>2, <1>3, <1>4, OneNode DEF BooksInv

LEMMA SelectStep ==
  ASSUME BooksInv, NEW n \in Node, Select(n)
  PROVE  BooksInv'
<1>1. /\ pc[n] = "select" /\ pc'[n] = "readLeft" /\ fds'[n] \subseteq fds[n]
      /\ child_read_pos'[n] = child_read_pos[n] /\ parent_sent_pos'[n] = parent_sent_pos[n]
  BY DEF Select, At, Goto, BooksInv, BookTypes
<1>2. BookTypes'
  BY DEF Select, Goto, BooksInv, BookTypes, spreading, Labels, ReduceLabels
<1>3. OthersKept(n)
  BY DEF Select, Goto, OthersKept, Books, spreading, BooksInv, BookTypes
<1>4. NodeInv(n)'
  <2>1. Current(n)' = Current(n) /\ Bytes(n)' = Bytes(n) /\ Linked(n)' = Linked(n)
    BY SameCall DEF Select
  <2>2. Unfinished(n)' = Unfinished(n)
    BY <1>1, <2>1 DEF Unfinished
  <2>3. NodeInv(n) /\ parent' = parent
    BY DEF BooksInv, Select, socks
  <2>4. FdsInv(n)'
    BY <1>1, <2>1, <2>2, <2>3 DEF NodeInv, FdsInv, ReduceLabels
  <2> QED
    BY <1>1, <2>1, <2>3, <2>4
       DEF NodeInv, CallInv, UpInv, DownInv, ReduceLabels, BroadcastLabels
<1> QED
  BY <1>2, <1>3, <1>4, OneNode DEF BooksInv

(* The look at one child settles whether that child is in fds.             *)
LEMMA ChildStep ==
  ASSUME BooksInv, NEW n \in Node, NEW s \in Side, UNCHANGED <<socks, results>>,
         pc[n] = ReadLabel(s), pc'[n] = AfterRead(s),
         parent_sent_pos'[n] = parent_sent_pos[n],
         child_read_pos'[n][s] \in Int,
         child_read_pos[n][s] <= child_read_pos'[n][s],
         child_read_pos'[n][s] <= Bytes(n),
         s \notin Linked(n) => child_read_pos'[n][s] = child_read_pos[n][s],
         fds'[n] \subseteq Side,
         s \in fds'[n] <=> s \in Unfinished(n)',
         \A t \in Side \ {s} : /\ child_read_pos'[n][t] = child_read_pos[n][t]
                               /\ t \in fds'[n] <=> t \in fds[n]
  PROVE  NodeInv(n)'
<1>1. Current(n)' = Current(n) /\ Bytes(n)' = Bytes(n) /\ Linked(n)' = Linked(n)
  BY SameCall
<1>2. NodeInv(n) /\ pc[n] \in ReduceLabels /\ pc'[n] \in ReduceLabels /\ parent' = parent
  BY DEF BooksInv, ReadLabel, AfterRead, ReduceLabels, Side, socks
<1>3. CallInv(n)' /\ DownInv(n)'
  BY <1>1, <1>2 DEF NodeInv, CallInv, DownInv, ReduceLabels, BroadcastLabels
<1>4. \A t \in Side \ {s} : t \in Unfinished(n)' <=> t \in Unfinished(n)
  BY <1>1 DEF Unfinished
<1>5. FdsInv(n)'
  <2>1. \A t \in Side \ Linked(n)' : child_read_pos'[n][t] = Bytes(n)'
    BY <1>1, <1>2 DEF NodeInv, FdsInv
  <2>2. fds'[n] \subseteq Unfinished(n)'
    BY <1>2, <1>4 DEF NodeInv, FdsInv
  <2>3. CASE s = 0
    <3>1. pc'[n] = "readRight"
      BY <2>3 DEF AfterRead
    <3> QED
      BY <2>1, <2>2, <2>3, <3>1 DEF FdsInv
  <2>4. CASE s = 1
    <3>1. pc[n] = "readRight" /\ pc'[n] = "passUp"
      BY <2>4 DEF AfterRead, ReadLabel
    <3>2. 0 \in Unfinished(n)' => 0 \in fds'[n]
      BY <1>2, <1>4, <2>4, <3>1 DEF NodeInv, FdsInv, Side
    <3>3. Unfinished(n)' \subseteq fds'[n]
      BY <2>4, <3>2 DEF Unfinished, Linked, Side
    <3> QED
      BY <2>1, <2>2, <3>1, <3>3 DEF FdsInv
  <2> QED
    BY <2>3, <2>4 DEF Side
<1>6. UpInv(n)'
  <2>1. ASSUME NEW t \in Side
        PROVE  /\ child_read_pos'[n][t] \in 0..Bytes(n)
               /\ child_read_pos[n][t] \in 0..Bytes(n)
               /\ child_read_pos[n][t] <= child_read_pos'[n][t]
    BY <1>2 DEF NodeInv, UpInv
  <2>2. \A t \in Side : child_read_pos'[n][t] \in 0..Bytes(n)'
    BY <1>1, <2>1
  <2>3. ASSUME parent'[n] # None, NEW t \in Side
        PROVE  parent_sent_pos'[n] <= WholeFloats(child_read_pos'[n][t])
    <3>1. child_read_pos[n][t] \in Nat /\ child_read_pos'[n][t] \in Nat
      BY <2>1
    <3>2. /\ WholeFloats(child_read_pos[n][t]) \in Nat
          /\ WholeFloats(child_read_pos'[n][t]) \in Nat
          /\ WholeFloats(child_read_pos[n][t]) <= WholeFloats(child_read_pos'[n][t])
      BY <2>1, <3>1, WholeFloatsRises
    <3>3. parent_sent_pos[n] <= WholeFloats(child_read_pos[n][t]) /\ parent_sent_pos[n] \in Int
      BY <1>2, <2>3 DEF NodeInv, UpInv, BooksInv, BookTypes
    <3> QED
      BY <3>2, <3>3
  <2> QED
    BY <2>2, <2>3 DEF UpInv, WholeFloats
<1> QED
  BY <1>3, <1>5, <1>6 DEF NodeInv

LEMMA ReArmStep ==
  ASSUME BooksInv, NEW n \in Node, NEW s \in Side, ReArm(n, s)
  PROVE  BooksInv'
<1>1. /\ pc[n] = ReadLabel(s) /\ pc'[n] = AfterRead(s) /\ s \notin fds[n]
      /\ fds'[n] = Rearmed(n, s) /\ child_read_pos'[n] = child_read_pos[n]
      /\ parent_sent_pos'[n] = parent_sent_pos[n]
  BY DEF ReArm, At, Goto, BooksInv, BookTypes
<1>2. Rearmed(n, s) \in SUBSET Side
  BY DEF Rearmed, BooksInv, BookTypes
<1>3. BookTypes'
  BY <1>2 DEF ReArm, Goto, BooksInv, BookTypes, spreading, Labels, ReduceLabels, AfterRead
<1>4. OthersKept(n)
  BY DEF ReArm, Goto, OthersKept, Books, spreading, BooksInv, BookTypes
<1>5. NodeInv(n)'
  <2>1. Bytes(n)' = Bytes(n) /\ Linked(n)' = Linked(n)
    BY SameCall DEF ReArm
  <2>2. /\ child_read_pos[n][s] \in 0..Bytes(n)
    BY <1>1 DEF BooksInv, NodeInv, UpInv, ReduceLabels, ReadLabel
  <2>3. s \in fds'[n] <=> s \in Unfinished(n)'
    BY <1>1, <2>1 DEF Rearmed, Unfinished
  <2>4. \A t \in Side \ {s} : t \in fds'[n] <=> t \in fds[n]
    BY <1>1 DEF Rearmed
  <2>5. UNCHANGED <<socks, results>>
    BY DEF ReArm
  <2>6. /\ child_read_pos'[n][s] \in Int /\ child_read_pos[n][s] <= child_read_pos'[n][s]
        /\ child_read_pos'[n][s] <= Bytes(n)
    BY <1>1, <2>2
  <2> QED
    BY <1>1, <1>2, <2>3, <2>4, <2>5, <2>6, ChildStep
<1> QED
  BY <1>3, <1>4, <1>5, OneNode DEF BooksInv

LEMMA ReadChildStep ==
  ASSUME BooksInv, NEW n \in Node, NEW s \in Side, ReadChild(n, s)
  PROVE  BooksInv'
<1> DEFINE pos == child_read_pos[n][s]
<1>1. /\ pc[n] = ReadLabel(s) /\ pc'[n] = AfterRead(s) /\ s \in fds[n]
      /\ parent_sent_pos'[n] = parent_sent_pos[n] /\ UNCHANGED <<socks, results>>
  BY DEF ReadChild, At, Goto, BooksInv, BookTypes
<1>2. pos \in 0..Bytes(n) /\ Bytes(n) \in Int /\ s \in Linked(n)
  <2>1. pos \in 0..Bytes(n) /\ s \in Linked(n)
    BY <1>1 DEF BooksInv, NodeInv, UpInv, FdsInv, Unfinished, ReduceLabels, ReadLabel
  <2>2. Current(n) \in 1..Len(Calls)
    BY <1>1 DEF BooksInv, NodeInv, CallInv, ReadLabel
  <2> QED
    BY <2>1, <2>2, AllReduceAssumption DEF Bytes, ToInt
<1>3. PICK count \in 0..MinOf(BufSize, Bytes(n) - pos) :
        /\ child_read_pos' = [child_read_pos EXCEPT ![n][s] = pos + count]
        /\ fds' = [fds EXCEPT ![n] = Cleared(n, s, pos + count)]
  BY DEF ReadChild
<1>4. count \in Nat /\ pos + count <= Bytes(n)
  BY <1>2, AllReduceAssumption DEF MinOf
<1>5. Cleared(n, s, pos + count) \in SUBSET Side
  BY DEF Cleared, BooksInv, BookTypes
<1>6. /\ fds'[n] = Cleared(n, s, pos + count) /\ child_read_pos'[n][s] = pos + count
      /\ \A t \in Side \ {s} : child_read_pos'[n][t] = child_read_pos[n][t]
  BY <1>3 DEF BooksInv, BookTypes
<1>7. BookTypes'
  BY <1>2, <1>3, <1>4, <1>5
     DEF ReadChild, Goto, BooksInv, BookTypes, spreading, Labels, ReduceLabels, AfterRead
<1>8. OthersKept(n)
  BY <1>3 DEF ReadChild, Goto, OthersKept, Books, spreading, BooksInv, BookTypes
<1>9. NodeInv(n)'
  <2>1. Bytes(n)' = Bytes(n) /\ Linked(n)' = Linked(n)
    BY <1>1, SameCall
  <2>2. s \in fds'[n] <=> s \in Unfinished(n)'
    BY <1>1, <1>2, <1>6, <2>1 DEF Cleared, Unfinished
  <2>3. \A t \in Side \ {s} : t \in fds'[n] <=> t \in fds[n]
    BY <1>6 DEF Cleared
  <2> QED
    BY <1>1, <1>2, <1>4, <1>5, <1>6, <2>2, <2>3, ChildStep
<1> QED
  BY <1>7, <1>8, <1>9, OneNode DEF BooksInv

-----------------------------------------------------------------------------
(* broadcast.                                                              *)

LEMMA LeaveReduceStep ==
  ASSUME BooksInv, FitsInt, NEW n \in Node, LeaveReduce(n)
  PROVE  BooksInv'
<1>1. pc[n] = "select" /\ UNCHANGED <<socks, results>>
  BY DEF LeaveReduce, At
<1>2. Current(n) \in 1..Len(Calls) /\ Bytes(n) \in Nat /\ Bytes(n) > 0
  BY <1>1, BytesType DEF BooksInv, NodeInv, CallInv
<1>3. Current(n)' = Current(n) /\ Bytes(n)' = Bytes(n) /\ Linked(n)' = Linked(n)
      /\ parent' = parent
  BY <1>1, SameCall DEF socks
<1>4. /\ parent_read_pos'[n] = IF parent[n] = None THEN Bytes(n) ELSE 0
      /\ children_sent_pos'[n] = IF Linked(n) = {} THEN Bytes(n) ELSE 0
  BY DEF LeaveReduce, BooksInv, BookTypes
<1>5. /\ pc'[n] \in {"passLeft", "readDown"}
      /\ pc'[n] = "readDown" => parent[n] = None
  BY <1>2 DEF LeaveReduce, Goto, BooksInv, BookTypes
<1>6. BookTypes'
  BY <1>2 DEF LeaveReduce, Goto, BooksInv, BookTypes, Labels, BroadcastLabels
<1>7. OthersKept(n)
  BY DEF LeaveReduce, Goto, OthersKept, Books, BooksInv, BookTypes
<1>8. DownInv(n)'
  <2>1. BufSize \in Nat
    BY AllReduceAssumption
  <2> QED
    BY <1>2, <1>3, <1>4, <1>5, <2>1 DEF DownInv
<1>9. CallInv(n)' /\ FdsInv(n)' /\ UpInv(n)'
  BY <1>2, <1>3, <1>5 DEF CallInv, FdsInv, UpInv, ReduceLabels
<1> QED
  BY <1>6, <1>7, <1>8, <1>9, OneNode DEF BooksInv, NodeInv

(* Within broadcast only DownInv has something to say.                     *)
LEMMA DownStep ==
  ASSUME BooksInv, NEW n \in Node, UNCHANGED <<socks, results>>,
         pc[n] \in BroadcastLabels, pc'[n] \in BroadcastLabels, DownInv(n)'
  PROVE  NodeInv(n)'
<1>1. Current(n)' = Current(n)
  BY SameCall
<1> QED
  BY <1>1 DEF BooksInv, NodeInv, CallInv, FdsInv, UpInv, ReduceLabels, BroadcastLabels

LEMMA PassedDownStep ==
  ASSUME BooksInv, FitsInt, NEW n \in Node, NEW s \in Side, PassedDown(n, s)
  PROVE  BooksInv'
<1>1. /\ pc[n] = PassLabel(s) /\ pc[n] \in BroadcastLabels
      /\ UNCHANGED <<socks, results>> /\ parent_read_pos' = parent_read_pos
  BY DEF PassedDown, At, PassLabel, BroadcastLabels
<1>2. Bytes(n) \in Nat /\ BufSize \in Nat /\ BufSize > 0
  BY <1>1, BytesType, AllReduceAssumption DEF BooksInv, NodeInv, CallInv, BroadcastLabels
<1>3. Bytes(n)' = Bytes(n) /\ Linked(n)' = Linked(n) /\ parent' = parent
  BY <1>1, SameCall DEF socks
<1>4. /\ parent_read_pos[n] \in Int /\ children_sent_pos[n] \in Int
      /\ DownSize(n) \in Int
      /\ MaxOf(0, DownSize(n)) \in Int
  BY <1>2 DEF BooksInv, BookTypes, DownSize, MinOf, MaxOf
<1>5. DownInv(n)
  BY DEF BooksInv, NodeInv
<1>6. CASE s = 0
  <2>1. pc[n] = "passLeft" /\ pc'[n] = "passRight" /\ children_sent_pos' = children_sent_pos
    BY <1>1, <1>6 DEF PassedDown, PassLabel, Goto, BooksInv, BookTypes
  <2>2. BookTypes'
    BY <1>6, <2>1 DEF PassedDown, Goto, BooksInv, BookTypes, reducing, Labels, BroadcastLabels
  <2>3. OthersKept(n)
    BY <1>6, <2>1 DEF PassedDown, Goto, OthersKept, Books, reducing, BooksInv, BookTypes
  <2>4. DownInv(n)'
    BY <1>1, <1>3, <1>5, <2>1 DEF DownInv, BroadcastLabels
  <2>5. NodeInv(n)'
    BY <1>1, <2>1, <2>4, DownStep DEF BroadcastLabels
  <2> QED
    BY <2>2, <2>3, <2>5, OneNode DEF BooksInv
<1>7. CASE s = 1
  <2>1. /\ pc[n] = "passRight" /\ pc'[n] = "readDown"
        /\ children_sent_pos'[n] = children_sent_pos[n] + MaxOf(0, DownSize(n))
    BY <1>1, <1>7 DEF PassedDown, PassLabel, Goto, BooksInv, BookTypes
  <2>2. BookTypes'
    BY <1>4, <1>7 DEF PassedDown, Goto, BooksInv, BookTypes, reducing, Labels, BroadcastLabels
  <2>3. OthersKept(n)
    BY <1>7 DEF PassedDown, Goto, OthersKept, Books, reducing, BooksInv, BookTypes
  <2>4. DownInv(n)'
    <3>1. CASE Linked(n) = {}
      <4>1. children_sent_pos[n] = Bytes(n) /\ parent_read_pos[n] <= Bytes(n)
        BY <1>1, <1>5, <3>1 DEF DownInv
      <4>2. MaxOf(0, DownSize(n)) = 0
        BY <1>2, <1>4, <4>1 DEF MaxOf, DownSize, MinOf
      <4> QED
        BY <1>1, <1>2, <1>3, <2>1, <3>1, <4>1, <4>2 DEF DownInv
    <3>2. CASE Linked(n) # {}
      <4>1. children_sent_pos[n] <= parent_read_pos[n] /\ parent_read_pos[n] <= Bytes(n)
        BY <1>1, <1>5, <3>2 DEF DownInv
      <4>2. children_sent_pos'[n] <= parent_read_pos[n]
        BY <1>2, <1>4, <2>1, <4>1 DEF MaxOf, DownSize, MinOf
      <4>3. ASSUME parent[n] # None PROVE children_sent_pos'[n] = parent_read_pos[n]
        <5>1. parent_read_pos[n] - children_sent_pos[n] <= BufSize
          BY <1>1, <1>5, <2>1, <3>2, <4>3 DEF DownInv
        <5> QED
          BY <1>2, <1>4, <2>1, <4>1, <5>1 DEF MaxOf, DownSize, MinOf
      <4> QED
        BY <1>1, <1>3, <2>1, <3>2, <4>1, <4>2, <4>3 DEF DownInv
    <3> QED
      BY <3>1, <3>2
  <2>5. NodeInv(n)'
    BY <1>1, <2>1, <2>4, DownStep DEF BroadcastLabels
  <2> QED
    BY <2>2, <2>3, <2>5, OneNode DEF BooksInv
<1> QED
  BY <1>6, <1>7 DEF Side

LEMMA ReadParentStep ==
  ASSUME BooksInv, FitsInt, NEW n \in Node, ReadParent(n)
  PROVE  BooksInv'
<1>1. /\ pc[n] = "readDown" /\ pc'[n] = "passLeft" /\ parent[n] # None
      /\ UNCHANGED <<socks, results>> /\ children_sent_pos' = children_sent_pos
  BY DEF ReadParent, At, Goto, BooksInv, BookTypes
<1>2. Bytes(n) \in Nat /\ BufSize \in Nat
  BY <1>1, BytesType, AllReduceAssumption DEF BooksInv, NodeInv, CallInv
<1>3. Bytes(n)' = Bytes(n) /\ Linked(n)' = Linked(n) /\ parent' = parent
  BY <1>1, SameCall DEF socks
<1>4. PICK count \in 0..MinOf(BufSize, Bytes(n) - parent_read_pos[n]) :
        parent_read_pos' = [parent_read_pos EXCEPT ![n] = parent_read_pos[n] + count]
  BY DEF ReadParent
<1>5. parent_read_pos[n] \in Int /\ children_sent_pos[n] \in Int
  BY DEF BooksInv, BookTypes
<1>6. /\ count \in Nat /\ count <= BufSize /\ parent_read_pos[n] + count <= Bytes(n)
      /\ parent_read_pos'[n] = parent_read_pos[n] + count
  BY <1>2, <1>4, <1>5 DEF MinOf, BooksInv, BookTypes
<1>7. BookTypes'
  BY <1>4, <1>5, <1>6 DEF ReadParent, Goto, BooksInv, BookTypes, reducing, Labels, BroadcastLabels
<1>8. OthersKept(n)
  BY <1>4 DEF ReadParent, Goto, OthersKept, Books, reducing, BooksInv, BookTypes
<1>9. DownInv(n)'
  <2>1. /\ Linked(n) = {} => children_sent_pos[n] = Bytes(n)
        /\ Linked(n) # {} => children_sent_pos[n] = parent_read_pos[n]
    BY <1>1 DEF BooksInv, NodeInv, DownInv, BroadcastLabels
  <2> QED
    BY <1>1, <1>2, <1>3, <1>5, <1>6, <2>1 DEF DownInv
<1>10. NodeInv(n)'
  BY <1>1, <1>9, DownStep DEF BroadcastLabels
<1> QED
  BY <1>7, <1>8, <1>10, OneNode DEF BooksInv

LEMMA KeepSpreadingStep ==
  ASSUME BooksInv, NEW n \in Node, KeepSpreading(n)
  PROVE  BooksInv'
<1>1. /\ pc[n] = "readDown" /\ pc'[n] = "passLeft" /\ parent[n] = None
      /\ UNCHANGED <<socks, results, reducing, spreading>>
  BY DEF KeepSpreading, At, Goto, BooksInv, BookTypes
<1>2. BookTypes'
  BY DEF KeepSpreading, Goto, BooksInv, BookTypes, reducing, spreading, Labels, BroadcastLabels
<1>3. OthersKept(n)
  BY DEF KeepSpreading, Goto, OthersKept, Books, reducing, spreading, BooksInv, BookTypes
<1>4. Bytes(n)' = Bytes(n) /\ Linked(n)' = Linked(n) /\ parent' = parent
  BY <1>1, SameCall DEF socks
<1>5. DownInv(n)'
  BY <1>1, <1>4 DEF BooksInv, NodeInv, DownInv, spreading, BroadcastLabels
<1>6. NodeInv(n)'
  BY <1>1, <1>5, DownStep DEF BroadcastLabels
<1> QED
  BY <1>2, <1>3, <1>6, OneNode DEF BooksInv

-----------------------------------------------------------------------------
(* The invariant, and what follows from it.                                *)

LEMMA InitInv == Init => BooksInv /\ ResultsInv
<1> SUFFICES ASSUME Init PROVE BooksInv /\ ResultsInv
  OBVIOUS
<1>1. BookTypes
  BY DEF Init, BookTypes, Labels
<1>2. \A n \in Node : NodeInv(n)
  BY DEF Init, NodeInv, CallInv, FdsInv, UpInv, DownInv, ReduceLabels, BroadcastLabels
<1>3. ResultsInv
  BY DEF Init, ResultsInv
<1> QED
  BY <1>1, <1>2, <1>3 DEF BooksInv

LEMMA NextInv == BooksInv /\ ResultsInv /\ FitsInt /\ [Next]_vars => BooksInv'
<1> SUFFICES ASSUME BooksInv, ResultsInv, FitsInt, [Next]_vars PROVE BooksInv'
  OBVIOUS
<1>1. CASE UNCHANGED vars \/ Stop
  BY <1>1, OutsideStep DEF vars, Stop
<1>2. ASSUME NEW n \in Node, Call(n) PROVE BooksInv'
  BY <1>2, CallStep
<1>3. ASSUME NEW n \in Node, Reduce(n) PROVE BooksInv'
  <2>1. CASE PassUp(n)
    BY <2>1, OutsideStep DEF PassUp
  <2>2. CASE PassedUp(n)
    BY <2>2, PassedUpStep
  <2>3. CASE NothingToPassUp(n) \/ KeepPassing(n)
    BY <2>3, NoPassUpStep
  <2>4. CASE Select(n)
    BY <2>4, SelectStep
  <2>5. CASE LeaveReduce(n)
    BY <2>5, LeaveReduceStep
  <2>6. ASSUME NEW s \in Side, ReArm(n, s) PROVE BooksInv'
    BY <2>6, ReArmStep
  <2>7. ASSUME NEW s \in Side, ReadChild(n, s) PROVE BooksInv'
    BY <2>7, ReadChildStep
  <2> QED
    BY <1>3, <2>1, <2>2, <2>3, <2>4, <2>5, <2>6, <2>7 DEF Reduce
<1>4. ASSUME NEW n \in Node, Broadcast(n) PROVE BooksInv'
  <2>1. ASSUME NEW s \in Side, PassDown(n, s) PROVE BooksInv'
    BY <2>1, OutsideStep DEF PassDown
  <2>2. ASSUME NEW s \in Side, PassedDown(n, s) PROVE BooksInv'
    BY <2>2, PassedDownStep
  <2>3. CASE ReadParent(n)
    BY <2>3, ReadParentStep
  <2>4. CASE KeepSpreading(n)
    BY <2>4, KeepSpreadingStep
  <2>5. CASE Return(n)
    BY <2>5, ReturnStep
  <2> QED
    BY <1>4, <2>1, <2>2, <2>3, <2>4, <2>5 DEF Broadcast
<1>5. ASSUME NEW n \in Node, Crash(n) \/ Fail(n) PROVE BooksInv'
  BY <1>5, OutsideStep DEF Crash, Fail
<1> QED
  BY <1>1, <1>2, <1>3, <1>4, <1>5 DEF Next, Step

LEMMA ResultsStep ==
  ASSUME ResultsInv, NEW n \in Node, NEW v,
         results' = [results EXCEPT ![n] = Append(@, v)]
  PROVE  ResultsInv'
<1> SUFFICES ASSUME NEW m \in Node PROVE \E S : results'[m] \in Seq(S)
  BY DEF ResultsInv
<1>1. PICK S : results[m] \in Seq(S)
  BY DEF ResultsInv
<1>2. results[m] \in Seq(S \cup {v})
  BY <1>1
<1>3. Append(results[m], v) \in Seq(S \cup {v})
  BY <1>2
<1> QED
  BY <1>1, <1>3

LEMMA NextResults == ResultsInv /\ [Next]_vars => ResultsInv'
<1> SUFFICES ASSUME ResultsInv, [Next]_vars PROVE ResultsInv'
  OBVIOUS
<1>1. CASE UNCHANGED results
  BY <1>1 DEF ResultsInv
<1>2. ASSUME NEW n \in Node, Return(n) PROVE ResultsInv'
  BY <1>2, ResultsStep DEF Return
<1>3. ASSUME NEW n \in Node, Step(n) \/ Crash(n) \/ Fail(n)
      PROVE  UNCHANGED results \/ Return(n)
  BY <1>3
     DEF Step, Call, Reduce, Broadcast, PassUp, PassedUp, NothingToPassUp, Select,
         KeepPassing, LeaveReduce, ReArm, ReadChild, PassDown, PassedDown,
         ReadParent, KeepSpreading, Crash, Fail
<1> QED
  BY <1>1, <1>2, <1>3 DEF Next, Stop, vars

-----------------------------------------------------------------------------
(* The lengths.  What holds of sequences does so whatever is in them.      *)

IsSeq(s) == \E S : s \in Seq(S)
Typed(f) == \E S : f \in [Node -> Seq(S)]

LEMMA TypedAt ==
  ASSUME NEW f, Typed(f), NEW n \in Node
  PROVE  IsSeq(f[n]) /\ Len(f[n]) \in Nat
BY DEF Typed, IsSeq

LEMMA TypedExcept ==
  ASSUME NEW f, Typed(f), NEW n \in Node, NEW x, IsSeq(x),
         NEW g, g = [f EXCEPT ![n] = x]
  PROVE  Typed(g) /\ g[n] = x /\ \A m \in Node \ {n} : g[m] = f[m]
<1>1. PICK S : f \in [Node -> Seq(S)]
  BY DEF Typed
<1>2. PICK T : x \in Seq(T)
  BY DEF IsSeq
<1>3. f \in [Node -> Seq(S \cup T)] /\ x \in Seq(S \cup T)
  BY <1>1, <1>2
<1> QED
  BY <1>3 DEF Typed

LEMMA SeqConcat ==
  ASSUME NEW s, IsSeq(s), NEW t, IsSeq(t)
  PROVE  IsSeq(s \o t) /\ Len(s \o t) = Len(s) + Len(t)
<1>1. PICK S : s \in Seq(S)
  BY DEF IsSeq
<1>2. PICK T : t \in Seq(T)
  BY DEF IsSeq
<1>3. s \in Seq(S \cup T) /\ t \in Seq(S \cup T)
  BY <1>1, <1>2
<1> QED
  BY <1>3 DEF IsSeq

LEMMA SeqPart ==
  ASSUME NEW s, IsSeq(s), NEW a \in Nat, NEW b \in Nat, a <= b, b <= Len(s)
  PROVE  IsSeq(SubSeq(s, a + 1, b)) /\ Len(SubSeq(s, a + 1, b)) = b - a
<1>1. PICK S : s \in Seq(S)
  BY DEF IsSeq
<1> QED
  BY <1>1 DEF IsSeq

LEMMA EncodeLength ==
  ASSUME NEW floats, Len(floats) \in Nat
  PROVE  IsSeq(Encode(floats)) /\ Len(Encode(floats)) = Len(floats) * FloatSize
<1>1. FloatSize \in Nat
  BY AllReduceAssumption
<1> SUFFICES ASSUME NEW k \in Nat, k = Len(floats) * FloatSize
             PROVE  IsSeq(Encode(floats)) /\ Len(Encode(floats)) = k
  BY <1>1
<1> DEFINE S == {Encode(floats)[i] : i \in 1..k}
<1>2. /\ DOMAIN Encode(floats) = 1..k
      /\ Encode(floats) = [i \in 1..k |-> Encode(floats)[i]]
  BY DEF Encode
<1>3. \A i \in 1..k : Encode(floats)[i] \in S
  OBVIOUS
<1> HIDE DEF S
<1>4. Encode(floats) \in Seq(S) /\ Len(Encode(floats)) = k
  BY <1>2, <1>3
<1> QED
  BY <1>4 DEF IsSeq

(* addbufs leaves the length of its buffer, of whole floats, alone.        *)
LEMMA AddBufsLength ==
  ASSUME NEW bytes, NEW from, NEW floats, NEW k \in Nat, Len(bytes) = k * FloatSize
  PROVE  /\ IsSeq(AddBufs(bytes, from, floats))
         /\ Len(AddBufs(bytes, from, floats)) = k * FloatSize
<1>1. (k * FloatSize) \div FloatSize = k
  <2>1. \A f \in Nat \ {0} : (k * f) \div f = k
    OBVIOUS
  <2> QED
    BY <2>1, AllReduceAssumption
<1> DEFINE old == Decode(bytes)
           Covered(e) == e > from /\ e <= from + Len(floats)
           sums == [e \in 1..Len(old) |->
                      IF Covered(e) THEN Add(old[e], floats[e - from]) ELSE old[e]]
<1>2. Len(old) = k
  BY <1>1 DEF Decode
<1> HIDE DEF old
<1>3. Len(sums) = k
  BY <1>2
<1>4. AddBufs(bytes, from, floats) = Encode(sums)
  BY DEF AddBufs, old
<1> HIDE DEF sums
<1> QED
  BY <1>3, <1>4, EncodeLength

LEMMA DivMod == \A p \in Int :
  /\ p = FloatSize * (p \div FloatSize) + (p % FloatSize)
  /\ p \div FloatSize \in Int
  /\ p % FloatSize \in 0..(FloatSize - 1)
BY AllReduceAssumption

(* The bytes of an unfinished float, before and after a read.              *)
LEMMA LeftOver ==
  ASSUME NEW pos \in Nat, NEW count \in Nat
  PROVE  /\ Completed(pos, count) \in Nat
         /\ Completed(pos, count) * FloatSize <= (pos % FloatSize) + count
         /\ (pos % FloatSize) + count - Completed(pos, count) * FloatSize
              = (pos + count) % FloatSize
         /\ (pos + count) % FloatSize \in 0..(FloatSize - 1)
<1>1. pos \in Int /\ pos + count \in Int
  OBVIOUS
<1>2. /\ pos = FloatSize * (pos \div FloatSize) + (pos % FloatSize)
      /\ pos \div FloatSize \in Int /\ pos % FloatSize \in 0..(FloatSize - 1)
      /\ pos + count = FloatSize * ((pos + count) \div FloatSize) + ((pos + count) % FloatSize)
      /\ (pos + count) \div FloatSize \in Int
      /\ (pos + count) % FloatSize \in 0..(FloatSize - 1)
  BY ONLY <1>1, DivMod
<1>3. pos \div FloatSize <= (pos + count) \div FloatSize
  BY AllReduceAssumption
<1> DEFINE a == pos \div FloatSize
           b == (pos + count) \div FloatSize
           r == pos % FloatSize
           t == (pos + count) % FloatSize
<1>4. /\ pos = FloatSize * a + r /\ a \in Int /\ r \in 0..(FloatSize - 1)
      /\ pos + count = FloatSize * b + t /\ b \in Int /\ t \in 0..(FloatSize - 1)
      /\ a <= b
  BY <1>2, <1>3
<1> HIDE DEF a, b, r, t
<1>5. \A x, y \in Int : (x - y) * FloatSize = FloatSize * x - FloatSize * y
  BY AllReduceAssumption
<1>6. \A x \in Int : FloatSize * x \in Int
  BY AllReduceAssumption
<1>7. (b - a) * FloatSize = FloatSize * b - FloatSize * a
      /\ FloatSize * b \in Int /\ FloatSize * a \in Int
  BY <1>4, <1>5, <1>6
<1>8. /\ b - a \in Nat /\ (b - a) * FloatSize <= r + count
      /\ r + count - (b - a) * FloatSize = t
  BY <1>4, <1>7, AllReduceAssumption
<1> QED
  BY <1>4, <1>8 DEF Completed, a, b, r, t

-----------------------------------------------------------------------------
(* The types of the variables that are not in the books.                   *)
SeqInv ==
  /\ parent \in Trees
  /\ children \in [Node -> [Side -> Node \cup {None}]]
  /\ crashed \subseteq Node /\ failed \subseteq Node
  /\ Typed(up) /\ Typed(down) /\ Typed(buffer) /\ Typed(results)
  /\ \E S : child_read_buf \in [Node -> [Side -> Seq(S)]]
  /\ written \in [Node -> Int]

Extents == SeqInv /\ \A n \in Node : ExtentInv(n)

Own(n) == <<pc[n], written[n], buffer[n], child_read_pos[n], child_read_buf[n],
            parent_sent_pos[n], parent_read_pos[n], children_sent_pos[n], results[n]>>

LEMMA ExtentKept ==
  ASSUME NEW m \in Node, ExtentInv(m), UNCHANGED socks, UNCHANGED Own(m),
         Len(up'[m]) <= Capacity, Len(down'[m]) <= Capacity
  PROVE  ExtentInv(m)'
<1>1. /\ pc'[m] = pc[m] /\ written'[m] = written[m] /\ buffer'[m] = buffer[m]
      /\ child_read_pos'[m] = child_read_pos[m] /\ results'[m] = results[m]
      /\ child_read_buf'[m] = child_read_buf[m]
      /\ parent_sent_pos'[m] = parent_sent_pos[m]
      /\ parent_read_pos'[m] = parent_read_pos[m]
      /\ children_sent_pos'[m] = children_sent_pos[m]
      /\ parent' = parent /\ children' = children
  BY DEF Own, socks
<1>2. /\ Bytes(m)' = Bytes(m) /\ Linked(m)' = Linked(m)
      /\ UpSize(m)' = UpSize(m) /\ DownSize(m)' = DownSize(m)
  BY <1>1 DEF Current, Bytes, Linked, UpSize, DownSize, WholeFloats, MinOf
<1>3. Passing(m)' = Passing(m)
  BY <1>1, <1>2 DEF Passing, MaxOf
<1> QED
  BY <1>1, <1>2, <1>3 DEF ExtentInv

LEMMA OneExtent ==
  ASSUME Extents, NEW n \in Node, SeqInv', UNCHANGED socks,
         \A m \in Node \ {n} : UNCHANGED Own(m),
         \A m \in Node : Len(up'[m]) <= Capacity /\ Len(down'[m]) <= Capacity,
         ExtentInv(n)'
  PROVE  Extents'
BY ExtentKept DEF Extents

(* The sizes of pieces, and the end of a piece in the buffer.              *)
LEMMA PieceEnds ==
  ASSUME BooksInv, Extents, FitsInt, NEW n \in Node, pc[n] # "caller"
  PROVE  /\ Bytes(n) \in Nat /\ Len(buffer[n]) = Bytes(n)
         /\ Current(n) \in 1..Len(Calls)
         /\ UpSize(n) \in Int /\ DownSize(n) \in Int
         /\ parent_sent_pos[n] \in Nat
         /\ pc[n] \in ReduceLabels /\ parent[n] # None =>
              parent_sent_pos[n] + UpSize(n) <= Bytes(n)
         /\ pc[n] \in BroadcastLabels =>
              /\ parent_read_pos[n] \in Nat /\ children_sent_pos[n] \in Nat
              /\ parent_read_pos[n] <= Bytes(n) /\ children_sent_pos[n] <= Bytes(n)
              /\ children_sent_pos[n] + MaxOf(0, DownSize(n)) <= Bytes(n)
<1>1. Current(n) \in 1..Len(Calls)
  BY DEF BooksInv, NodeInv, CallInv
<1>2. Bytes(n) \in Nat /\ Len(buffer[n]) = Bytes(n)
  BY <1>1, BytesType DEF Extents, ExtentInv
<1>3. /\ parent_sent_pos[n] \in Nat /\ BufSize \in Nat
      /\ parent_read_pos[n] \in Nat /\ children_sent_pos[n] \in Nat
  BY <1>2, AllReduceAssumption DEF Extents, ExtentInv, BooksInv, BookTypes
<1>4. \A s \in Side : child_read_pos[n][s] \in Nat /\ child_read_pos[n][s] <= Bytes(n)
  BY <1>2 DEF Extents, ExtentInv
<1>5. \A p \in Nat : WholeFloats(p) \in Nat /\ WholeFloats(p) <= p
  <2>1. \A p \in Nat, f \in Nat \ {0} : (p \div f) * f \in Nat /\ (p \div f) * f <= p
    OBVIOUS
  <2> QED
    BY <2>1, AllReduceAssumption DEF WholeFloats
<1>6. \A s \in Side : /\ WholeFloats(child_read_pos[n][s]) \in Nat
                      /\ WholeFloats(child_read_pos[n][s]) <= Bytes(n)
  <2> SUFFICES ASSUME NEW s \in Side
               PROVE  /\ WholeFloats(child_read_pos[n][s]) \in Nat
                      /\ WholeFloats(child_read_pos[n][s]) <= Bytes(n)
    OBVIOUS
  <2>1. child_read_pos[n][s] \in Nat /\ child_read_pos[n][s] <= Bytes(n)
    BY <1>4
  <2> QED
    BY <1>2, <1>5, <2>1
<1>7. UpSize(n) \in Int /\ parent_sent_pos[n] + UpSize(n) <= Bytes(n)
  BY <1>2, <1>3, <1>6 DEF UpSize, MinOf, Side
<1>8. DownSize(n) \in Int
  BY <1>3 DEF DownSize, MinOf
<1>9. ASSUME pc[n] \in BroadcastLabels
      PROVE  /\ parent_read_pos[n] <= Bytes(n) /\ children_sent_pos[n] <= Bytes(n)
             /\ children_sent_pos[n] + MaxOf(0, DownSize(n)) <= Bytes(n)
  <2>1. parent_read_pos[n] <= Bytes(n) /\ children_sent_pos[n] <= Bytes(n)
    BY <1>2, <1>3, <1>9 DEF BooksInv, NodeInv, DownInv
  <2> QED
    BY <1>2, <1>3, <2>1 DEF DownSize, MinOf, MaxOf
<1> QED
  BY <1>1, <1>2, <1>3, <1>7, <1>8, <1>9

-----------------------------------------------------------------------------
(* Steps at the ends of a call.                                            *)

LEMMA CallExtent ==
  ASSUME BooksInv, FitsInt, Extents, NEW n \in Node, Call(n)
  PROVE  Extents'
<1>1. pc[n] = "caller" /\ pc'[n] = "passUp" /\ UNCHANGED <<socks, results, written>>
  BY DEF Call, At, Goto, BooksInv, BookTypes
<1>2. Current(n) \in 1..Len(Calls)
  <2>1. Len(results[n]) \in Nat /\ Len(Calls) \in Nat
    BY TypedAt, AllReduceAssumption DEF Extents, SeqInv
  <2> QED
    BY <2>1 DEF Call, Current
<1>3. /\ Bytes(n) \in Nat /\ Calls[Current(n)] \in Nat
      /\ Calls[Current(n)] * FloatSize = Bytes(n)
  <2>1. Calls[Current(n)] \in Nat /\ FloatSize \in Nat
    BY <1>2, AllReduceAssumption
  <2>2. Calls[Current(n)] * FloatSize \in Nat
    BY <2>1
  <2> QED
    BY <1>2, <2>1, <2>2, BytesType, ToIntSmall DEF Bytes, FitsInt
<1> DEFINE own == [e \in 1..Calls[Current(n)] |-> Local(n, Current(n), e)]
<1>4. IsSeq(Encode(own)) /\ Len(Encode(own)) = Bytes(n)
  <2>1. Len(own) = Calls[Current(n)]
    BY <1>3
  <2> HIDE DEF own
  <2> QED
    BY <1>3, <2>1, EncodeLength
<1>5. buffer' = [buffer EXCEPT ![n] = Encode(own)]
  BY DEF Call
<1> HIDE DEF own
<1>6. /\ Typed(buffer') /\ Len(buffer'[n]) = Bytes(n)
      /\ \A m \in Node \ {n} : buffer'[m] = buffer[m]
  <2>1. Typed(buffer)
    BY DEF Extents, SeqInv
  <2> DEFINE x == Encode(own)
  <2>2. IsSeq(x) /\ Len(x) = Bytes(n) /\ buffer' = [buffer EXCEPT ![n] = x]
    BY <1>4, <1>5
  <2> HIDE DEF x
  <2>3. /\ Typed(buffer') /\ buffer'[n] = x
        /\ \A m \in Node \ {n} : buffer'[m] = buffer[m]
    BY <2>1, <2>2, TypedExcept DEF Typed, IsSeq
  <2> QED
    BY <2>2, <2>3
<1>7. Bytes(n)' = Bytes(n) /\ Linked(n)' = Linked(n)
  BY <1>1, SameCall
<1>8. /\ parent_sent_pos'[n] = 0
      /\ child_read_pos'[n] = [s \in Side |-> IF s \in Linked(n) THEN 0 ELSE Bytes(n)]
      /\ child_read_buf'[n] = [s \in Side |-> <<>>]
      /\ written'[n] = written[n]
      /\ parent_read_pos'[n] = parent_read_pos[n]
      /\ children_sent_pos'[n] = children_sent_pos[n]
  BY DEF Call, BooksInv, BookTypes, Extents, SeqInv, spreading
<1>9. SeqInv'
  <2>1. PICK S : child_read_buf \in [Node -> [Side -> Seq(S)]]
    BY DEF Extents, SeqInv
  <2>2. child_read_buf' \in [Node -> [Side -> Seq(S)]]
    BY <2>1 DEF Call
  <2> QED
    BY <1>6, <2>2 DEF Call, Extents, SeqInv, socks, faults
<1>10. \A m \in Node \ {n} : UNCHANGED Own(m)
  BY <1>6 DEF Call, Goto, Own, BooksInv, BookTypes, Extents, SeqInv, spreading
<1>11. \A m \in Node : Len(up'[m]) <= Capacity /\ Len(down'[m]) <= Capacity
  BY DEF Call, Extents, ExtentInv
<1>12. ExtentInv(n)'
  <2>1. written[n] = 0
    BY <1>1 DEF Extents, ExtentInv, Passing
  <2>2. 0 \in 0..Passing(n)'
    <3>1. UpSize(n)' \in Int
      <4>1. FloatSize \in Nat \ {0} /\ BufSize \in Nat
        BY AllReduceAssumption
      <4>2. \A p \in Nat : WholeFloats(p) \in Nat
        BY WholeFloatsRises
      <4>3. \A s \in Side : child_read_pos'[n][s] \in Nat
        BY <1>3, <1>8
      <4>4. \A s \in Side : WholeFloats(child_read_pos'[n][s]) \in Nat
        BY <4>2, <4>3
      <4> QED
        BY <1>8, <4>1, <4>4 DEF UpSize, MinOf, Side, WholeFloats
    <3>2. MaxOf(0, UpSize(n)') \in Nat
      BY <3>1 DEF MaxOf
    <3> QED
      BY <1>1, <3>2 DEF Passing, MaxOf
  <2>3. \A s \in Side : /\ child_read_pos'[n][s] \in 0..Bytes(n)
                        /\ Len(child_read_buf'[n][s]) = 0
                        /\ s \in Linked(n) => child_read_pos'[n][s] = 0
    BY <1>3, <1>8
  <2>4. FloatSize > 0 /\ 0 % FloatSize = 0
    BY AllReduceAssumption
  <2>5. Len(results'[n]) <= Len(Calls)
    BY <1>1 DEF Extents, ExtentInv
  <2> QED
    BY <1>3, <1>6, <1>7, <1>8, <1>11, <2>1, <2>2, <2>3, <2>4, <2>5
       DEF ExtentInv, Extents
<1> QED
  BY <1>1, <1>9, <1>10, <1>11, <1>12, OneExtent

LEMMA ReturnExtent ==
  ASSUME BooksInv, FitsInt, Extents, NEW n \in Node, Return(n)
  PROVE  Extents'
<1>1. /\ pc[n] = "readDown" /\ pc'[n] = "caller"
      /\ UNCHANGED <<socks, up, down, faults, written, buffer, reducing, spreading>>
      /\ results' = [results EXCEPT ![n] = Append(results[n], Decode(buffer[n]))]
  BY DEF Return, At, Goto, BooksInv, BookTypes
<1>2. Current(n) \in 1..Len(Calls)
  BY <1>1, PieceEnds
<1>3. /\ IsSeq(Append(results[n], Decode(buffer[n])))
      /\ Len(Append(results[n], Decode(buffer[n]))) = Len(results[n]) + 1
  <2>1. IsSeq(results[n])
    BY TypedAt DEF Extents, SeqInv
  <2> DEFINE v == Decode(buffer[n])
  <2> HIDE DEF v
  <2>2. PICK S : results[n] \in Seq(S)
    BY <2>1 DEF IsSeq
  <2>3. results[n] \in Seq(S \cup {v})
    BY <2>2
  <2>4. Append(results[n], v) \in Seq(S \cup {v}) /\ Len(Append(results[n], v)) = Len(results[n]) + 1
    BY <2>3
  <2> QED
    BY <2>4 DEF IsSeq, v
<1>4. /\ Typed(results') /\ Len(results'[n]) = Len(results[n]) + 1
      /\ \A m \in Node \ {n} : results'[m] = results[m]
  <2>1. Typed(results)
    BY DEF Extents, SeqInv
  <2> DEFINE x == Append(results[n], Decode(buffer[n]))
  <2>2. IsSeq(x) /\ Len(x) = Len(results[n]) + 1 /\ results' = [results EXCEPT ![n] = x]
    BY <1>1, <1>3
  <2> HIDE DEF x
  <2>3. /\ Typed(results') /\ results'[n] = x
        /\ \A m \in Node \ {n} : results'[m] = results[m]
    BY <2>1, <2>2, TypedExcept DEF Typed, IsSeq
  <2> QED
    BY <2>2, <2>3
<1>5. SeqInv'
  BY <1>1, <1>4 DEF Extents, SeqInv, socks, faults, reducing
<1>6. \A m \in Node \ {n} : UNCHANGED Own(m)
  BY <1>1, <1>4 DEF Return, Goto, Own, BooksInv, BookTypes, reducing, spreading
<1>7. \A m \in Node : Len(up'[m]) <= Capacity /\ Len(down'[m]) <= Capacity
  BY <1>1 DEF Extents, ExtentInv
<1>8. ExtentInv(n)'
  <2>1. Len(results'[n]) <= Len(Calls)
    <3>1. Len(results[n]) \in Nat /\ Len(Calls) \in Nat
      BY TypedAt, AllReduceAssumption DEF Extents, SeqInv
    <3> QED
      BY <1>2, <1>4, <3>1 DEF Current
  <2>2. written[n] = 0 /\ Passing(n)' = 0
    BY <1>1 DEF Extents, ExtentInv, Passing
  <2> QED
    BY <1>1, <1>7, <2>1, <2>2 DEF ExtentInv, Extents, reducing, spreading, ReduceLabels
<1> QED
  BY <1>1, <1>5, <1>6, <1>7, <1>8, OneExtent

(* Nobody moves a position.                                                *)
LEMMA StillExtent ==
  ASSUME Extents, UNCHANGED <<socks, up, down, pc, written, buffer, reducing,
                              spreading, results>>,
         crashed' \subseteq Node, failed' \subseteq Node
  PROVE  Extents'
<1>1. SeqInv'
  BY DEF Extents, SeqInv, socks, reducing
<1>2. ASSUME NEW m \in Node PROVE ExtentInv(m)'
  BY ExtentKept DEF Own, Extents, ExtentInv, reducing, spreading
<1> QED
  BY <1>1, <1>2 DEF Extents

(* A node goes from one label to another, with no write under way.         *)
LEMMA LabelExtent ==
  ASSUME BooksInv, FitsInt, Extents, NEW n \in Node, NEW label, Goto(n, label),
         UNCHANGED <<socks, up, down, faults, written, buffer, child_read_pos,
                     child_read_buf, parent_sent_pos, spreading, results>>,
         pc[n] # "caller", label # "caller", written[n] = 0,
         label \in ReduceLabels => pc[n] \in ReduceLabels
  PROVE  Extents'
<1>1. pc'[n] = label /\ \A m \in Node \ {n} : pc'[m] = pc[m]
  BY DEF Goto, BooksInv, BookTypes
<1>2. SeqInv'
  BY DEF Extents, SeqInv, socks, faults
<1>3. \A m \in Node \ {n} : UNCHANGED Own(m)
  BY <1>1 DEF Own, spreading
<1>4. \A m \in Node : Len(up'[m]) <= Capacity /\ Len(down'[m]) <= Capacity
  BY DEF Extents, ExtentInv
<1>5. ExtentInv(n)'
  <2>1. Bytes(n)' = Bytes(n) /\ Linked(n)' = Linked(n)
    BY SameCall
  <2>2. UpSize(n)' = UpSize(n) /\ DownSize(n)' = DownSize(n)
    BY DEF UpSize, DownSize, WholeFloats, MinOf, spreading
  <2>3. UpSize(n) \in Int /\ DownSize(n) \in Int
    BY PieceEnds
  <2>4. Passing(n)' \in Nat
    BY <2>2, <2>3 DEF Passing, MaxOf
  <2> QED
    BY <1>1, <2>1, <2>4 DEF ExtentInv, Extents, spreading
<1> QED
  BY <1>2, <1>3, <1>4, <1>5, OneExtent

LEMMA QuietExtent ==
  ASSUME BooksInv, FitsInt, Extents, NEW n \in Node,
         \/ NothingToPassUp(n) \/ KeepPassing(n) \/ Select(n) \/ KeepSpreading(n)
         \/ \E s \in Side : ReArm(n, s)
  PROVE  Extents'
<1>1. PICK label \in Labels :
        /\ Goto(n, label) /\ label # "caller" /\ pc[n] # "caller"
        /\ label \in ReduceLabels => pc[n] \in ReduceLabels
  BY DEF NothingToPassUp, KeepPassing, Select, KeepSpreading, ReArm, At, ReadLabel,
         AfterRead, Labels, ReduceLabels, BroadcastLabels
<1>2. UNCHANGED <<socks, up, down, faults, written, buffer, child_read_pos,
                  child_read_buf, parent_sent_pos, spreading, results>>
  BY DEF NothingToPassUp, KeepPassing, Select, KeepSpreading, ReArm, reducing
<1>3. written[n] = 0
  <2>1. Passing(n) = 0
    <3>1. CASE NothingToPassUp(n)
      <4>1. UpSize(n) \in Int
        BY <1>1, PieceEnds
      <4> QED
        BY <3>1, <4>1 DEF NothingToPassUp, At, Passing, MaxOf
    <3>2. CASE ~NothingToPassUp(n)
      BY <3>2 DEF KeepPassing, Select, KeepSpreading, ReArm, At, ReadLabel, Passing
    <3> QED
      BY <3>1, <3>2
  <2> QED
    BY <2>1 DEF Extents, ExtentInv
<1> QED
  BY <1>1, <1>2, <1>3, LabelExtent

-----------------------------------------------------------------------------
(* Writes and reads.                                                       *)

(* A socket takes no more than its capacity.                               *)
LEMMA PipeTakes ==
  ASSUME NEW pipes, Typed(pipes), NEW m \in Node, NEW n \in Node, NEW pos \in Nat,
         NEW size \in Int, Typed(buffer), written[n] \in Nat,
         pos + size <= Len(buffer[n]), Len(pipes[m]) <= Capacity,
         NEW count, count = Taken(n, pipes[m], size), count > 0
  PROVE  /\ count \in Nat /\ written[n] + count <= size
         /\ IsSeq(pipes[m] \o Piece(n, pos, count))
         /\ Len(pipes[m] \o Piece(n, pos, count)) <= Capacity
<1>1. /\ Len(pipes[m]) \in Nat /\ IsSeq(pipes[m])
      /\ Len(buffer[n]) \in Nat /\ IsSeq(buffer[n]) /\ Capacity \in Nat
  BY AllReduceAssumption DEF Typed, IsSeq
<1>2. /\ count \in Nat /\ written[n] + count <= size
      /\ Len(pipes[m]) + count <= Capacity
  BY <1>1 DEF Taken, MinOf
<1> DEFINE a == pos + written[n]
           piece == SubSeq(buffer[n], a + 1, a + count)
<1>3. a \in Nat /\ a + count \in Nat /\ a <= a + count /\ a + count <= Len(buffer[n])
  BY <1>1, <1>2
<1> HIDE DEF a
<1>4. IsSeq(piece) /\ Len(piece) = count
  <2>1. PICK S : buffer[n] \in Seq(S)
    BY <1>1 DEF IsSeq
  <2>2. piece \in Seq(S) /\ Len(piece) = count
    BY <1>2, <1>3, <2>1
  <2> QED
    BY <2>2 DEF IsSeq
<1>5. Piece(n, pos, count) = piece
  BY DEF Piece, a
<1> HIDE DEF piece
<1>6. PICK S : pipes[m] \in Seq(S)
  BY <1>1 DEF IsSeq
<1>7. PICK T : piece \in Seq(T)
  BY <1>4 DEF IsSeq
<1>8. pipes[m] \in Seq(S \cup T) /\ piece \in Seq(S \cup T)
  BY <1>6, <1>7
<1>9. /\ pipes[m] \o piece \in Seq(S \cup T)
      /\ Len(pipes[m] \o piece) = Len(pipes[m]) + count
  BY <1>4, <1>8
<1> QED
  BY <1>2, <1>5, <1>9 DEF IsSeq

(* What is left in a socket after a read.                                  *)
LEMMA PipeGives ==
  ASSUME NEW pipes, Typed(pipes), NEW m \in Node, NEW count \in Nat,
         count <= Len(pipes[m]), Len(pipes[m]) <= Capacity
  PROVE  LET rest == SubSeq(pipes[m], count + 1, Len(pipes[m]))
             start == SubSeq(pipes[m], 1, count)
         IN /\ IsSeq(rest) /\ Len(rest) <= Capacity
            /\ IsSeq(start) /\ Len(start) = count
<1>1. PICK S : pipes[m] \in Seq(S)
  BY DEF Typed
<1>2. Capacity \in Nat
  BY AllReduceAssumption
<1>3. /\ SubSeq(pipes[m], count + 1, Len(pipes[m])) \in Seq(S)
      /\ Len(SubSeq(pipes[m], count + 1, Len(pipes[m]))) = Len(pipes[m]) - count
  BY <1>1
<1>4. /\ SubSeq(pipes[m], 1, count) \in Seq(S)
      /\ Len(SubSeq(pipes[m], 1, count)) = count
  BY <1>1
<1> DEFINE rest == SubSeq(pipes[m], count + 1, Len(pipes[m]))
           start == SubSeq(pipes[m], 1, count)
<1>5. IsSeq(rest) /\ IsSeq(start)
  BY <1>3, <1>4 DEF IsSeq
<1>6. Len(rest) <= Capacity
  BY <1>1, <1>2, <1>3
<1> QED
  BY <1>4, <1>5, <1>6

LEMMA PassUpExtent ==
  ASSUME BooksInv, FitsInt, Extents, NEW n \in Node, PassUp(n)
  PROVE  Extents'
<1> DEFINE count == Taken(n, up[n], UpSize(n))
           sent == up[n] \o Piece(n, parent_sent_pos[n], count)
<1>1. /\ pc[n] = "passUp" /\ parent[n] # None /\ UpSize(n) > 0 /\ count > 0
      /\ up' = [up EXCEPT ![n] = sent]
      /\ written' = [written EXCEPT ![n] = written[n] + count]
      /\ UNCHANGED <<socks, down, faults, pc, buffer, reducing, spreading, results>>
  BY DEF PassUp, PassesUp, At
<1>2. /\ UpSize(n) \in Int /\ parent_sent_pos[n] \in Nat
      /\ parent_sent_pos[n] + UpSize(n) <= Len(buffer[n])
  BY <1>1, PieceEnds DEF ReduceLabels
<1>3. /\ written[n] \in Nat /\ Len(up[n]) <= Capacity
      /\ Typed(up) /\ Typed(buffer)
  <2>1. Passing(n) \in Int
    BY <1>1, <1>2 DEF Passing, MaxOf
  <2> QED
    BY <2>1 DEF Extents, ExtentInv, SeqInv
<1>4. /\ count \in Nat /\ written[n] + count <= UpSize(n)
      /\ IsSeq(sent) /\ Len(sent) <= Capacity
  <2> DEFINE size == UpSize(n)
             pos == parent_sent_pos[n]
  <2>1. size \in Int /\ pos \in Nat /\ pos + size <= Len(buffer[n])
    BY <1>2
  <2>2. count = Taken(n, up[n], size) /\ count > 0 /\ sent = up[n] \o Piece(n, pos, count)
    BY <1>1
  <2> HIDE DEF size, pos, count, sent
  <2>3. /\ count \in Nat /\ written[n] + count <= size
        /\ IsSeq(up[n] \o Piece(n, pos, count))
        /\ Len(up[n] \o Piece(n, pos, count)) <= Capacity
    BY <1>3, <2>1, <2>2, PipeTakes DEF Typed, IsSeq
  <2> QED
    BY <2>2, <2>3 DEF size, IsSeq
<1> HIDE DEF count, sent
<1>5. /\ Typed(up') /\ up'[n] = sent /\ \A m \in Node \ {n} : up'[m] = up[m]
  BY <1>1, <1>3, <1>4, TypedExcept DEF Typed, IsSeq
<1>6. SeqInv'
  BY <1>1, <1>3, <1>4, <1>5 DEF Extents, SeqInv, socks, faults, reducing
<1>7. \A m \in Node \ {n} : UNCHANGED Own(m)
  BY <1>1, <1>3, <1>4 DEF Own, Extents, SeqInv, reducing, spreading
<1>8. \A m \in Node : Len(up'[m]) <= Capacity /\ Len(down'[m]) <= Capacity
  BY <1>1, <1>4, <1>5 DEF Extents, ExtentInv
<1>9. ExtentInv(n)'
  <2>1. Bytes(n)' = Bytes(n) /\ Linked(n)' = Linked(n)
    BY <1>1, SameCall
  <2>2. Passing(n)' = UpSize(n)
    BY <1>1, <1>2 DEF Passing, UpSize, WholeFloats, MinOf, MaxOf, socks, reducing
  <2>3. written'[n] \in 0..UpSize(n)
    BY <1>1, <1>2, <1>3, <1>4 DEF Extents, SeqInv
  <2> QED
    BY <1>1, <1>8, <2>1, <2>2, <2>3 DEF Extents, ExtentInv, reducing, spreading
<1> QED
  BY <1>1, <1>6, <1>7, <1>8, <1>9, OneExtent

LEMMA PassedUpExtent ==
  ASSUME BooksInv, FitsInt, Extents, NEW n \in Node, PassedUp(n)
  PROVE  Extents'
<1>1. /\ pc[n] = "passUp" /\ parent[n] # None /\ UpSize(n) > 0 /\ pc'[n] = "select"
      /\ written' = [written EXCEPT ![n] = 0]
      /\ parent_sent_pos' = [parent_sent_pos EXCEPT ![n] = parent_sent_pos[n] + UpSize(n)]
      /\ UNCHANGED <<socks, up, down, faults, buffer, child_read_pos, child_read_buf,
                     spreading, results>>
  BY DEF PassedUp, PassesUp, At, Goto, BooksInv, BookTypes
<1>2. /\ UpSize(n) \in Int /\ parent_sent_pos[n] \in Nat
      /\ parent_sent_pos[n] + UpSize(n) <= Len(buffer[n]) /\ Len(buffer[n]) \in Nat
  BY <1>1, PieceEnds DEF ReduceLabels
<1>3. SeqInv'
  BY <1>1 DEF Extents, SeqInv, socks, faults
<1>4. \A m \in Node \ {n} : UNCHANGED Own(m)
  BY <1>1 DEF PassedUp, Goto, Own, BooksInv, BookTypes, Extents, SeqInv, spreading
<1>5. \A m \in Node : Len(up'[m]) <= Capacity /\ Len(down'[m]) <= Capacity
  BY <1>1 DEF Extents, ExtentInv
<1>6. ExtentInv(n)'
  <2>1. Bytes(n)' = Bytes(n) /\ Linked(n)' = Linked(n)
    BY <1>1, SameCall
  <2>2. Passing(n)' = 0 /\ written'[n] = 0
    BY <1>1 DEF Passing, Extents, SeqInv
  <2>3. parent_sent_pos'[n] \in 0..Len(buffer[n])
    BY <1>1, <1>2 DEF BooksInv, BookTypes
  <2> QED
    BY <1>1, <1>5, <2>1, <2>2, <2>3 DEF Extents, ExtentInv, spreading, ReduceLabels
<1> QED
  BY <1>1, <1>3, <1>4, <1>5, <1>6, OneExtent

LEMMA ReadChildExtent ==
  ASSUME BooksInv, FitsInt, Extents, NEW n \in Node, NEW s \in Side, ReadChild(n, s)
  PROVE  Extents'
<1> DEFINE child == children[n][s]
           pos == child_read_pos[n][s]
<1>1. /\ pc[n] = ReadLabel(s) /\ pc'[n] = AfterRead(s) /\ s \in fds[n]
      /\ pc[n] \in ReduceLabels /\ pc'[n] \in ReduceLabels
      /\ UNCHANGED <<socks, down, faults, written, parent_sent_pos, spreading, results>>
  BY DEF ReadChild, At, Goto, ReadLabel, AfterRead, ReduceLabels, BooksInv, BookTypes
<1>2. s \in Linked(n) /\ child \in Node
  BY <1>1 DEF BooksInv, NodeInv, FdsInv, Unfinished, Linked, Extents, SeqInv
<1>3. /\ Bytes(n) \in Nat /\ Len(buffer[n]) = Bytes(n) /\ Current(n) \in 1..Len(Calls)
      /\ pos \in 0..Bytes(n) /\ pos \in Nat
  BY <1>1, PieceEnds DEF ReduceLabels, Extents, ExtentInv
<1>4. PICK count \in 0..MinOf(BufSize, Bytes(n) - pos) :
        /\ CanRead(up[child], count)
        /\ up' = [up EXCEPT ![child] = SubSeq(up[child], count + 1, Len(up[child]))]
        /\ buffer' = [buffer EXCEPT ![n] =
             AddBufs(buffer[n], pos \div FloatSize,
                     SubSeq(Decode(child_read_buf[n][s] \o SubSeq(up[child], 1, count)),
                            1, Completed(pos, count)))]
        /\ child_read_pos' = [child_read_pos EXCEPT ![n][s] = pos + count]
        /\ child_read_buf' = [child_read_buf EXCEPT ![n][s] =
             SubSeq(child_read_buf[n][s] \o SubSeq(up[child], 1, count),
                    Completed(pos, count) * FloatSize + 1,
                    Len(child_read_buf[n][s] \o SubSeq(up[child], 1, count)))]
  BY DEF ReadChild
<1>5. count \in Nat /\ pos + count <= Bytes(n) /\ count <= Len(up[child])
  BY <1>3, <1>4, AllReduceAssumption DEF MinOf, CanRead
<1> DEFINE rest == SubSeq(up[child], count + 1, Len(up[child]))
           start == SubSeq(up[child], 1, count)
<1>6. IsSeq(rest) /\ Len(rest) <= Capacity /\ IsSeq(start) /\ Len(start) = count
  <2>1. Typed(up) /\ Len(up[child]) <= Capacity
    BY <1>2 DEF Extents, SeqInv, ExtentInv
  <2> DEFINE m == child
  <2>2. m \in Node /\ Len(up[m]) <= Capacity /\ count <= Len(up[m])
    BY <1>2, <1>5, <2>1
  <2> HIDE DEF m
  <2> DEFINE leftover == SubSeq(up[m], count + 1, Len(up[m]))
             taken == SubSeq(up[m], 1, count)
  <2>3. IsSeq(leftover) /\ Len(leftover) <= Capacity /\ IsSeq(taken) /\ Len(taken) = count
    BY <1>5, <2>1, <2>2, PipeGives DEF Typed, IsSeq
  <2> QED
    BY <2>3 DEF m
<1>7. /\ Typed(up') /\ up'[child] = rest /\ \A m \in Node \ {child} : up'[m] = up[m]
  <2>1. Typed(up) /\ child \in Node /\ up' = [up EXCEPT ![child] = rest]
    BY <1>2, <1>4 DEF Extents, SeqInv
  <2> HIDE DEF rest, child
  <2> QED
    BY <1>6, <2>1, TypedExcept DEF Typed, IsSeq
<1>8. PICK added : /\ IsSeq(added) /\ Len(added) = Bytes(n)
                   /\ buffer' = [buffer EXCEPT ![n] = added]
  <2> DEFINE k == Calls[Current(n)]
             floats == SubSeq(Decode(child_read_buf[n][s] \o start), 1, Completed(pos, count))
             from == pos \div FloatSize
             added == AddBufs(buffer[n], from, floats)
  <2>1. k \in Nat /\ FloatSize \in Nat /\ k * FloatSize \in Nat
    BY <1>3, AllReduceAssumption
  <2>2. Bytes(n) = k * FloatSize
    BY <1>3, <2>1, ToIntSmall DEF Bytes, FitsInt
  <2>3. buffer' = [buffer EXCEPT ![n] = added]
    BY <1>4
  <2> HIDE DEF k, floats, from
  <2>4. IsSeq(added) /\ Len(added) = k * FloatSize
    BY <1>3, <2>1, <2>2, AddBufsLength DEF IsSeq
  <2> HIDE DEF added
  <2> QED
    BY <2>2, <2>3, <2>4
<1>9. /\ Typed(buffer') /\ buffer'[n] = added /\ \A m \in Node \ {n} : buffer'[m] = buffer[m]
  <2>1. Typed(buffer)
    BY DEF Extents, SeqInv
  <2> QED
    BY <1>8, <2>1, TypedExcept DEF Typed, IsSeq
<1> DEFINE bytes == child_read_buf[n][s] \o start
           kept == SubSeq(bytes, Completed(pos, count) * FloatSize + 1, Len(bytes))
<1>10. /\ IsSeq(kept) /\ Len(kept) = (pos + count) % FloatSize
       /\ child_read_buf' = [child_read_buf EXCEPT ![n][s] = kept]
  <2> DEFINE c == Completed(pos, count) * FloatSize
  <2>1. IsSeq(child_read_buf[n][s])
    BY DEF Extents, SeqInv, IsSeq
  <2>2. Len(child_read_buf[n][s]) = pos % FloatSize
    BY <1>1, <1>2 DEF Extents, ExtentInv
  <2>3. child_read_buf' = [child_read_buf EXCEPT ![n][s] = kept]
    BY <1>4
  <2>4. /\ IsSeq(bytes) /\ Len(bytes) = (pos % FloatSize) + count
    <3> DEFINE before == child_read_buf[n][s]
    <3>1. IsSeq(before) /\ Len(before) = pos % FloatSize
      BY <2>1, <2>2
    <3> HIDE DEF before, start
    <3>2. IsSeq(before \o start) /\ Len(before \o start) = Len(before) + Len(start)
      BY <1>6, <3>1, SeqConcat DEF IsSeq
    <3> QED
      BY <1>6, <3>1, <3>2 DEF before
  <2>5. /\ c \in Nat /\ c <= (pos % FloatSize) + count
        /\ (pos % FloatSize) + count - c = (pos + count) % FloatSize
    <3>1. FloatSize \in Nat /\ Completed(pos, count) \in Nat
      BY <1>3, <1>5, LeftOver, AllReduceAssumption
    <3>2. c \in Nat
      BY <3>1
    <3> QED
      BY <1>3, <1>5, <3>2, LeftOver
  <2> HIDE DEF bytes, c
  <2>6. Len(bytes) \in Nat
    BY <2>4 DEF IsSeq
  <2>7. IsSeq(SubSeq(bytes, c + 1, Len(bytes)))
        /\ Len(SubSeq(bytes, c + 1, Len(bytes))) = Len(bytes) - c
    BY <2>4, <2>5, <2>6, SeqPart DEF IsSeq
  <2>8. Len(bytes) - c = (pos + count) % FloatSize
    <3> DEFINE partial == pos % FloatSize
               part == (pos + count) % FloatSize
    <3>1. Len(bytes) = partial + count
      BY <2>4
    <3>2. partial + count - c = part
      BY <2>5
    <3>3. partial \in Int /\ count \in Int /\ c \in Int
      <4>1. FloatSize \in Nat \ {0} /\ pos \in Int /\ count \in Int /\ c \in Int
        BY <1>3, <1>5, <2>5, AllReduceAssumption
      <4> HIDE DEF c
      <4> QED
        BY ONLY <4>1
    <3> HIDE DEF partial, part
    <3>4. Len(bytes) - c = part
      BY ONLY <3>1, <3>2, <3>3
    <3> QED
      BY <3>4 DEF part
  <2>9. IsSeq(kept) /\ Len(kept) = Len(bytes) - c
    BY <2>7 DEF c
  <2>10. Len(kept) = (pos + count) % FloatSize
    BY <2>8, <2>9
  <2> HIDE DEF kept
  <2> QED
    BY <2>3, <2>9, <2>10
<1> HIDE DEF child, rest, start, bytes, kept
<1>11. SeqInv'
  <2>1. \E S : child_read_buf' \in [Node -> [Side -> Seq(S)]]
    <3>1. PICK S : child_read_buf \in [Node -> [Side -> Seq(S)]]
      BY DEF Extents, SeqInv
    <3>2. PICK T : kept \in Seq(T)
      BY <1>10 DEF IsSeq
    <3>3. \A q \in Seq(S) : q \in Seq(S \cup T)
      OBVIOUS
    <3>4. kept \in Seq(S \cup T)
      BY <3>2
    <3>5. child_read_buf \in [Node -> [Side -> Seq(S \cup T)]]
      BY <3>1, <3>3
    <3>6. child_read_buf' \in [Node -> [Side -> Seq(S \cup T)]]
      BY <1>10, <3>4, <3>5
    <3> QED
      BY <3>6
  <2> QED
    BY <1>1, <1>7, <1>9, <2>1 DEF Extents, SeqInv, socks, faults
<1>12. /\ \A m \in Node \ {n} : /\ child_read_pos'[m] = child_read_pos[m]
                                /\ child_read_buf'[m] = child_read_buf[m]
       /\ child_read_pos'[n][s] = pos + count /\ child_read_buf'[n][s] = kept
       /\ \A t \in Side \ {s} : /\ child_read_pos'[n][t] = child_read_pos[n][t]
                                /\ child_read_buf'[n][t] = child_read_buf[n][t]
  <2>1. child_read_pos \in [Node -> [Side -> Int]]
    BY DEF BooksInv, BookTypes
  <2>2. PICK S : child_read_buf \in [Node -> [Side -> Seq(S)]]
    BY DEF Extents, SeqInv
  <2>3. /\ \A m \in Node \ {n} : child_read_pos'[m] = child_read_pos[m]
        /\ child_read_pos'[n][s] = pos + count
        /\ \A t \in Side \ {s} : child_read_pos'[n][t] = child_read_pos[n][t]
    BY <1>4, <2>1
  <2>4. /\ \A m \in Node \ {n} : child_read_buf'[m] = child_read_buf[m]
        /\ child_read_buf'[n][s] = kept
        /\ \A t \in Side \ {s} : child_read_buf'[n][t] = child_read_buf[n][t]
    BY <1>10, <2>2
  <2> QED
    BY <2>3, <2>4
<1>13. \A m \in Node \ {n} : UNCHANGED Own(m)
  BY <1>1, <1>9, <1>12 DEF ReadChild, Goto, Own, BooksInv, BookTypes, spreading
<1>14. \A m \in Node : Len(up'[m]) <= Capacity /\ Len(down'[m]) <= Capacity
  BY <1>1, <1>6, <1>7 DEF Extents, ExtentInv
<1>15. ExtentInv(n)'
  <2>1. Bytes(n)' = Bytes(n) /\ Linked(n)' = Linked(n)
    BY <1>1, SameCall
  <2>2. Passing(n)' \in Nat /\ written'[n] = 0
    <3>1. Passing(n) = 0
      BY <1>1 DEF Passing, ReadLabel
    <3>2. \A t \in Side : child_read_pos'[n][t] \in Nat
      BY <1>3, <1>5, <1>12 DEF Extents, ExtentInv
    <3>3. \A t \in Side : WholeFloats(child_read_pos'[n][t]) \in Nat
      <4>1. \A p \in Nat : WholeFloats(p) \in Nat
        BY WholeFloatsRises
      <4> QED
        BY <3>2, <4>1
    <3>4. UpSize(n)' \in Int
      <4>1. BufSize \in Nat /\ parent_sent_pos'[n] \in Int
        BY <1>1, AllReduceAssumption DEF BooksInv, BookTypes
      <4> QED
        BY <3>3, <4>1 DEF UpSize, MinOf, Side, WholeFloats
    <3>5. Passing(n)' \in Nat
      BY <1>1, <3>4 DEF Passing, MaxOf, AfterRead
    <3> QED
      BY <1>1, <3>1, <3>5 DEF Extents, ExtentInv
  <2>3. ASSUME NEW t \in Side
        PROVE  /\ child_read_pos'[n][t] \in 0..Bytes(n)
               /\ Len(child_read_buf'[n][t]) < FloatSize
               /\ t \in Linked(n) =>
                    Len(child_read_buf'[n][t]) = child_read_pos'[n][t] % FloatSize
    <3>1. CASE t = s
      <4>1. (pos + count) % FloatSize \in 0..(FloatSize - 1)
        BY <1>3, <1>5, LeftOver
      <4>2. /\ child_read_pos'[n][t] = pos + count
            /\ Len(child_read_buf'[n][t]) = (pos + count) % FloatSize
        BY <1>10, <1>12, <3>1
      <4>3. pos + count \in 0..Bytes(n)
        BY <1>3, <1>5
      <4> DEFINE left == (pos + count) % FloatSize
      <4>4. left < FloatSize
        <5>1. left \in 0..(FloatSize - 1) /\ FloatSize \in Nat
          BY <4>1, AllReduceAssumption
        <5> HIDE DEF left
        <5> QED
          BY <5>1
      <4> QED
        BY <4>2, <4>3, <4>4
    <3>2. CASE t # s
      BY <1>1, <1>3, <1>12, <3>2 DEF Extents, ExtentInv
    <3> QED
      BY <3>1, <3>2
  <2> QED
    BY <1>1, <1>3, <1>8, <1>9, <1>14, <2>1, <2>2, <2>3 DEF Extents, ExtentInv, spreading
<1> QED
  BY <1>1, <1>11, <1>13, <1>14, <1>15, OneExtent

LEMMA LeaveReduceExtent ==
  ASSUME BooksInv, FitsInt, Extents, NEW n \in Node, LeaveReduce(n)
  PROVE  Extents'
<1>1. /\ pc[n] = "select" /\ pc'[n] \in {"passLeft", "readDown"}
      /\ UNCHANGED <<socks, up, down, faults, written, buffer, child_read_pos,
                     child_read_buf, results>>
  BY DEF LeaveReduce, At, Goto, BooksInv, BookTypes
<1>2. /\ parent_sent_pos'[n] = IF parent[n] = None THEN Bytes(n) ELSE parent_sent_pos[n]
      /\ parent_read_pos'[n] = IF parent[n] = None THEN Bytes(n) ELSE 0
      /\ children_sent_pos'[n] = IF Linked(n) = {} THEN Bytes(n) ELSE 0
  BY DEF LeaveReduce, BooksInv, BookTypes
<1>3. Bytes(n) \in Nat /\ Len(buffer[n]) = Bytes(n) /\ BufSize \in Nat
  BY <1>1, PieceEnds, AllReduceAssumption
<1>4. SeqInv'
  BY <1>1 DEF Extents, SeqInv, socks, faults
<1>5. \A m \in Node \ {n} : UNCHANGED Own(m)
  BY <1>1 DEF LeaveReduce, Goto, Own, BooksInv, BookTypes
<1>6. \A m \in Node : Len(up'[m]) <= Capacity /\ Len(down'[m]) <= Capacity
  BY <1>1 DEF Extents, ExtentInv
<1>7. ExtentInv(n)'
  <2>1. Bytes(n)' = Bytes(n) /\ Linked(n)' = Linked(n)
    BY <1>1, SameCall
  <2>2. written'[n] = 0
    BY <1>1 DEF Extents, ExtentInv, Passing
  <2>3. Passing(n)' \in Nat
    <3>1. DownSize(n)' \in Int
      BY <1>2, <1>3 DEF DownSize, MinOf
    <3> QED
      BY <1>1, <3>1 DEF Passing, MaxOf
  <2>4. /\ parent_sent_pos'[n] \in 0..Bytes(n)
        /\ parent_read_pos'[n] >= 0 /\ children_sent_pos'[n] >= 0
    BY <1>2, <1>3 DEF Extents, ExtentInv
  <2> QED
    BY <1>1, <1>3, <1>6, <2>1, <2>2, <2>3, <2>4 DEF Extents, ExtentInv, ReduceLabels
<1> QED
  BY <1>1, <1>4, <1>5, <1>6, <1>7, OneExtent

LEMMA PassDownExtent ==
  ASSUME BooksInv, FitsInt, Extents, NEW n \in Node, NEW s \in Side, PassDown(n, s)
  PROVE  Extents'
<1> DEFINE child == children[n][s]
           count == Taken(n, down[child], DownSize(n))
           sent == down[child] \o Piece(n, children_sent_pos[n], count)
<1>1. /\ pc[n] \in {"passLeft", "passRight"} /\ DownSize(n) > 0 /\ count > 0
      /\ child \in Node
      /\ down' = [down EXCEPT ![child] = sent]
      /\ written' = [written EXCEPT ![n] = written[n] + count]
      /\ UNCHANGED <<socks, up, faults, pc, buffer, reducing, spreading, results>>
  BY DEF PassDown, PassesDown, At, PassLabel, Linked, Extents, SeqInv
<1>2. /\ DownSize(n) \in Int /\ children_sent_pos[n] \in Nat
      /\ children_sent_pos[n] + DownSize(n) <= Len(buffer[n])
  BY <1>1, PieceEnds DEF BroadcastLabels, MaxOf
<1>3. /\ written[n] \in Nat /\ Len(down[child]) <= Capacity
      /\ Typed(down) /\ Typed(buffer)
  <2>1. Passing(n) \in Int
    BY <1>1, <1>2 DEF Passing, MaxOf
  <2> QED
    BY <1>1, <2>1 DEF Extents, ExtentInv, SeqInv
<1>4. /\ count \in Nat /\ written[n] + count <= DownSize(n)
      /\ IsSeq(sent) /\ Len(sent) <= Capacity
  <2> DEFINE size == DownSize(n)
             pos == children_sent_pos[n]
  <2>1. size \in Int /\ pos \in Nat /\ pos + size <= Len(buffer[n])
    BY <1>2
  <2>2. /\ count = Taken(n, down[child], size) /\ count > 0
        /\ sent = down[child] \o Piece(n, pos, count)
    BY <1>1
  <2>3. child \in Node /\ Len(down[child]) <= Capacity
    BY <1>1, <1>3
  <2> HIDE DEF size, pos, count, sent, child
  <2>4. /\ count \in Nat /\ written[n] + count <= size
        /\ IsSeq(down[child] \o Piece(n, pos, count))
        /\ Len(down[child] \o Piece(n, pos, count)) <= Capacity
    BY <1>3, <2>1, <2>2, <2>3, PipeTakes DEF Typed, IsSeq
  <2> QED
    BY <2>2, <2>4 DEF size, IsSeq
<1> HIDE DEF count, sent, child
<1>5. /\ Typed(down') /\ down'[child] = sent
      /\ \A m \in Node \ {child} : down'[m] = down[m]
  BY <1>1, <1>3, <1>4, TypedExcept DEF Typed, IsSeq
<1>6. SeqInv'
  BY <1>1, <1>3, <1>4, <1>5 DEF Extents, SeqInv, socks, faults, reducing
<1>7. \A m \in Node \ {n} : UNCHANGED Own(m)
  BY <1>1, <1>3, <1>4 DEF Own, Extents, SeqInv, reducing, spreading
<1>8. \A m \in Node : Len(up'[m]) <= Capacity /\ Len(down'[m]) <= Capacity
  BY <1>1, <1>4, <1>5 DEF Extents, ExtentInv
<1>9. ExtentInv(n)'
  <2>1. Bytes(n)' = Bytes(n) /\ Linked(n)' = Linked(n)
    BY <1>1, SameCall
  <2>2. Passing(n)' = DownSize(n)
    BY <1>1, <1>2 DEF Passing, DownSize, MinOf, MaxOf, spreading
  <2>3. written'[n] \in 0..DownSize(n)
    BY <1>1, <1>2, <1>3, <1>4 DEF Extents, SeqInv
  <2> QED
    BY <1>1, <1>8, <2>1, <2>2, <2>3 DEF Extents, ExtentInv, reducing, spreading
<1> QED
  BY <1>1, <1>6, <1>7, <1>8, <1>9, OneExtent

LEMMA PassedDownExtent ==
  ASSUME BooksInv, FitsInt, Extents, NEW n \in Node, NEW s \in Side, PassedDown(n, s)
  PROVE  Extents'
<1>1. /\ pc[n] \in BroadcastLabels /\ pc'[n] \in {"passRight", "readDown"}
      /\ written' = [written EXCEPT ![n] = 0]
      /\ UNCHANGED <<socks, up, down, faults, buffer, reducing, parent_read_pos, results>>
  BY DEF PassedDown, At, PassLabel, BroadcastLabels, Goto, BooksInv, BookTypes
<1>2. /\ DownSize(n) \in Int /\ children_sent_pos[n] \in Nat /\ parent_read_pos[n] \in Nat
      /\ BufSize \in Nat
  BY <1>1, PieceEnds, AllReduceAssumption DEF BroadcastLabels
<1>3. children_sent_pos'[n] \in Nat
  BY <1>2 DEF PassedDown, MaxOf, BooksInv, BookTypes
<1>4. SeqInv'
  BY <1>1 DEF Extents, SeqInv, socks, faults, reducing
<1>5. \A m \in Node \ {n} : UNCHANGED Own(m)
  BY <1>1 DEF PassedDown, Goto, Own, BooksInv, BookTypes, Extents, SeqInv, reducing
<1>6. \A m \in Node : Len(up'[m]) <= Capacity /\ Len(down'[m]) <= Capacity
  BY <1>1 DEF Extents, ExtentInv
<1>7. ExtentInv(n)'
  <2>1. Bytes(n)' = Bytes(n) /\ Linked(n)' = Linked(n)
    BY <1>1, SameCall
  <2>2. written'[n] = 0
    BY <1>1 DEF Extents, SeqInv
  <2>3. Passing(n)' \in Nat
    <3>1. DownSize(n)' \in Int
      BY <1>1, <1>2, <1>3 DEF DownSize, MinOf
    <3> QED
      BY <1>1, <3>1 DEF Passing, MaxOf
  <2> QED
    BY <1>1, <1>2, <1>3, <1>6, <2>1, <2>2, <2>3
       DEF Extents, ExtentInv, ReduceLabels, BroadcastLabels, reducing
<1> QED
  BY <1>1, <1>4, <1>5, <1>6, <1>7, OneExtent

LEMMA ReadParentExtent ==
  ASSUME BooksInv, FitsInt, Extents, NEW n \in Node, ReadParent(n)
  PROVE  Extents'
<1> DEFINE pos == parent_read_pos[n]
<1>1. /\ pc[n] = "readDown" /\ pc'[n] = "passLeft"
      /\ UNCHANGED <<socks, up, faults, written, reducing, children_sent_pos, results>>
  BY DEF ReadParent, At, Goto, BooksInv, BookTypes
<1>2. Bytes(n) \in Nat /\ Len(buffer[n]) = Bytes(n) /\ pos \in Nat /\ BufSize \in Nat
      /\ children_sent_pos[n] \in Nat
  BY <1>1, PieceEnds, AllReduceAssumption DEF BroadcastLabels
<1>3. PICK count \in 0..MinOf(BufSize, Bytes(n) - pos) :
        /\ CanRead(down[n], count)
        /\ down' = [down EXCEPT ![n] = SubSeq(down[n], count + 1, Len(down[n]))]
        /\ buffer' = [buffer EXCEPT ![n] =
             [i \in 1..Len(buffer[n]) |-> IF i > pos /\ i <= pos + count
                                    THEN down[n][i - pos] ELSE buffer[n][i]]]
        /\ parent_read_pos' = [parent_read_pos EXCEPT ![n] = pos + count]
  BY DEF ReadParent
<1>4. count \in Nat /\ count <= Len(down[n])
  BY <1>2, <1>3 DEF MinOf, CanRead
<1> DEFINE rest == SubSeq(down[n], count + 1, Len(down[n]))
           sums == [i \in 1..Len(buffer[n]) |-> IF i > pos /\ i <= pos + count
                                    THEN down[n][i - pos] ELSE buffer[n][i]]
<1>5. Typed(down) /\ Typed(buffer) /\ Len(down[n]) <= Capacity
  BY DEF Extents, SeqInv, ExtentInv
<1>6. IsSeq(rest) /\ Len(rest) <= Capacity
  BY <1>4, <1>5, PipeGives DEF Typed, IsSeq
<1>7. IsSeq(sums) /\ Len(sums) = Bytes(n)
  <2> DEFINE S == {sums[i] : i \in 1..Bytes(n)}
  <2>1. sums = [i \in 1..Bytes(n) |-> sums[i]]
    BY <1>2
  <2>2. \A i \in 1..Bytes(n) : sums[i] \in S
    OBVIOUS
  <2> HIDE DEF sums, S
  <2>3. sums \in Seq(S) /\ Len(sums) = Bytes(n)
    BY <1>2, <2>1, <2>2
  <2> QED
    BY <2>3 DEF IsSeq
<1>8. /\ Typed(down') /\ down'[n] = rest /\ \A m \in Node \ {n} : down'[m] = down[m]
  <2>1. down' = [down EXCEPT ![n] = rest]
    BY <1>3
  <2> HIDE DEF rest
  <2> QED
    BY <1>5, <1>6, <2>1, TypedExcept DEF Typed, IsSeq
<1>9. /\ Typed(buffer') /\ buffer'[n] = sums /\ \A m \in Node \ {n} : buffer'[m] = buffer[m]
  <2>1. buffer' = [buffer EXCEPT ![n] = sums]
    BY <1>3
  <2> HIDE DEF sums
  <2> QED
    BY <1>5, <1>7, <2>1, TypedExcept DEF Typed, IsSeq
<1> HIDE DEF rest, sums
<1>10. SeqInv'
  BY <1>1, <1>8, <1>9 DEF Extents, SeqInv, socks, faults, reducing
<1>11. \A m \in Node \ {n} : UNCHANGED Own(m)
  BY <1>1, <1>3, <1>9 DEF ReadParent, Goto, Own, BooksInv, BookTypes, reducing
<1>12. \A m \in Node : Len(up'[m]) <= Capacity /\ Len(down'[m]) <= Capacity
  BY <1>1, <1>6, <1>8 DEF Extents, ExtentInv
<1>13. ExtentInv(n)'
  <2>1. Bytes(n)' = Bytes(n) /\ Linked(n)' = Linked(n)
    BY <1>1, SameCall
  <2>2. written'[n] = 0
    BY <1>1 DEF Extents, ExtentInv, Passing
  <2>3. parent_read_pos'[n] \in Nat
    BY <1>2, <1>3, <1>4 DEF BooksInv, BookTypes
  <2>4. Passing(n)' \in Nat
    <3>1. DownSize(n)' \in Int
      BY <1>1, <1>2, <2>3 DEF DownSize, MinOf
    <3> QED
      BY <1>1, <3>1 DEF Passing, MaxOf
  <2> QED
    BY <1>1, <1>2, <1>7, <1>9, <1>12, <2>1, <2>2, <2>3, <2>4
       DEF Extents, ExtentInv, ReduceLabels, reducing
<1> QED
  BY <1>1, <1>10, <1>11, <1>12, <1>13, OneExtent

-----------------------------------------------------------------------------
LEMMA InitExtents == Init => Extents
<1> SUFFICES ASSUME Init PROVE Extents
  OBVIOUS
<1>1. SeqInv
  <2>1. children \in [Node -> [Side -> Node \cup {None}]]
    BY DEF Init, Layouts
  <2>2. <<>> \in Seq({})
    OBVIOUS
  <2>3. Typed([n \in Node |-> <<>>])
    BY <2>2 DEF Typed
  <2>4. \E S : child_read_buf \in [Node -> [Side -> Seq(S)]]
    <3>1. child_read_buf \in [Node -> [Side -> Seq({})]]
      BY <2>2 DEF Init
    <3> QED
      BY <3>1
  <2>5. /\ Typed(up) /\ Typed(down) /\ Typed(buffer) /\ Typed(results)
    BY <2>3 DEF Init
  <2> QED
    BY <2>1, <2>4, <2>5 DEF Init, SeqInv
<1>2. ASSUME NEW n \in Node PROVE ExtentInv(n)
  <2>1. /\ pc[n] = "caller" /\ written[n] = 0 /\ results[n] = <<>> /\ up[n] = <<>>
        /\ down[n] = <<>> /\ buffer[n] = <<>> /\ parent_sent_pos[n] = 0
        /\ parent_read_pos[n] = 0 /\ children_sent_pos[n] = 0
        /\ \A s \in Side : child_read_pos[n][s] = 0 /\ child_read_buf[n][s] = <<>>
    BY DEF Init
  <2>2. Len(Calls) \in Nat /\ Capacity \in Nat /\ FloatSize \in Nat \ {0}
    BY AllReduceAssumption
  <2>3. Passing(n) = 0
    BY <2>1 DEF Passing
  <2> QED
    BY <2>1, <2>2, <2>3 DEF ExtentInv, ReduceLabels
<1> QED
  BY <1>1, <1>2 DEF Extents

LEMMA NextExtents == BooksInv /\ Extents /\ FitsInt /\ [Next]_vars => Extents'
<1> SUFFICES ASSUME BooksInv, Extents, FitsInt, [Next]_vars PROVE Extents'
  OBVIOUS
<1>1. CASE UNCHANGED vars \/ Stop
  BY <1>1, StillExtent DEF vars, Stop, faults, Extents, SeqInv
<1>2. ASSUME NEW n \in Node, Call(n) PROVE Extents'
  BY <1>2, CallExtent
<1>3. ASSUME NEW n \in Node, Reduce(n) PROVE Extents'
  BY <1>3, PassUpExtent, PassedUpExtent, QuietExtent, LeaveReduceExtent, ReadChildExtent
     DEF Reduce
<1>4. ASSUME NEW n \in Node, Broadcast(n) PROVE Extents'
  BY <1>4, PassDownExtent, PassedDownExtent, ReadParentExtent, QuietExtent, ReturnExtent
     DEF Broadcast
<1>5. ASSUME NEW n \in Node, Crash(n) \/ Fail(n) PROVE Extents'
  BY <1>5, StillExtent DEF Crash, Fail, Extents, SeqInv
<1> QED
  BY <1>1, <1>2, <1>3, <1>4, <1>5 DEF Next, Step

(* The books of every node are right in every state, if no call has more   *)
(* bytes than fit an int.                                                  *)
THEOREM PositionsStayRight ==
  ASSUME FitsInt
  PROVE  Spec => []PositionsInv
<1>1. Init => BooksInv /\ ResultsInv /\ Extents
  BY InitInv, InitExtents
<1>2. (BooksInv /\ ResultsInv /\ Extents) /\ [Next]_vars
        => (BooksInv /\ ResultsInv /\ Extents)'
  BY NextInv, NextResults, NextExtents
<1>3. BooksInv /\ Extents => PositionsInv
  BY DEF PositionsInv, Extents
<1> QED
  BY <1>1, <1>2, <1>3, PTL DEF Spec

(* No position ever leaves the buffer, no write leaves its piece, and the  *)
(* start of a float that is kept of a child never fills the bytes there    *)
(* are for it (allreduce.cc:261): pieces may end in the middle of a float, *)
(* but what is left over is always less than one.                          *)
THEOREM PositionsWithinBuffer ==
  ASSUME FitsInt
  PROVE  Spec => []TypeOK
<1>1. Init => BooksInv /\ ResultsInv /\ Extents
  BY InitInv, InitExtents
<1>2. (BooksInv /\ ResultsInv /\ Extents) /\ [Next]_vars
        => (BooksInv /\ ResultsInv /\ Extents)'
  BY NextInv, NextResults, NextExtents
<1>3. BooksInv /\ Extents => TypeOK
  <2> SUFFICES ASSUME BooksInv, Extents PROVE TypeOK
    OBVIOUS
  <2>1. ASSUME NEW n \in Node
        PROVE  /\ written[n] \in 0..Len(buffer[n])
               /\ pc[n] \in BroadcastLabels =>
                    {parent_read_pos[n], children_sent_pos[n]} \subseteq 0..Len(buffer[n])
    <3>1. ExtentInv(n) /\ Len(buffer[n]) \in Nat
      BY TypedAt DEF Extents, SeqInv
    <3>2. CASE pc[n] = "caller"
      BY <3>1, <3>2 DEF ExtentInv, Passing, BroadcastLabels
    <3>3. CASE pc[n] # "caller"
      <4>1. Passing(n) \in Int /\ Passing(n) <= Len(buffer[n])
        BY <3>1, <3>3, PieceEnds DEF Passing, MaxOf, ReduceLabels, BroadcastLabels
      <4>2. written[n] \in 0..Len(buffer[n])
        BY <3>1, <4>1 DEF ExtentInv
      <4> QED
        BY <3>3, <4>2, PieceEnds
    <3> QED
      BY <3>2, <3>3
  <2> QED
    BY <2>1 DEF TypeOK, BooksInv, BookTypes, Extents, SeqInv, ExtentInv
<1> QED
  BY <1>1, <1>2, <1>3, PTL DEF Spec

(* The two complaints of all_reduce (allreduce.cc:292, 366) are never made: *)
(* not with short reads, interrupted writes or dead neighbours either.     *)
THEOREM ComplaintsUnreachable ==
  ASSUME FitsInt
  PROVE  Spec => []NoFalseAlarm
<1>1. PositionsInv => NoFalseAlarm
  <2> SUFFICES ASSUME BooksInv, NEW n \in Node
               PROVE  ~ParentHasNoData(n) /\ \A s \in Side : ~ChildHasNoData(n, s)
    BY DEF NoFalseAlarm, PositionsInv
  <2>1. ASSUME NEW s \in Side, ChildHasNoData(n, s) PROVE FALSE
    <3>1. pc[n] \in ReduceLabels /\ s \in fds[n] /\ child_read_pos[n][s] = Bytes(n)
      BY <2>1 DEF ChildHasNoData, At, ReadLabel, ReduceLabels
    <3> QED
      BY <3>1 DEF BooksInv, NodeInv, FdsInv, Unfinished
  <2>2. ASSUME ParentHasNoData(n) PROVE FALSE
    <3>1. /\ pc[n] = "readDown" /\ ~Done(n) /\ parent[n] # None
          /\ parent_read_pos[n] = Bytes(n)
      BY <2>2 DEF ParentHasNoData, At
    <3>2. children_sent_pos[n] = Bytes(n)
      BY <3>1 DEF BooksInv, NodeInv, DownInv, BroadcastLabels
    <3>3. Bytes(n) \in Int
      BY <3>1 DEF BooksInv, BookTypes
    <3> QED
      BY <3>1, <3>2, <3>3 DEF Done
  <2> QED
    BY <2>1, <2>2
<1> QED
  BY <1>1, PositionsStayRight, PTL

(* "parent_sent_pos <= left_read_pos, parent_sent_pos <= right_read_pos"   *)
(* (allreduce.cc:263), counted in whole floats; and broadcast passes down  *)
(* only what it has read.                                                  *)
THEOREM SentBehindRead ==
  ASSUME FitsInt
  PROVE  Spec => []Watermarks
<1>1. PositionsInv => Watermarks
  BY DEF PositionsInv, BooksInv, NodeInv, UpInv, DownInv, Watermarks
<1> QED
  BY <1>1, PositionsStayRight, PTL

=============================================================================
