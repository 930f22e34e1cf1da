---------------------------- MODULE AllReduceInv ----------------------------
(***************************************************************************)
(* How all_reduce keeps its books, and what the bytes in its sockets and   *)
(* buffers are: the inductive invariants of AllReduce.  AllReduceProofs    *)
(* proves PositionsInv, and from it Watermarks, NoFalseAlarm and TypeOK;   *)
(* AllReduceRefinement proves IInv, and from it ImplementsSumService.      *)
(***************************************************************************)
EXTENDS AllReduce

Unfinished(n) == {s \in Linked(n) : child_read_pos[n][s] # Bytes(n)}

(* The book-keeping of the positions and of fds has the types it should.   *)
BookTypes ==
  /\ pc \in [Node -> Labels]
  /\ fds \in [Node -> SUBSET Side]
  /\ child_read_pos \in [Node -> [Side -> Int]]
  /\ parent_sent_pos \in [Node -> Int]
  /\ parent_read_pos \in [Node -> Int]
  /\ children_sent_pos \in [Node -> Int]

(* A node inside all_reduce is in one of the calls.                        *)
CallInv(n) == pc[n] # "caller" => Current(n) \in 1..Len(Calls)

(* fds holds exactly the children that have more to send, except between   *)
(* select() and the look at each child.                                    *)
FdsInv(n) ==
  pc[n] \in ReduceLabels =>
    /\ \A s \in Side \ Linked(n) : child_read_pos[n][s] = Bytes(n)
    /\ fds[n] \subseteq Unfinished(n)
    /\ pc[n] \in {"passUp", "select"} => Unfinished(n) \subseteq fds[n]
    /\ pc[n] = "readRight" /\ 0 \in Unfinished(n) => 0 \in fds[n]

(* What is passed up has been added up from both children.                 *)
UpInv(n) ==
  pc[n] \in ReduceLabels =>
    /\ \A s \in Side : child_read_pos[n][s] \in 0..Bytes(n)
    /\ parent[n] # None =>
         \A s \in Side : parent_sent_pos[n] <= WholeFloats(child_read_pos[n][s])

(* broadcast passes down all it has read before it reads again, because    *)
(* the pieces it reads are no longer than the pieces it passes.            *)
DownInv(n) ==
  pc[n] \in BroadcastLabels =>
    /\ Linked(n) = {} => children_sent_pos[n] = Bytes(n)
    /\ Linked(n) # {} => children_sent_pos[n] <= parent_read_pos[n]
    /\ parent[n] # None /\ Linked(n) # {} =>
         IF pc[n] = "readDown" THEN children_sent_pos[n] = parent_read_pos[n]
                               ELSE parent_read_pos[n] - children_sent_pos[n] <= BufSize
    /\ parent_read_pos[n] <= Bytes(n)

NodeInv(n) == CallInv(n) /\ FdsInv(n) /\ UpInv(n) /\ DownInv(n)

(* The books of all_reduce are right at every step of every node.          *)
BooksInv == BookTypes /\ \A n \in Node : NodeInv(n)

(* The length of the piece a node may be passing on.                       *)
Passing(n) ==
  IF pc[n] = "passUp" /\ parent[n] # None THEN MaxOf(0, UpSize(n))
  ELSE IF pc[n] \in {"passLeft", "passRight"} THEN MaxOf(0, DownSize(n))
  ELSE 0

(* The buffer has the length of the call, the positions are within it, and *)
(* the start of a float that is kept is what the reads left over.          *)
ExtentInv(n) ==
  /\ Len(results[n]) <= Len(Calls)
  /\ Len(up[n]) <= Capacity /\ Len(down[n]) <= Capacity
  /\ pc[n] # "caller" => Len(buffer[n]) = Bytes(n)
  /\ written[n] \in 0..Passing(n)
  /\ parent_sent_pos[n] \in 0..Len(buffer[n])
  /\ parent_read_pos[n] >= 0 /\ children_sent_pos[n] >= 0
  /\ \A s \in Side :
       /\ child_read_pos[n][s] \in 0..Len(buffer[n])
       /\ Len(child_read_buf[n][s]) < FloatSize
       /\ pc[n] \in ReduceLabels /\ s \in Linked(n) =>
            Len(child_read_buf[n][s]) = child_read_pos[n][s] % FloatSize

PositionsInv == BooksInv /\ \A n \in Node : ExtentInv(n)

-----------------------------------------------------------------------------
(* The bytes in the sockets.                                               *)

(* A node and those whose way to the root leads over it.                   *)
Below(n) ==
  {m \in Node : \A S \in SUBSET Node :
     (n \in S /\ \A k \in Node : parent[k] \in S => k \in S) => m \in S}

(* What a node has sent in the call it is in, and what it has read.        *)
UpSent(n) ==
  IF pc[n] = "caller" THEN 0
  ELSE IF pc[n] \in ReduceLabels THEN parent_sent_pos[n] + written[n]
  ELSE Bytes(n)
UpGot(n, s) ==
  IF pc[n] = "caller" THEN 0
  ELSE IF pc[n] \in ReduceLabels THEN child_read_pos[n][s]
  ELSE Bytes(n)

DownGot(n) == IF pc[n] \in BroadcastLabels THEN parent_read_pos[n] ELSE 0
DownSent(n, s) ==
  IF pc[n] \notin BroadcastLabels THEN 0
  ELSE IF pc[n] = PassLabel(s) THEN children_sent_pos[n] + written[n]
  ELSE IF pc[n] = "passRight" /\ s = 0 THEN children_sent_pos[n] + DownSize(n)
  ELSE children_sent_pos[n]

Kept(n, s) == IF pc[n] \in ReduceLabels THEN child_read_buf[n][s] ELSE <<>>

(* A node, its side s and the child there.  The child may have entered the *)
(* next call already, or not have left the last one yet.                   *)
Link(n, s, c) == s \in Side /\ c \in Node /\ children[n][s] = c

Ahead(n, c)  == Current(c) > Current(n)
Behind(n, c) == Current(c) < Current(n)

(* Of the call the child is in: what the node has read, and has sent.      *)
UpTaken(n, s, c) ==
  IF Ahead(n, c) THEN 0 ELSE IF Behind(n, c) THEN Bytes(c) ELSE UpGot(n, s)
DownGiven(n, s, c) ==
  IF Ahead(n, c) THEN 0 ELSE IF Behind(n, c) THEN Bytes(c) ELSE DownSent(n, s)

(* The two ends of a socket.  A child is ahead only when its parent has    *)
(* given it all, and behind only when it has given its parent all; bytes   *)
(* may be lost, but none is there that was not sent.                       *)
LinkInv(n, s, c) ==
  /\ Ahead(n, c) =>
       /\ Current(c) = Current(n) + 1
       /\ pc[n] \in BroadcastLabels /\ DownSent(n, s) = Bytes(n)
  /\ Behind(n, c) =>
       /\ Current(n) = Current(c) + 1 /\ pc[c] # "caller"
       /\ pc[n] \notin BroadcastLabels /\ UpGot(n, s) = 0
  /\ UpTaken(n, s, c) + Len(up[c]) <= UpSent(c)
  /\ DownGot(c) + Len(down[c]) <= DownGiven(n, s, c)

(* No byte has been lost on the way up, or down.                           *)
UpExact(n, s, c)   == UpTaken(n, s, c) + Len(up[c]) = UpSent(c)
DownExact(n, s, c) == DownGot(c) + Len(down[c]) = DownGiven(n, s, c)

(* The bytes of the vector a call returns.                                 *)
Wire(c, q) == <<Agreed[c][((q - 1) \div FloatSize) + 1], (q - 1) % FloatSize>>

(* What a node has read from above is the vector agreed on.                *)
Right(n) == \A q \in 1..DownGot(n) : buffer[n][q] = Wire(Current(n), q)
RightBelow(n) ==
  /\ Right(n)
  /\ \A k \in 1..Len(down[n]) : down[n][k] = Wire(Current(n), DownGot(n) + k)

(* If no byte has been lost, those on the way, and those kept of a float,  *)
(* are the ones of the buffer they came from.                              *)
UpStreamInv(n, s, c) ==
  UpExact(n, s, c) =>
    /\ \A k \in 1..Len(up[c]) : up[c][k] = buffer[c][UpTaken(n, s, c) + k]
    /\ \A k \in 1..Len(Kept(n, s)) :
         Kept(n, s)[k] = buffer[c][UpTaken(n, s, c) - Len(Kept(n, s)) + k]
DownStreamInv(n, s, c) ==
  DownExact(n, s, c) /\ (~Behind(n, c) => Right(n)) => RightBelow(c)

LinkOK(n, s, c) == LinkInv(n, s, c) /\ UpStreamInv(n, s, c) /\ DownStreamInv(n, s, c)

(* A node that has read nothing from above has its floats in its buffer.   *)
Float(n, e) == FloatAt(buffer[n], e)

FloatsInv(n) ==
  pc[n] # "caller" /\ (DownGot(n) = 0 \/ parent[n] = None) =>
    \A e \in 1..Calls[Current(n)], k \in 0..(FloatSize - 1) :
      buffer[n][(e - 1) * FloatSize + k + 1] = <<Float(n, e), k>>

(* Float e of a node is its own number and those of the children it has    *)
(* read float e from, where the children's were right and no byte is lost. *)
SumOf(nodes, c, e) == SetToBag({<<m, c, e>> : m \in nodes})
RightSum(n, e)     == Float(n, e).terms = SumOf(Below(n), Current(n), e)
ReadFrom(n, e)     == {c \in Node : \E s \in Side : Link(n, s, c) /\ e * FloatSize <= UpGot(n, s)}
NoneLost(n)        == \A s \in Side, c \in Node : Link(n, s, c) => UpExact(n, s, c)

SumInv(n) ==
  pc[n] # "caller" /\ DownGot(n) = 0 /\ NoneLost(n) =>
    \A e \in 1..Calls[Current(n)] :
      (\A c \in ReadFrom(n, e) : RightSum(c, e)) =>
        Float(n, e).terms =
          SumOf({n} \cup UNION {Below(c) : c \in ReadFrom(n, e)}, Current(n), e)

(* What the calls have returned is what was agreed on.                     *)
AgreedInv ==
  /\ \A c \in 1..Len(Agreed) : Agreed[c] = [e \in 1..Calls[c] |-> Agreed[c][e]]
  /\ \A n \in Node : /\ Len(results[n]) <= Len(Agreed)
                     /\ \A c \in 1..Len(results[n]) : results[n][c] = Agreed[c]

BytesInv ==
  /\ \A n \in Node : FloatsInv(n) /\ SumInv(n)
  /\ \A n \in Node, s \in Side, c \in Node : Link(n, s, c) => LinkOK(n, s, c)
  /\ AgreedInv

IInv == PositionsInv /\ BytesInv
=============================================================================
