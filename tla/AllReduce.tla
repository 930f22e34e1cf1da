------------------------------ MODULE AllReduce ------------------------------
(***************************************************************************)
(* all_reduce (allreduce.cc): the nodes of a cluster are a binary tree of  *)
(* sockets.  In reduce every node adds what its children send to its own   *)
(* buffer and passes the sums up as whole floats become complete; the root *)
(* then has the sums, which broadcast passes down and writes over every    *)
(* buffer.  All of it is pipelined, in pieces of at most BufSize bytes:    *)
(* a node passes up the start of the buffer while it still reads the rest. *)
(*                                                                         *)
(* Sockets carry bytes, and a read may end in the middle of a float.  A    *)
(* byte is <<the float it belongs to, which of its bytes it is>>, and a    *)
(* float is the bag of the numbers added up in it (terms) together with    *)
(* the order they were added in, on which its rounding depends.            *)
(***************************************************************************)
EXTENDS Naturals, Integers, Sequences, FiniteSets, Bags

CONSTANTS
  Node,           \* the nodes of the cluster
  None,           \* no socket (-1)
  Trees,          \* the trees the nodes may form: the parent of each node
  Calls,          \* the number of floats of each call of all_reduce
  FloatSize,      \* sizeof(float)
  BufSize,        \* buf_size
  IntMax,         \* INT_MAX
  Capacity,       \* the bytes a socket holds before write() blocks
  MaxCrashes,     \* at most so many nodes may die
  Signals         \* the system calls that signals may end: "write", "select"

ASSUME AllReduceAssumption ==
  /\ None \notin Node
  /\ Trees \subseteq [Node -> Node \cup {None}]
  /\ Calls \in Seq(Nat \ {0})
  /\ FloatSize \in Nat \ {0}
  /\ BufSize \in Nat \ {0}
  /\ IntMax \in Nat \ {0}
  /\ Capacity \in Nat \ {0}
  /\ MaxCrashes \in Nat
  /\ Signals \subseteq {"write", "select"}

(* The nodes are one tree: the root alone has no parent, and of any nodes  *)
(* some are the highest and some the lowest.                               *)
ASSUME TreeAssumption ==
  \A tree \in Trees :
    /\ \E root \in Node : \A n \in Node : tree[n] = None <=> n = root
    /\ \A S \in (SUBSET Node) \ {{}} :
         /\ \E n \in S : tree[n] \notin S
         /\ \E n \in S : \A m \in S : tree[m] # n

VARIABLES
  parent, children,   \* socks, as all_reduce_init has connected them
  up, down,           \* the bytes on the way from each node to its parent, and back
  crashed,            \* the nodes that died; their sockets are closed
  failed,             \* the nodes that left all_reduce with Rf_error
  pc,                 \* where each node is
  written,            \* the bytes the current write() has handed over
  buffer,             \* the bytes of buffer
  child_read_pos,     \* the bytes read from each child
  child_read_buf,     \* the start of a float whose rest is still to be read
  fds,                \* the file descriptors set in fds
  parent_sent_pos, parent_read_pos, children_sent_pos,
  results             \* what the calls have returned

socks     == <<parent, children>>
faults    == <<crashed, failed>>
reducing  == <<child_read_pos, child_read_buf, fds, parent_sent_pos>>
spreading == <<parent_read_pos, children_sent_pos>>
vars == <<socks, up, down, faults, pc, written, buffer, reducing, spreading, results>>

Side == {0, 1}

MinOf(a, b) == IF a <= b THEN a ELSE b
MaxOf(a, b) == IF a >= b THEN a ELSE b

-----------------------------------------------------------------------------
(* Floats and their bytes.                                                 *)

Local(n, c, e) == [terms |-> SetToBag({<<n, c, e>>}), order |-> n]

(* The four bytes do not belong together.                                  *)
Garbage == [terms |-> EmptyBag, order |-> <<>>]

Add(a, b) == [terms |-> a.terms (+) b.terms, order |-> <<a.order, b.order>>]

Encode(floats) ==
  [i \in 1..(Len(floats) * FloatSize) |->
     <<floats[((i - 1) \div FloatSize) + 1], (i - 1) % FloatSize>>]

FloatAt(bytes, e) ==
  LET part == [k \in 0..(FloatSize - 1) |-> bytes[(e - 1) * FloatSize + k + 1]] IN
    IF \A k \in 0..(FloatSize - 1) : part[k] = <<part[0][1], k>>
      THEN part[0][1]
      ELSE Garbage

Decode(bytes) == [e \in 1..(Len(bytes) \div FloatSize) |-> FloatAt(bytes, e)]

(* addbufs: floats are added to those of bytes from float number `from` on. *)
AddBufs(bytes, from, floats) ==
  LET old == Decode(bytes)
      Covered(e) == e > from /\ e <= from + Len(floats)
  IN Encode([e \in 1..Len(old) |->
               IF Covered(e) THEN Add(old[e], floats[e - from]) ELSE old[e]])

-----------------------------------------------------------------------------
(* The call a node is in, and the length of its buffer: a size_t that      *)
(* all_reduce takes as an int.                                             *)
ToInt(size) == ((size + IntMax + 1) % (2 * (IntMax + 1))) - (IntMax + 1)

Current(n) == Len(results[n]) + 1
Bytes(n)   == ToInt(Calls[Current(n)] * FloatSize)

At(n, label)   == pc[n] = label /\ n \notin crashed \cup failed
Goto(n, label) == pc' = [pc EXCEPT ![n] = label]

Linked(n)  == {s \in Side : children[n][s] # None}
AllRead(n) == \A s \in Side : child_read_pos[n][s] >= Bytes(n)

(* all_reduce_init: every node ends with a socket to its parent and one to *)
(* each child, in the order in which the children were accepted.           *)
Layouts(tree) ==
  {kids \in [Node -> [Side -> Node \cup {None}]] :
     \A n \in Node :
       /\ {kids[n][s] : s \in Side} \ {None} = {m \in Node : tree[m] = n}
       /\ kids[n][0] = kids[n][1] => kids[n][0] = None
       /\ kids[n][0] = None => kids[n][1] = None}

Init ==
  /\ parent \in Trees
  /\ children \in Layouts(parent)
  /\ up = [n \in Node |-> <<>>]
  /\ down = [n \in Node |-> <<>>]
  /\ crashed = {} /\ failed = {}
  /\ pc = [n \in Node |-> "caller"]
  /\ written = [n \in Node |-> 0]
  /\ buffer = [n \in Node |-> <<>>]
  /\ child_read_pos = [n \in Node |-> [s \in Side |-> 0]]
  /\ child_read_buf = [n \in Node |-> [s \in Side |-> <<>>]]
  /\ fds = [n \in Node |-> {}]
  /\ parent_sent_pos = [n \in Node |-> 0]
  /\ parent_read_pos = [n \in Node |-> 0]
  /\ children_sent_pos = [n \in Node |-> 0]
  /\ results = [n \in Node |-> <<>>]

-----------------------------------------------------------------------------
(* accumulate and its kin call all_reduce with the node's own numbers.     *)
Call(n) ==
  /\ At(n, "caller")
  /\ Current(n) <= Len(Calls)
  /\ buffer' = [buffer EXCEPT ![n] =
       Encode([e \in 1..Calls[Current(n)] |-> Local(n, Current(n), e)])]
  /\ fds' = [fds EXCEPT ![n] = Linked(n)]
  /\ child_read_pos' = [child_read_pos EXCEPT ![n] =
       [s \in Side |-> IF s \in Linked(n) THEN 0 ELSE Bytes(n)]]
  /\ child_read_buf' = [child_read_buf EXCEPT ![n] = [s \in Side |-> <<>>]]
  /\ parent_sent_pos' = [parent_sent_pos EXCEPT ![n] = 0]
  /\ Goto(n, "passUp")
  /\ UNCHANGED <<socks, up, down, faults, written, spreading, results>>

-----------------------------------------------------------------------------
(* A write() hands over as much as the socket takes and blocks for the     *)
(* rest.  What it returns is logged but not used: the position moves on by *)
(* the whole piece, even if a signal or a dead peer ended the call early.  *)
Taken(n, pipe, size) == MinOf(size - written[n], Capacity - Len(pipe))

Piece(n, pos, count) ==
  SubSeq(buffer[n], pos + written[n] + 1, pos + written[n] + count)

(* read() gives some of the bytes there are, or none at the end of file.   *)
CanRead(pipe, count) == count <= Len(pipe) /\ (count = 0 => pipe = <<>>)

WriteEnds(n, peer, size) ==
  \/ written[n] = size
  \/ "write" \in Signals /\ written[n] > 0
  \/ peer \in crashed

-----------------------------------------------------------------------------
(* reduce.  A piece to pass up is made of floats both children have sent.  *)
AnyBytes(pos) == pos  \* a mutant: half a float is passed up
WholeFloats(pos) == (pos \div FloatSize) * FloatSize

UpSizeLeft(n) ==  \* a mutant: the right child is forgotten
  MinOf(BufSize, WholeFloats(child_read_pos[n][0]) - parent_sent_pos[n])
UpSize(n) ==
  MinOf(BufSize,
        MinOf(WholeFloats(child_read_pos[n][0]), WholeFloats(child_read_pos[n][1]))
          - parent_sent_pos[n])

PassesUp(n) == At(n, "passUp") /\ parent[n] # None /\ UpSize(n) > 0

PassUp(n) ==
  /\ PassesUp(n)
  /\ parent[n] \notin crashed
  /\ LET count == Taken(n, up[n], UpSize(n)) IN
       /\ count > 0
       /\ up' = [up EXCEPT ![n] = @ \o Piece(n, parent_sent_pos[n], count)]
       /\ written' = [written EXCEPT ![n] = @ + count]
  /\ UNCHANGED <<socks, down, faults, pc, buffer, reducing, spreading, results>>

PassedUp(n) ==
  /\ PassesUp(n)
  /\ WriteEnds(n, parent[n], UpSize(n))
  /\ parent_sent_pos' = [parent_sent_pos EXCEPT ![n] = @ + UpSize(n)]
  /\ written' = [written EXCEPT ![n] = 0]
  /\ Goto(n, "select")
  /\ UNCHANGED <<socks, up, down, faults, buffer, child_read_pos, child_read_buf, fds,
                 spreading, results>>

NothingToPassUp(n) ==
  /\ At(n, "passUp")
  /\ parent[n] = None \/ UpSize(n) <= 0
  /\ Goto(n, "select")
  /\ UNCHANGED <<socks, up, down, faults, written, buffer, reducing, spreading, results>>

(* select() waits until a child in fds has sent something, or is gone, and *)
(* leaves only such children in fds.                                       *)
Readable(n, s) == up[children[n][s]] # <<>> \/ children[n][s] \in crashed

Select(n) ==
  /\ At(n, "select")
  /\ ~AllRead(n)
  /\ LET ready == {s \in fds[n] : Readable(n, s)} IN
       /\ ready # {}
       /\ fds' = [fds EXCEPT ![n] = ready]
  /\ Goto(n, "readLeft")
  /\ UNCHANGED <<socks, up, down, faults, written, buffer, child_read_pos, child_read_buf,
                 parent_sent_pos, spreading, results>>

ReadLabel(s)  == IF s = 0 THEN "readLeft" ELSE "readRight"
AfterRead(s)  == IF s = 0 THEN "readRight" ELSE "passUp"

(* A child that has sent nothing is put back into fds, unless it is done.  *)
NotRearmed(n, s) == fds[n]  \* a mutant: select() forgets who was not ready
Rearmed(n, s) ==
  IF s \in Linked(n) /\ child_read_pos[n][s] # Bytes(n) THEN fds[n] \cup {s} ELSE fds[n]

ReArm(n, s) ==
  /\ At(n, ReadLabel(s))
  /\ s \notin fds[n]
  /\ fds' = [fds EXCEPT ![n] = Rearmed(n, s)]
  /\ Goto(n, AfterRead(s))
  /\ UNCHANGED <<socks, up, down, faults, written, buffer, child_read_pos, child_read_buf,
                 parent_sent_pos, spreading, results>>

(* The floats completed by a read, and fds without a child that is done.   *)
CompletedAlone(pos, count) == count \div FloatSize  \* a mutant: without the rest kept
Completed(pos, count) == (pos + count) \div FloatSize - pos \div FloatSize

NotCleared(n, s, pos) == fds[n]  \* a mutant: no FD_CLR
Cleared(n, s, pos) == IF pos = Bytes(n) THEN fds[n] \ {s} ELSE fds[n]

(* Whole floats are added to the buffer, where the child's last float      *)
(* ended; the start of the next one is kept.  At the end of the file, of a *)
(* child that died, count is 0.                                            *)
ReadChild(n, s) ==
  /\ At(n, ReadLabel(s))
  /\ s \in fds[n]
  /\ child_read_pos[n][s] # Bytes(n)
  /\ LET child == children[n][s]
         pos   == child_read_pos[n][s]
     IN \E count \in 0..MinOf(BufSize, Bytes(n) - pos) :
          LET bytes == child_read_buf[n][s] \o SubSeq(up[child], 1, count)
              added == Completed(pos, count)
          IN /\ CanRead(up[child], count)
             /\ up' = [up EXCEPT ![child] = SubSeq(@, count + 1, Len(@))]
             /\ buffer' = [buffer EXCEPT ![n] =
                  AddBufs(@, pos \div FloatSize,
                          SubSeq(Decode(bytes), 1, added))]
             /\ child_read_pos' = [child_read_pos EXCEPT ![n][s] = pos + count]
             /\ child_read_buf' = [child_read_buf EXCEPT ![n][s] =
                  SubSeq(bytes, added * FloatSize + 1, Len(bytes))]
             /\ fds' = [fds EXCEPT ![n] = Cleared(n, s, pos + count)]
  /\ Goto(n, AfterRead(s))
  /\ UNCHANGED <<socks, down, faults, written, parent_sent_pos, spreading, results>>

(* "I think child has no data to send but he thinks he has".               *)
ChildHasNoData(n, s) ==
  At(n, ReadLabel(s)) /\ s \in fds[n] /\ child_read_pos[n][s] = Bytes(n)

(* All is read but not all is passed up: once more around the loop.        *)
KeepPassing(n) ==
  /\ At(n, "select")
  /\ AllRead(n)
  /\ parent[n] # None
  /\ parent_sent_pos[n] < Bytes(n)
  /\ Goto(n, "passUp")
  /\ UNCHANGED <<socks, up, down, faults, written, buffer, reducing, spreading, results>>

(* reduce ends and broadcast begins.                                       *)
LeaveReduce(n) ==
  /\ At(n, "select")
  /\ AllRead(n)
  /\ parent[n] = None \/ parent_sent_pos[n] >= Bytes(n)
  /\ parent_sent_pos' = [parent_sent_pos EXCEPT ![n] =
       IF parent[n] = None THEN Bytes(n) ELSE @]
  /\ LET read == IF parent[n] = None THEN Bytes(n) ELSE 0
         sent == IF Linked(n) = {} THEN Bytes(n) ELSE 0
     IN /\ parent_read_pos' = [parent_read_pos EXCEPT ![n] = read]
        /\ children_sent_pos' = [children_sent_pos EXCEPT ![n] = sent]
        /\ Goto(n, IF read < Bytes(n) \/ sent < Bytes(n) THEN "passLeft" ELSE "readDown")
  /\ UNCHANGED <<socks, up, down, faults, written, buffer, child_read_pos, child_read_buf,
                 fds, results>>

-----------------------------------------------------------------------------
(* broadcast.  Bytes are passed down as they come, to one child after the  *)
(* other.                                                                  *)
DownSizeLess(n) ==  \* a mutant: pieces smaller than those read
  MinOf(BufSize - 1, parent_read_pos[n] - children_sent_pos[n])
DownSize(n) == MinOf(BufSize, parent_read_pos[n] - children_sent_pos[n])

PassLabel(s) == IF s = 0 THEN "passLeft" ELSE "passRight"

PassesDown(n, s) == At(n, PassLabel(s)) /\ s \in Linked(n) /\ DownSize(n) > 0

PassDown(n, s) ==
  /\ PassesDown(n, s)
  /\ LET child == children[n][s]
         count == Taken(n, down[child], DownSize(n))
     IN /\ child \notin crashed
        /\ count > 0
        /\ down' = [down EXCEPT ![child] = @ \o Piece(n, children_sent_pos[n], count)]
        /\ written' = [written EXCEPT ![n] = @ + count]
  /\ UNCHANGED <<socks, up, faults, pc, buffer, reducing, spreading, results>>

(* The end of pass_down's business with a child, or without one.           *)
PassedDown(n, s) ==
  /\ At(n, PassLabel(s))
  /\ PassesDown(n, s) => WriteEnds(n, children[n][s], DownSize(n))
  /\ written' = [written EXCEPT ![n] = 0]
  /\ IF s = 0
       THEN /\ Goto(n, "passRight")
            /\ UNCHANGED children_sent_pos
       ELSE /\ Goto(n, "readDown")
            /\ children_sent_pos' = [children_sent_pos EXCEPT ![n] = @ + MaxOf(0, DownSize(n))]
  /\ UNCHANGED <<socks, up, down, faults, buffer, reducing, parent_read_pos, results>>

Done(n) == parent_read_pos[n] >= Bytes(n) /\ children_sent_pos[n] >= Bytes(n)

ReadParent(n) ==
  /\ At(n, "readDown")
  /\ ~Done(n)
  /\ parent[n] # None
  /\ parent_read_pos[n] # Bytes(n)
  /\ down[n] # <<>> \/ parent[n] \in crashed
  /\ LET pos == parent_read_pos[n]
     IN \E count \in 0..MinOf(BufSize, Bytes(n) - pos) :
          /\ CanRead(down[n], count)
          /\ down' = [down EXCEPT ![n] = SubSeq(@, count + 1, Len(@))]
          /\ buffer' = [buffer EXCEPT ![n] =
               [i \in 1..Len(@) |-> IF i > pos /\ i <= pos + count
                                      THEN down[n][i - pos] ELSE @[i]]]
          /\ parent_read_pos' = [parent_read_pos EXCEPT ![n] = pos + count]
  /\ Goto(n, "passLeft")
  /\ UNCHANGED <<socks, up, faults, written, reducing, children_sent_pos, results>>

(* "I think parent has no data to send but he thinks he has".              *)
ParentHasNoData(n) ==
  At(n, "readDown") /\ ~Done(n) /\ parent[n] # None /\ parent_read_pos[n] = Bytes(n)

(* The root has nothing to read: once more around the loop.                *)
KeepSpreading(n) ==
  /\ At(n, "readDown")
  /\ ~Done(n)
  /\ parent[n] = None
  /\ Goto(n, "passLeft")
  /\ UNCHANGED <<socks, up, down, faults, written, buffer, reducing, spreading, results>>

Return(n) ==
  /\ At(n, "readDown")
  /\ Done(n)
  /\ results' = [results EXCEPT ![n] = Append(@, Decode(buffer[n]))]
  /\ Goto(n, "caller")
  /\ UNCHANGED <<socks, up, down, faults, written, buffer, reducing, spreading>>

-----------------------------------------------------------------------------
(* A process dies, anywhere.                                               *)
Crash(n) ==
  /\ n \notin crashed
  /\ Cardinality(crashed) < MaxCrashes
  /\ crashed' = crashed \cup {n}
  /\ UNCHANGED <<socks, up, down, failed, pc, written, buffer, reducing,
                 spreading, results>>

(* The death of a neighbour may show as an error of read() or write()      *)
(* rather than as an end of file.                                          *)
PeerIsGone(n) ==
  \/ PassesUp(n) /\ parent[n] \in crashed
  \/ At(n, "readDown") /\ ~Done(n) /\ parent[n] \in crashed
  \/ \E s \in Linked(n) :
       /\ children[n][s] \in crashed
       /\ PassesDown(n, s) \/ (At(n, ReadLabel(s)) /\ s \in fds[n])

(* A select() that a signal ends is not repeated.                          *)
Interrupted(n) == "select" \in Signals /\ At(n, "select") /\ ~AllRead(n)

(* Rf_error leaves all_reduce, with the sockets open.                      *)
Fail(n) ==
  /\ PeerIsGone(n) \/ Interrupted(n) \/ ParentHasNoData(n) \/ \E s \in Side : ChildHasNoData(n, s)
  /\ failed' = failed \cup {n}
  /\ UNCHANGED <<socks, up, down, crashed, pc, written, buffer, reducing, spreading, results>>

-----------------------------------------------------------------------------
Reduce(n) ==
  \/ PassUp(n) \/ PassedUp(n) \/ NothingToPassUp(n)
  \/ Select(n) \/ KeepPassing(n) \/ LeaveReduce(n)
  \/ \E s \in Side : ReArm(n, s) \/ ReadChild(n, s)

Broadcast(n) ==
  \/ \E s \in Side : PassDown(n, s) \/ PassedDown(n, s)
  \/ ReadParent(n) \/ KeepSpreading(n) \/ Return(n)

Step(n) == Call(n) \/ Reduce(n) \/ Broadcast(n)

(* Every node that is left has returned from its last call.                *)
AllReturned == \A n \in Node : Len(results[n]) = Len(Calls)

Stop == AllReturned /\ UNCHANGED vars

Next == (\E n \in Node : Step(n) \/ Crash(n) \/ Fail(n)) \/ Stop

Spec == Init /\ [][Next]_vars

FairSpec == Spec /\ \A n \in Node : WF_vars(Step(n))
-----------------------------------------------------------------------------
ReduceLabels    == {"passUp", "select", "readLeft", "readRight"}
BroadcastLabels == {"passLeft", "passRight", "readDown"}
Labels          == {"caller"} \cup ReduceLabels \cup BroadcastLabels

(* Every position is one of the buffer of the call (those of broadcast     *)
(* once it has set them), a write never leaves the piece it is passing,    *)
(* and what is kept of a child's unfinished float fits the FloatSize - 1   *)
(* bytes child_read_buf has for it beside a read of BufSize                *)
(* (allreduce.cc:261).                                                     *)
TypeOK ==
  /\ parent \in Trees
  /\ children \in [Node -> [Side -> Node \cup {None}]]
  /\ crashed \subseteq Node /\ failed \subseteq Node
  /\ pc \in [Node -> Labels]
  /\ fds \in [Node -> SUBSET Side]
  /\ \A n \in Node :
       /\ Len(results[n]) <= Len(Calls)
       /\ Len(up[n]) <= Capacity /\ Len(down[n]) <= Capacity
       /\ pc[n] # "caller" => Len(buffer[n]) = Bytes(n)
       /\ {parent_sent_pos[n], written[n]} \subseteq 0..Len(buffer[n])
       /\ pc[n] \in BroadcastLabels =>
            {parent_read_pos[n], children_sent_pos[n]} \subseteq 0..Len(buffer[n])
       /\ \A s \in Side : child_read_pos[n][s] \in 0..Len(buffer[n])
       /\ \A s \in Side : Len(child_read_buf[n][s]) < FloatSize

(* Neither of the two complaints of all_reduce is ever made: no child is   *)
(* left in fds that has sent everything (allreduce.cc:292), and broadcast  *)
(* never comes to read a parent it has read to the end (allreduce.cc:366). *)
NoFalseAlarm ==
  \A n \in Node : ~ParentHasNoData(n) /\ \A s \in Side : ~ChildHasNoData(n, s)

(* "parent_sent_pos <= left_read_pos, parent_sent_pos <= right_read_pos"   *)
(* (allreduce.cc:263): what is passed up holds both children's parts, and  *)
(* what is passed down has come from above.                                *)
Watermarks ==
  \A n \in Node :
    /\ pc[n] \in ReduceLabels /\ parent[n] # None =>
         \A s \in Side : parent_sent_pos[n] <= WholeFloats(child_read_pos[n][s])
    /\ pc[n] \in BroadcastLabels /\ Linked(n) # {} =>
         children_sent_pos[n] <= parent_read_pos[n]

(* All nodes get one and the same vector of sums from each call, with      *)
(* every node's numbers in it once, and nobody gets it before everybody    *)
(* has made the call (allreduce.cc:378).  The sums are agreed on when the  *)
(* root leaves reduce.                                                     *)
Root == CHOOSE n \in Node : parent[n] = None

Entered(n) == Len(results[n]) + (IF pc[n] = "caller" THEN 0 ELSE 1)

Agreed ==
  IF pc[Root] \in BroadcastLabels
    THEN Append(results[Root], Decode(buffer[Root]))
    ELSE results[Root]

Service == INSTANCE SumService WITH entered <- [n \in Node |-> Entered(n)], agreed <- Agreed

ImplementsSumService == Service!Spec

(* Every call returns on every node (allreduce.cc:378): pipelined reads    *)
(* and writes in the tree, blocking both ways, never wait for one another. *)
Termination == <>AllReturned
=============================================================================
