------------------------ MODULE AllReduceRefinement ------------------------
(***************************************************************************)
(* AllReduce implements SumService: whatever bytes are lost, whoever dies, *)
(* a call that returns returns the one vector of sums.  AllReduceInv!IInv  *)
(* is shown to be inductive, step by step; what it says of the root, when  *)
(* it leaves reduce, and of whoever returns, makes the refinement.         *)
(***************************************************************************)
EXTENDS AllReduceProofs

(* The sockets are those of a tree.                                        *)
TreeInv == parent \in Trees /\ children \in Layouts(parent)

-----------------------------------------------------------------------------
(* The tree.                                                               *)

LEMMA RootOnly ==
  ASSUME TreeInv
  PROVE  Root \in Node /\ \A n \in Node : parent[n] = None <=> n = Root
<1>1. PICK root \in Node : \A n \in Node : parent[n] = None <=> n = root
  BY TreeAssumption DEF TreeInv
<1>2. Root \in Node /\ parent[Root] = None
  BY <1>1 DEF Root
<1> QED
  BY <1>1, <1>2

LEMMA Highest ==
  ASSUME TreeInv, NEW S \in SUBSET Node, S # {}
  PROVE  \E n \in S : parent[n] \notin S
BY TreeAssumption DEF TreeInv

LEMMA Lowest ==
  ASSUME TreeInv, NEW S \in SUBSET Node, S # {}
  PROVE  \E n \in S : \A m \in S : parent[m] # n
BY TreeAssumption DEF TreeInv

LEMMA Parents ==
  ASSUME TreeInv
  PROVE  /\ \A n \in Node : parent[n] \in Node \cup {None}
         /\ None \notin Node
         /\ \A n \in Node, s \in Side : children[n][s] \in Node \cup {None}
         /\ \A n \in Node : \A s \in Linked(n) :
              children[n][s] \in Node /\ parent[children[n][s]] = n
         /\ \A m \in Node : parent[m] # None =>
              \E s \in Linked(parent[m]) : children[parent[m]][s] = m
         /\ \A n \in Node : \A s, t \in Linked(n) :
              children[n][s] = children[n][t] => s = t
<1>1. /\ parent \in [Node -> Node \cup {None}] /\ None \notin Node
      /\ children \in [Node -> [Side -> Node \cup {None}]]
      /\ \A n \in Node :
           /\ {children[n][s] : s \in Side} \ {None} = {m \in Node : parent[m] = n}
           /\ children[n][0] = children[n][1] => children[n][0] = None
  BY AllReduceAssumption DEF TreeInv, Layouts
<1>2. ASSUME NEW n \in Node, NEW s \in Linked(n)
      PROVE  children[n][s] \in Node /\ parent[children[n][s]] = n
  <2>1. children[n][s] \in {children[n][t] : t \in Side} \ {None}
    BY DEF Linked
  <2> QED
    BY <1>1, <2>1
<1>3. ASSUME NEW m \in Node, parent[m] # None
      PROVE  \E s \in Linked(parent[m]) : children[parent[m]][s] = m
  <2>1. parent[m] \in Node
    BY <1>1, <1>3
  <2>2. m \in {children[parent[m]][t] : t \in Side} \ {None}
    BY <1>1, <2>1
  <2> QED
    BY <2>2 DEF Linked
<1>4. ASSUME NEW n \in Node, NEW s \in Linked(n), NEW t \in Linked(n),
             children[n][s] = children[n][t]
      PROVE  s = t
  BY <1>1, <1>4 DEF Linked, Side
<1> QED
  BY <1>1, <1>2, <1>3, <1>4

(* Those below a node are itself and those below its children.             *)
LEMMA BelowIn ==
  ASSUME TreeInv, NEW n \in Node
  PROVE  /\ n \in Below(n) /\ Below(n) \subseteq Node
         /\ \A k \in Node : parent[k] \in Below(n) => k \in Below(n)
BY DEF Below

LEMMA BelowLeast ==
  ASSUME TreeInv, NEW n \in Node, NEW S \in SUBSET Node, n \in S,
         \A k \in Node : parent[k] \in S => k \in S
  PROVE  Below(n) \subseteq S
BY DEF Below

LEMMA BelowChildren ==
  ASSUME TreeInv, NEW n \in Node
  PROVE  Below(n) = {n} \cup UNION {Below(children[n][s]) : s \in Linked(n)}
<1> DEFINE S == {n} \cup UNION {Below(children[n][s]) : s \in Linked(n)}
<1>1. \A s \in Linked(n) : children[n][s] \in Node /\ parent[children[n][s]] = n
  BY Parents
<1>2. S \subseteq Node
  BY <1>1, BelowIn
<1>3. ASSUME NEW k \in Node, parent[k] \in S PROVE k \in S
  <2>1. CASE parent[k] = n
    <3>1. PICK s \in Linked(n) : children[n][s] = k
      BY <2>1, Parents
    <3> QED
      BY <3>1, BelowIn
  <2>2. CASE \E s \in Linked(n) : parent[k] \in Below(children[n][s])
    BY <1>1, <2>2, BelowIn
  <2> QED
    BY <1>3, <2>1, <2>2
<1>4. Below(n) \subseteq S
  <2> HIDE DEF S
  <2>1. n \in S
    BY DEF S
  <2> QED
    BY <1>2, <1>3, <2>1, BelowLeast
<1>5. ASSUME NEW s \in Linked(n) PROVE Below(children[n][s]) \subseteq Below(n)
  <2>1. /\ n \in Below(n) /\ Below(n) \in SUBSET Node
        /\ \A k \in Node : parent[k] \in Below(n) => k \in Below(n)
    BY BelowIn
  <2>2. children[n][s] \in Below(n)
    BY <1>1, <2>1
  <2> DEFINE B == Below(n)
             c == children[n][s]
  <2>3. c \in Node /\ c \in B /\ B \in SUBSET Node /\ \A k \in Node : parent[k] \in B => k \in B
    BY <1>1, <2>1, <2>2
  <2> HIDE DEF B, c
  <2>4. Below(c) \subseteq B
    BY <2>3, BelowLeast
  <2> QED
    BY <2>4 DEF B, c
<1> QED
  BY <1>4, <1>5, BelowIn

LEMMA BelowRoot ==
  ASSUME TreeInv
  PROVE  Below(Root) = Node
<1> DEFINE S == Node \ Below(Root)
<1>1. Root \in Node
  BY RootOnly
<1>2. ASSUME S # {} PROVE FALSE
  <2>1. PICK n \in S : parent[n] \notin S
    BY <1>2, Highest
  <2>2. parent[n] # None
    BY <1>1, <2>1, RootOnly, BelowIn
  <2>3. parent[n] \in Below(Root)
    BY <2>1, <2>2, Parents
  <2> QED
    BY <1>1, <2>1, <2>3, BelowIn
<1> QED
  BY <1>1, <1>2, BelowIn

(* Of those below a node all but itself have their parent below it.        *)
LEMMA BelowParent ==
  ASSUME TreeInv, NEW n \in Node, NEW m \in Below(n), m # n
  PROVE  parent[m] \in Below(n)
<1> DEFINE S == {k \in Below(n) : k = n \/ parent[k] \in Below(n)}
<1>1. n \in S /\ S \in SUBSET Node
  BY BelowIn
<1>2. \A k \in Node : parent[k] \in S => k \in S
  BY BelowIn
<1> HIDE DEF S
<1>3. Below(n) \subseteq S
  BY <1>1, <1>2, BelowLeast
<1> QED
  BY <1>3 DEF S

LEMMA BelowApart ==
  ASSUME TreeInv, NEW n \in Node
  PROVE  /\ \A s \in Linked(n) : n \notin Below(children[n][s])
         /\ \A s \in Linked(n), t \in Linked(n) : s # t =>
              Below(children[n][s]) \cap Below(children[n][t]) = {}
<1>1. ASSUME NEW s \in Linked(n) PROVE n \notin Below(children[n][s])
  <2> DEFINE c == children[n][s]
  <2>1. c \in Node /\ parent[c] = n
    BY Parents
  <2> SUFFICES ASSUME n \in Below(c) PROVE FALSE
    OBVIOUS
  <2>2. \A k \in Below(c) : parent[k] \in Below(c)
    BY <2>1, BelowParent
  <2>3. Below(c) \in SUBSET Node /\ Below(c) # {}
    BY <2>1, BelowIn
  <2> DEFINE B == Below(c)
  <2> HIDE DEF B
  <2>4. \E k \in B : parent[k] \notin B
    BY <2>3, Highest DEF B
  <2> QED
    BY <2>2, <2>4 DEF B
<1>2. ASSUME NEW s \in Linked(n), NEW t \in Linked(n), s # t
      PROVE  Below(children[n][s]) \cap Below(children[n][t]) = {}
  <2> DEFINE c == children[n][s]
             d == children[n][t]
             S == Below(c) \cap Below(d)
  <2>1. c \in Node /\ d \in Node /\ parent[c] = n /\ parent[d] = n /\ c # d
    BY <1>2, Parents
  <2>2. n \notin Below(c) /\ n \notin Below(d)
    BY <1>1
  <2>3. c \notin Below(d) /\ d \notin Below(c)
    BY <2>1, <2>2, BelowParent
  <2>4. \A k \in S : parent[k] \in S
    BY <2>1, <2>3, BelowParent
  <2>5. S \in SUBSET Node
    BY <2>1, BelowIn
  <2> HIDE DEF S
  <2> QED
    BY <2>4, <2>5, Highest DEF S
<1> QED
  BY <1>1, <1>2

-----------------------------------------------------------------------------
(* The two ends of the sockets.                                            *)

State == BooksInv /\ Extents /\ TreeInv

LEMMA WholeFloatsBelow ==
  ASSUME NEW p \in Nat
  PROVE  WholeFloats(p) \in Nat /\ WholeFloats(p) <= p
<1>1. \A f \in Nat \ {0} : (p \div f) * f \in Nat /\ (p \div f) * f <= p
  OBVIOUS
<1> QED
  BY <1>1, AllReduceAssumption DEF WholeFloats

LEMMA CallSize ==
  ASSUME State, FitsInt, NEW n \in Node, pc[n] # "caller"
  PROVE  /\ Current(n) \in 1..Len(Calls)
         /\ Calls[Current(n)] \in Nat /\ Calls[Current(n)] > 0
         /\ Bytes(n) = Calls[Current(n)] * FloatSize
         /\ Bytes(n) \in Nat /\ Bytes(n) > 0 /\ Len(buffer[n]) = Bytes(n)
         /\ FloatSize \in Nat /\ FloatSize > 0
<1>1. Current(n) \in 1..Len(Calls) /\ Len(buffer[n]) = Bytes(n)
  BY PieceEnds DEF State
<1>2. Calls[Current(n)] \in Nat \ {0} /\ FloatSize \in Nat \ {0}
  BY <1>1, AllReduceAssumption
<1> DEFINE size == Calls[Current(n)] * FloatSize
<1>3. size \in Nat /\ size <= IntMax
  BY <1>1, <1>2 DEF FitsInt
<1> HIDE DEF size
<1>4. ToInt(size) = size
  BY <1>3, ToIntSmall
<1>5. Bytes(n) = size
  BY <1>4 DEF Bytes, size
<1>6. Bytes(n) \in Nat /\ Bytes(n) > 0
  BY <1>1, BytesType
<1> QED
  BY <1>1, <1>2, <1>5, <1>6 DEF size

LEMMA Sequences ==
  ASSUME State, NEW n \in Node
  PROVE  /\ IsSeq(up[n]) /\ Len(up[n]) \in Nat
         /\ IsSeq(down[n]) /\ Len(down[n]) \in Nat
         /\ IsSeq(buffer[n]) /\ Len(buffer[n]) \in Nat
         /\ IsSeq(results[n]) /\ Len(results[n]) \in Nat
         /\ Current(n) \in Nat /\ Current(n) = Len(results[n]) + 1
         /\ pc[n] \in Labels
BY TypedAt DEF State, Extents, SeqInv, Current, BooksInv, BookTypes

LEMMA UpEnds ==
  ASSUME State, FitsInt, NEW n \in Node
  PROVE  /\ UpSent(n) \in Nat
         /\ \A s \in Side : UpGot(n, s) \in Nat
         /\ pc[n] # "caller" => \A s \in Side : UpGot(n, s) <= Bytes(n)
         /\ pc[n] # "caller" /\ parent[n] # None => UpSent(n) <= Bytes(n)
         /\ parent[n] # None => \A s \in Linked(n) : UpSent(n) <= UpGot(n, s)
         /\ pc[n] \in ReduceLabels /\ parent[n] # None =>
              \A s \in Linked(n) : UpSent(n) <= WholeFloats(UpGot(n, s))
<1>1. CASE pc[n] = "caller"
  BY <1>1 DEF UpSent, UpGot, ReduceLabels
<1>2. CASE pc[n] \in ReduceLabels
  <2>1. pc[n] # "caller"
    BY <1>2 DEF ReduceLabels
  <2>2. /\ Bytes(n) \in Nat /\ \A s \in Side : child_read_pos[n][s] \in 0..Bytes(n)
        /\ UpSent(n) = parent_sent_pos[n] + written[n]
        /\ \A s \in Side : UpGot(n, s) = child_read_pos[n][s]
    BY <1>2, <2>1, CallSize DEF State, BooksInv, NodeInv, UpInv, UpSent, UpGot
  <2>3. /\ parent_sent_pos[n] \in Nat /\ UpSize(n) \in Int
        /\ parent[n] # None => parent_sent_pos[n] + UpSize(n) <= Bytes(n)
    BY <1>2, <2>1, PieceEnds DEF State
  <2>4. written[n] \in 0..Passing(n) /\ Passing(n) \in Nat
    BY <1>2, <2>3 DEF State, Extents, ExtentInv, Passing, MaxOf, ReduceLabels
  <2>5. \A s \in Side : WholeFloats(child_read_pos[n][s]) \in Nat
                        /\ WholeFloats(child_read_pos[n][s]) <= child_read_pos[n][s]
    BY <2>2, WholeFloatsBelow
  <2>6. parent[n] # None => \A s \in Side : UpSent(n) <= WholeFloats(child_read_pos[n][s])
    <3> SUFFICES ASSUME parent[n] # None, NEW s \in Side
                 PROVE  UpSent(n) <= WholeFloats(child_read_pos[n][s])
      OBVIOUS
    <3>1. parent_sent_pos[n] <= WholeFloats(child_read_pos[n][s])
      BY <1>2 DEF State, BooksInv, NodeInv, UpInv
    <3>2. UpSize(n) <= WholeFloats(child_read_pos[n][s]) - parent_sent_pos[n]
      BY <2>3, <2>5, AllReduceAssumption DEF UpSize, MinOf, Side
    <3>3. Passing(n) = 0 \/ Passing(n) = UpSize(n)
      BY <1>2, <2>3 DEF Passing, MaxOf, ReduceLabels
    <3> QED
      BY <2>2, <2>3, <2>4, <2>5, <3>1, <3>2, <3>3
  <2> QED
    BY <1>2, <2>1, <2>2, <2>3, <2>4, <2>5, <2>6 DEF Linked, Side
<1>3. CASE pc[n] \in BroadcastLabels
  BY <1>3, CallSize DEF UpSent, UpGot, ReduceLabels, BroadcastLabels, Linked
<1> QED
  BY <1>1, <1>2, <1>3, Sequences DEF Labels

LEMMA DownEnds ==
  ASSUME State, FitsInt, NEW n \in Node
  PROVE  /\ DownGot(n) \in Nat /\ (pc[n] # "caller" => DownGot(n) <= Bytes(n))
         /\ \A s \in Linked(n) : DownSent(n, s) \in Nat /\ DownSent(n, s) <= DownGot(n)
<1>1. CASE pc[n] \notin BroadcastLabels
  BY <1>1, CallSize DEF DownGot, DownSent
<1>2. CASE pc[n] \in BroadcastLabels
  <2>1. pc[n] # "caller"
    BY <1>2 DEF BroadcastLabels
  <2>2. /\ parent_read_pos[n] \in Nat /\ children_sent_pos[n] \in Nat
        /\ parent_read_pos[n] <= Bytes(n) /\ DownSize(n) \in Int
    BY <1>2, <2>1, PieceEnds DEF State
  <2>3. ASSUME NEW s \in Linked(n)
        PROVE  DownSent(n, s) \in Nat /\ DownSent(n, s) <= parent_read_pos[n]
    <3>1. children_sent_pos[n] <= parent_read_pos[n]
      BY <1>2, <2>3 DEF State, BooksInv, NodeInv, DownInv
    <3>2. DownSize(n) \in Nat /\ children_sent_pos[n] + DownSize(n) <= parent_read_pos[n]
      BY <2>2, <3>1, AllReduceAssumption DEF DownSize, MinOf
    <3>3. CASE pc[n] \in {"passLeft", "passRight"}
      <4>1. written[n] \in 0..DownSize(n)
        BY <3>2, <3>3 DEF State, Extents, ExtentInv, Passing, MaxOf
      <4> QED
        BY <1>2, <2>2, <3>1, <3>2, <3>3, <4>1 DEF DownSent
    <3>4. CASE pc[n] = "readDown"
      BY <1>2, <2>2, <3>1, <3>4 DEF DownSent, PassLabel
    <3> QED
      BY <1>2, <3>3, <3>4 DEF BroadcastLabels
  <2> QED
    BY <1>2, <2>2, <2>3 DEF DownGot
<1> QED
  BY <1>1, <1>2

-----------------------------------------------------------------------------
(* A socket at whose ends nothing is read and nothing new written; what    *)
(* one end believes it has sent may still grow.                            *)

LEMMA Links ==
  ASSUME TreeInv, NEW p \in Node, NEW s \in Side, NEW n \in Node, Link(p, s, n)
  PROVE  /\ s \in Linked(p) /\ parent[n] = p /\ parent[n] # None /\ n # p
         /\ children[p][s] = n
         /\ \A t \in Side : Link(p, t, n) => t = s
         /\ \A q \in Node, t \in Side : Link(q, t, n) => q = p /\ t = s
<1>1. s \in Linked(p) /\ parent[n] = p /\ p # None
  BY Parents DEF Linked, Link
<1>2. n # p
  BY <1>1, BelowApart, BelowIn DEF Link
<1>3. ASSUME NEW q \in Node, NEW t \in Side, Link(q, t, n) PROVE q = p /\ t = s
  <2>1. t \in Linked(q) /\ parent[n] = q
    BY <1>3, Parents DEF Linked, Link
  <2> QED
    BY <1>1, <1>3, <2>1, Parents DEF Link
<1> QED
  BY <1>1, <1>2, <1>3 DEF Link

LEMMA LinkTypes ==
  ASSUME State, FitsInt, NEW p \in Node, NEW s \in Side, NEW n \in Node, Link(p, s, n),
         LinkInv(p, s, n)
  PROVE  /\ Current(n) \in Nat /\ Current(p) \in Nat
         /\ UpTaken(p, s, n) \in Nat /\ DownGiven(p, s, n) \in Nat
         /\ UpSent(n) \in Nat /\ Len(up[n]) \in Nat
         /\ DownGot(n) \in Nat /\ Len(down[n]) \in Nat
         /\ UpGot(p, s) \in Nat /\ DownSent(p, s) \in Nat
         /\ UpTaken(p, s, n) + Len(up[n]) <= UpSent(n)
         /\ DownGot(n) + Len(down[n]) <= DownGiven(p, s, n)
         /\ Len(Kept(p, s)) \in Nat /\ Len(Kept(p, s)) <= UpTaken(p, s, n)
         /\ pc[p] \in ReduceLabels => Len(Kept(p, s)) = UpGot(p, s) % FloatSize
<1>1. s \in Linked(p) /\ parent[n] = p
  BY Links DEF State
<1>3. Current(n) \in Nat /\ Current(p) \in Nat /\ Len(up[n]) \in Nat /\ Len(down[n]) \in Nat
  BY <1>1, Sequences
<1>4. UpSent(n) \in Nat /\ UpGot(p, s) \in Nat /\ DownGot(n) \in Nat /\ DownSent(p, s) \in Nat
  BY <1>1, UpEnds, DownEnds
<1>5. Behind(p, n) => Bytes(n) \in Nat /\ Bytes(n) > 0
  BY <1>1, CallSize DEF LinkInv
<1>6. UpTaken(p, s, n) \in Nat /\ DownGiven(p, s, n) \in Nat
  BY <1>1, <1>4, <1>5 DEF UpTaken, DownGiven
<1>7. /\ Len(Kept(p, s)) \in Nat /\ Len(Kept(p, s)) <= UpTaken(p, s, n)
      /\ pc[p] \in ReduceLabels => Len(Kept(p, s)) = UpGot(p, s) % FloatSize
  <2>1. CASE pc[p] \notin ReduceLabels
    BY <1>6, <2>1 DEF Kept
  <2>2. CASE pc[p] \in ReduceLabels
    <3>1. /\ Kept(p, s) = child_read_buf[p][s] /\ pc[p] # "caller"
          /\ UpGot(p, s) = child_read_pos[p][s] /\ pc[p] \notin BroadcastLabels
      BY <2>2 DEF Kept, UpGot, ReduceLabels, BroadcastLabels
    <3>2. /\ Len(Kept(p, s)) = UpGot(p, s) % FloatSize
      BY <1>1, <2>2, <3>1 DEF State, Extents, ExtentInv
    <3>3. UpGot(p, s) % FloatSize \in Nat /\ UpGot(p, s) % FloatSize <= UpGot(p, s)
      <4>1. FloatSize \in Nat \ {0}
        BY AllReduceAssumption
      <4>2. \A a \in Nat, b \in Nat \ {0} : a % b \in Nat /\ a % b <= a
        OBVIOUS
      <4> QED
        BY <1>4, <4>1, <4>2
    <3>4. ~Ahead(p, n)
      BY <1>1, <3>1 DEF LinkInv
    <3>5. Behind(p, n) => UpGot(p, s) = 0
      BY <1>1 DEF LinkInv
    <3> QED
      BY <1>6, <3>2, <3>3, <3>4, <3>5 DEF UpTaken
  <2> QED
    BY <2>1, <2>2
<1>8. UpTaken(p, s, n) + Len(up[n]) <= UpSent(n) /\ DownGot(n) + Len(down[n]) <= DownGiven(p, s, n)
  BY DEF LinkInv
<1> QED
  BY <1>3, <1>4, <1>6, <1>7, <1>8

LEMMA LinkQuiet ==
  ASSUME State, FitsInt, NEW p \in Node, NEW s \in Side, NEW n \in Node, Link(p, s, n),
         LinkOK(p, s, n),
         Current(p)' = Current(p), Current(n)' = Current(n),
         UpGot(p, s)' = UpGot(p, s), DownGot(n)' = DownGot(n),
         up'[n] = up[n], down'[n] = down[n],
         UpSent(n)' \in Nat, UpSent(n)' >= UpSent(n),
         DownSent(p, s)' \in Nat, DownSent(p, s)' >= DownSent(p, s),
         DownSent(p, s)' # DownSent(p, s) => DownSent(p, s)' <= Bytes(p),
         pc[p] \in BroadcastLabels => pc'[p] \in BroadcastLabels,
         Behind(p, n) => pc'[p] \notin BroadcastLabels,
         pc[n] # "caller" => pc'[n] # "caller",
         Len(Kept(p, s)') = 0 \/ Kept(p, s)' = Kept(p, s),
         \/ Len(up[n]) = 0 /\ Len(Kept(p, s)') = 0
         \/ \A q \in 1..UpSent(n) : buffer'[n][q] = buffer[n][q],
         RightBelow(n) => RightBelow(n)',
         ~Behind(p, n) => (Right(p)' => Right(p))
  PROVE  LinkOK(p, s, n)' /\ (UpExact(p, s, n)' => UpExact(p, s, n))
<1>1. /\ Current(n) \in Nat /\ Current(p) \in Nat
      /\ UpTaken(p, s, n) \in Nat /\ DownGiven(p, s, n) \in Nat
      /\ UpSent(n) \in Nat /\ Len(up[n]) \in Nat
      /\ DownGot(n) \in Nat /\ Len(down[n]) \in Nat
      /\ DownSent(p, s) \in Nat
      /\ UpTaken(p, s, n) + Len(up[n]) <= UpSent(n)
      /\ DownGot(n) + Len(down[n]) <= DownGiven(p, s, n)
      /\ Len(Kept(p, s)) \in Nat /\ Len(Kept(p, s)) <= UpTaken(p, s, n)
  BY LinkTypes DEF LinkOK
<1>2. /\ Bytes(p)' = Bytes(p) /\ Bytes(n)' = Bytes(n)
      /\ Ahead(p, n)' = Ahead(p, n) /\ Behind(p, n)' = Behind(p, n)
  BY DEF Bytes, Ahead, Behind
<1>3. UpTaken(p, s, n)' = UpTaken(p, s, n)
  BY <1>2 DEF UpTaken
<1>4. DownGiven(p, s, n)' \in Nat /\ DownGiven(p, s, n)' >= DownGiven(p, s, n)
  BY <1>1, <1>2 DEF DownGiven
<1>6. Ahead(p, n) => DownSent(p, s)' = Bytes(p)
  <2>1. Ahead(p, n) => DownSent(p, s) = Bytes(p)
    BY DEF LinkOK, LinkInv
  <2> QED
    BY <1>1, <2>1
<1>7. LinkInv(p, s, n)'
  <2>1. /\ Ahead(p, n) => /\ Current(n) = Current(p) + 1
                          /\ pc'[p] \in BroadcastLabels
        /\ Behind(p, n) => /\ Current(p) = Current(n) + 1 /\ pc'[n] # "caller"
                           /\ UpGot(p, s) = 0
    BY DEF LinkOK, LinkInv
  <2>2. /\ UpTaken(p, s, n)' + Len(up'[n]) <= UpSent(n)'
        /\ DownGot(n)' + Len(down'[n]) <= DownGiven(p, s, n)'
    BY <1>1, <1>3, <1>4, SMTT(20)
  <2> QED
    BY <1>2, <1>6, <2>1, <2>2 DEF LinkInv
<1>8. UpExact(p, s, n)' => UpExact(p, s, n)
  BY <1>1, <1>2, <1>3 DEF UpExact
<1>9. UpStreamInv(p, s, n)'
  <2> SUFFICES ASSUME UpExact(p, s, n)'
               PROVE  /\ \A k \in 1..Len(up[n]) :
                           up[n][k] = buffer'[n][UpTaken(p, s, n) + k]
                      /\ \A k \in 1..Len(Kept(p, s)') :
                           Kept(p, s)'[k] = buffer'[n][UpTaken(p, s, n) - Len(Kept(p, s)') + k]
    BY <1>2, <1>3 DEF UpStreamInv
  <2>1. /\ \A k \in 1..Len(up[n]) : up[n][k] = buffer[n][UpTaken(p, s, n) + k]
        /\ \A k \in 1..Len(Kept(p, s)) :
             Kept(p, s)[k] = buffer[n][UpTaken(p, s, n) - Len(Kept(p, s)) + k]
    BY <1>8 DEF LinkOK, UpStreamInv
  <2>2. CASE Len(up[n]) = 0 /\ Len(Kept(p, s)') = 0
    BY <2>2
  <2>3. CASE \A q \in 1..UpSent(n) : buffer'[n][q] = buffer[n][q]
    <3>1. \A k \in 1..Len(up[n]) : UpTaken(p, s, n) + k \in 1..UpSent(n)
      BY <1>1
    <3>2. \A k \in 1..Len(Kept(p, s)) :
            UpTaken(p, s, n) - Len(Kept(p, s)) + k \in 1..UpSent(n)
      BY <1>1, SMTT(20)
    <3>3. \A k \in 1..Len(up[n]) : up[n][k] = buffer'[n][UpTaken(p, s, n) + k]
      BY <2>1, <2>3, <3>1
    <3>4. CASE Len(Kept(p, s)') = 0
      BY <3>3, <3>4
    <3>5. CASE Kept(p, s)' = Kept(p, s)
      <4> DEFINE kept == Kept(p, s)
                 len == Len(kept)
      <4>1. \A k \in 1..len : kept[k] = buffer'[n][UpTaken(p, s, n) - len + k]
        BY <2>1, <2>3, <3>2
      <4>2. Len(Kept(p, s)') = len
        BY <3>5
      <4> QED
        BY <3>3, <3>5, <4>1, <4>2
    <3> QED
      BY <3>4, <3>5
  <2> QED
    BY <2>2, <2>3
<1>10. DownExact(p, s, n)' => DownExact(p, s, n)
  BY <1>1, <1>2, <1>4 DEF DownExact
<1>11. DownStreamInv(p, s, n)'
  BY <1>2, <1>10 DEF LinkOK, DownStreamInv
<1> QED
  BY <1>7, <1>8, <1>9, <1>11 DEF LinkOK

-----------------------------------------------------------------------------
(* A step of one node leaves the others, and what is agreed on, alone.     *)

LEMMA OwnViews ==
  ASSUME NEW m \in Node, UNCHANGED socks, UNCHANGED Own(m)
  PROVE  /\ pc'[m] = pc[m] /\ buffer'[m] = buffer[m] /\ results'[m] = results[m]
         /\ Current(m)' = Current(m) /\ Bytes(m)' = Bytes(m)
         /\ UpSent(m)' = UpSent(m) /\ DownGot(m)' = DownGot(m)
         /\ \A s \in Side : /\ UpGot(m, s)' = UpGot(m, s)
                            /\ DownSent(m, s)' = DownSent(m, s)
                            /\ Kept(m, s)' = Kept(m, s)
         /\ \A e : Float(m, e)' = Float(m, e)
<1>1. /\ pc'[m] = pc[m] /\ written'[m] = written[m] /\ buffer'[m] = buffer[m]
      /\ child_read_pos'[m] = child_read_pos[m] /\ results'[m] = results[m]
      /\ child_read_buf'[m] = child_read_buf[m]
      /\ parent_sent_pos'[m] = parent_sent_pos[m]
      /\ parent_read_pos'[m] = parent_read_pos[m]
      /\ children_sent_pos'[m] = children_sent_pos[m]
  BY DEF Own
<1>2. Current(m)' = Current(m)
  BY <1>1 DEF Current
<1>3. Bytes(m)' = Bytes(m)
  BY <1>2 DEF Bytes
<1>4. DownSize(m)' = DownSize(m)
  BY <1>1 DEF DownSize, MinOf
<1>5. UpSent(m)' = UpSent(m) /\ DownGot(m)' = DownGot(m)
  BY <1>1, <1>3 DEF UpSent, DownGot
<1>6. \A s \in Side : /\ UpGot(m, s)' = UpGot(m, s)
                      /\ DownSent(m, s)' = DownSent(m, s)
                      /\ Kept(m, s)' = Kept(m, s)
  BY <1>1, <1>3, <1>4 DEF UpGot, DownSent, Kept, PassLabel
<1>7. \A e : Float(m, e)' = Float(m, e)
  BY <1>1 DEF Float
<1> QED
  BY <1>1, <1>2, <1>3, <1>5, <1>6, <1>7

Alone(n) == UNCHANGED socks /\ \A m \in Node \ {n} : UNCHANGED Own(m)

LEMMA StepsAlone ==
  ASSUME State, NEW n \in Node, Step(n)
  PROVE  Alone(n)
<1>1. /\ pc \in [Node -> Labels] /\ child_read_pos \in [Node -> [Side -> Int]]
      /\ parent_sent_pos \in [Node -> Int] /\ parent_read_pos \in [Node -> Int]
      /\ children_sent_pos \in [Node -> Int] /\ written \in [Node -> Int]
      /\ fds \in [Node -> SUBSET Side]
  BY DEF State, BooksInv, BookTypes, Extents, SeqInv
<1>2. PICK S : buffer \in [Node -> Seq(S)]
  BY DEF State, Extents, SeqInv, Typed
<1>3. PICK T : results \in [Node -> Seq(T)]
  BY DEF State, Extents, SeqInv, Typed
<1>4. PICK B : child_read_buf \in [Node -> [Side -> Seq(B)]]
  BY DEF State, Extents, SeqInv
<1> DEFINE Same == UNCHANGED socks /\ \A m \in Node \ {n} :
             /\ pc'[m] = pc[m] /\ written'[m] = written[m] /\ buffer'[m] = buffer[m]
             /\ child_read_pos'[m] = child_read_pos[m]
             /\ child_read_buf'[m] = child_read_buf[m]
             /\ parent_sent_pos'[m] = parent_sent_pos[m]
             /\ parent_read_pos'[m] = parent_read_pos[m]
             /\ children_sent_pos'[m] = children_sent_pos[m]
             /\ results'[m] = results[m]
<1> SUFFICES Same
  BY DEF Alone, Own
<1>5. CASE Call(n)
  BY <1>1, <1>2, <1>4, <1>5 DEF Call, Goto, spreading
<1>6. CASE PassUp(n) \/ PassedUp(n) \/ NothingToPassUp(n) \/ Select(n) \/ KeepPassing(n)
           \/ \E s \in Side : ReArm(n, s)
  BY <1>1, <1>6 DEF PassUp, PassedUp, NothingToPassUp, Select, KeepPassing, ReArm, Goto,
                    reducing, spreading
<1>7. CASE LeaveReduce(n)
  BY <1>1, <1>7 DEF LeaveReduce, Goto
<1>8. ASSUME NEW s \in Side, ReadChild(n, s) PROVE Same
  BY <1>1, <1>2, <1>4, <1>8 DEF ReadChild, Goto, spreading
<1>9. ASSUME NEW s \in Side, PassDown(n, s) \/ PassedDown(n, s) PROVE Same
  BY <1>1, <1>9 DEF PassDown, PassedDown, Goto, reducing, spreading
<1>10. CASE ReadParent(n) \/ KeepSpreading(n)
  BY <1>1, <1>2, <1>10 DEF ReadParent, KeepSpreading, Goto, reducing, spreading
<1>11. CASE Return(n)
  BY <1>1, <1>3, <1>11 DEF Return, Goto, reducing, spreading
<1> QED
  BY <1>5, <1>6, <1>7, <1>8, <1>9, <1>10, <1>11 DEF Step, Reduce, Broadcast

LEMMA AgreedKept ==
  ASSUME State, NEW n \in Node, Step(n), ~(n = Root /\ LeaveReduce(n))
  PROVE  Agreed' = Agreed /\ Root' = Root
<1>1. Alone(n) /\ Root \in Node /\ parent[Root] = None
  BY StepsAlone, RootOnly DEF State
<1>2. Root' = Root
  BY <1>1 DEF Root, Alone, socks
<1>3. pc \in [Node -> Labels]
  BY DEF State, BooksInv, BookTypes
<1>4. CASE n # Root
  <2>1. pc'[Root] = pc[Root] /\ buffer'[Root] = buffer[Root] /\ results'[Root] = results[Root]
    BY <1>1, <1>4 DEF Alone, Own
  <2> QED
    BY <1>2, <2>1 DEF Agreed
<1>5. CASE n = Root
  <2>1. CASE Call(n)
    BY <1>2, <1>3, <1>5, <2>1 DEF Call, At, Goto, Agreed, BroadcastLabels
  <2>2. CASE Reduce(n)
    <3>1. pc[n] \notin BroadcastLabels /\ pc'[n] \notin BroadcastLabels /\ results' = results
      <4>1. CASE PassUp(n) \/ PassedUp(n) \/ NothingToPassUp(n)
        BY <1>3, <4>1 DEF PassUp, PassesUp, PassedUp, NothingToPassUp, At, Goto, BroadcastLabels
      <4>2. CASE Select(n) \/ KeepPassing(n)
        BY <1>3, <4>2 DEF Select, KeepPassing, At, Goto, BroadcastLabels
      <4>3. ASSUME NEW s \in Side, ReArm(n, s) \/ ReadChild(n, s)
            PROVE  /\ pc[n] \notin BroadcastLabels /\ pc'[n] \notin BroadcastLabels
                   /\ results' = results
        BY <1>3, <4>3 DEF ReArm, ReadChild, At, Goto, ReadLabel, AfterRead, BroadcastLabels
      <4> QED
        BY <1>5, <2>2, <4>1, <4>2, <4>3 DEF Reduce
    <3> QED
      BY <1>2, <1>5, <3>1 DEF Agreed
  <2>3. CASE Broadcast(n) /\ ~Return(n)
    <3>1. /\ pc[n] \in BroadcastLabels /\ pc'[n] \in BroadcastLabels /\ results' = results
          /\ buffer' = buffer
      BY <1>1, <1>3, <1>5, <2>3 DEF Broadcast, PassDown, PassesDown, PassedDown, ReadParent,
           KeepSpreading, At, Goto, PassLabel, BroadcastLabels
    <3> QED
      BY <1>2, <1>5, <3>1 DEF Agreed
  <2>4. CASE Return(n)
    <3>1. /\ pc[n] \in BroadcastLabels /\ pc'[n] \notin BroadcastLabels
          /\ results'[n] = Append(results[n], Decode(buffer[n]))
      <4>1. PICK S : results \in [Node -> Seq(S)]
        BY DEF State, Extents, SeqInv, Typed
      <4> QED
        BY <1>3, <2>4, <4>1 DEF Return, At, Goto, BroadcastLabels
    <3> QED
      BY <1>2, <1>5, <3>1 DEF Agreed
  <2> QED
    BY <2>1, <2>2, <2>3, <2>4 DEF Step
<1> QED
  BY <1>2, <1>4, <1>5

(* The vectors read from above stay right.                                 *)
LEMMA WireKept ==
  ASSUME Agreed' = Agreed
  PROVE  \A c, q : Wire(c, q)' = Wire(c, q)
BY DEF Wire

LEMMA RightKept ==
  ASSUME NEW m \in Node, UNCHANGED socks, UNCHANGED Own(m), Agreed' = Agreed
  PROVE  /\ Right(m)' <=> Right(m)
         /\ down'[m] = down[m] => (RightBelow(m)' <=> RightBelow(m))
<1>1. /\ DownGot(m)' = DownGot(m) /\ Current(m)' = Current(m) /\ buffer'[m] = buffer[m]
      /\ \A c, q : Wire(c, q)' = Wire(c, q)
  BY OwnViews, WireKept
<1>2. Right(m)' <=> Right(m)
  BY <1>1 DEF Right
<1> QED
  BY <1>1, <1>2 DEF RightBelow

-----------------------------------------------------------------------------
(* Steps that read and write no bytes.                                     *)

LEMMA SumKept ==
  ASSUME State, NEW m \in Node, SumInv(m), UNCHANGED socks,
         pc'[m] # "caller" /\ DownGot(m)' = 0 =>
           /\ pc[m] # "caller" /\ DownGot(m) = 0 /\ Current(m)' = Current(m)
           /\ \A s \in Side, c \in Node : Link(m, s, c) =>
                UpGot(m, s)' = UpGot(m, s) /\ (UpExact(m, s, c)' => UpExact(m, s, c))
           /\ \A e \in 1..Calls[Current(m)] :
                /\ Float(m, e)' = Float(m, e)
                /\ \A c \in ReadFrom(m, e) :
                     Current(c)' = Current(c) /\ Float(c, e)' = Float(c, e)
  PROVE  SumInv(m)'
<1> SUFFICES ASSUME pc'[m] # "caller", DownGot(m)' = 0, NoneLost(m)',
                    NEW e \in 1..Calls[Current(m)]',
                    \A c \in ReadFrom(m, e)' : RightSum(c, e)'
             PROVE  Float(m, e)'.terms =
                      SumOf({m} \cup UNION {Below(c)' : c \in ReadFrom(m, e)'}, Current(m)', e)
  BY DEF SumInv, SumOf
<1>1. /\ pc[m] # "caller" /\ DownGot(m) = 0 /\ Current(m)' = Current(m)
      /\ \A s \in Side, c \in Node : Link(m, s, c) =>
           UpGot(m, s)' = UpGot(m, s) /\ (UpExact(m, s, c)' => UpExact(m, s, c))
      /\ e \in 1..Calls[Current(m)] /\ Float(m, e)' = Float(m, e)
      /\ \A c \in ReadFrom(m, e) : Current(c)' = Current(c) /\ Float(c, e)' = Float(c, e)
  OBVIOUS
<1>2. \A s \in Side, c \in Node : Link(m, s, c)' <=> Link(m, s, c)
  BY DEF Link, socks
<1>3. \A c \in Node : Below(c)' = Below(c)
  BY DEF Below, socks
<1>4. ReadFrom(m, e)' = ReadFrom(m, e)
  BY <1>1, <1>2 DEF ReadFrom
<1>5. NoneLost(m)
  BY <1>1, <1>2 DEF NoneLost
<1>6. \A c \in ReadFrom(m, e) : RightSum(c, e)
  <2> SUFFICES ASSUME NEW c \in ReadFrom(m, e) PROVE RightSum(c, e)
    OBVIOUS
  <2>1. c \in Node /\ RightSum(c, e)'
    BY <1>4 DEF ReadFrom
  <2>2. Below(c)' = Below(c) /\ Current(c)' = Current(c) /\ Float(c, e)' = Float(c, e)
    BY <1>1, <1>3, <2>1
  <2>3. Float(c, e)'.terms = SumOf(Below(c)', Current(c)', e)
    BY <2>1 DEF RightSum, SumOf
  <2> QED
    BY <2>2, <2>3 DEF RightSum
<1>7. Float(m, e).terms = SumOf({m} \cup UNION {Below(c) : c \in ReadFrom(m, e)}, Current(m), e)
  BY <1>1, <1>5, <1>6 DEF SumInv
<1>8. {Below(c)' : c \in ReadFrom(m, e)'} = {Below(c) : c \in ReadFrom(m, e)}
  <2>1. ReadFrom(m, e) \subseteq Node
    BY DEF ReadFrom
  <2> QED
    BY <1>3, <1>4, <2>1
<1> QED
  BY <1>1, <1>7, <1>8

LEMMA FloatsKept ==
  ASSUME NEW m \in Node, FloatsInv(m), UNCHANGED socks,
         pc'[m] # "caller" /\ (DownGot(m)' = 0 \/ parent[m] = None) =>
           /\ pc[m] # "caller" /\ (DownGot(m) = 0 \/ parent[m] = None)
           /\ Current(m)' = Current(m) /\ buffer'[m] = buffer[m]
  PROVE  FloatsInv(m)'
<1>1. parent' = parent
  BY DEF socks
<1>2. buffer'[m] = buffer[m] => \A e : Float(m, e)' = Float(m, e)
  BY DEF Float
<1> QED
  BY <1>1, <1>2 DEF FloatsInv

(* A socket between two other nodes.                                       *)
LEMMA LinkElsewhere ==
  ASSUME State, FitsInt, NEW x \in Node, Alone(x), Agreed' = Agreed,
         NEW p \in Node \ {x}, NEW s \in Side, NEW n \in Node \ {x}, Link(p, s, n),
         LinkOK(p, s, n), up'[n] = up[n], down'[n] = down[n]
  PROVE  LinkOK(p, s, n)' /\ (UpExact(p, s, n)' => UpExact(p, s, n))
<1>1. UNCHANGED socks /\ UNCHANGED Own(p) /\ UNCHANGED Own(n)
  BY DEF Alone
<1>2. /\ Current(p)' = Current(p) /\ Current(n)' = Current(n)
      /\ UpGot(p, s)' = UpGot(p, s) /\ DownGot(n)' = DownGot(n)
      /\ UpSent(n)' = UpSent(n) /\ DownSent(p, s)' = DownSent(p, s)
      /\ pc'[p] = pc[p] /\ pc'[n] = pc[n] /\ Kept(p, s)' = Kept(p, s)
      /\ buffer'[n] = buffer[n]
  BY <1>1, OwnViews
<1>3. /\ Right(p)' <=> Right(p)
      /\ RightBelow(n)' <=> RightBelow(n)
  BY <1>1, RightKept
<1>4. /\ UpSent(n) \in Nat /\ DownSent(p, s) \in Nat
      /\ Behind(p, n) => pc[p] \notin BroadcastLabels
  BY LinkTypes DEF LinkOK, LinkInv
<1> QED
  BY <1>2, <1>3, <1>4, LinkQuiet

LEMMA QuietStep ==
  ASSUME State, FitsInt, BytesInv, NEW x \in Node, Alone(x), Agreed' = Agreed,
         up' = up, down' = down, results' = results, buffer'[x] = buffer[x],
         pc[x] # "caller", pc'[x] # "caller",
         pc[x] \in BroadcastLabels => pc'[x] \in BroadcastLabels,
         DownGot(x)' = DownGot(x), UpSent(x)' \in Nat, UpSent(x)' >= UpSent(x),
         \A s \in Linked(x) :
           /\ UpGot(x, s)' = UpGot(x, s)
           /\ DownSent(x, s)' \in Nat /\ DownSent(x, s)' >= DownSent(x, s)
           /\ DownSent(x, s)' # DownSent(x, s) => DownSent(x, s)' <= Bytes(x)
           /\ Len(Kept(x, s)') = 0 \/ Kept(x, s)' = Kept(x, s),
         \A s \in Side, c \in Node :
           Link(x, s, c) /\ Behind(x, c) => pc'[x] \notin BroadcastLabels
  PROVE  BytesInv'
<1>1. /\ \A m \in Node : FloatsInv(m) /\ SumInv(m)
      /\ \A p \in Node, s \in Side, n \in Node : Link(p, s, n) => LinkOK(p, s, n)
      /\ AgreedInv
  BY DEF BytesInv
<1>2. UNCHANGED socks /\ \A p \in Node, s \in Side, n \in Node : Link(p, s, n)' <=> Link(p, s, n)
  BY DEF Alone, socks, Link
<1>3. \A c, q : Wire(c, q)' = Wire(c, q)
  BY WireKept
<1>4. \A m \in Node : Current(m)' = Current(m)
  BY DEF Current
<1>5. \A m \in Node : /\ (Right(m)' <=> Right(m)) /\ (RightBelow(m)' <=> RightBelow(m))
                      /\ buffer'[m] = buffer[m] /\ DownGot(m)' = DownGot(m)
                      /\ pc'[m] # "caller" => pc[m] # "caller"
                      /\ \A e : Float(m, e)' = Float(m, e)
  <2> SUFFICES ASSUME NEW m \in Node
               PROVE  /\ (Right(m)' <=> Right(m)) /\ (RightBelow(m)' <=> RightBelow(m))
                      /\ buffer'[m] = buffer[m] /\ DownGot(m)' = DownGot(m)
                      /\ pc'[m] # "caller" => pc[m] # "caller"
                      /\ \A e : Float(m, e)' = Float(m, e)
    OBVIOUS
  <2>1. /\ buffer'[m] = buffer[m] /\ DownGot(m)' = DownGot(m)
        /\ pc'[m] # "caller" => pc[m] # "caller"
    BY OwnViews DEF Alone
  <2>2. \A e : Float(m, e)' = Float(m, e)
    BY <2>1 DEF Float
  <2> QED
    BY <1>3, <1>4, <2>1, <2>2 DEF Right, RightBelow
<1>6. ASSUME NEW p \in Node, NEW s \in Side, NEW n \in Node, Link(p, s, n)
      PROVE  LinkOK(p, s, n)' /\ (UpExact(p, s, n)' => UpExact(p, s, n))
  <2>1. /\ LinkOK(p, s, n) /\ s \in Linked(p) /\ n # p
        /\ UpSent(n) \in Nat /\ DownSent(p, s) \in Nat
        /\ Behind(p, n) => pc[p] \notin BroadcastLabels
    BY <1>1, <1>6, Links, LinkTypes DEF LinkOK, LinkInv, State
  <2>2. /\ UpSent(n)' \in Nat /\ UpSent(n)' >= UpSent(n)
        /\ pc[n] # "caller" => pc'[n] # "caller"
    BY <1>2, <2>1, OwnViews DEF Alone
  <2>3. /\ UpGot(p, s)' = UpGot(p, s)
        /\ DownSent(p, s)' \in Nat /\ DownSent(p, s)' >= DownSent(p, s)
        /\ DownSent(p, s)' # DownSent(p, s) => DownSent(p, s)' <= Bytes(p)
        /\ Len(Kept(p, s)') = 0 \/ Kept(p, s)' = Kept(p, s)
        /\ pc[p] \in BroadcastLabels => pc'[p] \in BroadcastLabels
        /\ Behind(p, n) => pc'[p] \notin BroadcastLabels
    BY <1>2, <1>6, <2>1, OwnViews DEF Alone
  <2> QED
    BY <1>4, <1>5, <1>6, <2>1, <2>2, <2>3, LinkQuiet
<1>7. ASSUME NEW m \in Node PROVE FloatsInv(m)' /\ SumInv(m)'
  <2>1. FloatsInv(m)'
    BY <1>1, <1>2, <1>4, <1>5, FloatsKept
  <2>2. \A s \in Side, c \in Node : Link(m, s, c) =>
          UpGot(m, s)' = UpGot(m, s) /\ (UpExact(m, s, c)' => UpExact(m, s, c))
    <3> SUFFICES ASSUME NEW s \in Side, NEW c \in Node, Link(m, s, c)
                 PROVE  UpGot(m, s)' = UpGot(m, s)
      BY <1>6
    <3>1. s \in Linked(m)
      BY Links DEF State
    <3> QED
      BY <1>2, <3>1, OwnViews DEF Alone
  <2>3. \A e : \A c \in ReadFrom(m, e) : Current(c)' = Current(c) /\ Float(c, e)' = Float(c, e)
    BY <1>4, <1>5 DEF ReadFrom
  <2>4. SumInv(m)'
    BY <1>1, <1>2, <1>4, <1>5, <2>2, <2>3, SumKept
  <2> QED
    BY <2>1, <2>4
<1>8. AgreedInv'
  BY <1>1 DEF AgreedInv
<1> QED
  BY <1>2, <1>6, <1>7, <1>8 DEF BytesInv

LEMMA QuietUp ==
  ASSUME State, FitsInt, BytesInv, NEW x \in Node,
         \/ NothingToPassUp(x) \/ PassedUp(x) \/ Select(x) \/ KeepPassing(x)
         \/ \E s \in Side : ReArm(x, s)
  PROVE  BytesInv'
<1>1. Alone(x) /\ Agreed' = Agreed
  <2>1. Step(x) /\ ~LeaveReduce(x)
    <3>1. NothingToPassUp(x) \/ PassedUp(x) => pc[x] # "select"
      BY DEF NothingToPassUp, PassedUp, PassesUp, At
    <3>2. Select(x) => ~AllRead(x)
      BY DEF Select
    <3>3. KeepPassing(x) => parent[x] # None /\ parent_sent_pos[x] < Bytes(x)
      BY DEF KeepPassing
    <3>4. LeaveReduce(x) => /\ pc[x] = "select" /\ AllRead(x)
                            /\ parent[x] = None \/ parent_sent_pos[x] >= Bytes(x)
      BY DEF LeaveReduce, At
    <3>5. (\E s \in Side : ReArm(x, s)) => pc[x] # "select"
      BY DEF ReArm, At, ReadLabel
    <3>6. pc[x] = "select" => Bytes(x) \in Nat /\ parent_sent_pos[x] \in Int
      BY CallSize DEF State, BooksInv, BookTypes
    <3> QED
      BY <3>1, <3>2, <3>3, <3>4, <3>5, <3>6 DEF Step, Reduce
  <2> QED
    BY <2>1, StepsAlone, AgreedKept
<1>2. pc \in [Node -> Labels] /\ written \in [Node -> Int] /\ parent_sent_pos \in [Node -> Int]
  BY DEF State, BooksInv, BookTypes, Extents, SeqInv
<1>3. /\ up' = up /\ down' = down /\ results' = results /\ buffer' = buffer
      /\ UNCHANGED <<child_read_pos, child_read_buf, spreading>>
      /\ pc[x] \in ReduceLabels /\ pc'[x] \in ReduceLabels
  <2>1. CASE NothingToPassUp(x) \/ PassedUp(x)
    BY <1>2, <2>1 DEF NothingToPassUp, PassedUp, PassesUp, At, Goto, ReduceLabels, reducing
  <2>2. CASE Select(x) \/ KeepPassing(x)
    BY <1>2, <2>2 DEF Select, KeepPassing, At, Goto, ReduceLabels, reducing
  <2>3. ASSUME NEW s \in Side, ReArm(x, s)
        PROVE  /\ up' = up /\ down' = down /\ results' = results /\ buffer' = buffer
               /\ UNCHANGED <<child_read_pos, child_read_buf, spreading>>
               /\ pc[x] \in ReduceLabels /\ pc'[x] \in ReduceLabels
    BY <1>2, <2>3 DEF ReArm, At, Goto, ReadLabel, AfterRead, ReduceLabels
  <2> QED
    BY <2>1, <2>2, <2>3
<1>4. /\ pc[x] # "caller" /\ pc'[x] # "caller"
      /\ pc[x] \notin BroadcastLabels /\ pc'[x] \notin BroadcastLabels
  BY <1>3 DEF ReduceLabels, BroadcastLabels
<1>5. UpSent(x) = parent_sent_pos[x] + written[x] /\ UpSent(x) \in Nat
  BY <1>3, <1>4, UpEnds DEF UpSent
<1>6. UpSent(x)' = parent_sent_pos'[x] + written'[x]
  BY <1>3, <1>4 DEF UpSent
<1>7. /\ parent_sent_pos'[x] + written'[x] \in Nat
      /\ parent_sent_pos'[x] + written'[x] >= parent_sent_pos[x] + written[x]
  <2>1. CASE PassedUp(x)
    <3>1. /\ pc[x] = "passUp" /\ parent[x] # None /\ UpSize(x) > 0
          /\ parent_sent_pos'[x] = parent_sent_pos[x] + UpSize(x) /\ written'[x] = 0
      BY <1>2, <2>1 DEF PassedUp, PassesUp, At
    <3>2. UpSize(x) \in Int /\ parent_sent_pos[x] \in Nat
      BY <1>4, PieceEnds DEF State
    <3>3. written[x] \in 0..UpSize(x)
      BY <3>1, <3>2 DEF State, Extents, ExtentInv, Passing, MaxOf
    <3> QED
      BY <3>1, <3>2, <3>3
  <2>2. CASE ~PassedUp(x)
    <3>1. parent_sent_pos' = parent_sent_pos /\ written' = written
      BY <2>2 DEF NothingToPassUp, Select, KeepPassing, ReArm, reducing
    <3> QED
      BY <1>2, <1>5, <3>1
  <2> QED
    BY <2>1, <2>2
<1>8. DownGot(x)' = DownGot(x) /\ \A s \in Linked(x) : DownSent(x, s)' = 0 /\ DownSent(x, s) = 0
  BY <1>4 DEF DownGot, DownSent
<1>9. \A s \in Linked(x) : UpGot(x, s)' = UpGot(x, s) /\ Kept(x, s)' = Kept(x, s)
  BY <1>3, <1>4 DEF UpGot, Kept
<1> QED
  BY <1>1, <1>3, <1>4, <1>5, <1>6, <1>7, <1>8, <1>9, QuietStep

LEMMA QuietLeave ==
  ASSUME State, FitsInt, BytesInv, NEW x \in Node, LeaveReduce(x), x # Root
  PROVE  BytesInv'
<1>1. Alone(x) /\ Agreed' = Agreed /\ parent[x] # None
  BY StepsAlone, AgreedKept, RootOnly DEF Step, Reduce, State
<1>2. /\ pc[x] = "select" /\ pc'[x] \in {"passLeft", "readDown"}
      /\ UNCHANGED <<socks, up, down, faults, written, buffer, child_read_pos,
                     child_read_buf, results>>
      /\ AllRead(x) /\ parent_sent_pos[x] >= Bytes(x)
      /\ parent_read_pos'[x] = 0
      /\ Linked(x) # {} => children_sent_pos'[x] = 0
  BY <1>1 DEF LeaveReduce, At, Goto, State, BooksInv, BookTypes
<1>3. /\ pc[x] # "caller" /\ pc'[x] # "caller" /\ pc[x] \in ReduceLabels
      /\ pc'[x] \in BroadcastLabels /\ pc[x] \notin BroadcastLabels /\ pc'[x] \notin ReduceLabels
  BY <1>2 DEF ReduceLabels, BroadcastLabels
<1>4. Bytes(x) \in Nat /\ Bytes(x) > 0 /\ Bytes(x)' = Bytes(x)
  BY <1>2, <1>3, CallSize DEF Bytes, Current
<1>5. written[x] = 0
  <2>1. Passing(x) = 0
    BY <1>2 DEF Passing
  <2> QED
    BY <2>1 DEF State, Extents, ExtentInv
<1>6. UpSent(x)' = Bytes(x) /\ UpSent(x) = Bytes(x)
  <2>1. UpSent(x) <= Bytes(x) /\ UpSent(x) \in Nat
    BY <1>1, <1>3, UpEnds
  <2>2. UpSent(x) = parent_sent_pos[x]
    <3>1. parent_sent_pos[x] \in Int
      BY DEF State, BooksInv, BookTypes
    <3> QED
      BY <1>3, <1>5, <3>1 DEF UpSent
  <2> QED
    BY <1>2, <1>3, <1>4, <2>1, <2>2 DEF UpSent
<1>7. \A s \in Linked(x) : UpGot(x, s)' = Bytes(x) /\ UpGot(x, s) = Bytes(x)
  <2> SUFFICES ASSUME NEW s \in Linked(x)
               PROVE  UpGot(x, s)' = Bytes(x) /\ UpGot(x, s) = Bytes(x)
    OBVIOUS
  <2>1. s \in Side
    BY DEF Linked
  <2>2. UpGot(x, s) = child_read_pos[x][s] /\ child_read_pos[x][s] >= Bytes(x)
    BY <1>2, <1>3, <2>1 DEF UpGot, AllRead
  <2>3. UpGot(x, s) <= Bytes(x) /\ UpGot(x, s) \in Nat
    BY <1>3, <2>1, UpEnds
  <2>4. UpGot(x, s) = Bytes(x)
    BY <1>4, <2>2, <2>3
  <2> QED
    BY <1>3, <1>4, <2>4 DEF UpGot
<1>8. DownGot(x)' = 0 /\ DownGot(x) = 0
  BY <1>2, <1>3 DEF DownGot
<1>9. \A s \in Linked(x) : DownSent(x, s)' = 0 /\ DownSent(x, s) = 0 /\ Len(Kept(x, s)') = 0
  BY <1>2, <1>3, <1>5 DEF DownSent, Kept
<1>10. \A s \in Side, c \in Node : Link(x, s, c) => ~Behind(x, c)
  BY <1>4, <1>7, Links DEF BytesInv, LinkOK, LinkInv, State
<1> QED
  BY <1>1, <1>2, <1>3, <1>4, <1>6, <1>7, <1>8, <1>9, <1>10, QuietStep

LEMMA QuietDown ==
  ASSUME State, FitsInt, BytesInv, NEW x \in Node,
         KeepSpreading(x) \/ \E s \in Side : PassedDown(x, s)
  PROVE  BytesInv'
<1>1. pc \in [Node -> Labels] /\ written \in [Node -> Int] /\ children_sent_pos \in [Node -> Int]
  BY DEF State, BooksInv, BookTypes, Extents, SeqInv
<1>2. /\ up' = up /\ down' = down /\ results' = results /\ buffer' = buffer
      /\ parent_read_pos' = parent_read_pos
      /\ pc[x] \in BroadcastLabels /\ pc'[x] \in BroadcastLabels
  <2>1. CASE KeepSpreading(x)
    BY <1>1, <2>1 DEF KeepSpreading, At, Goto, BroadcastLabels, spreading
  <2>2. ASSUME NEW s \in Side, PassedDown(x, s)
        PROVE  /\ up' = up /\ down' = down /\ results' = results /\ buffer' = buffer
               /\ parent_read_pos' = parent_read_pos
               /\ pc[x] \in BroadcastLabels /\ pc'[x] \in BroadcastLabels
    BY <1>1, <2>2 DEF PassedDown, At, Goto, BroadcastLabels, PassLabel
  <2> QED
    BY <2>1, <2>2
<1>3. /\ pc[x] # "caller" /\ pc'[x] # "caller"
      /\ pc[x] \notin ReduceLabels /\ pc'[x] \notin ReduceLabels
  BY <1>2 DEF ReduceLabels, BroadcastLabels
<1>4. Alone(x) /\ Agreed' = Agreed
  <2>1. Step(x) /\ ~LeaveReduce(x)
    BY <1>3 DEF Step, Broadcast, LeaveReduce, At, ReduceLabels
  <2> QED
    BY <2>1, StepsAlone, AgreedKept
<1>5. Bytes(x) \in Nat /\ Bytes(x) > 0 /\ Bytes(x)' = Bytes(x)
  BY <1>2, <1>3, CallSize DEF Bytes, Current
<1>6. /\ UpSent(x)' = Bytes(x) /\ UpSent(x) = Bytes(x) /\ DownGot(x)' = DownGot(x)
      /\ \A s \in Linked(x) : UpGot(x, s)' = UpGot(x, s) /\ Kept(x, s)' = Kept(x, s)
  BY <1>2, <1>3, <1>5 DEF UpSent, UpGot, Kept, DownGot
<1>7. \A s \in Side, c \in Node : Link(x, s, c) => ~Behind(x, c)
  BY <1>2 DEF BytesInv, LinkOK, LinkInv
<1>8. ASSUME NEW s \in Linked(x)
      PROVE  /\ DownSent(x, s)' \in Nat /\ DownSent(x, s)' >= DownSent(x, s)
             /\ DownSent(x, s)' # DownSent(x, s) => DownSent(x, s)' <= Bytes(x)
  <2>1. /\ s \in Side /\ parent_read_pos[x] \in Nat /\ children_sent_pos[x] \in Nat
        /\ children_sent_pos[x] + MaxOf(0, DownSize(x)) <= Bytes(x) /\ DownSize(x) \in Int
    BY <1>2, <1>3, PieceEnds DEF Linked, State
  <2>2. children_sent_pos[x] <= parent_read_pos[x]
    BY <1>2, <1>8 DEF State, BooksInv, NodeInv, DownInv
  <2>3. DownSize(x) \in Nat
    BY <2>1, <2>2, AllReduceAssumption DEF DownSize, MinOf
  <2>4. MaxOf(0, DownSize(x)) = DownSize(x)
    BY <2>3 DEF MaxOf
  <2>5. written[x] \in 0..Passing(x)
    BY DEF State, Extents, ExtentInv
  <2>6. CASE KeepSpreading(x)
    <3>1. pc[x] = "readDown" /\ pc'[x] = "passLeft" /\ written' = written
          /\ children_sent_pos' = children_sent_pos
      BY <1>1, <2>6 DEF KeepSpreading, At, Goto, spreading
    <3>2. written[x] = 0
      BY <2>5, <3>1 DEF Passing
    <3> QED
      BY <1>2, <2>1, <3>1, <3>2 DEF DownSent, PassLabel, Side
  <2>7. CASE PassedDown(x, 0)
    <3>1. /\ pc[x] = "passLeft" /\ pc'[x] = "passRight" /\ written'[x] = 0
          /\ children_sent_pos' = children_sent_pos
      BY <1>1, <2>7 DEF PassedDown, At, Goto, PassLabel
    <3>2. DownSize(x)' = DownSize(x)
      BY <1>2, <3>1 DEF DownSize, MinOf
    <3>3. written[x] \in 0..DownSize(x)
      BY <2>4, <2>5, <3>1 DEF Passing
    <3>4. /\ DownSent(x, 0) = children_sent_pos[x] + written[x]
          /\ DownSent(x, 0)' = children_sent_pos[x] + DownSize(x)
          /\ DownSent(x, 1) = children_sent_pos[x]
          /\ DownSent(x, 1)' = children_sent_pos[x] + 0
      BY <1>2, <3>1, <3>2 DEF DownSent, PassLabel
    <3> QED
      BY <2>1, <2>3, <2>4, <3>3, <3>4 DEF Side
  <2>8. CASE PassedDown(x, 1)
    <3>1. /\ pc[x] = "passRight" /\ pc'[x] = "readDown"
          /\ children_sent_pos'[x] = children_sent_pos[x] + DownSize(x)
      BY <1>1, <2>4, <2>8 DEF PassedDown, At, Goto, PassLabel
    <3>3. written[x] \in 0..DownSize(x)
      BY <2>4, <2>5, <3>1 DEF Passing
    <3>4. /\ DownSent(x, 0) = children_sent_pos[x] + DownSize(x)
          /\ DownSent(x, 0)' = children_sent_pos[x] + DownSize(x)
          /\ DownSent(x, 1) = children_sent_pos[x] + written[x]
          /\ DownSent(x, 1)' = children_sent_pos[x] + DownSize(x)
      BY <1>2, <3>1 DEF DownSent, PassLabel
    <3> QED
      BY <2>1, <2>3, <2>4, <3>3, <3>4 DEF Side
  <2> QED
    BY <2>6, <2>7, <2>8 DEF Side
<1> QED
  BY <1>2, <1>3, <1>4, <1>5, <1>6, <1>7, <1>8, QuietStep

-----------------------------------------------------------------------------
(* Floats and their bytes: byte k of float e is byte BytePos(e, k) of the  *)
(* buffer.                                                                 *)
BytePos(e, k) == (e - 1) * FloatSize + k + 1
FloatNo(q)    == ((q - 1) \div FloatSize) + 1
ByteNo(q)     == (q - 1) % FloatSize

LEMMA ByteOf ==
  ASSUME NEW e \in Nat, e > 0, NEW k \in 0..(FloatSize - 1)
  PROVE  /\ BytePos(e, k) \in Nat /\ BytePos(e, k) > 0
         /\ BytePos(e, k) <= e * FloatSize /\ BytePos(e, k) > (e - 1) * FloatSize
         /\ FloatNo(BytePos(e, k)) = e /\ ByteNo(BytePos(e, k)) = k
         /\ e * FloatSize \in Nat /\ (e - 1) * FloatSize \in Nat
         /\ e * FloatSize = (e - 1) * FloatSize + FloatSize
<1>1. \A f \in Nat \ {0} : \A j \in 0..(f - 1), d \in Nat :
        /\ d * f \in Nat /\ (d * f + j) \div f = d /\ (d * f + j) % f = j
        /\ (d + 1) * f = d * f + f
  OBVIOUS
<1> DEFINE d == e - 1
           a == d * FloatSize
<1>2. /\ FloatSize \in Nat /\ FloatSize > 0 /\ d \in Nat /\ k \in Nat /\ k < FloatSize
      /\ e = d + 1
  BY AllReduceAssumption
<1>3. /\ a \in Nat /\ (a + k) \div FloatSize = d /\ (a + k) % FloatSize = k
      /\ (d + 1) * FloatSize = a + FloatSize
  BY <1>1, <1>2
<1> HIDE DEF a
<1>4. (a + k + 1) - 1 = a + k
  BY <1>2, <1>3
<1>5. e * FloatSize = a + FloatSize
  BY <1>2, <1>3
<1>6. BytePos(e, k) = a + k + 1
  BY DEF BytePos, a
<1>7. FloatNo(BytePos(e, k)) = e /\ ByteNo(BytePos(e, k)) = k
  BY <1>2, <1>3, <1>4, <1>6 DEF FloatNo, ByteNo
<1> QED
  BY <1>2, <1>3, <1>5, <1>6, <1>7 DEF a

LEMMA FloatOf ==
  ASSUME NEW count \in Nat, NEW q \in 1..(count * FloatSize)
  PROVE  /\ FloatNo(q) \in 1..count /\ ByteNo(q) \in 0..(FloatSize - 1)
         /\ q = BytePos(FloatNo(q), ByteNo(q))
<1>1. \A f \in Nat \ {0}, n \in Nat, p \in Nat : p < n * f =>
        /\ p \div f \in Nat /\ p \div f < n /\ p % f \in 0..(f - 1)
        /\ p = (p \div f) * f + (p % f)
  OBVIOUS
<1>2. FloatSize \in Nat \ {0} /\ q - 1 \in Nat /\ count * FloatSize \in Nat /\ q \in Nat
  BY AllReduceAssumption
<1> DEFINE p == q - 1
           d == p \div FloatSize
           k == p % FloatSize
<1>3. p \in Nat /\ p < count * FloatSize /\ q = p + 1
  BY <1>2
<1>4. /\ d \in Nat /\ d < count /\ k \in 0..(FloatSize - 1)
      /\ p = d * FloatSize + k
  BY <1>1, <1>2, <1>3
<1>5. FloatNo(q) = d + 1 /\ ByteNo(q) = k
  BY DEF FloatNo, ByteNo
<1> HIDE DEF p, d, k
<1>6. (d + 1) - 1 = d
  BY <1>4
<1>7. q = BytePos(d + 1, k)
  BY <1>3, <1>4, <1>6 DEF BytePos
<1> QED
  BY <1>4, <1>5, <1>7

LEMMA FloatEnds ==
  ASSUME NEW e \in Nat, e > 0, NEW count \in Nat, e <= count
  PROVE  e * FloatSize \in Nat /\ count * FloatSize \in Nat /\ e * FloatSize <= count * FloatSize
<1>1. \A f \in Nat, a \in Nat, b \in Nat : a <= b => a * f <= b * f /\ a * f \in Nat /\ b * f \in Nat
  OBVIOUS
<1> QED
  BY <1>1, AllReduceAssumption

(* Whose bytes are those of v is v.                                        *)
Holds(bytes, e, v) == \A k \in 0..(FloatSize - 1) : bytes[BytePos(e, k)] = <<v, k>>

LEMMA FloatHeld ==
  ASSUME NEW bytes, NEW e, NEW v, Holds(bytes, e, v)
  PROVE  FloatAt(bytes, e) = v
<1> DEFINE part == [k \in 0..(FloatSize - 1) |-> bytes[(e - 1) * FloatSize + k + 1]]
<1>1. 0 \in 0..(FloatSize - 1)
  BY AllReduceAssumption
<1>2. \A k \in 0..(FloatSize - 1) : part[k] = <<v, k>>
  BY DEF Holds, BytePos
<1>3. part[0] = <<v, 0>>
  BY <1>1, <1>2
<1>4. FloatAt(bytes, e) =
        IF \A k \in 0..(FloatSize - 1) : part[k] = <<part[0][1], k>>
          THEN part[0][1] ELSE Garbage
  BY DEF FloatAt
<1> HIDE DEF part
<1>5. part[0][1] = v
  BY <1>3
<1> QED
  BY <1>2, <1>4, <1>5

(* The bytes of a buffer of count floats are those of its floats.          *)
Whole(bytes, count) == \A e \in 1..count : Holds(bytes, e, FloatAt(bytes, e))

LEMMA WholeBytes ==
  ASSUME NEW bytes, NEW count \in Nat, Whole(bytes, count), NEW q \in 1..(count * FloatSize)
  PROVE  bytes[q] = <<FloatAt(bytes, FloatNo(q)), ByteNo(q)>>
BY FloatOf DEF Whole, Holds

LEMMA Encoded ==
  ASSUME NEW floats, NEW count \in Nat, Len(floats) = count
  PROVE  /\ \A e \in 1..count : FloatAt(Encode(floats), e) = floats[e]
         /\ Whole(Encode(floats), count)
<1>1. ASSUME NEW e \in 1..count PROVE Holds(Encode(floats), e, floats[e])
  <2> SUFFICES ASSUME NEW k \in 0..(FloatSize - 1)
               PROVE  Encode(floats)[BytePos(e, k)] = <<floats[e], k>>
    BY DEF Holds
  <2> DEFINE q == BytePos(e, k)
  <2>0. e \in Nat /\ e > 0 /\ e <= count
    OBVIOUS
  <2>1. /\ q \in Nat /\ q > 0 /\ q <= e * FloatSize
        /\ FloatNo(q) = e /\ ByteNo(q) = k
    BY <2>0, ByteOf
  <2>2. e * FloatSize <= count * FloatSize /\ e * FloatSize \in Nat /\ count * FloatSize \in Nat
    BY <2>0, FloatEnds
  <2>3. q \in 1..(Len(floats) * FloatSize)
    BY <2>1, <2>2
  <2> HIDE DEF q
  <2>4. Encode(floats)[q] = <<floats[FloatNo(q)], ByteNo(q)>>
    BY <2>3 DEF Encode, FloatNo, ByteNo
  <2> QED
    BY <2>1, <2>4 DEF q
<1> QED
  BY <1>1, FloatHeld DEF Whole

(* addbufs adds to the floats it covers, and leaves the others alone.      *)
LEMMA Added ==
  ASSUME NEW bytes, NEW from \in Nat, NEW floats, NEW count \in Nat,
         Len(bytes) = count * FloatSize, Len(floats) \in Nat
  PROVE  /\ Whole(AddBufs(bytes, from, floats), count)
         /\ \A e \in 1..count :
              FloatAt(AddBufs(bytes, from, floats), e) =
                IF e > from /\ e <= from + Len(floats)
                  THEN Add(FloatAt(bytes, e), floats[e - from]) ELSE FloatAt(bytes, e)
<1>1. (count * FloatSize) \div FloatSize = count
  <2>1. \A f \in Nat \ {0} : (count * f) \div f = count
    OBVIOUS
  <2> QED
    BY <2>1, AllReduceAssumption
<1> DEFINE old == Decode(bytes)
           Covered(e) == e > from /\ e <= from + Len(floats)
           sums == [e \in 1..Len(old) |->
                      IF Covered(e) THEN Add(old[e], floats[e - from]) ELSE old[e]]
<1>2. Len(old) = count /\ \A e \in 1..count : old[e] = FloatAt(bytes, e)
  BY <1>1 DEF Decode
<1>3. AddBufs(bytes, from, floats) = Encode(sums)
  BY DEF AddBufs
<1> HIDE DEF old
<1>4. Len(sums) = count
  BY <1>2
<1>5. \A e \in 1..count :
        sums[e] = IF e > from /\ e <= from + Len(floats)
                    THEN Add(FloatAt(bytes, e), floats[e - from]) ELSE FloatAt(bytes, e)
  BY <1>2
<1> HIDE DEF sums
<1> QED
  BY <1>3, <1>4, <1>5, Encoded

-----------------------------------------------------------------------------
(* Steps that move bytes.  The sockets that are not the node's, and what   *)
(* the other nodes have added up, stay as they are.                        *)

(* What a node has read before broadcast, in the call it is in.            *)
LEMMA ReadSame ==
  ASSUME State, FitsInt, NEW p \in Node, NEW s \in Side, NEW n \in Node, Link(p, s, n),
         LinkInv(p, s, n), pc[p] # "caller", DownGot(p) = 0, UpGot(p, s) > 0
  PROVE  /\ Current(n) = Current(p) /\ pc[n] # "caller"
         /\ UpTaken(p, s, n) = UpGot(p, s) /\ UpGot(p, s) <= UpSent(n)
         /\ DownSent(p, s) = 0 /\ DownGot(n) = 0
<1>1. /\ Current(n) \in Nat /\ Current(p) \in Nat /\ UpGot(p, s) \in Nat
      /\ UpTaken(p, s, n) \in Nat /\ UpSent(n) \in Nat /\ Len(up[n]) \in Nat
      /\ UpTaken(p, s, n) + Len(up[n]) <= UpSent(n)
      /\ DownGot(n) \in Nat /\ DownSent(p, s) \in Nat /\ Len(down[n]) \in Nat
      /\ DownGot(n) + Len(down[n]) <= DownGiven(p, s, n)
  BY LinkTypes
<1>2. Bytes(p) \in Nat /\ Bytes(p) > 0
  BY CallSize
<1>3. DownSent(p, s) = 0
  <2>1. s \in Linked(p)
    BY Links DEF State
  <2> QED
    BY <1>1, <2>1, DownEnds
<1>4. ~Ahead(p, n)
  <2>1. Ahead(p, n) => DownSent(p, s) = Bytes(p)
    BY DEF LinkInv
  <2> QED
    BY <1>2, <1>3, <2>1
<1>5. ~Behind(p, n)
  BY DEF LinkInv
<1>6. UpTaken(p, s, n) = UpGot(p, s) /\ DownGiven(p, s, n) = DownSent(p, s)
  BY <1>4, <1>5 DEF UpTaken, DownGiven
<1>7. Current(n) = Current(p)
  BY <1>1, <1>4, <1>5 DEF Ahead, Behind
<1>8. UpSent(n) > 0
  BY <1>1, <1>6
<1> QED
  BY <1>1, <1>3, <1>6, <1>7, <1>8 DEF UpSent

LEMMA MovingStep ==
  ASSUME State, FitsInt, BytesInv, NEW x \in Node, Alone(x), Agreed' = Agreed, AgreedInv',
         FloatsInv(x)', SumInv(x)',
         \A s \in Side, c \in Node : Link(x, s, c) => LinkOK(x, s, c)',
         \A p \in Node, s \in Side : Link(p, s, x) =>
           LinkOK(p, s, x)' /\ (UpExact(p, s, x)' => UpExact(p, s, x)),
         \A p \in Node \ {x}, s \in Side, n \in Node \ {x} : Link(p, s, n) =>
           up'[n] = up[n] /\ down'[n] = down[n],
         \A p \in Node, s \in Side, e \in Nat :
           Link(p, s, x) /\ Current(x) = Current(p) /\ e \in 1..Calls[Current(p)]
             /\ e * FloatSize <= UpGot(p, s) /\ UpGot(p, s) <= UpSent(x)
             /\ DownGot(x) = 0 /\ DownSent(p, s) = 0 /\ pc[x] # "caller" /\ pc[p] # "caller" =>
               Current(x)' = Current(x) /\ Float(x, e)' = Float(x, e)
  PROVE  BytesInv'
<1>1. /\ \A m \in Node : FloatsInv(m) /\ SumInv(m)
      /\ \A p \in Node, s \in Side, n \in Node : Link(p, s, n) => LinkOK(p, s, n)
  BY DEF BytesInv
<1>2. UNCHANGED socks /\ \A p \in Node, s \in Side, n \in Node : Link(p, s, n)' <=> Link(p, s, n)
  BY DEF Alone, socks, Link
<1>3. ASSUME NEW p \in Node \ {x}, NEW s \in Side, NEW n \in Node, Link(p, s, n)
      PROVE  LinkOK(p, s, n)' /\ (UpExact(p, s, n)' => UpExact(p, s, n))
  <2>1. CASE n = x
    BY <1>3, <2>1
  <2>2. CASE n # x
    BY <1>1, <1>3, <2>2, LinkElsewhere
  <2> QED
    BY <2>1, <2>2
<1>4. ASSUME NEW m \in Node \ {x} PROVE FloatsInv(m)' /\ SumInv(m)'
  <2>1. /\ Current(m)' = Current(m) /\ DownGot(m)' = DownGot(m) /\ pc'[m] = pc[m]
        /\ buffer'[m] = buffer[m] /\ \A e : Float(m, e)' = Float(m, e)
        /\ \A s \in Side : UpGot(m, s)' = UpGot(m, s)
    BY OwnViews DEF Alone
  <2>2. FloatsInv(m)'
    BY <1>1, <1>2, <2>1, FloatsKept
  <2>3. ASSUME pc[m] # "caller", DownGot(m) = 0, NEW e \in 1..Calls[Current(m)],
               NEW c \in ReadFrom(m, e)
        PROVE  Current(c)' = Current(c) /\ Float(c, e)' = Float(c, e)
    <3>1. PICK s \in Side : Link(m, s, c) /\ e * FloatSize <= UpGot(m, s)
      BY DEF ReadFrom
    <3>2. c \in Node /\ LinkInv(m, s, c)
      BY <1>1, <3>1 DEF ReadFrom, LinkOK
    <3>3. CASE c # x
      BY <3>2, <3>3, OwnViews DEF Alone
    <3>4. CASE c = x
      <4>1. e \in Nat /\ e * FloatSize \in Nat /\ e * FloatSize > 0
        <5>1. \A a \in Nat \ {0}, f \in Nat \ {0} : a * f \in Nat /\ a * f > 0
          OBVIOUS
        <5>2. e \in Nat \ {0} /\ FloatSize \in Nat \ {0}
          BY AllReduceAssumption
        <5> QED
          BY <5>1, <5>2
      <4>2. UpGot(m, s) > 0
        BY <3>1, <4>1, UpEnds
      <4>3. /\ Current(c) = Current(m) /\ UpGot(m, s) <= UpSent(c)
            /\ DownGot(c) = 0 /\ DownSent(m, s) = 0 /\ pc[c] # "caller"
        BY <2>3, <3>1, <3>2, <4>2, ReadSame
      <4> QED
        BY <2>3, <3>1, <3>4, <4>1, <4>3
    <3> QED
      BY <3>3, <3>4
  <2>4. SumInv(m)'
    BY <1>1, <1>2, <1>3, <2>1, <2>3, SumKept
  <2> QED
    BY <2>2, <2>4
<1>5. \A p \in Node, s \in Side, n \in Node : Link(p, s, n)' => LinkOK(p, s, n)'
  BY <1>2, <1>3
<1>6. \A m \in Node : FloatsInv(m)' /\ SumInv(m)'
  BY <1>4
<1> QED
  BY <1>5, <1>6 DEF BytesInv

LEMMA CallBytes ==
  ASSUME State, FitsInt, BytesInv, NEW x \in Node, Call(x)
  PROVE  BytesInv'
<1> DEFINE call == Current(x)
           size == Calls[call]
           mine == [e \in 1..size |-> Local(x, call, e)]
<1>1. /\ pc[x] = "caller" /\ pc'[x] = "passUp" /\ call <= Len(Calls)
      /\ UNCHANGED <<socks, up, down, faults, written, spreading, results>>
      /\ buffer'[x] = Encode(mine)
      /\ \A s \in Linked(x) : child_read_pos'[x][s] = 0
      /\ child_read_buf'[x] = [s \in Side |-> <<>>]
      /\ parent_sent_pos'[x] = 0
  <2>1. /\ pc \in [Node -> Labels] /\ child_read_pos \in [Node -> [Side -> Int]]
        /\ parent_sent_pos \in [Node -> Int]
    BY DEF State, BooksInv, BookTypes
  <2>2. PICK S : buffer \in [Node -> Seq(S)]
    BY DEF State, Extents, SeqInv, Typed
  <2>3. PICK B : child_read_buf \in [Node -> [Side -> Seq(B)]]
    BY DEF State, Extents, SeqInv
  <2>4. \A s \in Linked(x) : s \in Side
    BY DEF Linked
  <2> QED
    BY <2>1, <2>2, <2>3, <2>4 DEF Call, At, Goto
<1>2. Step(x) /\ ~LeaveReduce(x)
  BY <1>1 DEF Step, LeaveReduce, At
<1>3. Alone(x) /\ Agreed' = Agreed
  BY <1>2, StepsAlone, AgreedKept
<1>4. call \in 1..Len(Calls) /\ size \in Nat /\ size > 0 /\ Current(x)' = call
  BY <1>1, Sequences, AllReduceAssumption DEF Current
<1>5. pc'[x] # "caller" /\ pc'[x] \in ReduceLabels /\ pc'[x] \notin BroadcastLabels
      /\ pc[x] \notin BroadcastLabels
  BY <1>1 DEF ReduceLabels, BroadcastLabels
<1>6. written[x] = 0
  <2>1. Passing(x) = 0
    BY <1>1 DEF Passing
  <2> QED
    BY <2>1 DEF State, Extents, ExtentInv
<1>7. /\ UpSent(x) = 0 /\ UpSent(x)' = 0 /\ DownGot(x) = 0 /\ DownGot(x)' = 0
      /\ \A s \in Side : DownSent(x, s) = 0 /\ DownSent(x, s)' = 0
      /\ \A s \in Side : Len(Kept(x, s)') = 0
      /\ \A s \in Linked(x) : UpGot(x, s) = 0 /\ UpGot(x, s)' = 0
  <2>1. UpSent(x) = 0 /\ DownGot(x) = 0 /\ \A s \in Side : DownSent(x, s) = 0
    BY <1>1, <1>5 DEF UpSent, DownGot, DownSent
  <2>2. DownGot(x)' = 0 /\ \A s \in Side : DownSent(x, s)' = 0
    BY <1>5 DEF DownGot, DownSent
  <2>3. UpSent(x)' = 0
    BY <1>1, <1>5, <1>6 DEF UpSent
  <2>4. \A s \in Side : Kept(x, s)' = <<>>
    BY <1>1, <1>5 DEF Kept
  <2>5. \A s \in Linked(x) : UpGot(x, s) = 0 /\ UpGot(x, s)' = 0
    BY <1>1, <1>5 DEF UpGot
  <2> QED
    BY <2>1, <2>2, <2>3, <2>4, <2>5
<1>8. \A p \in Node, s \in Side, n \in Node : Link(p, s, n) => LinkOK(p, s, n)
  BY DEF BytesInv
<1>9. \A m \in Node : (Right(m)' => Right(m)) /\ (RightBelow(m) => RightBelow(m)')
  <2>1. \A c, q : Wire(c, q)' = Wire(c, q)
    BY <1>3, WireKept
  <2>2. Right(x)' /\ Right(x)
    BY <1>7 DEF Right
  <2>3. RightBelow(x) => RightBelow(x)'
    BY <1>1, <1>4, <1>7, <2>1, <2>2 DEF RightBelow
  <2>4. \A m \in Node \ {x} : (Right(m)' => Right(m)) /\ (RightBelow(m) => RightBelow(m)')
    BY <1>1, <1>3, RightKept DEF Alone
  <2> QED
    BY <2>2, <2>3, <2>4
<1>10. ASSUME NEW s \in Side, NEW c \in Node, Link(x, s, c) PROVE LinkOK(x, s, c)'
  <2>1. /\ s \in Linked(x) /\ c # x /\ LinkOK(x, s, c) /\ UpSent(c) \in Nat
    BY <1>8, <1>10, Links, UpEnds DEF State
  <2>2. /\ Current(c)' = Current(c) /\ DownGot(c)' = DownGot(c) /\ UpSent(c)' = UpSent(c)
        /\ pc'[c] = pc[c] /\ buffer'[c] = buffer[c]
    BY <1>3, <2>1, OwnViews DEF Alone
  <2> QED
    BY <1>1, <1>4, <1>5, <1>7, <1>9, <1>10, <2>1, <2>2, LinkQuiet
<1>11. ASSUME NEW p \in Node, NEW s \in Side, Link(p, s, x)
       PROVE  LinkOK(p, s, x)' /\ (UpExact(p, s, x)' => UpExact(p, s, x))
  <2>1. /\ s \in Linked(p) /\ p # x /\ LinkOK(p, s, x) /\ DownSent(p, s) \in Nat
    BY <1>8, <1>11, Links, DownEnds DEF State
  <2>2. /\ Current(p)' = Current(p) /\ UpGot(p, s)' = UpGot(p, s)
        /\ DownSent(p, s)' = DownSent(p, s) /\ pc'[p] = pc[p] /\ Kept(p, s)' = Kept(p, s)
    BY <1>3, <2>1, OwnViews DEF Alone
  <2>3. Behind(p, x) => pc[p] \notin BroadcastLabels
    BY <2>1 DEF LinkOK, LinkInv
  <2>4. \A q \in 1..UpSent(x) : buffer'[x][q] = buffer[x][q]
    BY <1>7
  <2> QED
    BY <1>1, <1>4, <1>5, <1>7, <1>9, <1>11, <2>1, <2>2, <2>3, <2>4, LinkQuiet
<1>12. Len(mine) = size /\ \A e \in 1..size : mine[e] = Local(x, call, e)
  BY <1>4
<1>13. /\ \A e \in 1..size : FloatAt(Encode(mine), e) = Local(x, call, e)
       /\ Whole(Encode(mine), size)
  <2> HIDE DEF mine
  <2> QED
    BY <1>4, <1>12, Encoded
<1>14. \A e \in 1..size : Float(x, e)' = Local(x, call, e)
  BY <1>1, <1>13 DEF Float
<1>15. FloatsInv(x)'
  <2> DEFINE bytes == Encode(mine)
  <2>1. buffer'[x] = bytes
    BY <1>1
  <2>2. \A e \in 1..size, k \in 0..(FloatSize - 1) :
          bytes[BytePos(e, k)] = <<FloatAt(bytes, e), k>>
    BY <1>13 DEF Whole, Holds
  <2> HIDE DEF bytes
  <2>3. \A e : Float(x, e)' = FloatAt(bytes, e)
    BY <2>1 DEF Float
  <2>4. \A e \in 1..size, k \in 0..(FloatSize - 1) :
          buffer'[x][BytePos(e, k)] = <<Float(x, e)', k>>
    BY <2>1, <2>2, <2>3
  <2> QED
    BY <1>4, <2>4 DEF FloatsInv, BytePos
<1>16. SumInv(x)'
  <2> SUFFICES ASSUME NEW e \in 1..size
               PROVE  Float(x, e)'.terms =
                        SumOf({x} \cup UNION {Below(c)' : c \in ReadFrom(x, e)'}, call, e)
    BY <1>4 DEF SumInv, SumOf
  <2>1. e * FloatSize \in Nat /\ e * FloatSize > 0
    <3>1. \A a \in Nat \ {0}, f \in Nat \ {0} : a * f \in Nat /\ a * f > 0
      OBVIOUS
    <3>2. e \in Nat \ {0} /\ FloatSize \in Nat \ {0}
      BY AllReduceAssumption
    <3> QED
      BY <3>1, <3>2
  <2>2. \A s \in Side, c \in Node : Link(x, s, c)' => s \in Linked(x)
    BY <1>1, Links DEF Link, socks, State
  <2>3. ReadFrom(x, e)' = {}
    BY <1>7, <2>1, <2>2 DEF ReadFrom
  <2>4. Float(x, e)'.terms = SetToBag({<<x, call, e>>})
    BY <1>14 DEF Local
  <2>5. {<<m, call, e>> : m \in {x} \cup UNION {Below(c)' : c \in ReadFrom(x, e)'}}
          = {<<x, call, e>>}
    BY <2>3
  <2> QED
    BY <2>4, <2>5 DEF SumOf
<1>17. AgreedInv'
  BY <1>1, <1>3 DEF BytesInv, AgreedInv
<1> QED
  BY <1>1, <1>3, <1>10, <1>11, <1>15, <1>16, <1>17, <1>1, MovingStep

LEMMA PartAt ==
  ASSUME NEW s, IsSeq(s), NEW a \in Nat, NEW b \in Nat, a <= b, b <= Len(s)
  PROVE  \A k \in 1..(b - a) : SubSeq(s, a + 1, b)[k] = s[a + k]
<1>1. PICK S : s \in Seq(S)
  BY DEF IsSeq
<1> QED
  BY <1>1

LEMMA ConcatAt ==
  ASSUME NEW s, IsSeq(s), NEW t, IsSeq(t)
  PROVE  /\ \A k \in 1..Len(s) : (s \o t)[k] = s[k]
         /\ \A k \in 1..Len(t) : (s \o t)[Len(s) + k] = t[k]
         /\ \A k \in (Len(s) + 1)..(Len(s) + Len(t)) : (s \o t)[k] = t[k - Len(s)]
<1>1. PICK S : s \in Seq(S)
  BY DEF IsSeq
<1>2. PICK T : t \in Seq(T)
  BY DEF IsSeq
<1>3. s \in Seq(S \cup T) /\ t \in Seq(S \cup T)
  BY <1>1, <1>2
<1> QED
  BY <1>3

(* A write() appends bytes of the buffer to a socket.                      *)
WithPiece(pipe, n, pos, count) == pipe \o Piece(n, pos, count)

CanWrite(pipe, n, pos, count) ==
  /\ IsSeq(pipe) /\ Len(pipe) \in Nat /\ IsSeq(buffer[n]) /\ Len(buffer[n]) \in Nat
  /\ pos \in Nat /\ written[n] \in Nat /\ count \in Nat
  /\ pos + written[n] + count <= Len(buffer[n])

IsAppended(sent, pipe, n, pos, count) ==
  /\ Len(sent) = Len(pipe) + count
  /\ \A k \in 1..Len(pipe) : sent[k] = pipe[k]
  /\ \A k \in (Len(pipe) + 1)..(Len(pipe) + count) :
       sent[k] = buffer[n][pos + written[n] + (k - Len(pipe))]

LEMMA Appended ==
  ASSUME NEW pipe, NEW n \in Node, NEW pos, NEW count, CanWrite(pipe, n, pos, count)
  PROVE  IsAppended(WithPiece(pipe, n, pos, count), pipe, n, pos, count)
<1> DEFINE sent == WithPiece(pipe, n, pos, count)
           a == pos + written[n]
           bytes == buffer[n]
           piece == SubSeq(bytes, a + 1, a + count)
<1>1. /\ a \in Nat /\ count \in Nat /\ a + count <= Len(bytes) /\ Len(pipe) \in Nat
      /\ IsSeq(pipe) /\ IsSeq(bytes)
  BY DEF CanWrite
<1>2. piece = Piece(n, pos, count)
  BY DEF Piece
<1> HIDE DEF a, bytes
<1>3. a + count \in Nat /\ a <= a + count /\ (a + count) - a = count
  BY <1>1
<1>4. IsSeq(piece) /\ Len(piece) = count
  BY <1>1, <1>3, SeqPart
<1>5. \A k \in 1..count : piece[k] = bytes[a + k]
  BY <1>1, <1>3, PartAt
<1>6. sent = pipe \o piece
  BY <1>2 DEF WithPiece
<1> HIDE DEF piece, sent
<1>7. Len(sent) = Len(pipe) + count
  BY <1>1, <1>4, <1>6, SeqConcat
<1>8. /\ \A k \in 1..Len(pipe) : sent[k] = pipe[k]
      /\ \A k \in (Len(pipe) + 1)..(Len(pipe) + count) : sent[k] = piece[k - Len(pipe)]
  BY <1>1, <1>4, <1>6, ConcatAt
<1>9. ASSUME NEW k \in (Len(pipe) + 1)..(Len(pipe) + count)
      PROVE  sent[k] = bytes[a + (k - Len(pipe))]
  <2> DEFINE j == k - Len(pipe)
  <2>1. sent[k] = piece[j]
    BY ONLY <1>8, k \in (Len(pipe) + 1)..(Len(pipe) + count)
  <2>2. j \in 1..count
    BY <1>1
  <2> HIDE DEF j
  <2>3. sent[k] = bytes[a + j]
    BY <1>5, <2>1, <2>2
  <2> QED
    BY <2>3 DEF j
<1> QED
  BY <1>7, <1>8, <1>9 DEF IsAppended, a, bytes, sent

(* What a node that writes does not change.                                *)
LEMMA FloatsOfWriter ==
  ASSUME State, FitsInt, NEW x \in Node, FloatsInv(x), SumInv(x), UNCHANGED socks,
         buffer'[x] = buffer[x], results'[x] = results[x], DownGot(x)' = DownGot(x),
         pc[x] # "caller", pc'[x] # "caller", Alone(x),
         \A s \in Side, c \in Node : Link(x, s, c) =>
           UpGot(x, s)' = UpGot(x, s) /\ (UpExact(x, s, c)' => UpExact(x, s, c))
  PROVE  FloatsInv(x)' /\ SumInv(x)'
<1>1. Current(x)' = Current(x) /\ \A e : Float(x, e)' = Float(x, e)
  BY DEF Current, Float
<1>2. FloatsInv(x)'
  BY <1>1, FloatsKept
<1>3. \A e : \A c \in ReadFrom(x, e) : Current(c)' = Current(c) /\ Float(c, e)' = Float(c, e)
  <2> SUFFICES ASSUME NEW e, NEW c \in ReadFrom(x, e)
               PROVE  Current(c)' = Current(c) /\ Float(c, e)' = Float(c, e)
    OBVIOUS
  <2>1. c \in Node /\ \E s \in Side : Link(x, s, c)
    BY DEF ReadFrom
  <2>2. c # x
    BY <2>1, Links DEF State
  <2> QED
    BY <2>1, <2>2, OwnViews DEF Alone
<1>4. SumInv(x)'
  BY <1>1, <1>3, SumKept
<1> QED
  BY <1>2, <1>4

LEMMA PassUpBytes ==
  ASSUME State, FitsInt, BytesInv, NEW x \in Node, PassUp(x)
  PROVE  BytesInv'
<1> DEFINE count == Taken(x, up[x], UpSize(x))
           pos == parent_sent_pos[x]
           sent == WithPiece(up[x], x, pos, count)
<1>1. /\ pc[x] = "passUp" /\ parent[x] # None /\ UpSize(x) > 0 /\ count > 0
      /\ up' = [up EXCEPT ![x] = sent]
      /\ written' = [written EXCEPT ![x] = written[x] + count]
      /\ UNCHANGED <<socks, down, faults, pc, buffer, reducing, spreading, results>>
  BY DEF PassUp, PassesUp, At, WithPiece
<1>2. Step(x) /\ ~LeaveReduce(x)
  BY <1>1 DEF Step, Reduce, LeaveReduce, At
<1>3. Alone(x) /\ Agreed' = Agreed
  BY <1>2, StepsAlone, AgreedKept
<1>4. /\ pc[x] # "caller" /\ pc[x] \in ReduceLabels /\ pc[x] \notin BroadcastLabels /\ pc' = pc
  BY <1>1 DEF ReduceLabels, BroadcastLabels
<1>5. /\ UpSize(x) \in Int /\ pos \in Nat /\ pos + UpSize(x) <= Len(buffer[x])
      /\ Len(buffer[x]) \in Nat /\ IsSeq(buffer[x]) /\ IsSeq(up[x]) /\ Len(up[x]) \in Nat
      /\ Capacity \in Nat
  <2>1. UpSize(x) \in Int /\ pos \in Nat /\ pos + UpSize(x) <= Bytes(x) /\ Len(buffer[x]) = Bytes(x)
    BY <1>1, <1>4, PieceEnds DEF State
  <2> QED
    BY <2>1, Sequences, AllReduceAssumption
<1>6. written[x] \in Nat
  <2>1. Passing(x) \in Int
    BY <1>1, <1>5 DEF Passing, MaxOf
  <2> QED
    BY <2>1 DEF State, Extents, ExtentInv
<1>7. count \in Nat /\ written[x] + count <= UpSize(x)
  BY <1>1, <1>5, <1>6 DEF Taken, MinOf
<1> HIDE DEF count
<1>8. pos + written[x] + count <= Len(buffer[x])
  BY <1>5, <1>6, <1>7
<1>9. /\ Len(sent) = Len(up[x]) + count
      /\ \A k \in 1..Len(up[x]) : sent[k] = up[x][k]
      /\ \A k \in (Len(up[x]) + 1)..(Len(up[x]) + count) :
           sent[k] = buffer[x][pos + written[x] + (k - Len(up[x]))]
  <2>1. CanWrite(up[x], x, pos, count)
    BY <1>5, <1>6, <1>7, <1>8 DEF CanWrite
  <2>2. IsAppended(sent, up[x], x, pos, count)
    BY <2>1, Appended
  <2> HIDE DEF sent
  <2> QED
    BY <2>2 DEF IsAppended
<1> HIDE DEF sent
<1>10. up'[x] = sent /\ \A m \in Node \ {x} : up'[m] = up[m]
  BY <1>1 DEF State, Extents, SeqInv, Typed
<1>11. written'[x] = written[x] + count
  BY <1>1 DEF State, Extents, SeqInv
<1>12. /\ UpSent(x) = pos + written[x] /\ UpSent(x)' = UpSent(x) + count
       /\ DownGot(x) = 0 /\ DownGot(x)' = 0 /\ Current(x)' = Current(x)
       /\ \A s \in Side : /\ DownSent(x, s) = 0 /\ DownSent(x, s)' = 0
                          /\ Kept(x, s)' = Kept(x, s) /\ UpGot(x, s)' = UpGot(x, s)
  <2>1. UpSent(x) = pos + written[x] /\ UpSent(x)' = pos + written'[x]
    BY <1>1, <1>4 DEF UpSent, reducing
  <2>2. DownGot(x) = 0 /\ DownGot(x)' = 0 /\ Current(x)' = Current(x)
    BY <1>1, <1>4 DEF DownGot, Current
  <2>3. \A s \in Side : DownSent(x, s) = 0 /\ DownSent(x, s)' = 0
    BY <1>1, <1>4 DEF DownSent
  <2>4. \A s \in Side : Kept(x, s)' = Kept(x, s) /\ UpGot(x, s)' = UpGot(x, s)
    BY <1>1, <1>4 DEF Kept, UpGot, reducing
  <2> QED
    BY <1>5, <1>6, <1>7, <1>11, <2>1, <2>2, <2>3, <2>4
<1>13. \A p \in Node, s \in Side, n \in Node : Link(p, s, n) => LinkOK(p, s, n)
  BY DEF BytesInv
<1>14. \A m \in Node : (Right(m)' <=> Right(m)) /\ (RightBelow(m)' <=> RightBelow(m))
  <2>1. \A c, q : Wire(c, q)' = Wire(c, q)
    BY <1>3, WireKept
  <2>2. \A m \in Node : DownGot(m)' = DownGot(m) /\ Current(m)' = Current(m)
    BY <1>1 DEF DownGot, Current, spreading
  <2> QED
    BY <1>1, <2>1, <2>2 DEF Right, RightBelow
<1>15. ASSUME NEW s \in Side, NEW c \in Node, Link(x, s, c)
       PROVE  LinkOK(x, s, c)' /\ (UpExact(x, s, c)' => UpExact(x, s, c))
  <2>1. /\ c # x /\ LinkOK(x, s, c) /\ UpSent(c) \in Nat
    BY <1>13, <1>15, Links, UpEnds DEF State
  <2>2. /\ Current(c)' = Current(c) /\ DownGot(c)' = DownGot(c) /\ UpSent(c)' = UpSent(c)
        /\ pc'[c] = pc[c] /\ buffer'[c] = buffer[c]
    BY <1>3, <2>1, OwnViews DEF Alone
  <2> QED
    BY <1>1, <1>4, <1>10, <1>12, <1>14, <1>15, <2>1, <2>2, LinkQuiet
<1>16. ASSUME NEW p \in Node, NEW s \in Side, Link(p, s, x)
       PROVE  LinkOK(p, s, x)' /\ (UpExact(p, s, x)' => UpExact(p, s, x))
  <2>1. /\ p # x /\ LinkOK(p, s, x) /\ LinkInv(p, s, x)
    BY <1>13, <1>16, Links DEF State, LinkOK
  <2>2. /\ Current(p)' = Current(p) /\ UpGot(p, s)' = UpGot(p, s)
        /\ DownSent(p, s)' = DownSent(p, s) /\ pc'[p] = pc[p] /\ Kept(p, s)' = Kept(p, s)
        /\ Bytes(p)' = Bytes(p)
    BY <1>3, <2>1, OwnViews DEF Alone
  <2>3. /\ UpTaken(p, s, x) \in Nat /\ UpTaken(p, s, x) + Len(up[x]) <= UpSent(x)
        /\ Len(Kept(p, s)) \in Nat
    BY <1>16, <2>1, LinkTypes
  <2>4. /\ Bytes(x)' = Bytes(x)
        /\ Ahead(p, x)' = Ahead(p, x) /\ Behind(p, x)' = Behind(p, x)
    BY <1>12, <2>2 DEF Bytes, Ahead, Behind
  <2>5. UpTaken(p, s, x)' = UpTaken(p, s, x) /\ DownGiven(p, s, x)' = DownGiven(p, s, x)
    BY <2>2, <2>4 DEF UpTaken, DownGiven
  <2>6. LinkInv(p, s, x)'
    <3>1. UpTaken(p, s, x)' + Len(up'[x]) <= UpSent(x)'
      <4>1. /\ Len(up'[x]) = Len(up[x]) + count /\ UpSent(x) \in Nat
            /\ UpSent(x)' = UpSent(x) + count
        BY <1>9, <1>10, <1>12, UpEnds
      <4> QED
        BY <1>5, <1>7, <2>3, <2>5, <4>1
    <3>2. DownGot(x)' + Len(down'[x]) <= DownGiven(p, s, x)'
      BY <1>1, <1>12, <2>1, <2>5 DEF LinkInv
    <3> QED
      BY <1>4, <1>12, <2>1, <2>2, <2>4, <3>1, <3>2 DEF LinkInv
  <2>7. UpExact(p, s, x)' => UpExact(p, s, x)
    <3>1. /\ Len(up'[x]) = Len(up[x]) + count /\ UpSent(x) \in Nat
          /\ UpSent(x)' = UpSent(x) + count
      BY <1>9, <1>10, <1>12, UpEnds
    <3> QED
      BY <1>5, <1>7, <2>3, <2>5, <3>1, SMTT(20) DEF UpExact
  <2>8. UpStreamInv(p, s, x)'
    <3> SUFFICES ASSUME UpExact(p, s, x)'
                 PROVE  /\ \A k \in 1..Len(sent) : sent[k] = buffer[x][UpTaken(p, s, x) + k]
                        /\ \A k \in 1..Len(Kept(p, s)) :
                             Kept(p, s)[k] = buffer[x][UpTaken(p, s, x) - Len(Kept(p, s)) + k]
      BY <1>1, <1>10, <2>2, <2>5 DEF UpStreamInv
    <3>1. /\ \A k \in 1..Len(up[x]) : up[x][k] = buffer[x][UpTaken(p, s, x) + k]
          /\ \A k \in 1..Len(Kept(p, s)) :
               Kept(p, s)[k] = buffer[x][UpTaken(p, s, x) - Len(Kept(p, s)) + k]
          /\ UpTaken(p, s, x) + Len(up[x]) = pos + written[x]
      BY <1>12, <2>1, <2>7 DEF LinkOK, UpStreamInv, UpExact
    <3>2. ASSUME NEW k \in 1..Len(sent) PROVE sent[k] = buffer[x][UpTaken(p, s, x) + k]
      <4>1. CASE k <= Len(up[x])
        BY <1>5, <1>9, <3>1, <4>1
      <4>2. CASE k > Len(up[x])
        <5>1. pos + written[x] + (k - Len(up[x])) = UpTaken(p, s, x) + k
          BY <1>5, <1>6, <1>7, <1>9, <2>3, <3>1
        <5>2. k \in (Len(up[x]) + 1)..(Len(up[x]) + count)
          BY <1>5, <1>7, <1>9, <4>2
        <5> QED
          BY <1>9, <5>1, <5>2
      <4> QED
        BY <1>5, <1>7, <1>9, <4>1, <4>2
    <3> QED
      BY <3>1, <3>2
  <2>9. DownStreamInv(p, s, x)'
    <3>1. DownExact(p, s, x)' => DownExact(p, s, x)
      BY <1>1, <1>12, <2>5 DEF DownExact
    <3> QED
      BY <1>14, <2>1, <2>4, <3>1 DEF LinkOK, DownStreamInv
  <2> QED
    BY <2>6, <2>7, <2>8, <2>9 DEF LinkOK
<1>17. FloatsInv(x)' /\ SumInv(x)'
  BY <1>1, <1>3, <1>4, <1>12, <1>15, FloatsOfWriter DEF BytesInv
<1>18. AgreedInv'
  BY <1>1, <1>3 DEF BytesInv, AgreedInv
<1>19. Current(x)' = Current(x) /\ \A e : Float(x, e)' = Float(x, e)
  BY <1>1, <1>12 DEF Float
<1> QED
  BY <1>1, <1>3, <1>10, <1>15, <1>16, <1>17, <1>18, <1>19, MovingStep

LEMMA PassDownBytes ==
  ASSUME State, FitsInt, BytesInv, NEW x \in Node, NEW t \in Side, PassDown(x, t),
         NEW kid \in Node, Link(x, t, kid)
  PROVE  BytesInv'
<1> DEFINE count == Taken(x, down[kid], DownSize(x))
           pos == children_sent_pos[x]
           sent == WithPiece(down[kid], x, pos, count)
<1>1. /\ pc[x] = PassLabel(t) /\ t \in Linked(x) /\ DownSize(x) > 0 /\ count > 0
      /\ down' = [down EXCEPT ![kid] = sent]
      /\ written' = [written EXCEPT ![x] = written[x] + count]
      /\ UNCHANGED <<socks, up, faults, pc, buffer, reducing, spreading, results>>
  BY DEF PassDown, PassesDown, At, WithPiece, Link
<1>2. /\ pc[x] # "caller" /\ pc[x] \notin ReduceLabels /\ pc[x] \in BroadcastLabels /\ pc' = pc
      /\ pc[x] \in {"passLeft", "passRight"}
  BY <1>1 DEF ReduceLabels, BroadcastLabels, PassLabel
<1>3. Step(x) /\ ~LeaveReduce(x)
  BY <1>2 DEF Step, Broadcast, LeaveReduce, At
<1>4. Alone(x) /\ Agreed' = Agreed
  BY <1>3, StepsAlone, AgreedKept
<1>5. /\ DownSize(x) \in Int /\ pos \in Nat /\ parent_read_pos[x] \in Nat
      /\ pos + DownSize(x) <= Bytes(x) /\ Len(buffer[x]) = Bytes(x)
  BY <1>1, <1>2, PieceEnds DEF State, MaxOf
<1>6. /\ kid \in Node /\ Link(x, t, kid) /\ kid # x
      /\ \A s \in Side, n \in Node : Link(x, s, n) /\ n # kid => s # t
  BY Links DEF State, Link
<1>7. /\ Len(buffer[x]) \in Nat /\ IsSeq(buffer[x]) /\ IsSeq(down[kid]) /\ Len(down[kid]) \in Nat
      /\ Capacity \in Nat /\ BufSize \in Nat
  BY <1>6, Sequences, AllReduceAssumption
<1>8. pos + DownSize(x) <= parent_read_pos[x]
  BY <1>5, <1>7 DEF DownSize, MinOf
<1>9. written[x] \in Nat
  <2>1. Passing(x) \in Int
    BY <1>2, <1>5 DEF Passing, MaxOf, ReduceLabels
  <2> QED
    BY <2>1 DEF State, Extents, ExtentInv
<1>10. count \in Nat /\ written[x] + count <= DownSize(x)
  <2> DEFINE len == Len(down[kid])
             size == DownSize(x)
  <2>1. len \in Nat /\ size \in Int /\ count = MinOf(size - written[x], Capacity - len) /\ count > 0
    BY <1>1, <1>5, <1>7 DEF Taken
  <2> HIDE DEF len, size, count
  <2>2. count \in Nat /\ written[x] + count <= size
    BY <1>7, <1>9, <2>1 DEF MinOf
  <2> QED
    BY <2>2 DEF size
<1> HIDE DEF count
<1>11. /\ Len(sent) = Len(down[kid]) + count
       /\ \A k \in 1..Len(down[kid]) : sent[k] = down[kid][k]
       /\ \A k \in (Len(down[kid]) + 1)..(Len(down[kid]) + count) :
            sent[k] = buffer[x][pos + written[x] + (k - Len(down[kid]))]
  <2>1. CanWrite(down[kid], x, pos, count)
    BY <1>5, <1>7, <1>9, <1>10 DEF CanWrite
  <2>2. IsAppended(sent, down[kid], x, pos, count)
    BY <2>1, Appended
  <2> HIDE DEF sent
  <2> QED
    BY <2>2 DEF IsAppended
<1> HIDE DEF sent
<1>12. down'[kid] = sent /\ \A m \in Node \ {kid} : down'[m] = down[m]
  BY <1>1, <1>6 DEF State, Extents, SeqInv, Typed
<1>13. written'[x] = written[x] + count
  BY <1>1 DEF State, Extents, SeqInv
<1>14. /\ DownSent(x, t) = pos + written[x] /\ DownSent(x, t)' = DownSent(x, t) + count
       /\ \A s \in Side : s # t => DownSent(x, s)' = DownSent(x, s)
  <2>1. DownSize(x)' = DownSize(x)
    BY <1>1 DEF DownSize, MinOf, spreading
  <2>2. DownSent(x, t) = pos + written[x] /\ DownSent(x, t)' = pos + written'[x]
    BY <1>1, <1>2 DEF DownSent, spreading
  <2>3. \A s \in Side : s # t => DownSent(x, s)' = DownSent(x, s)
    BY <1>1, <1>2, <2>1 DEF DownSent, PassLabel, Side, spreading
  <2> QED
    BY <1>5, <1>9, <1>10, <1>13, <2>2, <2>3
<1>15. /\ UpSent(x)' = UpSent(x) /\ Current(x)' = Current(x) /\ DownGot(x) = parent_read_pos[x]
       /\ \A s \in Side : Kept(x, s)' = Kept(x, s) /\ UpGot(x, s)' = UpGot(x, s)
  <2>1. Current(x)' = Current(x) /\ Bytes(x)' = Bytes(x)
    BY <1>1 DEF Current, Bytes
  <2> QED
    BY <1>1, <1>2, <2>1 DEF UpSent, Kept, UpGot, DownGot
<1>16. \A m \in Node : DownGot(m)' = DownGot(m) /\ Current(m)' = Current(m)
  BY <1>1 DEF DownGot, Current, spreading
<1>17. \A p \in Node, s \in Side, n \in Node : Link(p, s, n) => LinkOK(p, s, n)
  BY DEF BytesInv
<1>18. \A c, q : Wire(c, q)' = Wire(c, q)
  BY <1>4, WireKept
<1>19. /\ \A m \in Node : Right(m)' <=> Right(m)
       /\ \A m \in Node \ {kid} : RightBelow(m)' <=> RightBelow(m)
  <2>1. \A m \in Node : Right(m)' <=> Right(m)
    BY <1>1, <1>16, <1>18 DEF Right
  <2> QED
    BY <1>12, <1>16, <1>18, <2>1 DEF RightBelow
<1>20. ASSUME NEW s \in Side, NEW n \in Node, Link(x, s, n), n # kid
       PROVE  LinkOK(x, s, n)' /\ (UpExact(x, s, n)' => UpExact(x, s, n))
  <2>1. /\ n # x /\ LinkOK(x, s, n) /\ s # t /\ UpSent(n) \in Nat /\ DownSent(x, s) \in Nat
    BY <1>6, <1>17, <1>20, Links, UpEnds, DownEnds DEF State
  <2>2. /\ Current(n)' = Current(n) /\ DownGot(n)' = DownGot(n) /\ UpSent(n)' = UpSent(n)
        /\ pc'[n] = pc[n] /\ buffer'[n] = buffer[n]
    BY <1>4, <2>1, OwnViews DEF Alone
  <2>3. Behind(x, n) => pc'[x] \notin BroadcastLabels
    BY <1>2, <2>1 DEF LinkOK, LinkInv
  <2> QED
    BY <1>1, <1>2, <1>12, <1>14, <1>15, <1>19, <1>20, <2>1, <2>2, <2>3, LinkQuiet
<1>21. ASSUME NEW p \in Node, NEW s \in Side, Link(p, s, x)
       PROVE  LinkOK(p, s, x)' /\ (UpExact(p, s, x)' => UpExact(p, s, x))
  <2>1. /\ p # x /\ LinkOK(p, s, x) /\ DownSent(p, s) \in Nat /\ UpSent(x) \in Nat
    BY <1>17, <1>21, Links, DownEnds, UpEnds DEF State
  <2>2. /\ Current(p)' = Current(p) /\ UpGot(p, s)' = UpGot(p, s)
        /\ DownSent(p, s)' = DownSent(p, s) /\ pc'[p] = pc[p] /\ Kept(p, s)' = Kept(p, s)
    BY <1>4, <2>1, OwnViews DEF Alone
  <2>3. Behind(p, x) => pc[p] \notin BroadcastLabels
    BY <2>1 DEF LinkOK, LinkInv
  <2>4. x # kid /\ DownGot(x)' = DownGot(x) /\ up'[x] = up[x] /\ buffer'[x] = buffer[x]
    BY <1>1, <1>6, <1>16
  <2> QED
    BY <1>2, <1>12, <1>15, <1>19, <1>21, <2>1, <2>2, <2>3, <2>4, LinkQuiet
<1>22. LinkOK(x, t, kid)' /\ (UpExact(x, t, kid)' => UpExact(x, t, kid))
  <2>1. /\ LinkOK(x, t, kid) /\ LinkInv(x, t, kid)
        /\ Current(kid) \in Nat /\ Current(x) \in Nat
        /\ DownGot(kid) \in Nat /\ DownSent(x, t) \in Nat
        /\ DownGot(kid) + Len(down[kid]) <= DownGiven(x, t, kid)
    BY <1>6, <1>17, LinkTypes DEF LinkOK
  <2>2. /\ Current(kid)' = Current(kid) /\ DownGot(kid)' = DownGot(kid)
        /\ UpSent(kid)' = UpSent(kid) /\ pc'[kid] = pc[kid] /\ buffer'[kid] = buffer[kid]
    BY <1>4, <1>6, OwnViews DEF Alone
  <2>3. Bytes(x)' = Bytes(x) /\ Bytes(kid)' = Bytes(kid)
    BY <1>15, <2>2 DEF Bytes
  <2>4. DownSent(x, t) + count <= Bytes(x) /\ DownSent(x, t) + count <= parent_read_pos[x]
        /\ Bytes(x) \in Nat
    BY <1>2, <1>5, <1>8, <1>9, <1>10, <1>14, CallSize
  <2>5. ~Ahead(x, kid) /\ ~Behind(x, kid)
    <3>1. DownSent(x, t) # Bytes(x)
      BY <1>1, <1>10, <2>1, <2>4
    <3> QED
      BY <1>2, <2>1, <3>1 DEF LinkInv
  <2>6. ~Ahead(x, kid)' /\ ~Behind(x, kid)' /\ Current(kid) = Current(x)
    BY <1>15, <2>1, <2>2, <2>5 DEF Ahead, Behind
  <2>7. /\ DownGiven(x, t, kid) = DownSent(x, t) /\ DownGiven(x, t, kid)' = DownSent(x, t) + count
        /\ UpTaken(x, t, kid)' = UpTaken(x, t, kid)
    BY <1>14, <1>15, <2>5, <2>6 DEF DownGiven, UpTaken
  <2>8. LinkInv(x, t, kid)'
    <3>1. DownGot(kid)' + Len(down'[kid]) <= DownGiven(x, t, kid)'
      BY <1>7, <1>10, <1>11, <1>12, <2>1, <2>2, <2>7
    <3>2. UpTaken(x, t, kid)' + Len(up'[kid]) <= UpSent(kid)'
      BY <1>1, <2>1, <2>2, <2>7 DEF LinkInv
    <3> QED
      BY <2>6, <3>1, <3>2 DEF LinkInv
  <2>9. UpExact(x, t, kid)' <=> UpExact(x, t, kid)
    BY <1>1, <2>2, <2>7 DEF UpExact
  <2>10. UpStreamInv(x, t, kid)'
    BY <1>1, <1>15, <2>1, <2>2, <2>7, <2>9 DEF LinkOK, UpStreamInv
  <2>11. DownStreamInv(x, t, kid)'
    <3> SUFFICES ASSUME DownExact(x, t, kid)', Right(x)' PROVE RightBelow(kid)'
      BY <2>6 DEF DownStreamInv
    <3>1. DownGot(kid) + Len(down[kid]) = pos + written[x]
      <4>1. DownGot(kid) + Len(sent) = DownSent(x, t) + count
        BY <1>12, <2>2, <2>7 DEF DownExact
      <4>2. Len(sent) = Len(down[kid]) + count /\ DownSent(x, t) = pos + written[x]
        BY <1>11, <1>14
      <4> DEFINE b == pos + written[x]
      <4>3. b \in Nat /\ count \in Nat /\ Len(down[kid]) \in Nat /\ DownGot(kid) \in Nat
        BY <1>5, <1>7, <1>9, <1>10, <2>1, SMTT(20)
      <4>4. DownGot(kid) + (Len(down[kid]) + count) = b + count
        BY <4>1, <4>2
      <4> HIDE DEF b
      <4>5. DownGot(kid) + Len(down[kid]) = b
        BY <4>3, <4>4
      <4> QED
        BY <4>5 DEF b
    <3>2. RightBelow(kid) /\ Right(x)
      BY <1>14, <1>19, <2>1, <2>7, <3>1 DEF LinkOK, DownStreamInv, DownExact
    <3>3. ASSUME NEW k \in 1..Len(sent)
          PROVE  sent[k] = Wire(Current(kid), DownGot(kid) + k)
      <4>1. CASE k <= Len(down[kid])
        BY <1>7, <1>11, <3>2, <4>1 DEF RightBelow
      <4>2. CASE k > Len(down[kid])
        <5> DEFINE q == DownGot(kid) + k
        <5>1. /\ k \in (Len(down[kid]) + 1)..(Len(down[kid]) + count)
              /\ pos + written[x] + (k - Len(down[kid])) = q
              /\ q \in 1..(pos + written[x] + count)
          <6> DEFINE b == pos + written[x]
                     l == Len(down[kid])
                     g == DownGot(kid)
          <6>1. b \in Nat /\ count \in Nat /\ l \in Nat /\ g \in Nat
            BY <1>5, <1>7, <1>9, <1>10, <2>1, SMTT(20)
          <6>2. g + l = b
            BY <3>1
          <6>3. Len(sent) = l + count
            BY <1>11
          <6>4. k \in Int /\ k > l /\ k <= l + count /\ q = g + k
            BY <4>2, <6>1, <6>3
          <6> HIDE DEF b, l, g, q, count
          <6>5. k \in (l + 1)..(l + count) /\ b + (k - l) = q /\ q \in 1..(b + count)
            BY ONLY <6>1, <6>2, <6>4
          <6> QED
            BY <6>5 DEF b, l
        <5>2. q \in 1..DownGot(x)
          BY <1>5, <1>9, <1>10, <1>14, <1>15, <2>4, <5>1, SMTT(20)
        <5> HIDE DEF q
        <5>3. sent[k] = buffer[x][q] /\ buffer[x][q] = Wire(Current(x), q)
          BY <1>11, <3>2, <5>1, <5>2 DEF Right
        <5> QED
          BY <2>6, <5>3 DEF q
      <4> QED
        BY <1>7, <1>10, <1>11, <4>1, <4>2
    <3>4. Right(kid)'
      BY <1>6, <1>19, <3>2 DEF RightBelow
    <3> QED
      BY <1>12, <1>18, <2>2, <3>3, <3>4 DEF RightBelow
  <2> QED
    BY <2>8, <2>9, <2>10, <2>11 DEF LinkOK
<1>23. \A s \in Side, n \in Node : Link(x, s, n) =>
         LinkOK(x, s, n)' /\ (UpExact(x, s, n)' => UpExact(x, s, n))
  <2> SUFFICES ASSUME NEW s \in Side, NEW n \in Node, Link(x, s, n)
               PROVE  LinkOK(x, s, n)' /\ (UpExact(x, s, n)' => UpExact(x, s, n))
    OBVIOUS
  <2>1. CASE n # kid
    BY <1>20, <2>1
  <2>2. CASE n = kid
    <3>1. s = t
      BY <1>6, <2>2, Links DEF State
    <3> QED
      BY <1>22, <2>2, <3>1
  <2> QED
    BY <2>1, <2>2
<1>24. FloatsInv(x)' /\ SumInv(x)'
  BY <1>1, <1>2, <1>4, <1>15, <1>16, <1>23, FloatsOfWriter DEF BytesInv
<1>25. AgreedInv'
  BY <1>1, <1>4 DEF BytesInv, AgreedInv
<1>26. Current(x)' = Current(x) /\ \A e : Float(x, e)' = Float(x, e)
  BY <1>1, <1>15 DEF Float
<1>27. \A p \in Node \ {x}, s \in Side, n \in Node \ {x} : Link(p, s, n) =>
           up'[n] = up[n] /\ down'[n] = down[n]
  <2> SUFFICES ASSUME NEW p \in Node \ {x}, NEW s \in Side, NEW n \in Node \ {x}, Link(p, s, n)
               PROVE  n # kid
    BY <1>1, <1>12
  <2> QED
    BY <1>6, Links DEF State
<1> QED
  BY <1>4, <1>21, <1>23, <1>24, <1>25, <1>26, <1>27, MovingStep

LEMMA ReadParentBytes ==
  ASSUME State, FitsInt, BytesInv, NEW x \in Node, ReadParent(x)
  PROVE  BytesInv'
<1> DEFINE pos == parent_read_pos[x]
<1>1. PICK count \in 0..MinOf(BufSize, Bytes(x) - pos) :
        /\ CanRead(down[x], count)
        /\ down' = [down EXCEPT ![x] = SubSeq(@, count + 1, Len(@))]
        /\ buffer' = [buffer EXCEPT ![x] =
             [i \in 1..Len(@) |-> IF i > pos /\ i <= pos + count
                                    THEN down[x][i - pos] ELSE @[i]]]
        /\ parent_read_pos' = [parent_read_pos EXCEPT ![x] = pos + count]
  BY DEF ReadParent
<1>2. /\ pc[x] = "readDown" /\ pc'[x] = "passLeft" /\ parent[x] # None
      /\ UNCHANGED <<socks, up, faults, written, reducing, children_sent_pos, results>>
  BY DEF ReadParent, At, Goto, State, BooksInv, BookTypes
<1>3. /\ pc[x] # "caller" /\ pc[x] \notin ReduceLabels /\ pc[x] \in BroadcastLabels
      /\ pc'[x] # "caller" /\ pc'[x] \notin ReduceLabels /\ pc'[x] \in BroadcastLabels
  BY <1>2 DEF ReduceLabels, BroadcastLabels
<1>4. Step(x) /\ ~LeaveReduce(x)
  BY <1>2 DEF Step, Broadcast, LeaveReduce, At
<1>5. Alone(x) /\ Agreed' = Agreed
  BY <1>4, StepsAlone, AgreedKept
<1>6. /\ pos \in Nat /\ Bytes(x) \in Nat /\ pos <= Bytes(x) /\ Len(buffer[x]) = Bytes(x)
      /\ children_sent_pos[x] \in Nat /\ BufSize \in Nat /\ Bytes(x) > 0
  BY <1>3, PieceEnds, CallSize, AllReduceAssumption DEF State
<1>7. IsSeq(buffer[x]) /\ IsSeq(down[x]) /\ Len(down[x]) \in Nat
  BY Sequences
<1>8. count \in Nat /\ count <= Len(down[x]) /\ pos + count <= Bytes(x)
  BY <1>1, <1>6 DEF CanRead, MinOf
<1>9. /\ \A q \in 1..Bytes(x) : q <= pos => buffer'[x][q] = buffer[x][q]
      /\ \A q \in 1..Bytes(x) : q > pos /\ q <= pos + count => buffer'[x][q] = down[x][q - pos]
      /\ count = 0 => buffer'[x] = buffer[x]
  <2>1. PICK S : buffer \in [Node -> Seq(S)]
    BY DEF State, Extents, SeqInv, Typed
  <2>2. buffer'[x] = [i \in 1..Len(buffer[x]) |->
          IF i > pos /\ i <= pos + count THEN down[x][i - pos] ELSE buffer[x][i]]
    BY <1>1, <2>1
  <2>3. \A q \in 1..Bytes(x) : buffer'[x][q] =
          IF q > pos /\ q <= pos + count THEN down[x][q - pos] ELSE buffer[x][q]
    BY <1>6, <2>2
  <2>4. ASSUME count = 0 PROVE buffer'[x] = buffer[x]
    <3>1. buffer'[x] = [i \in 1..Len(buffer[x]) |-> buffer[x][i]]
      <4>1. \A i \in 1..Len(buffer[x]) : ~(i > pos /\ i <= pos + count)
        BY <1>6, <2>4
      <4> QED
        BY <2>2, <4>1
    <3>2. buffer[x] \in Seq(S)
      BY <2>1
    <3>3. buffer[x] = [i \in 1..Len(buffer[x]) |-> buffer[x][i]]
      BY <3>2
    <3> QED
      BY <3>1, <3>3
  <2> QED
    BY <1>6, <1>8, <2>3, <2>4
<1>10. /\ Len(down'[x]) = Len(down[x]) - count
       /\ \A k \in 1..Len(down'[x]) : down'[x][k] = down[x][count + k]
       /\ \A m \in Node \ {x} : down'[m] = down[m]
  <2>1. /\ down'[x] = SubSeq(down[x], count + 1, Len(down[x]))
        /\ \A m \in Node \ {x} : down'[m] = down[m]
    BY <1>1 DEF State, Extents, SeqInv, Typed
  <2>2. Len(down'[x]) = Len(down[x]) - count
    BY <1>7, <1>8, <2>1, SeqPart
  <2>3. \A k \in 1..(Len(down[x]) - count) : down'[x][k] = down[x][count + k]
    BY <1>7, <1>8, <2>1, PartAt
  <2> QED
    BY <2>1, <2>2, <2>3
<1>11. DownGot(x) = pos /\ DownGot(x)' = pos + count
  <2>1. parent_read_pos'[x] = pos + count
    BY <1>1 DEF State, BooksInv, BookTypes
  <2> QED
    BY <1>3, <2>1 DEF DownGot
<1>12. Current(x)' = Current(x) /\ Bytes(x)' = Bytes(x)
  BY <1>2 DEF Current, Bytes
<1>13. /\ UpSent(x) = Bytes(x) /\ UpSent(x)' = Bytes(x)
       /\ \A s \in Side : /\ DownSent(x, s)' = DownSent(x, s) /\ Kept(x, s)' = Kept(x, s)
                          /\ UpGot(x, s)' = UpGot(x, s)
  <2>1. written[x] = 0
    <3>1. Passing(x) = 0
      BY <1>2 DEF Passing
    <3> QED
      BY <3>1 DEF State, Extents, ExtentInv
  <2>2. \A s \in Side : DownSent(x, s) = children_sent_pos[x]
    BY <1>2, <1>3 DEF DownSent, PassLabel
  <2>3. \A s \in Side : DownSent(x, s)' = children_sent_pos[x]
    BY <1>2, <1>3, <1>6, <2>1 DEF DownSent, PassLabel, Side
  <2> QED
    BY <1>3, <1>12, <2>2, <2>3 DEF UpSent, UpGot, Kept
<1>14. \A p \in Node, s \in Side, n \in Node : Link(p, s, n) => LinkOK(p, s, n)
  BY DEF BytesInv
<1>15. \A c, q : Wire(c, q)' = Wire(c, q)
  BY <1>5, WireKept
<1>16. (Right(x)' => Right(x)) /\ (RightBelow(x) => RightBelow(x)')
  <2>1. Right(x)' => Right(x)
    <3> SUFFICES ASSUME Right(x)', NEW q \in 1..pos
                 PROVE  buffer[x][q] = Wire(Current(x), q)
      BY <1>11 DEF Right
    <3>1. q \in 1..(pos + count) /\ q \in 1..Bytes(x) /\ q <= pos
      BY <1>6, <1>8
    <3>2. buffer'[x][q] = Wire(Current(x), q)
      BY <1>11, <1>12, <1>15, <3>1 DEF Right
    <3> QED
      BY <1>9, <3>1, <3>2
  <2>2. ASSUME RightBelow(x) PROVE RightBelow(x)'
    <3>1. /\ \A q \in 1..pos : buffer[x][q] = Wire(Current(x), q)
          /\ \A k \in 1..Len(down[x]) : down[x][k] = Wire(Current(x), pos + k)
      BY <1>11, <2>2 DEF RightBelow, Right
    <3>2. ASSUME NEW q \in 1..(pos + count) PROVE buffer'[x][q] = Wire(Current(x), q)
      <4>1. q \in 1..Bytes(x)
        BY <1>6, <1>8
      <4>2. CASE q <= pos
        BY <1>6, <1>9, <3>1, <4>1, <4>2
      <4>3. CASE q > pos
        <5> DEFINE k == q - pos
        <5>1. k \in 1..Len(down[x]) /\ pos + k = q
          BY <1>6, <1>7, <1>8, <4>3
        <5>2. buffer'[x][q] = down[x][k]
          BY <1>9, <4>1, <4>3
        <5> HIDE DEF k
        <5> QED
          BY <3>1, <5>1, <5>2
      <4> QED
        BY <1>6, <4>2, <4>3
    <3>3. ASSUME NEW k \in 1..Len(down'[x])
          PROVE  down'[x][k] = Wire(Current(x), (pos + count) + k)
      <4> DEFINE j == count + k
      <4>1. j \in 1..Len(down[x]) /\ pos + j = (pos + count) + k
        BY <1>6, <1>7, <1>8, <1>10
      <4>2. down'[x][k] = down[x][j]
        BY <1>10
      <4> HIDE DEF j
      <4> QED
        BY <3>1, <4>1, <4>2
    <3> QED
      BY <1>11, <1>12, <1>15, <3>2, <3>3 DEF RightBelow, Right
  <2> QED
    BY <2>1, <2>2
<1>17. \A m \in Node \ {x} : (Right(m)' <=> Right(m)) /\ (RightBelow(m)' <=> RightBelow(m))
  BY <1>5, <1>10, RightKept DEF Alone
<1>18. ASSUME NEW s \in Side, NEW n \in Node, Link(x, s, n)
       PROVE  LinkOK(x, s, n)' /\ (UpExact(x, s, n)' => UpExact(x, s, n))
  <2>1. /\ n # x /\ LinkOK(x, s, n) /\ UpSent(n) \in Nat /\ DownSent(x, s) \in Nat
    BY <1>14, <1>18, Links, UpEnds, DownEnds DEF State
  <2>2. /\ Current(n)' = Current(n) /\ DownGot(n)' = DownGot(n) /\ UpSent(n)' = UpSent(n)
        /\ pc'[n] = pc[n] /\ buffer'[n] = buffer[n]
    BY <1>5, <2>1, OwnViews DEF Alone
  <2>3. ~Behind(x, n)
    BY <1>3, <2>1 DEF LinkOK, LinkInv
  <2> QED
    BY <1>2, <1>3, <1>10, <1>12, <1>13, <1>16, <1>17, <1>18, <2>1, <2>2, <2>3, LinkQuiet
<1>19. ASSUME NEW p \in Node, NEW s \in Side, Link(p, s, x)
       PROVE  LinkOK(p, s, x)' /\ (UpExact(p, s, x)' => UpExact(p, s, x))
  <2>1. /\ p # x /\ LinkOK(p, s, x) /\ LinkInv(p, s, x)
    BY <1>14, <1>19, Links DEF State, LinkOK
  <2>2. /\ Current(p)' = Current(p) /\ UpGot(p, s)' = UpGot(p, s)
        /\ DownSent(p, s)' = DownSent(p, s) /\ pc'[p] = pc[p] /\ Kept(p, s)' = Kept(p, s)
        /\ Bytes(p)' = Bytes(p)
    BY <1>5, <2>1, OwnViews DEF Alone
  <2>3. /\ UpTaken(p, s, x) \in Nat /\ UpTaken(p, s, x) + Len(up[x]) <= UpSent(x)
        /\ Len(Kept(p, s)) \in Nat /\ Len(up[x]) \in Nat /\ DownGiven(p, s, x) \in Nat
        /\ DownGot(x) + Len(down[x]) <= DownGiven(p, s, x)
        /\ Current(p) \in Nat /\ Current(x) \in Nat /\ DownSent(p, s) \in Nat
        /\ pc[p] \in ReduceLabels => Len(Kept(p, s)) = UpGot(p, s) % FloatSize
    BY <1>19, <2>1, LinkTypes
  <2>4. /\ Ahead(p, x)' = Ahead(p, x) /\ Behind(p, x)' = Behind(p, x)
    BY <1>12, <2>2 DEF Ahead, Behind
  <2>5. UpTaken(p, s, x)' = UpTaken(p, s, x) /\ DownGiven(p, s, x)' = DownGiven(p, s, x)
    BY <1>12, <2>2, <2>4 DEF UpTaken, DownGiven
  <2>6. DownGot(x)' + Len(down'[x]) = DownGot(x) + Len(down[x])
    BY <1>6, <1>7, <1>8, <1>10, <1>11
  <2>7. LinkInv(p, s, x)'
    <3>1. UpTaken(p, s, x)' + Len(up'[x]) <= UpSent(x)'
      BY <1>2, <1>13, <2>3, <2>5
    <3>2. DownGot(x)' + Len(down'[x]) <= DownGiven(p, s, x)'
      BY <2>3, <2>5, <2>6
    <3> QED
      BY <1>3, <1>12, <2>1, <2>2, <2>4, <3>1, <3>2 DEF LinkInv
  <2>8. UpExact(p, s, x)' => UpExact(p, s, x)
    BY <1>2, <1>13, <2>5 DEF UpExact
  <2>9. count # 0 => Len(up[x]) = 0 /\ Len(Kept(p, s)) = 0
    <3> SUFFICES ASSUME count # 0 PROVE Len(up[x]) = 0 /\ Len(Kept(p, s)) = 0
      OBVIOUS
    <3>1. DownGiven(p, s, x) > 0
      BY <1>6, <1>7, <1>8, <1>11, <2>3
    <3>2. ~Ahead(p, x)
      BY <3>1 DEF DownGiven
    <3>3. CASE Behind(p, x)
      <4>1. UpTaken(p, s, x) = Bytes(x) /\ UpGot(p, s) = 0
        BY <2>1, <3>2, <3>3 DEF UpTaken, LinkInv
      <4>2. 0 % FloatSize = 0
        BY AllReduceAssumption
      <4>3. pc[p] \notin ReduceLabels => Len(Kept(p, s)) = 0
        BY DEF Kept
      <4> QED
        BY <1>6, <1>13, <2>3, <4>1, <4>2, <4>3
    <3>4. CASE ~Behind(p, x)
      <4>1. Current(p) = Current(x)
        BY <2>3, <3>2, <3>4 DEF Ahead, Behind
      <4>2. DownSent(p, s) > 0
        BY <3>1, <3>2, <3>4 DEF DownGiven
      <4>3. pc[p] \in BroadcastLabels /\ Bytes(p) = Bytes(x)
        BY <4>1, <4>2 DEF DownSent, Bytes
      <4>4. pc[p] \notin ReduceLabels /\ pc[p] # "caller"
        BY <4>3 DEF BroadcastLabels, ReduceLabels
      <4>5. UpTaken(p, s, x) = Bytes(x) /\ Len(Kept(p, s)) = 0
        BY <3>2, <3>4, <4>3, <4>4 DEF UpTaken, UpGot, Kept
      <4> QED
        BY <1>6, <1>13, <2>3, <4>5
    <3> QED
      BY <3>3, <3>4
  <2>10. UpStreamInv(p, s, x)'
    <3> SUFFICES ASSUME UpExact(p, s, x)'
                 PROVE  /\ \A k \in 1..Len(up[x]) : up[x][k] = buffer'[x][UpTaken(p, s, x) + k]
                        /\ \A k \in 1..Len(Kept(p, s)) :
                             Kept(p, s)[k] = buffer'[x][UpTaken(p, s, x) - Len(Kept(p, s)) + k]
      BY <1>2, <2>2, <2>5 DEF UpStreamInv
    <3>1. CASE count = 0
      BY <1>9, <2>1, <2>8, <3>1 DEF LinkOK, UpStreamInv
    <3>2. CASE count # 0
      BY <2>9, <3>2
    <3> QED
      BY <3>1, <3>2
  <2>11. DownStreamInv(p, s, x)'
    <3>1. DownExact(p, s, x)' => DownExact(p, s, x)
      BY <2>5, <2>6 DEF DownExact
    <3> QED
      BY <1>16, <1>17, <2>1, <2>4, <3>1 DEF LinkOK, DownStreamInv
  <2> QED
    BY <2>7, <2>8, <2>10, <2>11 DEF LinkOK
<1>20. DownGot(x)' = 0 => count = 0 /\ DownGot(x) = 0
  BY <1>6, <1>8, <1>11
<1>21. FloatsInv(x)' /\ SumInv(x)'
  <2>1. FloatsInv(x)'
    BY <1>2, <1>3, <1>9, <1>12, <1>20, FloatsKept DEF BytesInv
  <2>2. ASSUME count = 0, NEW e
        PROVE  /\ Float(x, e)' = Float(x, e)
               /\ \A c \in ReadFrom(x, e) : Current(c)' = Current(c) /\ Float(c, e)' = Float(c, e)
    <3>1. Float(x, e)' = Float(x, e)
      BY <1>9, <2>2 DEF Float
    <3>2. \A c \in ReadFrom(x, e) : c \in Node \ {x}
      BY Links DEF ReadFrom, State
    <3> QED
      BY <1>5, <3>1, <3>2, OwnViews DEF Alone
  <2>3. SumInv(x)'
    BY <1>2, <1>3, <1>12, <1>13, <1>18, <1>20, <2>2, SumKept DEF BytesInv
  <2> QED
    BY <2>1, <2>3
<1>22. AgreedInv'
  BY <1>2, <1>5 DEF BytesInv, AgreedInv
<1>23. ASSUME NEW p \in Node, NEW s \in Side, NEW e \in Nat, Link(p, s, x),
              Current(x) = Current(p), DownGot(x) = 0, DownSent(p, s) = 0
       PROVE  Current(x)' = Current(x) /\ Float(x, e)' = Float(x, e)
  <2>1. LinkInv(p, s, x)
    BY <1>14, <1>23 DEF LinkOK
  <2>2. DownGiven(p, s, x) = 0
    <3>1. ~Ahead(p, x) /\ ~Behind(p, x)
      BY <1>23, Sequences DEF Ahead, Behind
    <3> QED
      BY <1>23, <3>1 DEF DownGiven
  <2>3. count = 0
    BY <1>7, <1>8, <1>23, <2>1, <2>2 DEF LinkInv
  <2> QED
    BY <1>9, <1>12, <2>3 DEF Float
<1>24. \A p \in Node \ {x}, s \in Side, n \in Node \ {x} : Link(p, s, n) =>
           up'[n] = up[n] /\ down'[n] = down[n]
  BY <1>2, <1>10
<1> QED
  BY <1>5, <1>18, <1>19, <1>21, <1>22, <1>23, <1>24, MovingStep

-----------------------------------------------------------------------------
(* Reading from a child.                                                   *)

(* The floats a read completes are those that end in the bytes read.       *)
LEMMA FloatsRead ==
  ASSUME NEW pos \in Nat, NEW count \in Nat
  PROVE  /\ pos \div FloatSize \in Nat /\ Completed(pos, count) \in Nat
         /\ pos % FloatSize \in Nat /\ pos % FloatSize < FloatSize
         /\ (pos \div FloatSize) * FloatSize \in Nat
         /\ pos = (pos \div FloatSize) * FloatSize + (pos % FloatSize)
         /\ Completed(pos, count) * FloatSize \in Nat
         /\ Completed(pos, count) * FloatSize <= (pos % FloatSize) + count
         /\ ((pos % FloatSize) + count) \div FloatSize = Completed(pos, count)
         /\ \A e \in Nat : e * FloatSize <= pos <=> e <= pos \div FloatSize
         /\ \A e \in Nat : e * FloatSize <= pos + count
                             <=> e <= (pos \div FloatSize) + Completed(pos, count)
<1> DEFINE a == pos \div FloatSize
           r == pos % FloatSize
           c == Completed(pos, count)
<1>1. /\ c \in Nat /\ c * FloatSize <= r + count
      /\ (r + count) - c * FloatSize \in 0..(FloatSize - 1)
  <2>1. /\ Completed(pos, count) \in Nat
        /\ Completed(pos, count) * FloatSize <= (pos % FloatSize) + count
        /\ (pos % FloatSize) + count - Completed(pos, count) * FloatSize
             = (pos + count) % FloatSize
        /\ (pos + count) % FloatSize \in 0..(FloatSize - 1)
    BY ONLY LeftOver, pos \in Nat, count \in Nat, Zenon
  <2> DEFINE t == (pos + count) % FloatSize
             cf == c * FloatSize
  <2>2. /\ c \in Nat /\ cf <= r + count /\ r + (count - cf) = t
        /\ t \in 0..(FloatSize - 1)
    BY ONLY <2>1
  <2>3. \A p \in Nat, f \in Nat \ {0} : p % f \in Nat
    OBVIOUS
  <2>4. \A d \in Nat, f \in Nat \ {0} : d * f \in Nat
    OBVIOUS
  <2>5. r \in Nat /\ cf \in Nat /\ c \in Nat
    BY <2>1, <2>3, <2>4, AllReduceAssumption
  <2> HIDE DEF t, r, c, cf
  <2>6. c \in Nat /\ cf <= r + count /\ (r + count) - cf \in 0..(FloatSize - 1)
    BY <2>2, <2>5
  <2> QED
    BY <2>6 DEF cf
<1>2. FloatSize \in Nat \ {0} /\ FloatSize \in Nat /\ FloatSize > 0
  BY AllReduceAssumption
<1>3. /\ a \in Nat /\ r \in Nat /\ r < FloatSize /\ a * FloatSize \in Nat
      /\ pos = a * FloatSize + r
  <2>1. \A p \in Nat, f \in Nat \ {0} :
          /\ p \div f \in Nat /\ p % f \in Nat /\ p % f < f /\ (p \div f) * f \in Nat
          /\ p = (p \div f) * f + (p % f)
    OBVIOUS
  <2> QED
    BY <1>2, <2>1
<1> HIDE DEF a, r, c
<1>4. c * FloatSize \in Nat
  BY <1>1, <1>2
<1>5. \A d \in Nat, k \in Nat, f \in Nat \ {0} : k < f => (d * f + k) \div f = d
  OBVIOUS
<1>6. \A d, e, k \in Nat, f \in Nat \ {0} : k < f => (e * f <= d * f + k <=> e <= d)
  <2> SUFFICES ASSUME NEW d \in Nat, NEW e \in Nat, NEW k \in Nat, NEW f \in Nat \ {0}, k < f
               PROVE  e * f <= d * f + k <=> e <= d
    OBVIOUS
  <2>1. e <= d => e * f <= d * f
    OBVIOUS
  <2>2. e > d => e * f >= (d + 1) * f
    OBVIOUS
  <2>3. (d + 1) * f = d * f + f /\ d * f \in Nat /\ e * f \in Nat
    OBVIOUS
  <2> QED
    BY <2>1, <2>2, <2>3
<1> DEFINE left == (r + count) - c * FloatSize
<1>7. left \in Nat /\ left < FloatSize /\ r + count = c * FloatSize + left
  BY <1>1, <1>2, <1>3, <1>4
<1>8. (r + count) \div FloatSize = c
  BY <1>1, <1>2, <1>5, <1>7
<1>9. pos + count = (a + c) * FloatSize + left
  <2>1. (a + c) * FloatSize = a * FloatSize + c * FloatSize
    BY <1>1, <1>2, <1>3
  <2> DEFINE af == a * FloatSize
             cf == c * FloatSize
  <2>2. /\ af \in Nat /\ cf \in Nat /\ pos = af + r /\ r + count = cf + left
        /\ (a + c) * FloatSize = af + cf
    BY <1>3, <1>4, <1>7, <2>1
  <2>3. left \in Nat /\ a \in Nat /\ r \in Nat
    BY <1>3, <1>7
  <2> HIDE DEF af, cf, left
  <2>4. pos + count = (af + cf) + left
    BY <2>2, <2>3
  <2> QED
    BY <2>2, <2>4
<1> HIDE DEF left
<1>10. \A e \in Nat : e * FloatSize <= pos <=> e <= a
  BY <1>2, <1>3, <1>6
<1>11. \A e \in Nat : e * FloatSize <= pos + count <=> e <= a + c
  <2>1. a + c \in Nat
    BY <1>1, <1>3
  <2> QED
    BY <1>2, <1>6, <1>7, <1>9, <2>1
<1> QED
  BY <1>1, <1>3, <1>4, <1>8, <1>10, <1>11 DEF a, r, c

(* What is kept of a float, and the bytes a read gives.                    *)
Joined(bytes, kept, pipe, count) ==
  /\ IsSeq(bytes) /\ Len(bytes) = Len(kept) + count
  /\ \A k \in 1..Len(kept) : bytes[k] = kept[k]
  /\ \A k \in 1..count : bytes[Len(kept) + k] = pipe[k]

Rest(rest, bytes, gone) ==
  /\ Len(rest) = Len(bytes) - gone
  /\ \A k \in 1..Len(rest) : rest[k] = bytes[gone + k]

LEMMA JoinedBytes ==
  ASSUME NEW kept, IsSeq(kept), NEW pipe, IsSeq(pipe), NEW count \in Nat, count <= Len(pipe)
  PROVE  Joined(kept \o SubSeq(pipe, 1, count), kept, pipe, count)
<1> DEFINE start == SubSeq(pipe, 1, count)
           bytes == kept \o start
<1>1. IsSeq(start) /\ Len(start) = count
  <2>1. start = SubSeq(pipe, 0 + 1, count) /\ count - 0 = count
    OBVIOUS
  <2> QED
    BY <2>1, SeqPart
<1>2. \A k \in 1..count : start[k] = pipe[k]
  <2>1. \A k \in 1..(count - 0) : SubSeq(pipe, 0 + 1, count)[k] = pipe[0 + k]
    BY PartAt
  <2> QED
    BY <2>1
<1> HIDE DEF start
<1>3. IsSeq(bytes) /\ Len(bytes) = Len(kept) + count
  BY <1>1, SeqConcat
<1>4. /\ \A k \in 1..Len(kept) : bytes[k] = kept[k]
      /\ \A k \in 1..count : bytes[Len(kept) + k] = start[k]
  BY <1>1, ConcatAt
<1> QED
  BY <1>2, <1>3, <1>4 DEF Joined, start

LEMMA RestOf ==
  ASSUME NEW bytes, IsSeq(bytes), NEW gone \in Nat, gone <= Len(bytes)
  PROVE  Rest(SubSeq(bytes, gone + 1, Len(bytes)), bytes, gone)
<1>1. Len(bytes) \in Nat
  BY DEF IsSeq
<1>2. Len(SubSeq(bytes, gone + 1, Len(bytes))) = Len(bytes) - gone
  BY <1>1, SeqPart
<1>3. \A k \in 1..(Len(bytes) - gone) : SubSeq(bytes, gone + 1, Len(bytes))[k] = bytes[gone + k]
  BY <1>1, PartAt
<1> QED
  BY <1>2, <1>3 DEF Rest

(* The whole floats of the bytes.                                          *)
LEMMA FloatsOf ==
  ASSUME NEW bytes, NEW count \in Nat, Len(bytes) \div FloatSize = count
  PROVE  /\ Len(SubSeq(Decode(bytes), 1, count)) = count
         /\ \A e \in 1..count : SubSeq(Decode(bytes), 1, count)[e] = FloatAt(bytes, e)
<1> DEFINE floats == Decode(bytes)
           S == {FloatAt(bytes, e) : e \in 1..count}
<1>1. floats = [e \in 1..count |-> FloatAt(bytes, e)]
  BY DEF Decode
<1>2. \A e \in 1..count : FloatAt(bytes, e) \in S
  OBVIOUS
<1> HIDE DEF S
<1>3. floats \in Seq(S) /\ Len(floats) = count /\ \A e \in 1..count : floats[e] = FloatAt(bytes, e)
  BY <1>1, <1>2
<1> HIDE DEF floats
<1> QED
  BY <1>3 DEF floats

(* What reading count bytes from the child at a side does: bytes are those *)
(* kept of the last float and those read, and their floats are added.      *)
Reads(x, t, kid, count, bytes) ==
  LET pos   == child_read_pos[x][t]
      from  == pos \div FloatSize
      added == Completed(pos, count)
  IN /\ count \in Nat /\ count <= Len(up[kid]) /\ pos + count <= Bytes(x)
     /\ count = 0 => Len(up[kid]) = 0
     /\ Joined(bytes, child_read_buf[x][t], up[kid], count)
     /\ Rest(up'[kid], up[kid], count)
     /\ Rest(child_read_buf'[x][t], bytes, added * FloatSize)
     /\ child_read_pos'[x][t] = pos + count
     /\ Whole(buffer'[x], Calls[Current(x)])
     /\ \A e \in 1..Calls[Current(x)] :
          Float(x, e)' = IF from < e /\ e <= from + added
                           THEN Add(Float(x, e), FloatAt(bytes, e - from)) ELSE Float(x, e)

LEMMA ReadFacts ==
  ASSUME State, FitsInt, NEW x \in Node, NEW t \in Side, ReadChild(x, t),
         NEW kid \in Node, Link(x, t, kid)
  PROVE  /\ \E count, bytes : Reads(x, t, kid, count, bytes)
         /\ \A m \in Node \ {kid} : up'[m] = up[m]
         /\ \A s \in Side \ {t} : /\ child_read_pos'[x][s] = child_read_pos[x][s]
                                  /\ child_read_buf'[x][s] = child_read_buf[x][s]
<1> DEFINE pos == child_read_pos[x][t]
           kept == child_read_buf[x][t]
           pipe == up[kid]
<1>1. /\ pc[x] = ReadLabel(t) /\ pc[x] # "caller" /\ pc[x] \in ReduceLabels
      /\ children[x][t] = kid /\ t \in Linked(x)
  BY Links DEF ReadChild, At, ReadLabel, ReduceLabels, Link, State
<1>2. PICK count \in 0..MinOf(BufSize, Bytes(x) - pos) :
        /\ CanRead(pipe, count)
        /\ up' = [up EXCEPT ![kid] = SubSeq(pipe, count + 1, Len(pipe))]
        /\ buffer' = [buffer EXCEPT ![x] =
             AddBufs(buffer[x], pos \div FloatSize,
                     SubSeq(Decode(kept \o SubSeq(pipe, 1, count)), 1, Completed(pos, count)))]
        /\ child_read_pos' = [child_read_pos EXCEPT ![x][t] = pos + count]
        /\ child_read_buf' = [child_read_buf EXCEPT ![x][t] =
             SubSeq(kept \o SubSeq(pipe, 1, count), Completed(pos, count) * FloatSize + 1,
                    Len(kept \o SubSeq(pipe, 1, count)))]
  BY <1>1 DEF ReadChild
<1> DEFINE bytes == kept \o SubSeq(pipe, 1, count)
           from  == pos \div FloatSize
           added == Completed(pos, count)
           size  == Calls[Current(x)]
           floats == SubSeq(Decode(bytes), 1, added)
<1>3. /\ Bytes(x) \in Nat /\ Len(buffer[x]) = Bytes(x) /\ Bytes(x) = size * FloatSize
      /\ size \in Nat /\ pos \in Nat /\ pos <= Bytes(x) /\ BufSize \in Nat
      /\ Len(kept) = pos % FloatSize
  <2>1. /\ Bytes(x) \in Nat /\ Len(buffer[x]) = Bytes(x) /\ Bytes(x) = size * FloatSize
        /\ size \in Nat
    BY <1>1, CallSize
  <2>2. pos \in 0..Len(buffer[x]) /\ Len(kept) = pos % FloatSize
    BY <1>1 DEF State, Extents, ExtentInv
  <2> QED
    BY <2>1, <2>2, AllReduceAssumption
<1>4. IsSeq(pipe) /\ IsSeq(kept)
  <2>1. IsSeq(kept)
    BY DEF State, Extents, SeqInv, IsSeq
  <2> QED
    BY <2>1, Sequences
<1>5. /\ count \in Nat /\ pos + count <= Bytes(x) /\ count <= Len(pipe)
      /\ count = 0 => Len(pipe) = 0
  BY <1>2, <1>3 DEF MinOf, CanRead
<1>6. /\ from \in Nat /\ added \in Nat /\ added * FloatSize \in Nat
      /\ added * FloatSize <= (pos % FloatSize) + count
      /\ ((pos % FloatSize) + count) \div FloatSize = added
  BY <1>3, <1>5, FloatsRead
<1>7. Joined(bytes, kept, pipe, count)
  <2> HIDE DEF kept, pipe
  <2> QED
    BY <1>4, <1>5, JoinedBytes
<1>8. Len(bytes) = (pos % FloatSize) + count /\ IsSeq(bytes)
  BY <1>3, <1>7 DEF Joined
<1>9. /\ up'[kid] = SubSeq(pipe, count + 1, Len(pipe))
      /\ \A m \in Node \ {kid} : up'[m] = up[m]
  BY <1>2 DEF State, Extents, SeqInv, Typed
<1>10. buffer'[x] = AddBufs(buffer[x], from, floats)
  <2>1. x \in DOMAIN buffer
    BY DEF State, Extents, SeqInv, Typed
  <2> QED
    BY <1>2, <2>1
<1>11. /\ child_read_pos'[x][t] = pos + count
       /\ \A s \in Side \ {t} : child_read_pos'[x][s] = child_read_pos[x][s]
  BY <1>2 DEF State, BooksInv, BookTypes
<1>12. /\ child_read_buf'[x][t] = SubSeq(bytes, added * FloatSize + 1, Len(bytes))
       /\ \A s \in Side \ {t} : child_read_buf'[x][s] = child_read_buf[x][s]
  <2>1. PICK B : child_read_buf \in [Node -> [Side -> Seq(B)]]
    BY DEF State, Extents, SeqInv
  <2> QED
    BY <1>2, <2>1
<1> HIDE DEF bytes, from, added, size, floats, pos, kept, pipe
<1>13. Rest(up'[kid], pipe, count)
  BY <1>4, <1>5, <1>9, RestOf
<1>14. Rest(child_read_buf'[x][t], bytes, added * FloatSize)
  BY <1>6, <1>8, <1>12, RestOf
<1>15. Len(floats) = added /\ \A e \in 1..added : floats[e] = FloatAt(bytes, e)
  BY <1>6, <1>8, FloatsOf DEF floats
<1>16. /\ Whole(buffer'[x], size)
       /\ \A e \in 1..size : FloatAt(buffer'[x], e) =
            IF e > from /\ e <= from + added
              THEN Add(FloatAt(buffer[x], e), floats[e - from]) ELSE FloatAt(buffer[x], e)
  <2> DEFINE old == buffer[x]
  <2>1. Len(old) = size * FloatSize /\ size \in Nat /\ from \in Nat /\ Len(floats) \in Nat
    BY <1>3, <1>6, <1>15
  <2> HIDE DEF old
  <2>2. /\ Whole(AddBufs(old, from, floats), size)
        /\ \A e \in 1..size :
             FloatAt(AddBufs(old, from, floats), e) =
               IF e > from /\ e <= from + Len(floats)
                 THEN Add(FloatAt(old, e), floats[e - from]) ELSE FloatAt(old, e)
    BY ONLY <2>1, Added
  <2>3. Len(floats) = added /\ buffer'[x] = AddBufs(old, from, floats)
    BY <1>10, <1>15 DEF old
  <2> QED
    BY <2>2, <2>3 DEF old
<1>17. ASSUME NEW e \in 1..size
       PROVE  Float(x, e)' = IF from < e /\ e <= from + added
                THEN Add(Float(x, e), FloatAt(bytes, e - from)) ELSE Float(x, e)
  <2>1. e > from /\ e <= from + added => e - from \in 1..added
    BY <1>3, <1>6
  <2>2. e > from /\ e <= from + added => floats[e - from] = FloatAt(bytes, e - from)
    BY <1>15, <2>1
  <2>3. e > from <=> from < e
    BY <1>3, <1>6
  <2> QED
    BY <1>16, <2>2, <2>3 DEF Float
<1>18. Reads(x, t, kid, count, bytes)
  BY <1>5, <1>7, <1>11, <1>13, <1>14, <1>16, <1>17 DEF Reads, from, added, size, pos, kept, pipe
<1> QED
  BY <1>9, <1>11, <1>12, <1>18

LEMMA ReadViews ==
  ASSUME State, FitsInt, NEW x \in Node, NEW t \in Side, ReadChild(x, t),
         NEW kid \in Node, Link(x, t, kid),
         NEW count, NEW bytes, Reads(x, t, kid, count, bytes)
  PROVE  /\ Alone(x) /\ Agreed' = Agreed /\ UNCHANGED <<down, results>>
         /\ \A m \in Node \ {kid} : up'[m] = up[m]
         /\ pc[x] \in ReduceLabels /\ pc[x] # "caller" /\ pc[x] \notin BroadcastLabels
         /\ pc'[x] \in ReduceLabels /\ pc'[x] # "caller" /\ pc'[x] \notin BroadcastLabels
         /\ Current(x)' = Current(x) /\ Bytes(x)' = Bytes(x) /\ UpSent(x)' = UpSent(x)
         /\ DownGot(x) = 0 /\ DownGot(x)' = 0
         /\ \A s \in Side : DownSent(x, s) = 0 /\ DownSent(x, s)' = 0
         /\ \A s \in Side \ {t} : UpGot(x, s)' = UpGot(x, s) /\ Kept(x, s)' = Kept(x, s)
         /\ UpGot(x, t) = child_read_pos[x][t] /\ UpGot(x, t)' = child_read_pos[x][t] + count
         /\ Kept(x, t) = child_read_buf[x][t] /\ Kept(x, t)' = child_read_buf'[x][t]
<1>1. /\ pc[x] = ReadLabel(t) /\ pc'[x] = AfterRead(t)
      /\ UNCHANGED <<socks, down, faults, written, parent_sent_pos, spreading, results>>
  BY DEF ReadChild, At, Goto, State, BooksInv, BookTypes
<1>2. /\ pc[x] \in ReduceLabels /\ pc[x] # "caller" /\ pc[x] \notin BroadcastLabels
      /\ pc'[x] \in ReduceLabels /\ pc'[x] # "caller" /\ pc'[x] \notin BroadcastLabels
      /\ pc[x] # "select"
  BY <1>1 DEF ReadLabel, AfterRead, ReduceLabels, BroadcastLabels
<1>3. Step(x) /\ ~LeaveReduce(x)
  BY <1>2 DEF Step, Reduce, LeaveReduce, At
<1>4. Alone(x) /\ Agreed' = Agreed
  BY <1>3, StepsAlone, AgreedKept
<1>5. /\ \A m \in Node \ {kid} : up'[m] = up[m]
      /\ \A s \in Side \ {t} : /\ child_read_pos'[x][s] = child_read_pos[x][s]
                               /\ child_read_buf'[x][s] = child_read_buf[x][s]
      /\ child_read_pos'[x][t] = child_read_pos[x][t] + count
  BY ReadFacts DEF Reads
<1>6. Current(x)' = Current(x)
  BY <1>1 DEF Current
<1>7. Bytes(x)' = Bytes(x)
  BY <1>6 DEF Bytes
<1>8. UpSent(x)' = UpSent(x) /\ DownGot(x) = 0 /\ DownGot(x)' = 0
  BY <1>1, <1>2 DEF UpSent, DownGot
<1>9. \A s \in Side : DownSent(x, s) = 0 /\ DownSent(x, s)' = 0
  BY <1>2 DEF DownSent
<1>10. /\ \A s \in Side \ {t} : UpGot(x, s)' = UpGot(x, s) /\ Kept(x, s)' = Kept(x, s)
       /\ UpGot(x, t) = child_read_pos[x][t] /\ UpGot(x, t)' = child_read_pos[x][t] + count
       /\ Kept(x, t) = child_read_buf[x][t] /\ Kept(x, t)' = child_read_buf'[x][t]
  BY <1>2, <1>5 DEF UpGot, Kept
<1> QED
  BY <1>1, <1>2, <1>4, <1>5, <1>6, <1>7, <1>8, <1>9, <1>10

(* Where no byte is lost, the bytes are those of the child's buffer.       *)
LEMMA BytesOfKid ==
  ASSUME State, FitsInt, NEW x \in Node, NEW t \in Side, ReadChild(x, t),
         NEW kid \in Node, Link(x, t, kid), LinkOK(x, t, kid),
         NEW count, NEW bytes, Reads(x, t, kid, count, bytes),
         UpExact(x, t, kid), UpTaken(x, t, kid) = child_read_pos[x][t]
  PROVE  /\ Len(Kept(x, t)) = child_read_pos[x][t] % FloatSize
         /\ Len(Kept(x, t)) \in Nat /\ Len(Kept(x, t)) <= child_read_pos[x][t]
         /\ Len(bytes) = Len(Kept(x, t)) + count
         /\ \A j \in 1..Len(bytes) :
              bytes[j] = buffer[kid][(child_read_pos[x][t] - Len(Kept(x, t))) + j]
<1> DEFINE pos == child_read_pos[x][t]
           kept == Kept(x, t)
<1>1. /\ pc[x] \in ReduceLabels /\ UpGot(x, t) = pos /\ Kept(x, t) = child_read_buf[x][t]
  BY ReadViews
<1>2. /\ pos \in Nat /\ Len(kept) \in Nat /\ Len(kept) <= pos
      /\ Len(kept) = pos % FloatSize
  BY <1>1, LinkTypes DEF LinkOK
<1>3. /\ count \in Nat /\ count <= Len(up[kid]) /\ Len(up[kid]) \in Nat
      /\ Len(bytes) = Len(kept) + count
      /\ \A k \in 1..Len(kept) : bytes[k] = kept[k]
      /\ \A k \in 1..count : bytes[Len(kept) + k] = up[kid][k]
  BY <1>1, Sequences DEF Reads, Joined
<1>4. /\ \A k \in 1..Len(up[kid]) : up[kid][k] = buffer[kid][pos + k]
      /\ \A k \in 1..Len(kept) : kept[k] = buffer[kid][(pos - Len(kept)) + k]
  <2>1. /\ \A k \in 1..Len(up[kid]) : up[kid][k] = buffer[kid][pos + k]
        /\ \A k \in 1..Len(kept) : kept[k] = buffer[kid][pos - Len(kept) + k]
    BY DEF LinkOK, UpStreamInv
  <2> QED
    BY <1>2, <2>1
<1> HIDE DEF pos, kept
<1>5. ASSUME NEW j \in 1..Len(bytes)
      PROVE  bytes[j] = buffer[kid][(pos - Len(kept)) + j]
  <2>1. CASE j <= Len(kept)
    BY <1>2, <1>3, <1>4, <2>1
  <2>2. CASE j > Len(kept)
    <3> DEFINE k == j - Len(kept)
    <3>1. /\ k \in 1..count /\ k \in 1..Len(up[kid]) /\ Len(kept) + k = j
          /\ (pos - Len(kept)) + j = pos + k
      BY <1>2, <1>3, <2>2
    <3> HIDE DEF k
    <3> QED
      BY <1>3, <1>4, <3>1
  <2> QED
    BY <1>2, <1>3, <2>1, <2>2
<1> QED
  BY <1>2, <1>3, <1>5 DEF pos, kept

LEMMA KidLink ==
  ASSUME State, FitsInt, NEW x \in Node, NEW t \in Side, ReadChild(x, t),
         NEW kid \in Node, Link(x, t, kid), LinkOK(x, t, kid),
         NEW count, NEW bytes, Reads(x, t, kid, count, bytes)
  PROVE  LinkOK(x, t, kid)' /\ (UpExact(x, t, kid)' => UpExact(x, t, kid))
<1> DEFINE pos  == child_read_pos[x][t]
           cf   == Completed(pos, count) * FloatSize
           kept == Kept(x, t)
<1>1. /\ kid # x /\ parent[kid] # None
  BY Links DEF State
<1>2. /\ Alone(x) /\ Agreed' = Agreed /\ down' = down
      /\ pc[x] \in ReduceLabels /\ pc[x] # "caller" /\ pc[x] \notin BroadcastLabels
      /\ pc'[x] \in ReduceLabels /\ pc'[x] # "caller" /\ pc'[x] \notin BroadcastLabels
      /\ Current(x)' = Current(x) /\ Bytes(x)' = Bytes(x)
      /\ DownGot(x) = 0 /\ DownGot(x)' = 0
      /\ DownSent(x, t) = 0 /\ DownSent(x, t)' = 0
      /\ UpGot(x, t) = pos /\ UpGot(x, t)' = pos + count
      /\ kept = child_read_buf[x][t] /\ Kept(x, t)' = child_read_buf'[x][t]
  BY ReadViews
<1>3. /\ Current(kid)' = Current(kid) /\ DownGot(kid)' = DownGot(kid)
      /\ UpSent(kid)' = UpSent(kid) /\ pc'[kid] = pc[kid] /\ buffer'[kid] = buffer[kid]
      /\ Bytes(kid)' = Bytes(kid) /\ (RightBelow(kid)' <=> RightBelow(kid))
  BY <1>1, <1>2, OwnViews, RightKept DEF Alone
<1>4. /\ LinkInv(x, t, kid) /\ Current(kid) \in Nat /\ Current(x) \in Nat
      /\ UpTaken(x, t, kid) \in Nat /\ UpSent(kid) \in Nat /\ Len(up[kid]) \in Nat
      /\ UpTaken(x, t, kid) + Len(up[kid]) <= UpSent(kid)
      /\ pos \in Nat /\ Len(kept) \in Nat /\ Len(kept) = pos % FloatSize
  BY <1>2, LinkTypes DEF LinkOK
<1>5. /\ count \in Nat /\ count <= Len(up[kid])
      /\ Rest(up'[kid], up[kid], count)
      /\ Rest(Kept(x, t)', bytes, cf)
      /\ Len(bytes) = Len(kept) + count
  BY <1>2 DEF Reads, Joined
<1>6. /\ cf \in Nat /\ cf <= (pos % FloatSize) + count
  BY <1>4, <1>5, FloatsRead
<1> HIDE DEF cf, kept, pos
<1>7. ~Ahead(x, kid) /\ (Ahead(x, kid)' <=> Ahead(x, kid)) /\ (Behind(x, kid)' <=> Behind(x, kid))
  BY <1>2, <1>3, <1>4 DEF LinkInv, Ahead, Behind
<1>8. Behind(x, kid) =>
        /\ count = 0 /\ pos = 0 /\ Len(up[kid]) = 0 /\ pc[kid] # "caller"
        /\ Current(x) = Current(kid) + 1
        /\ UpTaken(x, t, kid) = Bytes(kid) /\ UpTaken(x, t, kid)' = Bytes(kid)
        /\ Len(Kept(x, t)') = 0
  <2> SUFFICES ASSUME Behind(x, kid)
               PROVE  /\ count = 0 /\ pos = 0 /\ Len(up[kid]) = 0 /\ pc[kid] # "caller"
                      /\ Current(x) = Current(kid) + 1
                      /\ UpTaken(x, t, kid) = Bytes(kid) /\ UpTaken(x, t, kid)' = Bytes(kid)
                      /\ Len(Kept(x, t)') = 0
    OBVIOUS
  <2>1. /\ Current(x) = Current(kid) + 1 /\ pc[kid] # "caller" /\ UpGot(x, t) = 0
    BY <1>4 DEF LinkInv
  <2>2. UpTaken(x, t, kid) = Bytes(kid) /\ UpTaken(x, t, kid)' = Bytes(kid)
    BY <1>3, <1>7 DEF UpTaken
  <2>3. UpSent(kid) <= Bytes(kid)
    BY <1>1, <2>1, UpEnds
  <2>4. Len(up[kid]) = 0 /\ count = 0 /\ pos = 0
    BY <1>2, <1>4, <1>5, <2>1, <2>2, <2>3
  <2>5. pos % FloatSize = 0
    <3>1. \A f \in Nat \ {0} : 0 % f = 0
      OBVIOUS
    <3> QED
      BY <2>4, <3>1, AllReduceAssumption
  <2>6. Len(Kept(x, t)') = 0
    BY <1>4, <1>5, <1>6, <2>4, <2>5 DEF Rest
  <2> QED
    BY <2>1, <2>2, <2>4, <2>6
<1>9. ~Behind(x, kid) =>
        UpTaken(x, t, kid) = pos /\ UpTaken(x, t, kid)' = pos + count
  BY <1>2, <1>7 DEF UpTaken
<1>10. DownGiven(x, t, kid)' = DownGiven(x, t, kid)
  BY <1>2, <1>3, <1>7 DEF DownGiven
<1>11. Len(up'[kid]) = Len(up[kid]) - count
  BY <1>5 DEF Rest
<1>12. UpTaken(x, t, kid)' + Len(up'[kid]) = UpTaken(x, t, kid) + Len(up[kid])
  BY <1>4, <1>5, <1>8, <1>9, <1>11
<1>13. UpExact(x, t, kid)' => UpExact(x, t, kid)
  BY <1>3, <1>12 DEF UpExact
<1>14. LinkInv(x, t, kid)'
  <2>1. DownGot(kid)' + Len(down'[kid]) <= DownGiven(x, t, kid)'
    BY <1>2, <1>3, <1>4, <1>10 DEF LinkInv
  <2>2. UpTaken(x, t, kid)' + Len(up'[kid]) <= UpSent(kid)'
    BY <1>3, <1>4, <1>12
  <2> QED
    BY <1>2, <1>3, <1>7, <1>8, <2>1, <2>2 DEF LinkInv
<1>15. UpStreamInv(x, t, kid)'
  <2> SUFFICES ASSUME UpExact(x, t, kid)'
               PROVE  /\ \A k \in 1..Len(up'[kid]) :
                           up'[kid][k] = buffer[kid][UpTaken(x, t, kid)' + k]
                      /\ \A k \in 1..Len(Kept(x, t)') : Kept(x, t)'[k] =
                           buffer[kid][UpTaken(x, t, kid)' - Len(Kept(x, t)') + k]
    BY <1>3 DEF UpStreamInv
  <2>1. CASE Behind(x, kid)
    BY <1>8, <1>11, <2>1
  <2>2. CASE ~Behind(x, kid)
    <3>1. UpTaken(x, t, kid) = pos /\ UpTaken(x, t, kid)' = pos + count
      BY <1>9, <2>2
    <3>2. \A k \in 1..Len(up[kid]) : up[kid][k] = buffer[kid][pos + k]
      BY <1>13, <3>1 DEF LinkOK, UpStreamInv
    <3>3. /\ Len(kept) <= pos
          /\ \A j \in 1..Len(bytes) : bytes[j] = buffer[kid][(pos - Len(kept)) + j]
      BY <1>13, <3>1, BytesOfKid DEF kept, pos
    <3>4. ASSUME NEW k \in 1..Len(up'[kid])
          PROVE  up'[kid][k] = buffer[kid][(pos + count) + k]
      <4> DEFINE j == count + k
      <4>1. j \in 1..Len(up[kid]) /\ pos + j = (pos + count) + k
        BY <1>4, <1>5, <1>11
      <4>2. up'[kid][k] = up[kid][j]
        BY <1>5 DEF Rest
      <4> HIDE DEF j
      <4> QED
        BY <3>2, <4>1, <4>2
    <3>5. ASSUME NEW k \in 1..Len(Kept(x, t)')
          PROVE  Kept(x, t)'[k] = buffer[kid][(pos + count) - Len(Kept(x, t)') + k]
      <4> DEFINE j == cf + k
                 new == Len(Kept(x, t)')
      <4>1. new = Len(bytes) - cf /\ Kept(x, t)'[k] = bytes[j]
        BY <1>5 DEF Rest
      <4>2. new = (Len(kept) + count) - cf /\ cf <= Len(kept) + count /\ k \in 1..new
        BY <1>4, <1>5, <1>6, <4>1
      <4> HIDE DEF new
      <4>3. /\ j \in 1..Len(bytes)
            /\ (pos - Len(kept)) + j = (pos + count) - new + k
        BY <1>4, <1>5, <1>6, <3>3, <4>2, SMTT(20)
      <4> HIDE DEF j
      <4>4. Kept(x, t)'[k] = buffer[kid][(pos - Len(kept)) + j]
        BY <3>3, <4>1, <4>3
      <4> QED
        BY <4>3, <4>4 DEF new
    <3> QED
      BY <3>1, <3>4, <3>5
  <2> QED
    BY <2>1, <2>2
<1>16. DownStreamInv(x, t, kid)'
  <2>1. Right(x)' /\ Right(x)
    BY <1>2 DEF Right
  <2>2. DownExact(x, t, kid)' => DownExact(x, t, kid)
    BY <1>2, <1>3, <1>10 DEF DownExact
  <2> QED
    BY <1>3, <1>7, <2>1, <2>2 DEF LinkOK, DownStreamInv
<1> QED
  BY <1>13, <1>14, <1>15, <1>16 DEF LinkOK

(* A read that gives something gives bytes of the call the reader is in.   *)
LEMMA KidSame ==
  ASSUME State, FitsInt, NEW x \in Node, NEW t \in Side, ReadChild(x, t),
         NEW kid \in Node, Link(x, t, kid), LinkOK(x, t, kid),
         NEW count, NEW bytes, Reads(x, t, kid, count, bytes), count # 0
  PROVE  /\ Current(kid) = Current(x) /\ UpTaken(x, t, kid) = child_read_pos[x][t]
         /\ DownGot(kid) = 0 /\ pc[kid] # "caller"
<1> DEFINE pos == child_read_pos[x][t]
<1>1. parent[kid] # None
  BY Links DEF State
<1>2. /\ pc[x] \notin BroadcastLabels /\ DownSent(x, t) = 0 /\ UpGot(x, t) = pos
      /\ count \in Nat /\ count <= Len(up[kid])
  <2>1. pc[x] \notin BroadcastLabels /\ DownSent(x, t) = 0 /\ UpGot(x, t) = pos
    BY ReadViews
  <2> QED
    BY <2>1 DEF Reads
<1>3. /\ LinkInv(x, t, kid) /\ Current(kid) \in Nat /\ Current(x) \in Nat
      /\ UpTaken(x, t, kid) \in Nat /\ UpSent(kid) \in Nat /\ Len(up[kid]) \in Nat
      /\ UpTaken(x, t, kid) + Len(up[kid]) <= UpSent(kid)
      /\ DownGot(kid) \in Nat /\ Len(down[kid]) \in Nat
      /\ DownGot(kid) + Len(down[kid]) <= DownGiven(x, t, kid)
  BY LinkTypes DEF LinkOK
<1>4. ~Ahead(x, kid)
  BY <1>2, <1>3 DEF LinkInv
<1>5. UpSent(kid) > 0
  BY <1>2, <1>3
<1>6. pc[kid] # "caller"
  BY <1>5 DEF UpSent
<1>7. ~Behind(x, kid)
  <2> SUFFICES ASSUME Behind(x, kid) PROVE FALSE
    OBVIOUS
  <2>1. UpTaken(x, t, kid) = Bytes(kid)
    BY <1>4 DEF UpTaken
  <2>2. UpSent(kid) <= Bytes(kid)
    BY <1>1, <1>6, UpEnds
  <2> QED
    BY <1>2, <1>3, <2>1, <2>2
<1>8. UpTaken(x, t, kid) = pos /\ DownGiven(x, t, kid) = 0
  BY <1>2, <1>4, <1>7 DEF UpTaken, DownGiven
<1>9. Current(kid) = Current(x)
  BY <1>3, <1>4, <1>7 DEF Ahead, Behind
<1> QED
  BY <1>3, <1>6, <1>8, <1>9

LEMMA SumsJoin ==
  ASSUME NEW A, NEW B, A \cap B = {}, NEW c, NEW e
  PROVE  SumOf(A, c, e) (+) SumOf(B, c, e) = SumOf(A \cup B, c, e)
<1> DEFINE P == {<<m, c, e>> : m \in A}
           Q == {<<m, c, e>> : m \in B}
<1>1. P \cap Q = {} /\ {<<m, c, e>> : m \in A \cup B} = P \cup Q
  OBVIOUS
<1> HIDE DEF P, Q
<1>2. SetToBag(P) (+) SetToBag(Q) = SetToBag(P \cup Q)
  BY <1>1 DEF SetToBag, (+)
<1> QED
  BY <1>1, <1>2 DEF SumOf, P, Q

(* The floats a read completes are the child's.                            *)
LEMMA FloatRead ==
  ASSUME State, FitsInt, NEW x \in Node, NEW t \in Side, ReadChild(x, t),
         NEW kid \in Node, Link(x, t, kid), LinkOK(x, t, kid), FloatsInv(kid),
         NEW count, NEW bytes, Reads(x, t, kid, count, bytes), count # 0, UpExact(x, t, kid),
         NEW e \in 1..Calls[Current(x)],
         child_read_pos[x][t] \div FloatSize < e,
         e <= (child_read_pos[x][t] \div FloatSize) + Completed(child_read_pos[x][t], count)
  PROVE  FloatAt(bytes, e - (child_read_pos[x][t] \div FloatSize)) = Float(kid, e)
<1> DEFINE pos   == child_read_pos[x][t]
           from  == pos \div FloatSize
           part  == pos % FloatSize
           added == Completed(pos, count)
           ff    == from * FloatSize
           cf    == added * FloatSize
           d     == e - from
           v     == Float(kid, e)
<1>1. /\ Current(kid) = Current(x) /\ UpTaken(x, t, kid) = pos
      /\ DownGot(kid) = 0 /\ pc[kid] # "caller"
  BY KidSame
<1>2. /\ Len(bytes) = Len(Kept(x, t)) + count /\ Len(Kept(x, t)) = part
      /\ \A j \in 1..Len(bytes) : bytes[j] = buffer[kid][(pos - Len(Kept(x, t))) + j]
  BY <1>1, BytesOfKid
<1>3. pos \in Nat /\ count \in Nat
  BY <1>1, LinkTypes DEF LinkOK, Reads
<1>4. /\ from \in Nat /\ added \in Nat /\ part \in Nat /\ ff \in Nat /\ pos = ff + part
      /\ cf \in Nat /\ cf <= part + count
  BY <1>3, FloatsRead
<1>5. \A k \in 0..(FloatSize - 1) : buffer[kid][BytePos(e, k)] = <<v, k>>
  BY <1>1 DEF FloatsInv, BytePos
<1>6. FloatSize \in Nat \ {0} /\ e \in Nat /\ d \in Nat /\ d > 0 /\ d <= added
  <2>1. from < e /\ e <= from + added /\ e \in Nat
    OBVIOUS
  <2> HIDE DEF from, added
  <2> QED
    BY <1>4, <2>1, AllReduceAssumption
<1>7. (e - 1) * FloatSize = (d - 1) * FloatSize + ff
  <2>1. \A a, b \in Nat, f \in Nat \ {0} : (a + b) * f = a * f + b * f
    OBVIOUS
  <2>2. e - 1 = (d - 1) + from /\ d - 1 \in Nat
    BY <1>4, <1>6, SMTT(20)
  <2> HIDE DEF d, from
  <2> QED
    BY <1>4, <1>6, <2>1, <2>2
<1> HIDE DEF pos, from, part, added, ff, cf, d, v
<1>8. \A k \in 0..(FloatSize - 1) :
        BytePos(d, k) \in 1..Len(bytes) /\ ff + BytePos(d, k) = BytePos(e, k)
  <2> SUFFICES ASSUME NEW k \in 0..(FloatSize - 1)
               PROVE  BytePos(d, k) \in 1..Len(bytes) /\ ff + BytePos(d, k) = BytePos(e, k)
    OBVIOUS
  <2>1. BytePos(d, k) \in Nat /\ BytePos(d, k) > 0 /\ BytePos(d, k) <= d * FloatSize
        /\ d * FloatSize \in Nat /\ (d - 1) * FloatSize \in Nat
    BY <1>6, ByteOf
  <2>2. d * FloatSize <= cf
    BY <1>4, <1>6, FloatEnds DEF cf
  <2>3. Len(bytes) = part + count
    BY <1>2
  <2>4. BytePos(d, k) \in 1..Len(bytes)
    BY <1>3, <1>4, <2>1, <2>2, <2>3
  <2> DEFINE df == (d - 1) * FloatSize
  <2>5. BytePos(d, k) = df + k + 1 /\ BytePos(e, k) = (df + ff) + k + 1
    BY <1>7 DEF BytePos
  <2>6. df \in Nat /\ k \in Nat
    BY <1>6, <2>1
  <2> HIDE DEF df
  <2>7. ff + BytePos(d, k) = BytePos(e, k)
    BY <1>4, <2>5, <2>6
  <2> QED
    BY <2>4, <2>7
<1>9. \A j \in 1..Len(bytes) : bytes[j] = buffer[kid][ff + j]
  <2>1. pos - Len(Kept(x, t)) = ff
    BY <1>2, <1>4
  <2> QED
    BY <1>2, <2>1
<1>10. Holds(bytes, d, v)
  <2> SUFFICES ASSUME NEW k \in 0..(FloatSize - 1)
               PROVE  bytes[BytePos(d, k)] = <<v, k>>
    BY DEF Holds
  <2> DEFINE j == BytePos(d, k)
  <2>1. j \in 1..Len(bytes) /\ ff + j = BytePos(e, k)
    BY <1>8
  <2> HIDE DEF j
  <2>2. bytes[j] = buffer[kid][BytePos(e, k)]
    BY <1>9, <2>1
  <2> QED
    BY <1>5, <2>2 DEF j
<1>11. FloatAt(bytes, d) = v
  BY <1>10, FloatHeld
<1> QED
  BY <1>11 DEF d, from, pos, v

(* What has been read from both children is not added to again.            *)
LEMMA ReaderKeeps ==
  ASSUME State, FitsInt, NEW x \in Node, NEW t \in Side, ReadChild(x, t), FloatsInv(x),
         NEW kid \in Node, Link(x, t, kid),
         NEW count, NEW bytes, Reads(x, t, kid, count, bytes)
  PROVE  /\ \A e \in 1..Calls[Current(x)] :
              e * FloatSize <= UpGot(x, t) => Float(x, e)' = Float(x, e)
         /\ parent[x] # None => \A q \in 1..UpSent(x) : buffer'[x][q] = buffer[x][q]
<1> DEFINE pos  == child_read_pos[x][t]
           from == pos \div FloatSize
           size == Calls[Current(x)]
<1>1. /\ pc[x] \in ReduceLabels /\ pc[x] # "caller" /\ DownGot(x) = 0 /\ UpGot(x, t) = pos
  BY ReadViews
<1>2. /\ size \in Nat /\ Bytes(x) = size * FloatSize /\ Bytes(x) \in Nat
      /\ pos \in Nat /\ pos <= Bytes(x) /\ t \in Linked(x) /\ UpSent(x) \in Nat
  BY <1>1, CallSize, UpEnds, Links DEF State
<1>3. count \in Nat /\ Whole(buffer'[x], size)
      /\ \A e \in 1..size : ~(from < e) => Float(x, e)' = Float(x, e)
  BY DEF Reads
<1>4. /\ from \in Nat /\ from * FloatSize \in Nat /\ from * FloatSize <= pos
      /\ \A e \in Nat : e * FloatSize <= pos <=> e <= from
  <2>1. /\ from \in Nat /\ from * FloatSize \in Nat
        /\ \A e \in Nat : e * FloatSize <= pos <=> e <= from
    BY <1>2, <1>3, FloatsRead
  <2> HIDE DEF from
  <2> QED
    BY <2>1
<1>5. WholeFloats(pos) = from * FloatSize
  BY DEF WholeFloats
<1> HIDE DEF pos, from, size
<1>6. \A e \in 1..size : e <= from => Float(x, e)' = Float(x, e)
  BY <1>2, <1>3, <1>4
<1>7. \A e \in 1..size : e * FloatSize <= UpGot(x, t) => Float(x, e)' = Float(x, e)
  BY <1>1, <1>2, <1>4, <1>6
<1>8. ASSUME parent[x] # None, NEW q \in 1..UpSent(x)
      PROVE  buffer'[x][q] = buffer[x][q]
  <2>1. UpSent(x) <= from * FloatSize
    BY <1>1, <1>2, <1>5, <1>8, UpEnds
  <2>2. q \in 1..(from * FloatSize) /\ q \in 1..(size * FloatSize)
    BY <1>2, <1>4, <2>1
  <2>3. FloatNo(q) \in 1..from /\ FloatNo(q) \in 1..size
    BY <1>2, <1>4, <2>2, FloatOf
  <2>4. Whole(buffer[x], size)
    BY <1>1 DEF FloatsInv, Float, Whole, Holds, BytePos, size
  <2>5. buffer[x][q] = <<FloatAt(buffer[x], FloatNo(q)), ByteNo(q)>>
    BY <1>2, <2>2, <2>4, WholeBytes
  <2>6. buffer'[x][q] = <<FloatAt(buffer'[x], FloatNo(q)), ByteNo(q)>>
    BY <1>2, <1>3, <2>2, WholeBytes
  <2>7. FloatAt(buffer'[x], FloatNo(q)) = FloatAt(buffer[x], FloatNo(q))
    BY <1>4, <1>6, <2>3 DEF Float
  <2> QED
    BY <2>5, <2>6, <2>7
<1> QED
  BY <1>7, <1>8 DEF size

(* The sums of the node that reads.                                        *)
LEMMA SumOfReader ==
  ASSUME State, FitsInt, NEW x \in Node, NEW t \in Side, ReadChild(x, t),
         FloatsInv(x), SumInv(x),
         NEW kid \in Node, Link(x, t, kid), LinkOK(x, t, kid), FloatsInv(kid),
         NEW count, NEW bytes, Reads(x, t, kid, count, bytes),
         \A s \in Side, c \in Node : Link(x, s, c) => (UpExact(x, s, c)' => UpExact(x, s, c))
  PROVE  SumInv(x)'
<1> DEFINE pos   == child_read_pos[x][t]
           from  == pos \div FloatSize
           added == Completed(pos, count)
           call  == Current(x)
<1>1. /\ Alone(x) /\ pc[x] # "caller" /\ Current(x)' = call /\ DownGot(x) = 0
      /\ \A s \in Side \ {t} : UpGot(x, s)' = UpGot(x, s)
      /\ UpGot(x, t) = pos /\ UpGot(x, t)' = pos + count /\ UpGot(x, t) \in Nat
  BY ReadViews, UpEnds
<1> SUFFICES ASSUME NoneLost(x)', NEW e \in 1..Calls[call],
                    \A c \in ReadFrom(x, e)' : RightSum(c, e)'
             PROVE  Float(x, e)'.terms =
                      SumOf({x} \cup UNION {Below(c)' : c \in ReadFrom(x, e)'}, call, e)
  BY <1>1 DEF SumInv, SumOf
<1>2. UNCHANGED socks /\ \A s \in Side, c \in Node : Link(x, s, c)' <=> Link(x, s, c)
  BY <1>1 DEF Alone, Link, socks
<1>3. \A c \in Node : Below(c)' = Below(c)
  BY <1>2 DEF Below, socks
<1>4. NoneLost(x)
  BY <1>2 DEF NoneLost
<1>5. /\ count \in Nat
      /\ Float(x, e)' = IF from < e /\ e <= from + added
                          THEN Add(Float(x, e), FloatAt(bytes, e - from)) ELSE Float(x, e)
  BY DEF Reads
<1>6. /\ from \in Nat /\ added \in Nat /\ e \in Nat
      /\ (e * FloatSize <= pos <=> e <= from)
      /\ (e * FloatSize <= pos + count <=> e <= from + added)
  <2>1. e \in Nat /\ pos \in Nat /\ count \in Nat
    BY <1>1, <1>5
  <2> HIDE DEF pos
  <2> QED
    BY <2>1, FloatsRead
<1>7. /\ \A c \in Node \ {kid} : c \in ReadFrom(x, e)' <=> c \in ReadFrom(x, e)
      /\ kid \in ReadFrom(x, e) <=> e <= from
      /\ kid \in ReadFrom(x, e)' <=> e <= from + added
  <2>1. \A s \in Side, c \in Node : Link(x, s, c) => (c = kid <=> s = t)
    BY Links DEF State, Link
  <2>2. \A c \in Node : /\ c \in ReadFrom(x, e)' <=>
                             \E s \in Side : Link(x, s, c) /\ e * FloatSize <= UpGot(x, s)'
                        /\ c \in ReadFrom(x, e) <=>
                             \E s \in Side : Link(x, s, c) /\ e * FloatSize <= UpGot(x, s)
    BY <1>2 DEF ReadFrom
  <2>3. \A c \in Node \ {kid} : c \in ReadFrom(x, e)' <=> c \in ReadFrom(x, e)
    BY <1>1, <2>1, <2>2
  <2>4. /\ kid \in ReadFrom(x, e) <=> e * FloatSize <= UpGot(x, t)
        /\ kid \in ReadFrom(x, e)' <=> e * FloatSize <= UpGot(x, t)'
    BY <2>1, <2>2
  <2> QED
    BY <1>1, <1>6, <2>3, <2>4
<1>8. ReadFrom(x, e) \subseteq Node /\ ReadFrom(x, e)' \subseteq Node
  BY DEF ReadFrom
<1> HIDE DEF pos, from, added
<1>9. \A c \in ReadFrom(x, e) : c \in ReadFrom(x, e)'
  BY <1>6, <1>7, <1>8
<1>10. \A c \in ReadFrom(x, e)' :
         /\ Current(c)' = Current(c) /\ Float(c, e)' = Float(c, e) /\ RightSum(c, e)
  <2> SUFFICES ASSUME NEW c \in ReadFrom(x, e)'
               PROVE  /\ Current(c)' = Current(c) /\ Float(c, e)' = Float(c, e)
                      /\ RightSum(c, e)
    OBVIOUS
  <2>1. c \in Node /\ c # x
    BY <1>2, Links DEF ReadFrom, State
  <2>2. Current(c)' = Current(c) /\ Float(c, e)' = Float(c, e) /\ Below(c)' = Below(c)
    BY <1>1, <1>3, <2>1, OwnViews DEF Alone
  <2>3. Float(c, e)'.terms = SumOf(Below(c)', Current(c)', e)
    BY DEF RightSum, SumOf
  <2> QED
    BY <2>2, <2>3 DEF RightSum
<1> DEFINE A == {x} \cup UNION {Below(c) : c \in ReadFrom(x, e)}
<1>11. Float(x, e).terms = SumOf(A, call, e)
  BY <1>1, <1>4, <1>9, <1>10 DEF SumInv
<1>12. UNION {Below(c)' : c \in ReadFrom(x, e)'} = UNION {Below(c) : c \in ReadFrom(x, e)'}
  <2>1. {Below(c)' : c \in ReadFrom(x, e)'} = {Below(c) : c \in ReadFrom(x, e)'}
    BY <1>3, <1>8
  <2> QED
    BY <2>1
<1>13. CASE from < e /\ e <= from + added
  <2>1. kid \in ReadFrom(x, e)' /\ kid \notin ReadFrom(x, e)
    BY <1>6, <1>7, <1>13
  <2>2. {x} \cup UNION {Below(c) : c \in ReadFrom(x, e)'} = A \cup Below(kid)
    BY <1>7, <1>8, <2>1
  <2>3. count # 0
    BY <1>1, <1>5, <1>6, <1>13 DEF pos
  <2>4. UpExact(x, t, kid) /\ Current(kid) = call
    BY <1>4, <2>3, KidSame DEF NoneLost
  <2>5. FloatAt(bytes, e - from) = Float(kid, e)
    BY <1>13, <2>3, <2>4, FloatRead DEF from, added, pos
  <2>6. Float(kid, e).terms = SumOf(Below(kid), call, e)
    BY <1>10, <2>1, <2>4 DEF RightSum
  <2>7. A \cap Below(kid) = {}
    <3>1. x \notin Below(kid)
      BY Links, BelowApart DEF State
    <3>2. ASSUME NEW c \in ReadFrom(x, e) PROVE Below(c) \cap Below(kid) = {}
      <4>1. PICK s \in Side : Link(x, s, c)
        BY DEF ReadFrom
      <4>2. s # t /\ s \in Linked(x) /\ t \in Linked(x) /\ children[x][s] = c /\ children[x][t] = kid
        BY <1>8, <2>1, <4>1, Links DEF State, Link
      <4> QED
        BY <4>2, BelowApart DEF State
    <3> QED
      BY <3>1, <3>2
  <2> HIDE DEF A
  <2>8. Float(x, e)'.terms = SumOf(A, call, e) (+) SumOf(Below(kid), call, e)
    BY <1>5, <1>11, <1>13, <2>5, <2>6 DEF Add
  <2>9. SumOf(A, call, e) (+) SumOf(Below(kid), call, e) = SumOf(A \cup Below(kid), call, e)
    BY <2>7, SumsJoin
  <2> QED
    BY <1>12, <2>2, <2>8, <2>9
<1>14. CASE ~(from < e /\ e <= from + added)
  <2>1. ReadFrom(x, e)' = ReadFrom(x, e)
    <3>1. kid \in ReadFrom(x, e)' <=> kid \in ReadFrom(x, e)
      BY <1>6, <1>7, <1>14
    <3> QED
      BY <1>7, <1>8, <3>1
  <2>2. Float(x, e)' = Float(x, e)
    BY <1>5, <1>14
  <2> QED
    BY <1>11, <1>12, <2>1, <2>2
<1> QED
  BY <1>13, <1>14

LEMMA ReadChildBytes ==
  ASSUME State, FitsInt, BytesInv, NEW x \in Node, NEW t \in Side, ReadChild(x, t),
         NEW kid \in Node, Link(x, t, kid)
  PROVE  BytesInv'
<1>1. PICK count, bytes : Reads(x, t, kid, count, bytes)
  BY ReadFacts
<1>2. /\ Alone(x) /\ Agreed' = Agreed /\ UNCHANGED <<down, results>>
      /\ \A m \in Node \ {kid} : up'[m] = up[m]
      /\ pc[x] \in ReduceLabels /\ pc[x] # "caller" /\ pc[x] \notin BroadcastLabels
      /\ pc'[x] \in ReduceLabels /\ pc'[x] # "caller" /\ pc'[x] \notin BroadcastLabels
      /\ Current(x)' = Current(x) /\ Bytes(x)' = Bytes(x) /\ UpSent(x)' = UpSent(x)
      /\ DownGot(x) = 0 /\ DownGot(x)' = 0
      /\ \A s \in Side : DownSent(x, s) = 0 /\ DownSent(x, s)' = 0
      /\ \A s \in Side \ {t} : UpGot(x, s)' = UpGot(x, s) /\ Kept(x, s)' = Kept(x, s)
  BY <1>1, ReadViews
<1>3. /\ \A m \in Node : FloatsInv(m) /\ SumInv(m)
      /\ \A p \in Node, s \in Side, n \in Node : Link(p, s, n) => LinkOK(p, s, n)
      /\ AgreedInv
  BY DEF BytesInv
<1>4. kid # x /\ UpSent(x) \in Nat
  BY Links, UpEnds DEF State
<1>5. \A m \in Node : (Right(m)' <=> Right(m)) /\ (RightBelow(m)' <=> RightBelow(m))
  <2>1. Right(x) /\ Right(x)'
    BY <1>2 DEF Right
  <2>2. \A c, q : Wire(c, q)' = Wire(c, q)
    BY <1>2, WireKept
  <2>3. RightBelow(x)' <=> RightBelow(x)
    BY <1>2, <2>1, <2>2 DEF RightBelow
  <2>4. \A m \in Node \ {x} : (Right(m)' <=> Right(m)) /\ (RightBelow(m)' <=> RightBelow(m))
    BY <1>2, RightKept DEF Alone
  <2> QED
    BY <2>1, <2>3, <2>4
<1>6. ASSUME NEW s \in Side, NEW c \in Node, Link(x, s, c)
      PROVE  LinkOK(x, s, c)' /\ (UpExact(x, s, c)' => UpExact(x, s, c))
  <2>1. c # x /\ LinkOK(x, s, c) /\ UpSent(c) \in Nat /\ (c = kid <=> s = t)
    BY <1>3, <1>6, Links, UpEnds DEF State, Link
  <2>2. CASE s = t
    BY <1>1, <1>6, <2>1, <2>2, KidLink
  <2>3. CASE s # t
    <3>1. /\ Current(c)' = Current(c) /\ DownGot(c)' = DownGot(c) /\ UpSent(c)' = UpSent(c)
          /\ pc'[c] = pc[c] /\ buffer'[c] = buffer[c]
      BY <1>2, <2>1, OwnViews DEF Alone
    <3>2. up'[c] = up[c] /\ down'[c] = down[c]
      BY <1>2, <2>1, <2>3
    <3>3. UpGot(x, s)' = UpGot(x, s) /\ Kept(x, s)' = Kept(x, s)
      BY <1>2, <2>3
    <3> QED
      BY <1>2, <1>5, <1>6, <2>1, <3>1, <3>2, <3>3, LinkQuiet
  <2> QED
    BY <2>2, <2>3
<1>7. ASSUME NEW p \in Node, NEW s \in Side, Link(p, s, x)
      PROVE  LinkOK(p, s, x)' /\ (UpExact(p, s, x)' => UpExact(p, s, x))
  <2>1. /\ p # x /\ LinkOK(p, s, x) /\ parent[x] = p /\ parent[x] # None
        /\ DownSent(p, s) \in Nat
    BY <1>3, <1>7, Links, DownEnds DEF State
  <2>2. /\ Current(p)' = Current(p) /\ UpGot(p, s)' = UpGot(p, s)
        /\ DownSent(p, s)' = DownSent(p, s) /\ pc'[p] = pc[p] /\ Kept(p, s)' = Kept(p, s)
    BY <1>2, <2>1, OwnViews DEF Alone
  <2>3. \A q \in 1..UpSent(x) : buffer'[x][q] = buffer[x][q]
    BY <1>1, <1>3, <2>1, ReaderKeeps
  <2>4. Behind(p, x) => pc[p] \notin BroadcastLabels
    BY <2>1 DEF LinkOK, LinkInv
  <2>5. x # kid
    BY <1>4
  <2> QED
    BY <1>2, <1>4, <1>5, <1>7, <2>1, <2>2, <2>3, <2>4, <2>5, LinkQuiet
<1>8. FloatsInv(x)'
  <2>1. Whole(buffer'[x], Calls[Current(x)])
    BY <1>1 DEF Reads
  <2> QED
    BY <1>2, <2>1 DEF FloatsInv, Float, Whole, Holds, BytePos
<1>9. SumInv(x)'
  BY <1>1, <1>3, <1>6, SumOfReader
<1>10. AgreedInv'
  BY <1>2, <1>3 DEF AgreedInv
<1>11. ASSUME NEW p \in Node, NEW s \in Side, NEW e \in Nat, Link(p, s, x),
              Current(x) = Current(p), e \in 1..Calls[Current(p)],
              e * FloatSize <= UpGot(p, s), UpGot(p, s) <= UpSent(x)
       PROVE  Current(x)' = Current(x) /\ Float(x, e)' = Float(x, e)
  <2>1. UpSent(x) <= UpGot(x, t)
    BY <1>11, Links, UpEnds DEF State
  <2>2. UpSent(x) \in Nat /\ UpGot(x, t) \in Nat /\ UpGot(p, s) \in Nat
    BY UpEnds
  <2>3. e * FloatSize \in Nat
    BY AllReduceAssumption
  <2>4. e * FloatSize <= UpGot(x, t)
    BY <1>11, <2>1, <2>2, <2>3
  <2> QED
    BY <1>1, <1>2, <1>3, <1>11, <2>4, ReaderKeeps
<1>12. \A p \in Node \ {x}, s \in Side, n \in Node \ {x} : Link(p, s, n) =>
           up'[n] = up[n] /\ down'[n] = down[n]
  <2> SUFFICES ASSUME NEW p \in Node \ {x}, NEW s \in Side, NEW n \in Node \ {x}, Link(p, s, n)
               PROVE  n # kid
    BY <1>2
  <2> QED
    BY Links DEF State
<1> QED
  BY <1>2, <1>6, <1>7, <1>8, <1>9, <1>10, <1>11, <1>12, MovingStep

-----------------------------------------------------------------------------
(* The root leaves reduce: everybody is in its call, and no byte was lost. *)

RootReady == State /\ FitsInt /\ BytesInv /\ LeaveReduce(Root)

AllUp(m) == /\ Current(m) = Current(Root) /\ pc[m] # "caller" /\ DownGot(m) = 0
            /\ \A s \in Linked(m) : UpGot(m, s) = Bytes(m)

LEMMA RootUp ==
  ASSUME RootReady
  PROVE  /\ AllUp(Root) /\ Root \in Node /\ parent[Root] = None
         /\ pc[Root] = "select" /\ pc[Root] \notin BroadcastLabels
         /\ pc'[Root] # "caller" /\ pc'[Root] \notin ReduceLabels /\ pc'[Root] \in BroadcastLabels
         /\ UNCHANGED <<socks, up, down, faults, written, buffer, child_read_pos,
                        child_read_buf, results>>
         /\ parent_read_pos'[Root] = Bytes(Root)
         /\ Linked(Root) # {} => children_sent_pos'[Root] = 0
<1>1. Root \in Node /\ parent[Root] = None
  BY RootOnly DEF RootReady, State
<1>2. /\ pc[Root] = "select" /\ AllRead(Root)
      /\ pc'[Root] \in {"passLeft", "readDown"}
      /\ UNCHANGED <<socks, up, down, faults, written, buffer, child_read_pos,
                     child_read_buf, results>>
      /\ parent_read_pos'[Root] = Bytes(Root)
      /\ Linked(Root) # {} => children_sent_pos'[Root] = 0
  BY <1>1 DEF RootReady, LeaveReduce, At, Goto, State, BooksInv, BookTypes
<1>3. /\ pc[Root] # "caller" /\ pc[Root] \in ReduceLabels /\ pc[Root] \notin BroadcastLabels
      /\ pc'[Root] # "caller" /\ pc'[Root] \notin ReduceLabels /\ pc'[Root] \in BroadcastLabels
  BY <1>2 DEF ReduceLabels, BroadcastLabels
<1>4. Bytes(Root) \in Nat
  BY <1>1, <1>3, CallSize DEF RootReady
<1>5. \A s \in Linked(Root) : UpGot(Root, s) = Bytes(Root)
  <2> SUFFICES ASSUME NEW s \in Linked(Root) PROVE UpGot(Root, s) = Bytes(Root)
    OBVIOUS
  <2>1. s \in Side
    BY DEF Linked
  <2>2. UpGot(Root, s) = child_read_pos[Root][s] /\ child_read_pos[Root][s] >= Bytes(Root)
    BY <1>2, <1>3, <2>1 DEF UpGot, AllRead
  <2>3. UpGot(Root, s) <= Bytes(Root) /\ UpGot(Root, s) \in Nat
    BY <1>1, <1>3, <2>1, UpEnds DEF RootReady
  <2> QED
    BY <1>4, <2>2, <2>3
<1>6. DownGot(Root) = 0
  BY <1>3 DEF DownGot
<1> QED
  BY <1>1, <1>2, <1>3, <1>5, <1>6 DEF AllUp

(* A child of a node that has read all has itself read all.                *)
LEMMA KidUp ==
  ASSUME RootReady, NEW p \in Node, NEW s \in Side, NEW n \in Node, Link(p, s, n), AllUp(p)
  PROVE  /\ AllUp(n) /\ UpExact(p, s, n) /\ ~Behind(p, n) /\ ~Ahead(p, n)
         /\ Len(up[n]) = 0 /\ Len(down[n]) = 0 /\ UpSent(n) = Bytes(n)
<1>1. State /\ FitsInt /\ LinkInv(p, s, n)
  BY DEF RootReady, BytesInv, LinkOK
<1>2. s \in Linked(p) /\ parent[n] # None
  BY <1>1, Links DEF State
<1>3. pc[p] # "caller" /\ DownGot(p) = 0 /\ UpGot(p, s) = Bytes(p) /\ Current(p) = Current(Root)
  BY <1>2 DEF AllUp
<1>4. Bytes(p) \in Nat /\ Bytes(p) > 0
  BY <1>1, <1>3, CallSize
<1>5. /\ Current(n) = Current(p) /\ pc[n] # "caller"
      /\ UpTaken(p, s, n) = UpGot(p, s) /\ UpGot(p, s) <= UpSent(n)
      /\ DownSent(p, s) = 0 /\ DownGot(n) = 0
  BY <1>1, <1>3, <1>4, ReadSame
<1>6. Bytes(n) = Bytes(p)
  BY <1>5 DEF Bytes
<1>7. /\ UpSent(n) \in Nat /\ UpSent(n) <= Bytes(n)
      /\ \A q \in Linked(n) : /\ UpGot(n, q) \in Nat /\ UpGot(n, q) <= Bytes(n)
                              /\ UpSent(n) <= UpGot(n, q)
  BY <1>1, <1>2, <1>5, UpEnds DEF Linked
<1>8. UpSent(n) = Bytes(n) /\ \A q \in Linked(n) : UpGot(n, q) = Bytes(n)
  BY <1>3, <1>4, <1>5, <1>6, <1>7
<1>9. /\ Len(up[n]) \in Nat /\ UpTaken(p, s, n) + Len(up[n]) <= UpSent(n)
      /\ Len(down[n]) \in Nat /\ DownGot(n) + Len(down[n]) <= DownGiven(p, s, n)
      /\ Current(n) \in Nat
  BY <1>1, LinkTypes
<1>10. ~Ahead(p, n) /\ ~Behind(p, n)
  BY <1>5, <1>9 DEF Ahead, Behind
<1>11. DownGiven(p, s, n) = 0
  BY <1>5, <1>10 DEF DownGiven
<1>12. Len(up[n]) = 0 /\ Len(down[n]) = 0 /\ UpExact(p, s, n)
  BY <1>3, <1>4, <1>5, <1>6, <1>8, <1>9, <1>11 DEF UpExact
<1> QED
  BY <1>3, <1>5, <1>8, <1>10, <1>12 DEF AllUp

LEMMA EverybodyUp ==
  ASSUME RootReady
  PROVE  \A m \in Node : AllUp(m) /\ NoneLost(m)
<1> DEFINE S == {m \in Node : ~AllUp(m)}
<1>1. ASSUME S # {} PROVE FALSE
  <2>1. PICK n \in S : parent[n] \notin S
    BY <1>1, Highest DEF RootReady, State
  <2>2. n \in Node /\ n # Root /\ parent[n] # None
    BY <2>1, RootUp, RootOnly DEF RootReady, State
  <2>3. parent[n] \in Node /\ AllUp(parent[n])
    BY <2>1, <2>2, Parents DEF RootReady, State
  <2>4. PICK s \in Linked(parent[n]) : children[parent[n]][s] = n
    BY <2>2, Parents DEF RootReady, State
  <2>5. s \in Side /\ Link(parent[n], s, n)
    BY <2>2, <2>4 DEF Link, Linked
  <2>6. AllUp(n)
    BY <2>2, <2>3, <2>5, KidUp
  <2> QED
    BY <2>1, <2>6
<1>2. \A m \in Node : AllUp(m)
  BY <1>1
<1> QED
  BY <1>2, KidUp DEF NoneLost

(* So its sums are those of all nodes.                                     *)
LEMMA EverybodysSum ==
  ASSUME RootReady, NEW e \in 1..Calls[Current(Root)]
  PROVE  \A m \in Node : RightSum(m, e)
<1> DEFINE S == {m \in Node : ~RightSum(m, e)}
<1>1. ASSUME S # {} PROVE FALSE
  <2>1. PICK n \in S : \A m \in S : parent[m] # n
    BY <1>1, Lowest DEF RootReady, State
  <2>2. /\ n \in Node /\ AllUp(n) /\ NoneLost(n)
        /\ Current(n) = Current(Root) /\ pc[n] # "caller" /\ DownGot(n) = 0
    BY <2>1, EverybodyUp DEF AllUp
  <2>3. e * FloatSize <= Bytes(n)
    <3>1. /\ Bytes(n) = Calls[Current(n)] * FloatSize /\ Calls[Current(n)] \in Nat
      BY <2>2, CallSize DEF RootReady
    <3> DEFINE size == Calls[Current(n)]
    <3>2. size \in Nat /\ e \in Nat /\ e > 0 /\ e <= size
      BY <2>2, <3>1
    <3> HIDE DEF size
    <3>3. e * FloatSize <= size * FloatSize
      BY <3>2, FloatEnds
    <3> QED
      BY <3>1, <3>3 DEF size
  <2>4. ReadFrom(n, e) = {children[n][s] : s \in Linked(n)}
    <3>1. \A s \in Side, c \in Node : Link(n, s, c) <=> s \in Linked(n) /\ c = children[n][s]
      BY <2>2, Parents DEF Link, Linked, RootReady, State
    <3>2. \A s \in Linked(n) : s \in Side /\ children[n][s] \in Node /\ UpGot(n, s) = Bytes(n)
      BY <2>2, Parents DEF AllUp, Linked, RootReady, State
    <3> QED
      BY <2>3, <3>1, <3>2 DEF ReadFrom
  <2>5. \A c \in ReadFrom(n, e) : RightSum(c, e)
    <3>1. \A s \in Linked(n) : children[n][s] \in Node /\ parent[children[n][s]] = n
      BY <2>2, Parents DEF RootReady, State
    <3> QED
      BY <2>1, <2>4, <3>1
  <2>6. Float(n, e).terms =
          SumOf({n} \cup UNION {Below(c) : c \in ReadFrom(n, e)}, Current(n), e)
    BY <2>2, <2>5 DEF RootReady, BytesInv, SumInv
  <2>7. {n} \cup UNION {Below(c) : c \in ReadFrom(n, e)} = Below(n)
    <3>1. {Below(c) : c \in ReadFrom(n, e)} = {Below(children[n][s]) : s \in Linked(n)}
      BY <2>4
    <3> QED
      BY <2>2, <3>1, BelowChildren DEF RootReady, State
  <2> QED
    BY <2>1, <2>6, <2>7 DEF RightSum
<1> QED
  BY <1>1

LEMMA RootDecides ==
  ASSUME RootReady
  PROVE  LET c == Current(Root)
             v == Decode(buffer[Root])
         IN /\ Alone(Root) /\ Root' = Root
            /\ c \in Nat /\ Calls[c] \in Nat
            /\ Agreed = results[Root] /\ Len(Agreed) = c - 1
            /\ Agreed' = Append(Agreed, v) /\ Len(Agreed') = c /\ Agreed'[c] = v
            /\ \A i \in 1..Len(Agreed) : Agreed'[i] = Agreed[i]
            /\ SubSeq(Agreed', 1, c - 1) = Agreed
            /\ Len(v) = Calls[c] /\ v = [e \in 1..Calls[c] |-> v[e]]
            /\ \A e \in 1..Calls[c] : v[e] = Float(Root, e)
            /\ Whole(buffer[Root], Calls[c])
<1> DEFINE c == Current(Root)
           v == Decode(buffer[Root])
           size == Calls[c]
<1>1. /\ Root \in Node /\ pc[Root] \notin BroadcastLabels /\ pc[Root] # "caller"
      /\ pc'[Root] \in BroadcastLabels /\ parent[Root] = None
      /\ UNCHANGED <<socks, buffer, results>>
  BY RootUp, EverybodyUp DEF AllUp
<1>2. Root' = Root
  BY <1>1 DEF Root, socks
<1>3. Alone(Root)
  BY <1>1, StepsAlone DEF RootReady, Step, Reduce
<1>4. Agreed = results[Root] /\ Agreed' = Append(results[Root], v)
  BY <1>1, <1>2 DEF Agreed
<1>5. IsSeq(results[Root]) /\ Len(results[Root]) \in Nat /\ c = Len(results[Root]) + 1
  BY <1>1, Sequences DEF RootReady
<1>6. /\ size \in Nat /\ Len(buffer[Root]) = size * FloatSize
  BY <1>1, CallSize DEF RootReady
<1>7. Len(buffer[Root]) \div FloatSize = size
  <2>1. \A f \in Nat \ {0} : (size * f) \div f = size
    BY <1>6
  <2> HIDE DEF size
  <2> QED
    BY <1>6, <2>1, AllReduceAssumption
<1>8. v = [e \in 1..size |-> Float(Root, e)]
  BY <1>7 DEF Decode, Float
<1>9. Whole(buffer[Root], size)
  <2>1. FloatsInv(Root)
    BY <1>1 DEF RootReady, BytesInv
  <2> QED
    BY <1>1, <2>1 DEF FloatsInv, Float, Whole, Holds, BytePos
<1> HIDE DEF v, size, c
<1>10. /\ Len(v) = size /\ v = [e \in 1..size |-> v[e]]
       /\ \A e \in 1..size : v[e] = Float(Root, e)
  BY <1>6, <1>8
<1>11. /\ Len(Agreed') = c /\ Agreed'[c] = v /\ Len(Agreed) = c - 1 /\ c \in Nat
       /\ \A i \in 1..Len(Agreed) : Agreed'[i] = Agreed[i]
       /\ SubSeq(Agreed', 1, c - 1) = Agreed
  <2>1. PICK S : results[Root] \in Seq(S)
    BY <1>5 DEF IsSeq
  <2> DEFINE s == results[Root]
             T == S \cup {v}
  <2>2. s \in Seq(T) /\ v \in T /\ Len(s) = c - 1 /\ c = Len(s) + 1
    BY <1>5, <2>1
  <2> HIDE DEF s, T
  <2>3. /\ Len(Append(s, v)) = c /\ Append(s, v)[c] = v
        /\ \A i \in 1..Len(s) : Append(s, v)[i] = s[i]
    BY <2>2
  <2>4. SubSeq(Append(s, v), 1, c - 1) = s
    <3>1. Append(s, v) \in Seq(T) /\ c - 1 \in 0..Len(Append(s, v))
      BY <2>2, <2>3
    <3>2. /\ SubSeq(Append(s, v), 1, c - 1) \in Seq(T)
          /\ Len(SubSeq(Append(s, v), 1, c - 1)) = c - 1
          /\ \A i \in 1..(c - 1) : SubSeq(Append(s, v), 1, c - 1)[i] = Append(s, v)[i]
      BY <2>2, <3>1
    <3> QED
      BY <2>2, <2>3, <3>2
  <2> QED
    BY <1>4, <2>2, <2>3, <2>4 DEF s
<1>12. Agreed' = Append(Agreed, v)
  BY <1>4
<1> QED
  BY <1>2, <1>3, <1>4, <1>6, <1>9, <1>10, <1>11, <1>12 DEF v, size, c

LEMMA RootLeaves ==
  ASSUME RootReady, NEW r \in Node, r = Root
  PROVE  BytesInv'
<1> DEFINE c == Current(r)
           v == Decode(buffer[r])
<1>1. /\ r \in Node /\ parent[r] = None
      /\ pc[r] # "caller" /\ pc[r] \notin BroadcastLabels
      /\ pc'[r] # "caller" /\ pc'[r] \notin ReduceLabels /\ pc'[r] \in BroadcastLabels
      /\ UNCHANGED <<socks, up, down, faults, written, buffer, child_read_pos,
                     child_read_buf, results>>
      /\ parent_read_pos'[r] = Bytes(r)
      /\ Linked(r) # {} => children_sent_pos'[r] = 0
  BY RootUp DEF AllUp
<1>2. \A m \in Node : /\ Current(m) = c /\ pc[m] # "caller" /\ DownGot(m) = 0
                      /\ \A s \in Linked(m) : UpGot(m, s) = Bytes(m)
  BY EverybodyUp DEF AllUp
<1>3. /\ Alone(r) /\ c \in Nat /\ Len(Agreed) = c - 1 /\ Len(Agreed') = c /\ Agreed'[c] = v
      /\ \A i \in 1..Len(Agreed) : Agreed'[i] = Agreed[i]
      /\ Calls[c] \in Nat /\ v = [e \in 1..Calls[c] |-> v[e]]
  BY RootDecides
<1>4. State /\ FitsInt /\ BytesInv
  BY DEF RootReady
<1>5. /\ \A m \in Node : FloatsInv(m) /\ SumInv(m)
      /\ \A p \in Node, s \in Side, n \in Node : Link(p, s, n) => LinkOK(p, s, n)
      /\ AgreedInv
  BY <1>4 DEF BytesInv
<1>6. /\ \A m \in Node : Current(m)' = Current(m) /\ Bytes(m)' = Bytes(m)
      /\ \A m \in Node : \A e : Float(m, e)' = Float(m, e)
      /\ \A p \in Node, s \in Side, n \in Node : Link(p, s, n)' <=> Link(p, s, n)
  BY <1>1 DEF Current, Bytes, Float, Link, socks
<1>7. /\ Bytes(r) \in Nat /\ Bytes(r) > 0
  BY <1>1, <1>4, CallSize
<1>8. DownGot(r)' = Bytes(r)
  BY <1>1 DEF DownGot
<1>9. /\ UpSent(r)' = Bytes(r)
      /\ \A s \in Linked(r) : /\ UpGot(r, s)' = UpGot(r, s) /\ Len(Kept(r, s)') = 0
                                 /\ DownSent(r, s)' = 0 /\ DownSent(r, s) = 0
  <2>1. written[r] = 0
    <3>1. Passing(r) = 0
      BY RootUp DEF Passing
    <3> QED
      BY <1>1, <1>4, <3>1 DEF State, Extents, ExtentInv
  <2>2. written'[r] = 0
    BY <1>1, <2>1
  <2>3. UpSent(r)' = Bytes(r)'
    BY <1>1 DEF UpSent
  <2>4. \A s \in Linked(r) : UpGot(r, s)' = Bytes(r)' /\ Kept(r, s)' = <<>>
    BY <1>1 DEF UpGot, Kept
  <2>5. \A s \in Linked(r) : DownSent(r, s) = 0
    BY <1>1 DEF DownSent
  <2>6. \A s \in Linked(r) : DownSent(r, s)' = 0
    <3>1. pc'[r] \in {"passLeft", "readDown"}
      BY <1>1, <1>4 DEF RootReady, LeaveReduce, Goto, State, BooksInv, BookTypes
    <3>2. pc'[r] # "passRight"
      BY <3>1
    <3> QED
      BY <1>1, <2>2, <3>2 DEF DownSent
  <2> QED
    BY <1>1, <1>2, <1>6, <2>3, <2>4, <2>5, <2>6
<1>10. \A m \in Node \ {r} :
         /\ pc'[m] = pc[m] /\ UpSent(m)' = UpSent(m) /\ DownGot(m)' = 0
         /\ \A s \in Side : /\ UpGot(m, s)' = UpGot(m, s) /\ Kept(m, s)' = Kept(m, s)
                            /\ DownSent(m, s)' = DownSent(m, s)
  BY <1>2, <1>3, OwnViews DEF Alone
<1>11. ASSUME NEW p \in Node, NEW s \in Side, NEW n \in Node, Link(p, s, n)
       PROVE  LinkOK(p, s, n)' /\ (UpExact(p, s, n)' => UpExact(p, s, n))
  <2>1. /\ LinkOK(p, s, n) /\ s \in Linked(p) /\ n # r
        /\ UpSent(n) \in Nat /\ DownSent(p, s) \in Nat
    BY <1>1, <1>4, <1>5, <1>11, Links, UpEnds, DownEnds DEF State
  <2>2. /\ ~Behind(p, n) /\ Len(down[n]) = 0
    BY <1>2, <1>11, KidUp, EverybodyUp
  <2>3. Right(p) /\ RightBelow(n)'
    <3>1. Right(p)
      BY <1>2 DEF Right
    <3>2. down'[n] = down[n] /\ DownGot(n)' = 0
      BY <1>1, <1>10, <2>1
    <3> QED
      BY <2>2, <3>1, <3>2 DEF Right, RightBelow
  <2>4. /\ UpGot(p, s)' = UpGot(p, s) /\ (Len(Kept(p, s)') = 0 \/ Kept(p, s)' = Kept(p, s))
        /\ DownSent(p, s)' = DownSent(p, s)
        /\ pc[p] \in BroadcastLabels => pc'[p] \in BroadcastLabels
    <3>1. CASE p = r
      BY <1>1, <1>9, <2>1, <3>1
    <3>2. CASE p # r
      BY <1>10, <3>2
    <3> QED
      BY <3>1, <3>2
  <2>5. /\ DownGot(n)' = DownGot(n) /\ UpSent(n)' = UpSent(n) /\ pc'[n] = pc[n]
        /\ Current(p)' = Current(p) /\ Current(n)' = Current(n)
        /\ up'[n] = up[n] /\ down'[n] = down[n] /\ buffer'[n] = buffer[n]
    BY <1>1, <1>2, <1>6, <1>10, <2>1
  <2> QED
    BY <1>4, <1>11, <2>1, <2>2, <2>3, <2>4, <2>5, LinkQuiet
<1>12. ASSUME NEW m \in Node PROVE FloatsInv(m)' /\ SumInv(m)'
  <2>1. FloatsInv(m)'
    BY <1>1, <1>2, <1>5, <1>6, FloatsKept
  <2>2. \A e : \A k \in ReadFrom(m, e) : Current(k)' = Current(k) /\ Float(k, e)' = Float(k, e)
    BY <1>6 DEF ReadFrom
  <2>3. CASE m = r
    BY <1>7, <1>8, <2>1, <2>3 DEF SumInv
  <2>4. CASE m # r
    BY <1>1, <1>2, <1>4, <1>5, <1>6, <1>10, <1>11, <2>1, <2>2, <2>4, SumKept
  <2> QED
    BY <2>1, <2>3, <2>4
<1>13. AgreedInv'
  <2>1. ASSUME NEW i \in 1..Len(Agreed')
        PROVE  Agreed'[i] = [e \in 1..Calls[i] |-> Agreed'[i][e]]
    <3>1. CASE i = c
      BY <1>3, <3>1
    <3>2. CASE i # c
      <4>1. i \in 1..Len(Agreed)
        BY <1>3, <3>2
      <4> QED
        BY <1>3, <1>5, <4>1 DEF AgreedInv
    <3> QED
      BY <3>1, <3>2
  <2>2. ASSUME NEW m \in Node
        PROVE  /\ Len(results'[m]) <= Len(Agreed')
               /\ \A i \in 1..Len(results'[m]) : results'[m][i] = Agreed'[i]
    <3>1. results'[m] = results[m] /\ Len(results[m]) \in Nat
      BY <1>1, <1>4, Sequences
    <3>2. Len(results[m]) <= Len(Agreed) /\ \A i \in 1..Len(results[m]) : results[m][i] = Agreed[i]
      BY <1>5 DEF AgreedInv
    <3>3. \A i \in 1..Len(results[m]) : i \in 1..Len(Agreed)
      BY <1>3, <3>1, <3>2
    <3> QED
      BY <1>3, <3>1, <3>2, <3>3
  <2> QED
    BY <2>1, <2>2 DEF AgreedInv
<1>14. \A p \in Node, s \in Side, n \in Node : Link(p, s, n)' => LinkOK(p, s, n)'
  BY <1>6, <1>11
<1> QED
  BY <1>12, <1>13, <1>14 DEF BytesInv

-----------------------------------------------------------------------------
(* Whoever has read all from above has the vector agreed on.               *)
LEMMA Delivered ==
  ASSUME State, FitsInt, BytesInv
  PROVE  \A m \in Node : pc[m] \in BroadcastLabels /\ DownGot(m) = Bytes(m) =>
           Right(m) /\ Current(m) <= Len(Agreed)
<1> DEFINE S == {m \in Node : /\ pc[m] \in BroadcastLabels /\ DownGot(m) = Bytes(m)
                              /\ ~(Right(m) /\ Current(m) <= Len(Agreed))}
<1>1. ASSUME S # {} PROVE FALSE
  <2>1. PICK n \in S : parent[n] \notin S
    BY <1>1, Highest DEF State
  <2>2. /\ n \in Node /\ pc[n] \in BroadcastLabels /\ DownGot(n) = Bytes(n) /\ pc[n] # "caller"
    BY <2>1 DEF BroadcastLabels
  <2>3. /\ Bytes(n) \in Nat /\ Bytes(n) > 0 /\ Bytes(n) = Calls[Current(n)] * FloatSize
        /\ Calls[Current(n)] \in Nat /\ Len(buffer[n]) = Bytes(n)
    BY <2>2, CallSize
  <2>4. SUFFICES Right(n) /\ Current(n) <= Len(Agreed)
    BY <2>1
  <2>5. CASE parent[n] = None
    <3>1. n = Root
      BY <2>2, <2>5, RootOnly DEF State
    <3> DEFINE v == Decode(buffer[n])
               c == Current(n)
               size == Calls[c]
    <3>2. Agreed = Append(results[n], v)
      BY <2>2, <3>1 DEF Agreed
    <3>3. IsSeq(results[n]) /\ c = Len(results[n]) + 1
      BY <2>2, Sequences
    <3>4. Len(buffer[n]) \div FloatSize = size
      <4>1. \A f \in Nat \ {0} : (size * f) \div f = size
        BY <2>3
      <4> HIDE DEF size
      <4> QED
        BY <2>3, <4>1, AllReduceAssumption DEF size
    <3>5. v = [e \in 1..size |-> Float(n, e)]
      BY <3>4 DEF Decode, Float
    <3>6. Whole(buffer[n], size)
      BY <2>2, <2>5 DEF BytesInv, FloatsInv, Float, Whole, Holds, BytePos
    <3> HIDE DEF v, c, size
    <3>7. Len(Agreed) = c /\ Agreed[c] = v
      <4>1. PICK T : results[n] \in Seq(T)
        BY <3>3 DEF IsSeq
      <4>2. results[n] \in Seq(T \cup {v}) /\ v \in T \cup {v}
        BY <4>1
      <4> QED
        BY <3>2, <3>3, <4>2
    <3>8. ASSUME NEW q \in 1..DownGot(n) PROVE buffer[n][q] = Wire(Current(n), q)
      <4>1. q \in 1..(size * FloatSize) /\ size \in Nat
        BY <2>2, <2>3 DEF size, c
      <4>2. FloatNo(q) \in 1..size
        BY <4>1, FloatOf
      <4>3. buffer[n][q] = <<FloatAt(buffer[n], FloatNo(q)), ByteNo(q)>>
        BY <3>6, <4>1, WholeBytes
      <4>4. Agreed[c][FloatNo(q)] = FloatAt(buffer[n], FloatNo(q))
        BY <3>5, <3>7, <4>2 DEF Float
      <4> QED
        BY <4>3, <4>4 DEF Wire, FloatNo, ByteNo, c
    <3>9. Current(n) <= Len(Agreed)
      BY <2>2, <3>7, Sequences DEF c
    <3> QED
      BY <3>8, <3>9 DEF Right
  <2>6. CASE parent[n] # None
    <3> DEFINE p == parent[n]
    <3>1. p \in Node /\ p \notin S
      BY <2>1, <2>2, <2>6, Parents DEF State
    <3>2. PICK s \in Linked(p) : children[p][s] = n
      BY <2>2, <2>6, Parents DEF State
    <3> HIDE DEF p
    <3>3. s \in Side /\ Link(p, s, n)
      BY <2>2, <3>2 DEF Link, Linked
    <3>4. LinkOK(p, s, n) /\ LinkInv(p, s, n)
      BY <2>2, <3>1, <3>3 DEF BytesInv, LinkOK
    <3>5. /\ Current(n) \in Nat /\ Current(p) \in Nat
          /\ DownGiven(p, s, n) \in Nat /\ DownGot(n) \in Nat /\ Len(down[n]) \in Nat
          /\ DownGot(n) + Len(down[n]) <= DownGiven(p, s, n)
          /\ DownSent(p, s) \in Nat
      BY <2>2, <3>1, <3>3, <3>4, LinkTypes
    <3>6. ~Ahead(p, n)
      BY <2>2, <2>3, <3>5 DEF DownGiven
    <3>7. CASE Behind(p, n)
      <4>1. DownGiven(p, s, n) = Bytes(n)
        BY <3>6, <3>7 DEF DownGiven
      <4>2. DownExact(p, s, n)
        BY <2>2, <3>5, <4>1 DEF DownExact
      <4>3. Right(n)
        BY <3>4, <3>7, <4>2 DEF LinkOK, DownStreamInv, RightBelow
      <4>4. Current(p) = Current(n) + 1
        BY <3>4, <3>7 DEF LinkInv
      <4>5. Current(p) = Len(results[p]) + 1 /\ Len(results[p]) \in Nat
        BY <3>1, Sequences
      <4>6. Len(results[p]) <= Len(Agreed)
        BY <3>1 DEF BytesInv, AgreedInv
      <4>7. Current(n) = Len(results[p])
        BY <3>5, <4>4, <4>5
      <4> QED
        BY <4>3, <4>6, <4>7
    <3>8. CASE ~Behind(p, n)
      <4>1. Current(p) = Current(n) /\ DownGiven(p, s, n) = DownSent(p, s)
        BY <3>5, <3>6, <3>8 DEF Ahead, Behind, DownGiven
      <4>2. Bytes(p) = Bytes(n)
        BY <4>1 DEF Bytes
      <4>3. pc[p] \in BroadcastLabels
        BY <2>2, <2>3, <3>5, <4>1 DEF DownSent
      <4>4. pc[p] # "caller"
        BY <4>3 DEF BroadcastLabels
      <4>5. DownGot(p) \in Nat /\ DownGot(p) <= Bytes(p) /\ DownSent(p, s) <= DownGot(p)
        BY <3>1, <3>2, <4>4, DownEnds
      <4>6. DownGot(p) = Bytes(p) /\ DownExact(p, s, n)
        BY <2>2, <2>3, <3>5, <4>1, <4>2, <4>5 DEF DownExact
      <4>7. Right(p) /\ Current(p) <= Len(Agreed)
        BY <3>1, <4>3, <4>6
      <4>8. Right(n)
        BY <3>4, <4>6, <4>7 DEF LinkOK, DownStreamInv, RightBelow
      <4> QED
        BY <4>1, <4>7, <4>8
    <3> QED
      BY <3>7, <3>8
  <2> QED
    BY <2>5, <2>6
<1> QED
  BY <1>1

(* What a call returns is that vector.                                     *)
LEMMA Returned ==
  ASSUME State, FitsInt, BytesInv, NEW x \in Node, pc[x] \in BroadcastLabels,
         DownGot(x) = Bytes(x)
  PROVE  /\ Right(x) /\ Current(x) \in 1..Len(Agreed)
         /\ Decode(buffer[x]) = Agreed[Current(x)]
<1> DEFINE c == Current(x)
           size == Calls[c]
<1>1. Right(x) /\ c <= Len(Agreed)
  BY Delivered
<1>2. pc[x] # "caller"
  BY DEF BroadcastLabels
<1>3. /\ size \in Nat /\ Bytes(x) = size * FloatSize /\ Len(buffer[x]) = Bytes(x)
  BY <1>2, CallSize
<1>4. c \in Nat /\ c = Len(results[x]) + 1 /\ Len(results[x]) \in Nat
  BY Sequences
<1>5. c \in 1..Len(Agreed)
  <2>1. Len(Agreed) \in Int
    <3>1. Root \in Node
      BY RootOnly DEF State
    <3>2. IsSeq(results[Root])
      BY <3>1, Sequences
    <3>3. PICK T : results[Root] \in Seq(T)
      BY <3>2 DEF IsSeq
    <3> DEFINE v == Decode(buffer[Root])
    <3>4. results[Root] \in Seq(T \cup {v}) /\ v \in T \cup {v}
      BY <3>3
    <3> HIDE DEF v
    <3>5. Append(results[Root], v) \in Seq(T \cup {v})
      BY <3>4
    <3>6. Agreed = Append(results[Root], v) \/ Agreed = results[Root]
      BY DEF Agreed, v
    <3> QED
      BY <3>4, <3>5, <3>6
  <2> QED
    BY <1>1, <1>4, <2>1
<1>6. Len(buffer[x]) \div FloatSize = size
  <2>1. \A f \in Nat \ {0} : (size * f) \div f = size
    BY <1>3
  <2> HIDE DEF size
  <2> QED
    BY <1>3, <2>1, AllReduceAssumption
<1>7. Decode(buffer[x]) = [e \in 1..size |-> FloatAt(buffer[x], e)]
  BY <1>6 DEF Decode
<1>8. Agreed[c] = [e \in 1..size |-> Agreed[c][e]]
  BY <1>5 DEF BytesInv, AgreedInv
<1> HIDE DEF size, c
<1>9. ASSUME NEW e \in 1..size PROVE FloatAt(buffer[x], e) = Agreed[c][e]
  <2>0. e \in Nat /\ e > 0 /\ e <= size
    BY <1>3
  <2>1. ASSUME NEW k \in 0..(FloatSize - 1)
        PROVE  buffer[x][BytePos(e, k)] = <<Agreed[c][e], k>>
    <3> DEFINE q == BytePos(e, k)
    <3>1. /\ q \in Nat /\ q > 0 /\ q <= e * FloatSize /\ FloatNo(q) = e /\ ByteNo(q) = k
      BY <2>0, ByteOf
    <3>2. e * FloatSize <= size * FloatSize /\ e * FloatSize \in Nat /\ size * FloatSize \in Nat
      BY <1>3, <2>0, FloatEnds
    <3> HIDE DEF q
    <3>3. q \in 1..Bytes(x)
      BY <1>3, <3>1, <3>2
    <3>4. buffer[x][q] = Wire(c, q)
      BY <1>1, <3>3 DEF Right, c
    <3>5. Wire(c, q) = <<Agreed[c][FloatNo(q)], ByteNo(q)>>
      BY DEF Wire, FloatNo, ByteNo
    <3> QED
      BY <3>1, <3>4, <3>5 DEF q
  <2>2. Holds(buffer[x], e, Agreed[c][e])
    BY <2>1 DEF Holds
  <2> QED
    BY <2>2, FloatHeld
<1>10. Decode(buffer[x]) = Agreed[c]
  BY <1>7, <1>8, <1>9
<1> QED
  BY <1>1, <1>5, <1>10 DEF c

-----------------------------------------------------------------------------
(* A return: the child of a node may be ahead of it from now on, and the   *)
(* node's own children behind.                                             *)
LEMMA ReturnBytes ==
  ASSUME State, FitsInt, BytesInv, NEW x \in Node, Return(x)
  PROVE  BytesInv'
<1>1. /\ pc[x] = "readDown" /\ pc'[x] = "caller" /\ Done(x)
      /\ UNCHANGED <<socks, up, down, faults, written, buffer, reducing, spreading>>
      /\ results'[x] = Append(results[x], Decode(buffer[x]))
      /\ \A m \in Node \ {x} : results'[m] = results[m]
  <2>1. PICK T : results \in [Node -> Seq(T)]
    BY DEF State, Extents, SeqInv, Typed
  <2> QED
    BY <2>1 DEF Return, At, Goto, State, BooksInv, BookTypes
<1>2. /\ pc[x] # "caller" /\ pc[x] \notin ReduceLabels /\ pc[x] \in BroadcastLabels
      /\ pc'[x] \notin ReduceLabels /\ pc'[x] \notin BroadcastLabels
  BY <1>1 DEF ReduceLabels, BroadcastLabels
<1>3. Step(x) /\ ~LeaveReduce(x)
  BY <1>1 DEF Step, Broadcast, LeaveReduce, At
<1>4. Alone(x) /\ Agreed' = Agreed
  BY <1>3, StepsAlone, AgreedKept
<1>5. /\ Bytes(x) \in Nat /\ Bytes(x) > 0 /\ IsSeq(results[x]) /\ Len(results[x]) \in Nat
      /\ Current(x) \in Nat /\ Current(x) = Len(results[x]) + 1
      /\ Len(up[x]) \in Nat /\ Len(down[x]) \in Nat
  BY <1>2, CallSize, Sequences
<1>6. /\ Len(results'[x]) = Current(x) /\ Current(x)' = Current(x) + 1
      /\ \A i \in 1..Len(results[x]) : results'[x][i] = results[x][i]
      /\ results'[x][Current(x)] = Decode(buffer[x])
  <2> DEFINE v == Decode(buffer[x])
  <2>1. PICK T : results[x] \in Seq(T)
    BY <1>5 DEF IsSeq
  <2>2. results[x] \in Seq(T \cup {v}) /\ v \in T \cup {v}
    BY <2>1
  <2>3. results'[x] = Append(results[x], v)
    BY <1>1
  <2> HIDE DEF v
  <2>4. /\ Len(results'[x]) = Len(results[x]) + 1
        /\ \A i \in 1..Len(results[x]) : results'[x][i] = results[x][i]
        /\ results'[x][Len(results[x]) + 1] = v
    BY <2>2, <2>3
  <2> QED
    BY <1>5, <2>4 DEF v, Current
<1>7. /\ UpSent(x) = Bytes(x) /\ DownGot(x) = Bytes(x)
      /\ \A s \in Side : UpGot(x, s) = Bytes(x) /\ Kept(x, s) = <<>>
      /\ \A s \in Linked(x) : DownSent(x, s) = Bytes(x)
  <2>1. DownGot(x) = Bytes(x)
    <3>1. DownGot(x) = parent_read_pos[x] /\ DownGot(x) >= Bytes(x)
      BY <1>1, <1>2 DEF DownGot, Done
    <3> QED
      BY <1>2, <1>5, <3>1, DownEnds
  <2>2. \A s \in Linked(x) : DownSent(x, s) = Bytes(x)
    <3>1. \A s \in Side : DownSent(x, s) = children_sent_pos[x]
      BY <1>1, <1>2 DEF DownSent, PassLabel
    <3>2. children_sent_pos[x] >= Bytes(x)
      BY <1>1 DEF Done
    <3>3. \A s \in Linked(x) : DownSent(x, s) \in Nat /\ DownSent(x, s) <= Bytes(x)
      BY <2>1, DownEnds
    <3> QED
      BY <1>5, <3>1, <3>2, <3>3 DEF Linked
  <2> QED
    BY <1>2, <2>1, <2>2 DEF UpSent, UpGot, Kept
<1>8. /\ UpSent(x)' = 0 /\ DownGot(x)' = 0
      /\ \A s \in Side : UpGot(x, s)' = 0 /\ Kept(x, s)' = <<>> /\ DownSent(x, s)' = 0
  BY <1>1, <1>2 DEF UpSent, DownGot, UpGot, Kept, DownSent
<1>9. /\ Right(x) /\ Current(x) \in 1..Len(Agreed)
      /\ Decode(buffer[x]) = Agreed[Current(x)]
  BY <1>2, <1>7, Returned
<1>10. \A p \in Node, s \in Side, n \in Node : Link(p, s, n) => LinkOK(p, s, n)
  BY DEF BytesInv
<1>11. ASSUME NEW s \in Side, NEW n \in Node, Link(x, s, n) PROVE LinkOK(x, s, n)'
  <2>1. /\ LinkOK(x, s, n) /\ LinkInv(x, s, n) /\ s \in Linked(x) /\ n # x
    BY <1>10, <1>11, Links DEF State, LinkOK
  <2>2. /\ Current(n)' = Current(n) /\ Bytes(n)' = Bytes(n) /\ DownGot(n)' = DownGot(n)
        /\ UpSent(n)' = UpSent(n) /\ pc'[n] = pc[n] /\ buffer'[n] = buffer[n]
        /\ up'[n] = up[n] /\ down'[n] = down[n]
        /\ RightBelow(n)' <=> RightBelow(n)
    BY <1>1, <1>4, <2>1, OwnViews, RightKept DEF Alone
  <2>3. /\ Current(n) \in Nat /\ UpSent(n) \in Nat /\ Len(up[n]) \in Nat
        /\ UpTaken(x, s, n) \in Nat /\ UpTaken(x, s, n) + Len(up[n]) <= UpSent(n)
        /\ DownGot(n) + Len(down[n]) <= DownGiven(x, s, n)
    BY <1>11, <2>1, LinkTypes
  <2>4. ~Behind(x, n) /\ (Ahead(x, n) => Current(n) = Current(x) + 1)
    BY <1>2, <2>1 DEF LinkInv
  <2>5. /\ UpTaken(x, s, n)' = UpTaken(x, s, n) /\ DownGiven(x, s, n)' = DownGiven(x, s, n)
        /\ ~Ahead(x, n)'
        /\ Behind(x, n)' => Current(x)' = Current(n)' + 1 /\ pc'[n] # "caller"
    <3>1. CASE Ahead(x, n)
      <4>1. UpTaken(x, s, n) = 0 /\ DownGiven(x, s, n) = 0
        BY <3>1 DEF UpTaken, DownGiven
      <4>2. ~Ahead(x, n)' /\ ~Behind(x, n)'
        BY <1>5, <1>6, <2>2, <2>3, <2>4, <3>1 DEF Ahead, Behind
      <4>3. UpTaken(x, s, n)' = 0 /\ DownGiven(x, s, n)' = 0
        BY <1>8, <4>2 DEF UpTaken, DownGiven
      <4> QED
        BY <4>1, <4>2, <4>3
    <3>2. CASE ~Ahead(x, n)
      <4>1. Current(n) = Current(x) /\ Bytes(n) = Bytes(x)
        BY <1>5, <2>3, <2>4, <3>2 DEF Ahead, Behind, Bytes
      <4>2. UpTaken(x, s, n) = Bytes(x) /\ DownGiven(x, s, n) = Bytes(x)
        BY <1>7, <2>1, <2>4, <3>2 DEF UpTaken, DownGiven
      <4>3. ~Ahead(x, n)' /\ Behind(x, n)' /\ Current(x)' = Current(n)' + 1
        BY <1>5, <1>6, <2>2, <4>1 DEF Ahead, Behind
      <4>4. UpTaken(x, s, n)' = Bytes(n) /\ DownGiven(x, s, n)' = Bytes(n)
        BY <2>2, <4>3 DEF UpTaken, DownGiven
      <4>5. UpSent(n) > 0
        BY <1>5, <2>3, <4>2
      <4>6. pc'[n] # "caller"
        BY <2>2, <4>5 DEF UpSent
      <4> QED
        BY <4>1, <4>2, <4>3, <4>4, <4>6
    <3> QED
      BY <3>1, <3>2
  <2>6. LinkInv(x, s, n)'
    <3>1. /\ UpTaken(x, s, n)' + Len(up'[n]) <= UpSent(n)'
          /\ DownGot(n)' + Len(down'[n]) <= DownGiven(x, s, n)'
      BY <2>2, <2>3, <2>5
    <3>2. Behind(x, n)' => pc'[x] \notin BroadcastLabels /\ UpGot(x, s)' = 0
      BY <1>2, <1>8
    <3> QED
      BY <2>5, <3>1, <3>2 DEF LinkInv
  <2>7. UpStreamInv(x, s, n)'
    <3> SUFFICES ASSUME UpExact(x, s, n)'
                 PROVE  \A k \in 1..Len(up[n]) : up[n][k] = buffer[n][UpTaken(x, s, n) + k]
      BY <1>8, <2>2, <2>5 DEF UpStreamInv
    <3>1. UpExact(x, s, n)
      BY <2>2, <2>5 DEF UpExact
    <3> QED
      BY <2>1, <3>1 DEF LinkOK, UpStreamInv
  <2>8. DownStreamInv(x, s, n)'
    <3>1. DownExact(x, s, n)' => DownExact(x, s, n)
      BY <2>2, <2>5 DEF DownExact
    <3> QED
      BY <1>9, <2>1, <2>2, <3>1 DEF LinkOK, DownStreamInv
  <2> QED
    BY <2>6, <2>7, <2>8 DEF LinkOK
<1>12. ASSUME NEW p \in Node, NEW s \in Side, Link(p, s, x)
       PROVE  LinkOK(p, s, x)' /\ (UpExact(p, s, x)' => UpExact(p, s, x))
  <2>1. /\ LinkOK(p, s, x) /\ LinkInv(p, s, x) /\ s \in Linked(p) /\ p # x
    BY <1>10, <1>12, Links DEF State, LinkOK
  <2>2. /\ Current(p)' = Current(p) /\ Bytes(p)' = Bytes(p) /\ UpGot(p, s)' = UpGot(p, s)
        /\ DownSent(p, s)' = DownSent(p, s) /\ pc'[p] = pc[p] /\ Kept(p, s)' = Kept(p, s)
        /\ up'[x] = up[x] /\ down'[x] = down[x]
    BY <1>1, <1>4, <2>1, OwnViews DEF Alone
  <2>3. /\ Current(p) \in Nat /\ UpTaken(p, s, x) \in Nat /\ DownGiven(p, s, x) \in Nat
        /\ UpTaken(p, s, x) + Len(up[x]) <= Bytes(x)
        /\ Bytes(x) + Len(down[x]) <= DownGiven(p, s, x)
        /\ DownSent(p, s) \in Nat
        /\ Len(Kept(p, s)) \in Nat
        /\ pc[p] \in ReduceLabels => Len(Kept(p, s)) = UpGot(p, s) % FloatSize
    BY <1>7, <1>12, <2>1, LinkTypes
  <2>4. ~Ahead(p, x)
    BY <1>5, <2>3 DEF DownGiven
  <2>5. /\ UpTaken(p, s, x) = Bytes(x) /\ DownGiven(p, s, x) = Bytes(x)
        /\ Len(Kept(p, s)) = 0 /\ ~Behind(p, x)'
        /\ UpTaken(p, s, x)' = 0 /\ DownGiven(p, s, x)' = 0
        /\ Ahead(p, x)' => /\ Current(x)' = Current(p)' + 1
                           /\ pc'[p] \in BroadcastLabels /\ DownSent(p, s)' = Bytes(p)'
    <3>1. CASE Behind(p, x)
      <4>1. /\ Current(p) = Current(x) + 1 /\ pc[p] \notin BroadcastLabels
            /\ UpGot(p, s) = 0
        BY <2>1, <3>1 DEF LinkInv
      <4>2. UpTaken(p, s, x) = Bytes(x) /\ DownGiven(p, s, x) = Bytes(x)
        BY <2>4, <3>1 DEF UpTaken, DownGiven
      <4>3. ~Ahead(p, x)' /\ ~Behind(p, x)'
        BY <1>5, <1>6, <2>2, <2>3, <4>1 DEF Ahead, Behind
      <4>4. UpTaken(p, s, x)' = 0 /\ DownGiven(p, s, x)' = 0
        <5>1. DownSent(p, s) = 0
          BY <4>1 DEF DownSent
        <5> QED
          BY <2>2, <4>1, <4>3, <5>1 DEF UpTaken, DownGiven
      <4>5. Len(Kept(p, s)) = 0
        <5>1. 0 % FloatSize = 0
          BY AllReduceAssumption
        <5>2. pc[p] \notin ReduceLabels => Kept(p, s) = <<>>
          BY DEF Kept
        <5> QED
          BY <2>3, <4>1, <5>1, <5>2
      <4> QED
        BY <4>2, <4>3, <4>4, <4>5
    <3>2. CASE ~Behind(p, x)
      <4>1. Current(p) = Current(x) /\ Bytes(p) = Bytes(x)
        BY <1>5, <2>3, <2>4, <3>2 DEF Ahead, Behind, Bytes
      <4>2. DownGiven(p, s, x) = DownSent(p, s) /\ UpTaken(p, s, x) = UpGot(p, s)
        BY <2>4, <3>2 DEF UpTaken, DownGiven
      <4>3. pc[p] \in BroadcastLabels /\ pc[p] # "caller" /\ pc[p] \notin ReduceLabels
        <5>1. DownSent(p, s) > 0
          BY <1>5, <2>3, <4>2
        <5> QED
          BY <5>1 DEF DownSent, BroadcastLabels, ReduceLabels
      <4>4. DownSent(p, s) = Bytes(p)
        <5>1. DownGot(p) \in Nat /\ DownGot(p) <= Bytes(p) /\ DownSent(p, s) <= DownGot(p)
          BY <2>1, <4>3, DownEnds
        <5> QED
          BY <1>5, <2>3, <4>1, <4>2, <5>1
      <4>5. UpGot(p, s) = Bytes(p) /\ Kept(p, s) = <<>>
        BY <4>3 DEF UpGot, Kept
      <4>6. Ahead(p, x)' /\ ~Behind(p, x)' /\ Current(x)' = Current(p)' + 1
        BY <1>5, <1>6, <2>2, <4>1 DEF Ahead, Behind
      <4>7. UpTaken(p, s, x)' = 0 /\ DownGiven(p, s, x)' = 0
        BY <4>6 DEF UpTaken, DownGiven
      <4> QED
        BY <2>2, <4>1, <4>2, <4>3, <4>4, <4>5, <4>6, <4>7
    <3> QED
      BY <3>1, <3>2
  <2>6. Len(up[x]) = 0 /\ Len(down[x]) = 0
    BY <1>5, <2>3, <2>5
  <2>7. LinkInv(p, s, x)'
    <3>1. /\ UpTaken(p, s, x)' + Len(up'[x]) <= UpSent(x)'
          /\ DownGot(x)' + Len(down'[x]) <= DownGiven(p, s, x)'
      BY <1>8, <2>2, <2>5, <2>6
    <3> QED
      BY <2>5, <3>1 DEF LinkInv
  <2>8. UpStreamInv(p, s, x)'
    BY <2>2, <2>5, <2>6 DEF UpStreamInv
  <2>9. DownStreamInv(p, s, x)'
    <3>1. RightBelow(x)'
      BY <1>8, <2>2, <2>6 DEF RightBelow, Right
    <3> QED
      BY <3>1 DEF DownStreamInv
  <2>10. UpExact(p, s, x)
    BY <1>5, <1>7, <2>5, <2>6 DEF UpExact
  <2> QED
    BY <2>7, <2>8, <2>9, <2>10 DEF LinkOK
<1>13. FloatsInv(x)' /\ SumInv(x)'
  BY <1>1 DEF FloatsInv, SumInv
<1>14. AgreedInv'
  <2>1. \A i \in 1..Len(Agreed) : Agreed[i] = [e \in 1..Calls[i] |-> Agreed[i][e]]
    BY DEF BytesInv, AgreedInv
  <2>2. ASSUME NEW m \in Node
        PROVE  Len(results'[m]) <= Len(Agreed)
               /\ \A i \in 1..Len(results'[m]) : results'[m][i] = Agreed[i]
    <3>1. Len(results[m]) <= Len(Agreed) /\ \A i \in 1..Len(results[m]) : results[m][i] = Agreed[i]
      BY DEF BytesInv, AgreedInv
    <3>2. CASE m = x
      <4>1. Len(results'[m]) <= Len(Agreed)
        BY <1>6, <1>9, <3>2
      <4>2. ASSUME NEW i \in 1..Len(results'[m]) PROVE results'[m][i] = Agreed[i]
        <5>1. CASE i = Current(x)
          BY <1>6, <1>9, <3>2, <5>1
        <5>2. CASE i # Current(x)
          <6>1. i \in 1..Len(results[x])
            BY <1>5, <1>6, <3>2, <5>2
          <6> QED
            BY <1>6, <3>1, <3>2, <6>1
        <5> QED
          BY <5>1, <5>2
      <4> QED
        BY <4>1, <4>2
    <3>3. CASE m # x
      BY <1>1, <3>1, <3>3
    <3> QED
      BY <3>2, <3>3
  <2> QED
    BY <1>4, <2>1, <2>2 DEF AgreedInv
<1>15. \A p \in Node \ {x}, s \in Side, n \in Node \ {x} : Link(p, s, n) =>
         up'[n] = up[n] /\ down'[n] = down[n]
  BY <1>1
<1>16. DownGot(x) # 0
  BY <1>5, <1>7
<1> QED
  BY <1>4, <1>11, <1>12, <1>13, <1>14, <1>15, <1>16, MovingStep

-----------------------------------------------------------------------------
(* Every step.                                                             *)

(* Whoever dies or gives up leaves what there is as it is.                 *)
LEMMA StillBytes ==
  ASSUME State, FitsInt, BytesInv,
         UNCHANGED <<socks, up, down, pc, written, buffer, reducing, spreading, results>>
  PROVE  BytesInv'
<1>1. /\ \A m \in Node : FloatsInv(m) /\ SumInv(m)
      /\ \A p \in Node, s \in Side, n \in Node : Link(p, s, n) => LinkOK(p, s, n)
      /\ AgreedInv
  BY DEF BytesInv
<1>2. UNCHANGED socks /\ \A m \in Node : UNCHANGED Own(m)
  BY DEF Own, reducing, spreading
<1>3. Agreed' = Agreed
  <2>1. Root' = Root
    BY <1>2 DEF Root, socks
  <2> QED
    BY <2>1 DEF Agreed
<1>4. \A p \in Node, s \in Side, n \in Node : Link(p, s, n)' <=> Link(p, s, n)
  BY <1>2 DEF socks, Link
<1>5. ASSUME NEW p \in Node, NEW s \in Side, NEW n \in Node, Link(p, s, n)
      PROVE  LinkOK(p, s, n)' /\ (UpExact(p, s, n)' => UpExact(p, s, n))
  <2>1. /\ LinkOK(p, s, n) /\ UpSent(n) \in Nat /\ DownSent(p, s) \in Nat
        /\ Behind(p, n) => pc[p] \notin BroadcastLabels
    BY <1>1, <1>5, LinkTypes DEF LinkOK, LinkInv
  <2>2. /\ Current(p)' = Current(p) /\ Current(n)' = Current(n)
        /\ UpGot(p, s)' = UpGot(p, s) /\ DownGot(n)' = DownGot(n)
        /\ UpSent(n)' = UpSent(n) /\ DownSent(p, s)' = DownSent(p, s)
        /\ pc'[p] = pc[p] /\ pc'[n] = pc[n] /\ Kept(p, s)' = Kept(p, s)
        /\ buffer'[n] = buffer[n] /\ up'[n] = up[n] /\ down'[n] = down[n]
    BY <1>2, OwnViews
  <2>3. (Right(p)' <=> Right(p)) /\ (RightBelow(n)' <=> RightBelow(n))
    BY <1>2, <1>3, RightKept
  <2> QED
    BY <1>5, <2>1, <2>2, <2>3, LinkQuiet
<1>6. ASSUME NEW m \in Node PROVE FloatsInv(m)' /\ SumInv(m)'
  <2>1. /\ pc'[m] = pc[m] /\ buffer'[m] = buffer[m] /\ Current(m)' = Current(m)
        /\ DownGot(m)' = DownGot(m) /\ \A s \in Side : UpGot(m, s)' = UpGot(m, s)
    BY <1>2, OwnViews
  <2>2. \A k \in Node : \A e : Current(k)' = Current(k) /\ Float(k, e)' = Float(k, e)
    BY <1>2, OwnViews
  <2>3. \A e : \A k \in ReadFrom(m, e) : k \in Node
    BY DEF ReadFrom
  <2>4. FloatsInv(m)'
    BY <1>1, <1>2, <2>1, FloatsKept
  <2>5. SumInv(m)'
    BY <1>1, <1>2, <1>5, <2>1, <2>2, <2>3, SumKept
  <2> QED
    BY <2>4, <2>5
<1>7. AgreedInv'
  BY <1>1, <1>3 DEF AgreedInv
<1> QED
  BY <1>4, <1>5, <1>6, <1>7 DEF BytesInv

LEMMA TreeKept ==
  ASSUME TreeInv, [Next]_vars
  PROVE  UNCHANGED socks /\ TreeInv'
<1>1. ASSUME NEW x \in Node, Call(x) \/ Reduce(x) PROVE UNCHANGED socks
  BY <1>1 DEF Reduce, Call, PassUp, PassedUp, NothingToPassUp, Select, KeepPassing, LeaveReduce,
              ReArm, ReadChild
<1>2. ASSUME NEW x \in Node, Broadcast(x) PROVE UNCHANGED socks
  BY <1>2 DEF Broadcast, PassDown, PassedDown, ReadParent, KeepSpreading, Return
<1>3. ASSUME NEW x \in Node, Crash(x) \/ Fail(x) PROVE UNCHANGED socks
  BY <1>3 DEF Crash, Fail
<1>4. ASSUME UNCHANGED vars PROVE UNCHANGED socks
  BY <1>4 DEF vars
<1>5. UNCHANGED socks
  BY <1>1, <1>2, <1>3, <1>4 DEF Next, Step, Stop
<1> QED
  BY <1>5 DEF TreeInv, Layouts, socks

LEMMA InitBytes == Init => TreeInv /\ BytesInv
<1> SUFFICES ASSUME Init PROVE TreeInv /\ BytesInv
  OBVIOUS
<1>1. TreeInv
  BY DEF Init, TreeInv
<1>2. \A n \in Node : /\ pc[n] = "caller" /\ pc[n] \notin BroadcastLabels
                      /\ pc[n] \notin ReduceLabels
                      /\ results[n] = <<>> /\ up[n] = <<>> /\ down[n] = <<>>
  BY DEF Init, BroadcastLabels, ReduceLabels
<1>3. Agreed = <<>>
  BY <1>1, <1>2, RootOnly DEF Agreed
<1>4. ASSUME NEW p \in Node, NEW s \in Side, NEW n \in Node PROVE LinkOK(p, s, n)
  <2>1. ~Ahead(p, n) /\ ~Behind(p, n)
    BY <1>2 DEF Ahead, Behind, Current
  <2>2. /\ UpGot(p, s) = 0 /\ UpSent(n) = 0 /\ DownGot(n) = 0 /\ DownSent(p, s) = 0
        /\ Kept(p, s) = <<>>
    BY <1>2 DEF UpGot, UpSent, DownGot, DownSent, Kept
  <2>3. UpTaken(p, s, n) = 0 /\ DownGiven(p, s, n) = 0
    BY <2>1, <2>2 DEF UpTaken, DownGiven
  <2>4. RightBelow(n)
    BY <1>2, <2>2 DEF RightBelow, Right
  <2> QED
    BY <1>2, <2>1, <2>2, <2>3, <2>4 DEF LinkOK, LinkInv, UpStreamInv, DownStreamInv
<1>5. \A n \in Node : FloatsInv(n) /\ SumInv(n)
  BY <1>2 DEF FloatsInv, SumInv
<1>6. AgreedInv
  BY <1>2, <1>3 DEF AgreedInv
<1> QED
  BY <1>1, <1>4, <1>5, <1>6 DEF BytesInv

(* An action of a node on one of its sides is one on the child there.      *)
LEMMA StepBytes ==
  ASSUME State, FitsInt, BytesInv, NEW x \in Node, Step(x)
  PROVE  BytesInv'
<1>1. CASE Call(x)
  BY <1>1, CallBytes
<1>2. CASE PassUp(x)
  BY <1>2, PassUpBytes
<1>3. CASE \/ NothingToPassUp(x) \/ PassedUp(x) \/ Select(x) \/ KeepPassing(x)
           \/ \E s \in Side : ReArm(x, s)
  BY <1>3, QuietUp
<1>4. CASE LeaveReduce(x)
  <2>1. CASE x = Root
    BY <1>4, <2>1, RootLeaves DEF RootReady
  <2>2. CASE x # Root
    BY <1>4, <2>2, QuietLeave
  <2> QED
    BY <2>1, <2>2
<1>5. ASSUME NEW t \in Side, ReadChild(x, t) PROVE BytesInv'
  <2>1. t \in Linked(x)
    BY <1>5 DEF ReadChild, At, ReadLabel, ReduceLabels, State, BooksInv, NodeInv, FdsInv,
                Unfinished
  <2>2. children[x][t] \in Node /\ Link(x, t, children[x][t])
    BY <2>1, Parents DEF State, Link
  <2> QED
    BY <1>5, <2>2, ReadChildBytes
<1>6. ASSUME NEW t \in Side, PassDown(x, t) PROVE BytesInv'
  <2>1. t \in Linked(x)
    BY <1>6 DEF PassDown, PassesDown
  <2>2. children[x][t] \in Node /\ Link(x, t, children[x][t])
    BY <2>1, Parents DEF State, Link
  <2> QED
    BY <1>6, <2>2, PassDownBytes
<1>7. CASE (\E s \in Side : PassedDown(x, s)) \/ KeepSpreading(x)
  BY <1>7, QuietDown
<1>8. CASE ReadParent(x)
  BY <1>8, ReadParentBytes
<1>9. CASE Return(x)
  BY <1>9, ReturnBytes
<1> QED
  BY <1>1, <1>2, <1>3, <1>4, <1>5, <1>6, <1>7, <1>8, <1>9 DEF Step, Reduce, Broadcast

LEMMA NextBytes == State /\ FitsInt /\ BytesInv /\ [Next]_vars => BytesInv'
<1> SUFFICES ASSUME State, FitsInt, BytesInv, [Next]_vars PROVE BytesInv'
  OBVIOUS
<1>1. ASSUME NEW x \in Node, Step(x) PROVE BytesInv'
  BY <1>1, StepBytes
<1>2. ASSUME NEW x \in Node, Crash(x) \/ Fail(x) PROVE BytesInv'
  BY <1>2, StillBytes DEF Crash, Fail
<1>3. CASE UNCHANGED vars
  BY <1>3, StillBytes DEF vars
<1> QED
  BY <1>1, <1>2, <1>3 DEF Next, Stop

-----------------------------------------------------------------------------
(* The service the steps amount to.                                        *)

LEMMA CallRefines ==
  ASSUME State, NEW x \in Node, Call(x)
  PROVE  Service!Enter(x)
<1>1. /\ pc[x] = "caller" /\ pc'[x] = "passUp" /\ Current(x) <= Len(Calls)
      /\ \A m \in Node \ {x} : pc'[m] = pc[m]
      /\ results' = results
  BY DEF Call, At, Goto, State, BooksInv, BookTypes
<1>2. Agreed' = Agreed
  BY <1>1, AgreedKept DEF Step, LeaveReduce, At
<1>3. /\ Len(results[x]) \in Nat /\ Len(Calls) \in Nat
      /\ Entered(x) = Len(results[x]) /\ Entered(x) < Len(Calls)
      /\ Entered(x)' = Entered(x) + 1
  BY <1>1, Sequences, AllReduceAssumption DEF Entered, Current
<1>4. \A m \in Node \ {x} : Entered(m)' = Entered(m)
  BY <1>1 DEF Entered
<1>5. [n \in Node |-> Entered(n)'] = [[n \in Node |-> Entered(n)] EXCEPT ![x] = @ + 1]
  BY <1>3, <1>4
<1> QED
  BY <1>1, <1>2, <1>3, <1>5 DEF Service!Enter

LEMMA ReturnRefines ==
  ASSUME State, FitsInt, BytesInv, NEW x \in Node, Return(x)
  PROVE  Service!Return(x)
<1>1. /\ pc[x] = "readDown" /\ pc'[x] = "caller" /\ Done(x)
      /\ \A m \in Node \ {x} : pc'[m] = pc[m]
      /\ results' = [results EXCEPT ![x] = Append(@, Decode(buffer[x]))]
      /\ \A m \in Node \ {x} : results'[m] = results[m]
      /\ results'[x] = Append(results[x], Decode(buffer[x]))
  <2>1. PICK T : results \in [Node -> Seq(T)]
    BY DEF State, Extents, SeqInv, Typed
  <2> QED
    BY <2>1 DEF Return, At, Goto, State, BooksInv, BookTypes
<1>2. Agreed' = Agreed
  BY <1>1, AgreedKept DEF Step, Broadcast, LeaveReduce, At
<1>3. /\ pc[x] # "caller" /\ pc[x] \in BroadcastLabels
      /\ IsSeq(results[x]) /\ Len(results[x]) \in Nat /\ Current(x) = Len(results[x]) + 1
  BY <1>1, Sequences DEF BroadcastLabels
<1>4. DownGot(x) = Bytes(x)
  <2>1. DownGot(x) >= Bytes(x)
    BY <1>1, <1>3 DEF DownGot, Done
  <2> QED
    BY <1>3, <2>1, DownEnds, CallSize
<1>5. Current(x) \in 1..Len(Agreed) /\ Decode(buffer[x]) = Agreed[Current(x)]
  BY <1>3, <1>4, Returned
<1>6. Entered(x) = Current(x) /\ Entered(x)' = Current(x)
  <2>1. Len(results'[x]) = Len(results[x]) + 1
    <3> DEFINE v == Decode(buffer[x])
    <3>1. PICK T : results[x] \in Seq(T)
      BY <1>3 DEF IsSeq
    <3>2. results[x] \in Seq(T \cup {v}) /\ v \in T \cup {v} /\ results'[x] = Append(results[x], v)
      BY <1>1, <3>1
    <3> HIDE DEF v
    <3> QED
      BY <3>2
  <2> QED
    BY <1>1, <1>3, <2>1 DEF Entered
<1>7. \A m \in Node : Entered(m)' = Entered(m)
  BY <1>1, <1>6 DEF Entered
<1>8. [n \in Node |-> Entered(n)'] = [n \in Node |-> Entered(n)]
  BY <1>7
<1>9. [n \in Node |-> Entered(n)][x] = Current(x)
  BY <1>6
<1> DEFINE entered == [n \in Node |-> Entered(n)]
<1>10. entered[x] = Len(results[x]) + 1 /\ entered[x] <= Len(Agreed)
  BY <1>3, <1>5, <1>9
<1>11. results' = [results EXCEPT ![x] = Append(@, Agreed[entered[x]])]
  BY <1>1, <1>5, <1>9
<1> QED
  BY <1>2, <1>8, <1>10, <1>11 DEF Service!Return

LEMMA DecisionRefines ==
  ASSUME RootReady
  PROVE  Service!Agree
<1> DEFINE c == Current(Root)
<1>1. /\ Root \in Node /\ pc[Root] # "caller" /\ pc'[Root] # "caller"
      /\ Alone(Root) /\ results' = results /\ State
  BY RootUp, RootDecides DEF RootReady, AllUp
<1>2. /\ Len(Agreed) = c - 1 /\ Len(Agreed') = c /\ SubSeq(Agreed', 1, c - 1) = Agreed
      /\ c \in Nat /\ Len(Agreed'[c]) = Calls[c]
      /\ \A e \in 1..Calls[c] : Agreed'[c][e] = Float(Root, e)
  BY RootDecides
<1>3. \A e \in 1..Calls[c] : Agreed'[c][e].terms = SetToBag({<<n, c, e>> : n \in Node})
  <2> SUFFICES ASSUME NEW e \in 1..Calls[c]
               PROVE  Agreed'[c][e].terms = SetToBag({<<n, c, e>> : n \in Node})
    OBVIOUS
  <2>1. Float(Root, e).terms = SumOf(Below(Root), c, e)
    BY <1>1, EverybodysSum DEF RightSum
  <2>2. Below(Root) = Node
    BY <1>1, BelowRoot DEF State
  <2> QED
    BY <1>2, <2>1, <2>2 DEF SumOf
<1>4. \A n \in Node : Entered(n) = c
  BY <1>1, EverybodyUp, Sequences DEF AllUp, Entered
<1>5. \A n \in Node : Entered(n)' = Entered(n)
  <2>1. \A n \in Node : pc'[n] # "caller" /\ pc[n] # "caller"
    BY <1>1, EverybodyUp, OwnViews DEF Alone, AllUp
  <2> QED
    BY <1>1, <2>1 DEF Entered
<1>6. [n \in Node |-> Entered(n)'] = [n \in Node |-> Entered(n)]
  BY <1>5
<1>7. \A n \in Node : [m \in Node |-> Entered(m)][n] >= c
  BY <1>2, <1>4
<1>8. Len(Agreed) + 1 = c
  BY <1>2
<1>9. Service!IsSum(Agreed'[c], c)
  BY <1>2, <1>3 DEF Service!IsSum, SetToBag, Service!SetToBag
<1> HIDE DEF c
<1> QED
  BY <1>1, <1>2, <1>6, <1>7, <1>8, <1>9 DEF Service!Agree

(* Nobody sees the other steps.                                            *)
LEMMA OtherRefines ==
  ASSUME State, NEW x \in Node, Step(x), ~Call(x), ~Return(x), ~(x = Root /\ LeaveReduce(x))
  PROVE  UNCHANGED Service!vars
<1>1. Agreed' = Agreed /\ Alone(x)
  BY AgreedKept, StepsAlone
<1>2. results' = results /\ pc[x] # "caller" /\ pc'[x] # "caller"
  <2>1. pc \in [Node -> Labels]
    BY DEF State, BooksInv, BookTypes
  <2>2. CASE Reduce(x)
    <3>1. CASE PassUp(x) \/ PassedUp(x) \/ NothingToPassUp(x)
      BY <2>1, <3>1 DEF PassUp, PassesUp, PassedUp, NothingToPassUp, At, Goto
    <3>2. CASE Select(x) \/ KeepPassing(x) \/ LeaveReduce(x)
      BY <2>1, <3>2 DEF Select, KeepPassing, LeaveReduce, At, Goto
    <3>3. ASSUME NEW s \in Side, ReArm(x, s) \/ ReadChild(x, s)
          PROVE  results' = results /\ pc[x] # "caller" /\ pc'[x] # "caller"
      BY <2>1, <3>3 DEF ReArm, ReadChild, At, Goto, ReadLabel, AfterRead
    <3> QED
      BY <2>2, <3>1, <3>2, <3>3 DEF Reduce
  <2>3. CASE Broadcast(x)
    <3>1. ASSUME NEW s \in Side, PassDown(x, s) \/ PassedDown(x, s)
          PROVE  results' = results /\ pc[x] # "caller" /\ pc'[x] # "caller"
      BY <2>1, <3>1 DEF PassDown, PassedDown, PassesDown, At, Goto, PassLabel
    <3>2. CASE ReadParent(x) \/ KeepSpreading(x)
      BY <2>1, <3>2 DEF ReadParent, KeepSpreading, At, Goto
    <3> QED
      BY <2>3, <3>1, <3>2 DEF Broadcast
  <2> QED
    BY <2>2, <2>3 DEF Step
<1>3. \A m \in Node : Entered(m)' = Entered(m)
  <2>1. \A m \in Node \ {x} : pc'[m] = pc[m]
    BY <1>1, OwnViews DEF Alone
  <2> QED
    BY <1>2, <2>1 DEF Entered
<1>4. [n \in Node |-> Entered(n)'] = [n \in Node |-> Entered(n)]
  BY <1>3
<1> QED
  BY <1>1, <1>2, <1>4 DEF Service!vars

LEMMA StillRefines ==
  ASSUME UNCHANGED <<socks, pc, buffer, results>>
  PROVE  UNCHANGED Service!vars
<1>1. Root' = Root
  BY DEF Root, socks
<1>2. Agreed' = Agreed
  BY <1>1 DEF Agreed
<1>3. [n \in Node |-> Entered(n)'] = [n \in Node |-> Entered(n)]
  BY DEF Entered
<1> QED
  BY <1>2, <1>3 DEF Service!vars

LEMMA StepRefines ==
  ASSUME State, FitsInt, BytesInv, [Next]_vars
  PROVE  [Service!Next]_(Service!vars)
<1>1. ASSUME NEW x \in Node, Step(x) PROVE [Service!Next]_(Service!vars)
  <2>1. CASE Call(x)
    BY <2>1, CallRefines DEF Service!Next
  <2>2. CASE Return(x)
    BY <2>2, ReturnRefines DEF Service!Next
  <2>3. CASE x = Root /\ LeaveReduce(x)
    BY <2>3, DecisionRefines DEF Service!Next, RootReady
  <2>4. CASE ~Call(x) /\ ~Return(x) /\ ~(x = Root /\ LeaveReduce(x))
    BY <1>1, <2>4, OtherRefines
  <2> QED
    BY <2>1, <2>2, <2>3, <2>4
<1>2. ASSUME NEW x \in Node, Crash(x) \/ Fail(x) PROVE UNCHANGED Service!vars
  BY <1>2, StillRefines DEF Crash, Fail
<1>3. CASE UNCHANGED vars
  BY <1>3, StillRefines DEF vars
<1> QED
  BY <1>1, <1>2, <1>3 DEF Next, Stop

LEMMA InitRefines == Init => Service!Init
<1> SUFFICES ASSUME Init PROVE Service!Init
  OBVIOUS
<1>1. Agreed = <<>>
  <2>1. Root \in Node
    BY InitBytes, RootOnly
  <2> QED
    BY <2>1 DEF Init, Agreed, BroadcastLabels
<1>2. [n \in Node |-> Entered(n)] = [n \in Node |-> 0]
  BY DEF Init, Entered
<1> QED
  BY <1>1, <1>2 DEF Init, Service!Init

-----------------------------------------------------------------------------
(* The books, the bytes in the sockets and the sums in the buffers are     *)
(* right in every state, with short reads, interrupted writes and dead     *)
(* nodes: what is read is what was sent unless a byte was lost, and then   *)
(* nobody gets a result.                                                   *)
THEOREM Invariance ==
  ASSUME FitsInt
  PROVE  Spec => []IInv
<1> DEFINE Inv == BooksInv /\ ResultsInv /\ Extents /\ TreeInv /\ BytesInv
<1>1. Init => Inv
  BY InitInv, InitExtents, InitBytes
<1>2. Inv /\ [Next]_vars => Inv'
  <2> SUFFICES ASSUME Inv, [Next]_vars PROVE Inv'
    OBVIOUS
  <2>1. BooksInv' /\ ResultsInv' /\ Extents'
    BY NextInv, NextResults, NextExtents
  <2>2. TreeInv'
    BY TreeKept
  <2>3. BytesInv'
    BY NextBytes DEF State
  <2> QED
    BY <2>1, <2>2, <2>3
<1>3. Inv => IInv
  BY DEF IInv, PositionsInv, Extents
<1> HIDE DEF Inv
<1> QED
  BY <1>1, <1>2, <1>3, PTL DEF Spec

(* "This implements the allreduce function of MPI" (allreduce.h:6): in     *)
(* every tree of nodes and for every size of the buffers and the pieces,   *)
(* what a call returns is one vector, the same on every node, of the sums  *)
(* of every node's numbers, and no call returns before every node has      *)
(* brought its part.                                                       *)
THEOREM SumServiceRefinement ==
  ASSUME FitsInt
  PROVE  Spec => ImplementsSumService
<1> DEFINE Inv == BooksInv /\ ResultsInv /\ Extents /\ TreeInv /\ BytesInv
<1>1. Init => Service!Init
  BY InitRefines
<1>2. Inv /\ [Next]_vars => [Service!Next]_(Service!vars)
  BY StepRefines DEF State
<1>3. Init => Inv
  BY InitInv, InitExtents, InitBytes
<1>4. Inv /\ [Next]_vars => Inv'
  BY NextInv, NextResults, NextExtents, TreeKept, NextBytes DEF State
<1> HIDE DEF Inv
<1> QED
  BY <1>1, <1>2, <1>3, <1>4, PTL DEF Spec, ImplementsSumService, Service!Spec

=============================================================================
