---------------------------- MODULE SortersProofs ----------------------------
(***************************************************************************)
(* Theorems about Sorters, for any clients, agents, resources and weights. *)
(* Most is said of one tree, so that it serves both sorters: what paths    *)
(* are to one another, what shape a tree has and where its clients are,    *)
(* and what each operation of SorterTree makes of that, of what the nodes  *)
(* hold and of what a client is to the abstract Sorter.  The actions come  *)
(* after that.  Then the order of the children of the DRFSorter's nodes,   *)
(* what its sort() lists, and the relative weights of the RandomSorter.    *)
(***************************************************************************)
EXTENDS Sorters, FoldTheorems

-----------------------------------------------------------------------------
(* Paths.                                                                  *)

\* The provers do not know of a literal that it is a string.
Names == STRING \cup {"."}
Paths == Seq(Names)

\* What it is to be a prefix.
LEMMA PrefixIs ==
  ASSUME NEW p \in Paths, NEW q \in Paths
  PROVE  IsPrefix(q, p) <=> Len(q) <= Len(p) /\ \A i \in 1..Len(q) : q[i] = p[i]
<1>1. Len(p) \in Nat /\ Len(q) \in Nat
  BY DEF Paths
<1>2. ASSUME Len(q) <= Len(p)
      PROVE  SubSeq(q, 1, Len(q)) = SubSeq(p, 1, Len(q)) <=> \A i \in 1..Len(q) : q[i] = p[i]
  <2> DEFINE a == SubSeq(q, 1, Len(q))
             b == SubSeq(p, 1, Len(q))
  <2>1. /\ a \in Paths /\ Len(a) = Len(q) /\ \A i \in 1..Len(q) : a[i] = q[i]
        /\ b \in Paths /\ Len(b) = Len(q) /\ \A i \in 1..Len(q) : b[i] = p[i]
    BY <1>1, <1>2 DEF Paths
  <2> HIDE DEF a, b
  <2>2. a = b <=> \A i \in 1..Len(q) : a[i] = b[i]
    BY <2>1 DEF Paths
  <2> QED BY <2>1, <2>2 DEF a, b
<1> QED BY <1>2 DEF IsPrefix

\* PrefixOrder are ordered.
LEMMA PrefixOrder ==
  ASSUME NEW p \in Paths
  PROVE  /\ IsPrefix(p, p) /\ IsPrefix(Root, p) /\ Root \in Paths
         /\ \A q, r \in Paths : IsPrefix(q, p) /\ IsPrefix(r, q) => IsPrefix(r, p)
         /\ \A q \in Paths : IsPrefix(q, p) /\ IsPrefix(p, q) => p = q
         /\ \A q \in Paths : IsPrefix(q, p) /\ ~(Len(q) < Len(p)) => p = q
         /\ \A q, r \in Paths : IsPrefix(q, p) /\ IsPrefix(r, p) /\ Len(r) <= Len(q) =>
              IsPrefix(r, q)
<1>0. Root \in Paths /\ Len(Root) = 0 /\ \A q \in Paths : Len(q) \in Nat
  BY DEF Root, Paths
<1>1. IsPrefix(p, p) /\ IsPrefix(Root, p)
  BY <1>0, PrefixIs
<1>2. ASSUME NEW q \in Paths, NEW r \in Paths, IsPrefix(q, p), IsPrefix(r, q)
      PROVE  IsPrefix(r, p)
  <2>1. Len(q) <= Len(p) /\ \A i \in 1..Len(q) : q[i] = p[i]
    BY <1>2, PrefixIs
  <2>2. Len(r) <= Len(q) /\ \A i \in 1..Len(r) : r[i] = q[i]
    BY <1>2, PrefixIs
  <2>3. Len(r) <= Len(p) /\ \A i \in 1..Len(r) : r[i] = p[i]
    BY <1>0, <2>1, <2>2
  <2> QED BY <2>3, PrefixIs
<1>3. ASSUME NEW q \in Paths, IsPrefix(q, p), ~(Len(q) < Len(p))
      PROVE  p = q
  <2>1. Len(q) = Len(p) /\ \A i \in 1..Len(q) : q[i] = p[i]
    BY <1>0, <1>3, PrefixIs
  <2> QED BY <2>1 DEF Paths
<1>4. ASSUME NEW q \in Paths, IsPrefix(q, p), IsPrefix(p, q)
      PROVE  p = q
  <2>1. ~(Len(q) < Len(p))
    BY <1>0, <1>4, PrefixIs
  <2> QED BY <1>3, <1>4, <2>1
<1>5. ASSUME NEW q \in Paths, NEW r \in Paths, IsPrefix(q, p), IsPrefix(r, p), Len(r) <= Len(q)
      PROVE  IsPrefix(r, q)
  <2>1. \A i \in 1..Len(q) : q[i] = p[i]
    BY <1>5, PrefixIs
  <2>2. \A i \in 1..Len(r) : r[i] = p[i] /\ i \in 1..Len(q)
    BY <1>0, <1>5, PrefixIs
  <2> QED BY <1>5, <2>1, <2>2, PrefixIs
<1> QED BY <1>0, <1>1, <1>2, <1>3, <1>4, <1>5

\* The nodes above a path are its prefixes.
LEMMA UpwardsArePrefixes ==
  ASSUME NEW p \in Paths
  PROVE  /\ Upwards(p) = {q \in Paths : IsPrefix(q, p)}
         /\ Above(p) = {q \in Paths : IsPrefix(q, p) /\ q # Root}
<1>0. Len(p) \in Nat /\ \A q \in Paths : Len(q) \in Nat
  BY DEF Paths
<1>1. ASSUME NEW i \in 1..Len(p)
      PROVE  SubSeq(p, 1, i) \in Paths /\ IsPrefix(SubSeq(p, 1, i), p) /\ SubSeq(p, 1, i) # Root
  <2>1. /\ SubSeq(p, 1, i) \in Paths /\ Len(SubSeq(p, 1, i)) = i
        /\ \A j \in 1..i : SubSeq(p, 1, i)[j] = p[j]
    BY <1>0 DEF Paths
  <2>2. i <= Len(p) /\ i # 0
    BY <1>0
  <2> QED BY <2>1, <2>2, PrefixIs DEF Root
<1>2. ASSUME NEW q \in Paths, IsPrefix(q, p), q # Root
      PROVE  \E i \in 1..Len(p) : q = SubSeq(p, 1, i)
  <2>1. Len(q) <= Len(p) /\ \A i \in 1..Len(q) : q[i] = p[i]
    BY <1>2, PrefixIs
  <2>2. Len(q) \in 1..Len(p)
    BY <1>0, <1>2, <2>1 DEF Root, Paths
  <2>3. /\ SubSeq(p, 1, Len(q)) \in Paths /\ Len(SubSeq(p, 1, Len(q))) = Len(q)
        /\ \A j \in 1..Len(q) : SubSeq(p, 1, Len(q))[j] = p[j]
    BY <1>0, <2>2 DEF Paths
  <2>4. q = SubSeq(p, 1, Len(q))
    BY <2>1, <2>3 DEF Paths
  <2> QED BY <2>2, <2>4
<1>3. Above(p) = {q \in Paths : IsPrefix(q, p) /\ q # Root}
  BY <1>1, <1>2 DEF Above
<1>4. Root \in Paths /\ IsPrefix(Root, p)
  BY PrefixOrder
<1> QED BY <1>3, <1>4 DEF Upwards

\* A path without its last name.
LEMMA FrontOf ==
  ASSUME NEW p \in Paths, p # Root
  PROVE  /\ Front(p) \in Paths /\ IsPrefix(Front(p), p) /\ Len(Front(p)) = Len(p) - 1
         /\ Front(p) # p /\ Len(p) \in Nat \ {0}
         /\ \A q \in Paths : IsPrefix(q, p) /\ q # p => IsPrefix(q, Front(p))
<1>1. Len(p) \in Nat \ {0}
  BY DEF Root, Paths
<1>2. /\ Front(p) \in Paths /\ Len(Front(p)) = Len(p) - 1
      /\ \A i \in 1..(Len(p) - 1) : Front(p)[i] = p[i]
  <2> DEFINE n == Len(p) - 1
  <2>1. n \in Nat /\ n <= Len(p)
    BY <1>1
  <2> HIDE DEF n
  <2>2. /\ SubSeq(p, 1, n) \in Paths /\ Len(SubSeq(p, 1, n)) = n
        /\ \A i \in 1..n : SubSeq(p, 1, n)[i] = p[i]
    BY <2>1 DEF Paths
  <2> QED BY <2>2 DEF Front, n
<1>3. IsPrefix(Front(p), p)
  BY <1>1, <1>2, PrefixIs
<1>4. Front(p) # p
  BY <1>1, <1>2
<1>5. ASSUME NEW q \in Paths, IsPrefix(q, p), q # p
      PROVE  IsPrefix(q, Front(p))
  <2>1. Len(q) < Len(p)
    BY <1>5, PrefixOrder
  <2>2. Len(q) \in Nat /\ Len(q) <= Len(Front(p))
    BY <1>1, <1>2, <2>1 DEF Paths
  <2> QED BY <1>2, <1>3, <1>5, <2>2, PrefixOrder
<1> QED BY <1>1, <1>2, <1>3, <1>4, <1>5

\* The virtual leaf of a path.
LEMMA VirtualOf ==
  ASSUME NEW p \in Paths
  PROVE  /\ Virtual(p) \in Paths /\ Len(Virtual(p)) = Len(p) + 1 /\ Virtual(p) # Root
         /\ IsVirtual(Virtual(p)) /\ Front(Virtual(p)) = p /\ ClientPath(Virtual(p)) = p
         /\ Virtual(p) # p /\ IsPrefix(p, Virtual(p))
         /\ \A q \in Paths : IsPrefix(q, Virtual(p)) <=> q = Virtual(p) \/ IsPrefix(q, p)
<1>0. Len(p) \in Nat /\ "." \in Names
  BY DEF Paths, Names
<1>1. /\ Virtual(p) \in Paths /\ Len(Virtual(p)) = Len(p) + 1
      /\ Virtual(p)[Len(p) + 1] = "." /\ \A i \in 1..Len(p) : Virtual(p)[i] = p[i]
  BY <1>0 DEF Virtual, Paths
<1>2. Virtual(p) # Root
  BY <1>0, <1>1 DEF Root
<1>3. IsVirtual(Virtual(p))
  BY <1>1, <1>2 DEF IsVirtual, Last
<1>4. Front(Virtual(p)) = p
  <2> DEFINE f == Front(Virtual(p))
  <2>1. f \in Paths /\ Len(f) = Len(p)
    BY <1>0, <1>1, <1>2, FrontOf
  <2>2. IsPrefix(f, Virtual(p))
    BY <1>1, <1>2, FrontOf
  <2> HIDE DEF f
  <2>3. \A i \in 1..Len(p) : f[i] = p[i]
    BY <1>1, <2>1, <2>2, PrefixIs
  <2>4. f = p
    BY <2>1, <2>3 DEF Paths
  <2> QED BY <2>4 DEF f
<1>5. ClientPath(Virtual(p)) = p
  BY <1>3, <1>4 DEF ClientPath
<1>6. IsPrefix(p, Virtual(p)) /\ Virtual(p) # p
  BY <1>1, <1>2, <1>4, FrontOf
<1>7. ASSUME NEW q \in Paths
      PROVE  IsPrefix(q, Virtual(p)) <=> q = Virtual(p) \/ IsPrefix(q, p)
  BY <1>1, <1>2, <1>4, <1>6, PrefixOrder, FrontOf
<1> QED BY <1>1, <1>2, <1>3, <1>4, <1>5, <1>6, <1>7

\* The client of a virtual path.
LEMMA ClientOfVirtual ==
  ASSUME NEW p \in Paths
  PROVE  /\ ClientPath(p) \in Paths
         /\ IsVirtual(p) => p = Virtual(ClientPath(p)) /\ p # Root
         /\ ~IsVirtual(p) => p = ClientPath(p)
<1>1. CASE ~IsVirtual(p)
  BY <1>1 DEF ClientPath
<1>2. CASE IsVirtual(p)
  <2>1. p # Root /\ p[Len(p)] = "."
    BY <1>2 DEF IsVirtual, Last
  <2> DEFINE f == Front(p)
  <2>2. /\ f \in Paths /\ Len(f) = Len(p) - 1 /\ Len(p) \in Nat \ {0}
        /\ \A i \in 1..Len(f) : f[i] = p[i]
    BY <2>1, FrontOf, PrefixIs
  <2>3. ClientPath(p) = f
    BY <1>2 DEF ClientPath
  <2> HIDE DEF f
  <2>4. /\ Virtual(f) \in Paths /\ Len(Virtual(f)) = Len(f) + 1
        /\ Virtual(f)[Len(f) + 1] = "." /\ \A i \in 1..Len(f) : Virtual(f)[i] = f[i]
    <3>1. "." \in Names
      BY DEF Names
    <3> QED BY <2>2, <3>1 DEF Virtual, Paths
  <2>5. Virtual(f) = p
    <3>1. Len(Virtual(f)) = Len(p)
      BY <2>2, <2>4
    <3>2. \A i \in 1..Len(p) : Virtual(f)[i] = p[i]
      BY <2>1, <2>2, <2>4
    <3> QED BY <2>4, <3>1, <3>2 DEF Paths
  <2> QED BY <1>2, <2>1, <2>2, <2>3, <2>5
<1> QED BY <1>1, <1>2

\* Clients are paths with names of their own.
LEMMA ClientPaths ==
  ASSUME NEW c \in Client
  PROVE  /\ c \in Paths /\ c # Root /\ ~IsVirtual(c)
         /\ \A q \in Paths : IsPrefix(q, c) => ~IsVirtual(q)
<1>1. c \in Paths /\ c # Root /\ \A i \in DOMAIN c : c[i] # "."
  BY ClientAssumption DEF Paths, Names
<1>2. ASSUME NEW q \in Paths, IsPrefix(q, c), q # Root
      PROVE  ~IsVirtual(q)
  <2>1. Len(q) \in 1..Len(q) /\ Len(q) \in 1..Len(c)
    BY <1>1, <1>2, PrefixIs DEF Root, Paths
  <2>2. q[Len(q)] = c[Len(q)] /\ Len(q) \in DOMAIN c
    BY <1>1, <1>2, <2>1, PrefixIs DEF Paths
  <2> QED BY <1>1, <2>2 DEF IsVirtual, Last
<1>3. \A q \in Paths : IsPrefix(q, c) => ~IsVirtual(q)
  BY <1>2 DEF IsVirtual
<1> QED BY <1>1, <1>3, PrefixOrder

-----------------------------------------------------------------------------
(* The shape of a tree.                                                    *)

Amounts == [Scalar -> Nat]
Kinds == {"active", "inactive", "internal"}

\* What a node may hold: amounts of some agents.
Held == UNION {[S -> Amounts] : S \in SUBSET Slave}

Nodes == [kind : Kinds, held : Held, weight : Nat]

Typed(T) == DOMAIN T \subseteq Paths /\ T \in [DOMAIN T -> Nodes]

Rooted(T) == Root \in DOMAIN T /\ T[Root].kind = "internal"

\* The nodes above a node are in the tree, and internal.
Closed(T) ==
  \A p \in DOMAIN T, q \in Paths :
    IsPrefix(q, p) /\ q # p => q \in DOMAIN T /\ T[q].kind = "internal"

\* Leaves belong to clients, and virtual nodes are leaves.
LeavesServe(T) ==
  \A p \in DOMAIN T : /\ T[p].kind # "internal" => ClientPath(p) \in Client
                      /\ IsVirtual(p) => T[p].kind # "internal"

Shape(T) ==
  Typed(T) /\ Rooted(T) /\ Closed(T) /\ LeavesServe(T) /\ IsFiniteSet(ClientsOf(T))

\* The leaf of a client.
LEMMA LeafIs ==
  ASSUME NEW T, Shape(T), NEW c \in ClientsOf(T)
  PROVE  /\ c \in Client /\ c \in Paths /\ c # Root /\ ~IsVirtual(c) /\ c \in DOMAIN T
         /\ LeafOf(T, c) \in DOMAIN T /\ LeafOf(T, c) \in Paths /\ LeafOf(T, c) # Root
         /\ T[LeafOf(T, c)].kind \in {"active", "inactive"}
         /\ LeafOf(T, c) \in {c, Virtual(c)} /\ ClientPath(LeafOf(T, c)) = c
         /\ IsPrefix(c, LeafOf(T, c))
         /\ \A q \in Paths : IsPrefix(q, LeafOf(T, c)) <=> q = LeafOf(T, c) \/ IsPrefix(q, c)
<1>1. PICK q \in DOMAIN T : T[q].kind # "internal" /\ ClientPath(q) = c
  BY DEF ClientsOf, IsLeaf
<1>2. c \in Client /\ q \in Paths /\ T[q].kind \in {"active", "inactive"}
  BY <1>1 DEF Shape, LeavesServe, Typed, Nodes, Kinds
<1>3. c \in Paths /\ c # Root /\ ~IsVirtual(c)
  BY <1>2, ClientPaths
<1>4. LeafOf(T, c) = q
  <2>1. CASE IsVirtual(q)
    <3>1. q = Virtual(c)
      BY <1>1, <1>2, <2>1, ClientOfVirtual
    <3> QED BY <1>1, <3>1 DEF LeafOf
  <2>2. CASE ~IsVirtual(q)
    <3>1. q = c
      BY <1>1, <1>2, <2>2, ClientOfVirtual
    <3>2. Virtual(c) \notin DOMAIN T
      <4>1. IsPrefix(c, Virtual(c)) /\ c # Virtual(c)
        BY <1>3, VirtualOf
      <4>2. Virtual(c) \in DOMAIN T => T[c].kind = "internal"
        BY <1>3, <4>1 DEF Shape, Closed
      <4> QED BY <1>1, <3>1, <4>2
    <3> QED BY <3>1, <3>2 DEF LeafOf
  <2> QED BY <2>1, <2>2
<1>5. LeafOf(T, c) \in {c, Virtual(c)} /\ ClientPath(LeafOf(T, c)) = c
  BY <1>1, <1>4 DEF LeafOf
<1>6. /\ IsPrefix(c, LeafOf(T, c)) /\ LeafOf(T, c) # Root
      /\ \A r \in Paths : IsPrefix(r, LeafOf(T, c)) <=> r = LeafOf(T, c) \/ IsPrefix(r, c)
  BY <1>3, <1>5, VirtualOf, PrefixOrder
<1>7. c \in DOMAIN T
  BY <1>1, <1>3, <1>4, <1>6 DEF Shape, Closed
<1> QED BY <1>1, <1>2, <1>3, <1>4, <1>5, <1>6, <1>7

\* A leaf is the leaf of its client.
LEMMA LeavesAre ==
  ASSUME NEW T, Shape(T), NEW p \in DOMAIN T, T[p].kind # "internal"
  PROVE  /\ ClientPath(p) \in ClientsOf(T) /\ LeafOf(T, ClientPath(p)) = p
         /\ \A q \in DOMAIN T : IsPrefix(p, q) => q = p
<1>1. p \in Paths /\ ClientPath(p) \in ClientsOf(T)
  BY DEF Shape, Typed, ClientsOf, IsLeaf
<1> DEFINE c == ClientPath(p)
<1>2. /\ LeafOf(T, c) \in DOMAIN T /\ LeafOf(T, c) \in {c, Virtual(c)}
      /\ T[LeafOf(T, c)].kind # "internal" /\ c \in Paths
  BY <1>1, LeafIs
<1>3. ASSUME NEW q \in DOMAIN T, IsPrefix(p, q)
      PROVE  q = p
  BY <1>1, <1>3 DEF Shape, Typed, Closed
<1>4. p \in {c, Virtual(c)}
  BY <1>1, ClientOfVirtual
<1>5. IsPrefix(c, Virtual(c))
  BY <1>2, VirtualOf
<1>6. LeafOf(T, c) = p
  <2>1. CASE p = c
    BY <1>2, <1>3, <1>5, <2>1
  <2>2. CASE p = Virtual(c)
    BY <2>2 DEF LeafOf
  <2> QED BY <1>4, <2>1, <2>2
<1> QED BY <1>1, <1>3, <1>6

\* A leaf where a client has its own.
LEMMA ClientHasLeaf ==
  ASSUME NEW T, Shape(T), NEW c \in Client, NEW p \in DOMAIN T, p \in {c, Virtual(c)},
         T[p].kind # "internal"
  PROVE  c \in ClientsOf(T) /\ LeafOf(T, c) = p
<1>1. c \in Paths /\ ~IsVirtual(c)
  BY ClientPaths
<1>2. ClientPath(p) = c
  BY <1>1, VirtualOf, ClientOfVirtual
<1> QED BY <1>2, LeavesAre

\* A tree keeps its shape when nodes are given other allocations and weights, and leaves
\* another kind of leaf.
LEMMA SameShape ==
  ASSUME NEW T, Shape(T), NEW U, Typed(U), DOMAIN U = DOMAIN T,
         \A p \in DOMAIN T : U[p].kind = "internal" <=> T[p].kind = "internal"
  PROVE  Shape(U) /\ ClientsOf(U) = ClientsOf(T) /\ \A c : LeafOf(U, c) = LeafOf(T, c)
<1>1. ClientsOf(U) = ClientsOf(T)
  BY DEF ClientsOf, IsLeaf
<1>2. Rooted(U) /\ Closed(U) /\ LeavesServe(U)
  BY DEF Shape, Typed, Rooted, Closed, LeavesServe, Nodes, Kinds
<1> QED BY <1>1, <1>2 DEF Shape, LeafOf

-----------------------------------------------------------------------------
(* What nodes hold.                                                        *)

\* Allocations are functions from agents to amounts.
LEMMA HeldIs ==
  ASSUME NEW h
  PROVE  h \in Held <=> /\ h = [s \in DOMAIN h |-> h[s]] /\ DOMAIN h \subseteq Slave
                        /\ \A s \in DOMAIN h : h[s] \in Amounts
<1>1. ASSUME h \in Held
      PROVE  /\ h = [s \in DOMAIN h |-> h[s]] /\ DOMAIN h \subseteq Slave
             /\ \A s \in DOMAIN h : h[s] \in Amounts
  <2>1. PICK S \in SUBSET Slave : h \in [S -> Amounts]
    BY <1>1 DEF Held
  <2> QED BY <2>1
<1>2. ASSUME h = [s \in DOMAIN h |-> h[s]], DOMAIN h \subseteq Slave,
             \A s \in DOMAIN h : h[s] \in Amounts
      PROVE  h \in Held
  <2>1. h \in [DOMAIN h -> Amounts]
    BY <1>2
  <2> QED BY <1>2, <2>1 DEF Held
<1> QED BY <1>1, <1>2

\* Amounts are numbers, and an entry is its amounts.
LEMMA AmountType ==
  ASSUME NEW h \in Held, NEW s \in Slave
  PROVE  /\ \A k \in Scalar : Amount(h, s, k) \in Nat
         /\ s \in DOMAIN h => h[s] \in Amounts /\ h[s] = [k \in Scalar |-> Amount(h, s, k)]
<1>1. s \in DOMAIN h => h[s] \in Amounts
  BY HeldIs
<1> QED BY <1>1 DEF Amount, Amounts

\* Zero, and the quantities of a call.
LEMMA QuantityType ==
  /\ Zero \in Amounts
  /\ \A x \in Quantity : x \in Amounts /\ x # Zero /\ \E k \in Scalar : x[k] > 0
<1>1. Zero \in Amounts
  BY DEF Zero, Amounts
<1>2. ASSUME NEW x \in Quantity
      PROVE  x \in Amounts /\ x # Zero /\ \E k \in Scalar : x[k] > 0
  <2>1. x \in Amounts /\ x # Zero
    BY QuantityAssumption DEF Amounts
  <2>2. ASSUME \A k \in Scalar : ~(x[k] > 0)
        PROVE  FALSE
    <3>1. x = Zero
      BY <2>1, <2>2 DEF Zero, Amounts
    <3> QED BY <2>1, <3>1
  <2> QED BY <2>1, <2>2
<1> QED BY <1>1, <1>2

\* Allocation::add.
LEMMA AddToAdds ==
  ASSUME NEW h \in Held, NEW s \in Slave, NEW x \in Amounts
  PROVE  /\ AddTo(h, s, x) \in Held
         /\ \A t \in Slave, k \in Scalar :
              Amount(AddTo(h, s, x), t, k) = Amount(h, t, k) + (IF t = s THEN x[k] ELSE 0)
<1> DEFINE g == AddTo(h, s, x)
<1>0. DOMAIN h \subseteq Slave /\ \A t \in DOMAIN h : h[t] \in Amounts
  BY HeldIs
<1>1. /\ g = [t \in DOMAIN g |-> g[t]] /\ DOMAIN g = DOMAIN h \cup {s}
      /\ \A t \in DOMAIN g : g[t] = IF t # s THEN h[t]
                                    ELSE IF s \in DOMAIN h THEN Plus(h[s], x) ELSE x
  BY DEF AddTo
<1>2. \A y \in Amounts : Plus(y, x) \in Amounts /\ \A k \in Scalar : Plus(y, x)[k] = y[k] + x[k]
  BY DEF Plus, Amounts
<1> HIDE DEF g
<1>3. g \in Held
  BY <1>0, <1>1, <1>2, HeldIs
<1>4. ASSUME NEW t \in Slave, NEW k \in Scalar
      PROVE  Amount(g, t, k) = Amount(h, t, k) + (IF t = s THEN x[k] ELSE 0)
  <2>1. Amount(h, t, k) \in Nat /\ x[k] \in Nat
    BY AmountType DEF Amounts
  <2> QED BY <1>0, <1>1, <1>2, <2>1 DEF Amount
<1> QED BY <1>3, <1>4 DEF g

\* Allocation::subtract.
LEMMA SubtractFromTakes ==
  ASSUME NEW h \in Held, NEW s \in Slave, NEW x \in Amounts, CanSubtract(h, s, x)
  PROVE  /\ SubtractFrom(h, s, x) \in Held
         /\ \A t \in Slave, k \in Scalar :
              Amount(SubtractFrom(h, s, x), t, k) =
                Amount(h, t, k) - (IF t = s THEN x[k] ELSE 0)
<1> DEFINE g == SubtractFrom(h, s, x)
<1>0. /\ DOMAIN h \subseteq Slave /\ \A t \in DOMAIN h : h[t] \in Amounts
      /\ s \in DOMAIN h /\ \A k \in Scalar : x[k] <= h[s][k]
      /\ h = [t \in DOMAIN h |-> h[t]]
  BY HeldIs DEF CanSubtract, Covers
<1>1. CASE h[s] = x
  <2>1. g = [t \in DOMAIN h \ {s} |-> h[t]]
    BY <1>1 DEF SubtractFrom, Restrict
  <2> HIDE DEF g
  <2>2. g \in Held
    BY <1>0, <2>1, HeldIs
  <2>3. ASSUME NEW t \in Slave, NEW k \in Scalar
        PROVE  Amount(g, t, k) = Amount(h, t, k) - (IF t = s THEN x[k] ELSE 0)
    <3>1. Amount(h, t, k) \in Nat /\ x[k] \in Nat
      BY AmountType DEF Amounts
    <3> QED BY <1>0, <1>1, <2>1, <3>1 DEF Amount
  <2> QED BY <2>2, <2>3 DEF g
<1>2. CASE h[s] # x
  <2>1. g = [h EXCEPT ![s] = Minus(h[s], x)]
    BY <1>2 DEF SubtractFrom
  <2>2. Minus(h[s], x) \in Amounts /\ \A k \in Scalar : Minus(h[s], x)[k] = h[s][k] - x[k]
    BY <1>0 DEF Minus, Amounts
  <2> HIDE DEF g
  <2>3. /\ g = [t \in DOMAIN g |-> g[t]] /\ DOMAIN g = DOMAIN h
        /\ \A t \in DOMAIN g : g[t] = IF t = s THEN Minus(h[s], x) ELSE h[t]
    BY <1>0, <2>1
  <2>4. g \in Held
    BY <1>0, <2>2, <2>3, HeldIs
  <2>5. ASSUME NEW t \in Slave, NEW k \in Scalar
        PROVE  Amount(g, t, k) = Amount(h, t, k) - (IF t = s THEN x[k] ELSE 0)
    <3>1. Amount(h, t, k) \in Nat /\ x[k] \in Nat
      BY AmountType DEF Amounts
    <3> QED BY <1>0, <2>2, <2>3, <3>1 DEF Amount
  <2> QED BY <2>4, <2>5 DEF g
<1> QED BY <1>1, <1>2

\* Allocation::update.
LEMMA UpdateInMoves ==
  ASSUME NEW h \in Held, NEW s \in Slave, NEW x \in Amounts, NEW y \in Amounts,
         CanSubtract(h, s, x)
  PROVE  /\ UpdateIn(h, s, x, y) \in Held
         /\ \A t \in Slave, k \in Scalar :
              Amount(UpdateIn(h, s, x, y), t, k) =
                Amount(h, t, k) + (IF t = s THEN y[k] - x[k] ELSE 0)
<1> DEFINE g == UpdateIn(h, s, x, y)
           new == Plus(Minus(h[s], x), y)
<1>0. /\ DOMAIN h \subseteq Slave /\ \A t \in DOMAIN h : h[t] \in Amounts
      /\ s \in DOMAIN h /\ \A k \in Scalar : x[k] <= h[s][k]
      /\ h = [t \in DOMAIN h |-> h[t]]
  BY HeldIs DEF CanSubtract, Covers
<1>1. g = [h EXCEPT ![s] = new]
  BY DEF UpdateIn
<1>2. new \in Amounts /\ \A k \in Scalar : new[k] = h[s][k] - x[k] + y[k]
  BY <1>0 DEF Minus, Plus, Amounts
<1> HIDE DEF g, new
<1>3. /\ g = [t \in DOMAIN g |-> g[t]] /\ DOMAIN g = DOMAIN h
      /\ \A t \in DOMAIN g : g[t] = IF t = s THEN new ELSE h[t]
  BY <1>0, <1>1
<1>4. g \in Held
  BY <1>0, <1>2, <1>3, HeldIs
<1>5. ASSUME NEW t \in Slave, NEW k \in Scalar
      PROVE  Amount(g, t, k) = Amount(h, t, k) + (IF t = s THEN y[k] - x[k] ELSE 0)
  <2>1. Amount(h, t, k) \in Nat /\ x[k] \in Nat /\ y[k] \in Nat
    BY AmountType DEF Amounts
  <2> QED BY <1>0, <1>2, <1>3, <2>1 DEF Amount
<1> QED BY <1>4, <1>5 DEF g

\* What a removed client held goes from the nodes above.
LEMMA SubtractAllTakes ==
  ASSUME NEW h \in Held, NEW g \in Held,
         \A s \in DOMAIN g : CanSubtract(h, s, g[s])
  PROVE  /\ SubtractAll(h, g) \in Held
         /\ \A t \in Slave, k \in Scalar :
              Amount(SubtractAll(h, g), t, k) = Amount(h, t, k) - Amount(g, t, k)
<1> DEFINE f == SubtractAll(h, g)
<1>0. /\ DOMAIN h \subseteq Slave /\ \A t \in DOMAIN h : h[t] \in Amounts
      /\ DOMAIN g \subseteq DOMAIN h /\ \A t \in DOMAIN g : g[t] \in Amounts
      /\ \A t \in DOMAIN g, k \in Scalar : g[t][k] <= h[t][k]
  BY HeldIs DEF CanSubtract, Covers
<1>1. /\ f = [t \in DOMAIN f |-> f[t]]
      /\ DOMAIN f = {t \in DOMAIN h : t \in DOMAIN g => h[t] # g[t]}
      /\ \A t \in DOMAIN f : f[t] = IF t \in DOMAIN g THEN Minus(h[t], g[t]) ELSE h[t]
  BY DEF SubtractAll
<1>2. ASSUME NEW t \in DOMAIN g
      PROVE  /\ Minus(h[t], g[t]) \in Amounts
             /\ \A k \in Scalar : Minus(h[t], g[t])[k] = h[t][k] - g[t][k]
  BY <1>0 DEF Minus, Amounts
<1> HIDE DEF f
<1>3. f \in Held
  BY <1>0, <1>1, <1>2, HeldIs
<1>4. ASSUME NEW t \in Slave, NEW k \in Scalar
      PROVE  Amount(f, t, k) = Amount(h, t, k) - Amount(g, t, k)
  <2>1. Amount(h, t, k) \in Nat /\ Amount(g, t, k) \in Nat
    BY AmountType
  <2> QED BY <1>0, <1>1, <1>2, <2>1 DEF Amount
<1> QED BY <1>3, <1>4 DEF f

-----------------------------------------------------------------------------
(* Trees whose nodes sum up their clients.                                 *)

Good(T) == Shape(T) /\ NodesSumClients(T)

\* What a client holds of an agent, for the sums.
Part(T, s, k) == [c \in ClientsOf(T) |-> Amount(HeldBy(T, c), s, k)]
Under(T, p) == {c \in ClientsOf(T) : IsPrefix(p, c)}

\* The parts are numbers.
LEMMA PartType ==
  ASSUME NEW T, Shape(T), NEW s \in Slave, NEW k \in Scalar
  PROVE  /\ \A c \in ClientsOf(T) : HeldBy(T, c) \in Held /\ Part(T, s, k)[c] \in Nat
                                    /\ Part(T, s, k)[c] = Amount(HeldBy(T, c), s, k)
         /\ \A p : IsFiniteSet(Under(T, p))
<1>1. ASSUME NEW c \in ClientsOf(T)
      PROVE  HeldBy(T, c) \in Held /\ Part(T, s, k)[c] \in Nat
             /\ Part(T, s, k)[c] = Amount(HeldBy(T, c), s, k)
  <2>1. LeafOf(T, c) \in DOMAIN T
    BY LeafIs
  <2>2. HeldBy(T, c) \in Held
    BY <2>1 DEF HeldBy, Shape, Typed, Nodes
  <2> QED BY <2>2, AmountType DEF Part
<1>2. \A p : IsFiniteSet(Under(T, p))
  BY FS_Subset DEF Shape, Under
<1> QED BY <1>1, <1>2

\* A node has at least what a client below it has.
LEMMA NodeCoversClient ==
  ASSUME NEW T, Good(T), NEW c \in ClientsOf(T), NEW p \in Paths, IsPrefix(p, LeafOf(T, c))
  PROVE  /\ p \in DOMAIN T /\ T[p].held \in Held
         /\ \A s \in Slave, k \in Scalar :
              Amount(HeldBy(T, c), s, k) <= Amount(T[p].held, s, k)
<1>0. /\ LeafOf(T, c) \in DOMAIN T /\ ~IsVirtual(c) /\ c \in Paths
      /\ IsPrefix(p, LeafOf(T, c)) <=> p = LeafOf(T, c) \/ IsPrefix(p, c)
      /\ Shape(T)
  BY LeafIs DEF Good
<1>1. p \in DOMAIN T /\ (p # LeafOf(T, c) => T[p].kind = "internal")
  BY <1>0 DEF Shape, Closed
<1>2. T[p].held \in Held
  BY <1>0, <1>1 DEF Shape, Typed, Nodes
<1>3. ASSUME NEW s \in Slave, NEW k \in Scalar
      PROVE  Amount(HeldBy(T, c), s, k) <= Amount(T[p].held, s, k)
  <2>1. CASE p = LeafOf(T, c)
    <3>1. Amount(T[p].held, s, k) \in Nat
      BY <1>2, AmountType
    <3> QED BY <2>1, <3>1 DEF HeldBy
  <2>2. CASE p # LeafOf(T, c)
    <3>1. ~IsVirtual(p) /\ c \in Under(T, p)
      BY <1>0, <1>1, <2>2 DEF Shape, LeavesServe, Under
    <3>2. Amount(T[p].held, s, k) = SumFunctionOnSet(Part(T, s, k), Under(T, p))
      BY <1>1, <3>1 DEF Good, NodesSumClients, Part, Under
    <3>3. /\ IsFiniteSet(Under(T, p)) /\ \A b \in Under(T, p) : Part(T, s, k)[b] \in Nat
          /\ Part(T, s, k)[c] = Amount(HeldBy(T, c), s, k)
      BY <1>0, PartType DEF Under
    <3>4. \A b \in Under(T, p) : Part(T, s, k)[b] <= SumFunctionOnSet(Part(T, s, k), Under(T, p))
      BY <3>3, SumOfNats
    <3> QED BY <3>1, <3>2, <3>3, <3>4
  <2> QED BY <2>1, <2>2
<1> QED BY <1>1, <1>2, <1>3

\* What can be taken from a client can be taken from the nodes above it.
LEMMA CanSubtractAbove ==
  ASSUME NEW T, Good(T), NEW c \in ClientsOf(T), NEW p \in Paths, IsPrefix(p, LeafOf(T, c)),
         NEW s \in Slave, NEW x \in Amounts, x # Zero, CanSubtract(HeldBy(T, c), s, x)
  PROVE  CanSubtract(T[p].held, s, x)
<1>1. /\ T[p].held \in Held
      /\ \A k \in Scalar : Amount(HeldBy(T, c), s, k) <= Amount(T[p].held, s, k)
  BY NodeCoversClient
<1>2. \A k \in Scalar : x[k] <= Amount(HeldBy(T, c), s, k)
  BY DEF CanSubtract, Covers, Amount
<1>3. /\ \A k \in Scalar : Amount(T[p].held, s, k) \in Nat /\ x[k] \in Nat
      /\ HeldBy(T, c) \in Held
      /\ \A k \in Scalar : Amount(HeldBy(T, c), s, k) \in Nat
  <2>1. HeldBy(T, c) \in Held
    BY LeafIs DEF HeldBy, Good, Shape, Typed, Nodes
  <2> QED BY <1>1, <2>1, AmountType DEF Amounts
<1>4. \A k \in Scalar : x[k] <= Amount(T[p].held, s, k)
  BY <1>1, <1>2, <1>3
<1>5. PICK k \in Scalar : x[k] # 0
  <2>1. (\A k \in Scalar : x[k] = 0) => x = Zero
    BY DEF Zero, Amounts
  <2> QED BY <2>1
<1>6. Amount(T[p].held, s, k) # 0
  BY <1>3, <1>4, <1>5
<1>7. s \in DOMAIN T[p].held
  BY <1>6 DEF Amount
<1> QED BY <1>4, <1>7 DEF CanSubtract, Covers, Amount

\* The CHECKs of remove.
LEMMA ChecksHold ==
  ASSUME NEW T, Good(T)
  PROVE  RemoveChecksHold(T)
<1> SUFFICES ASSUME NEW c \in ClientsOf(T), NEW p \in Upwards(LeafOf(T, c)),
                    NEW s \in DOMAIN HeldBy(T, c),
                    HeldBy(T, c)[s] # Zero \/ s \in DOMAIN T[p].held
             PROVE  CanSubtract(T[p].held, s, HeldBy(T, c)[s])
  BY DEF RemoveChecksHold
<1>0. Shape(T) /\ LeafOf(T, c) \in Paths /\ LeafOf(T, c) \in DOMAIN T
  BY LeafIs DEF Good
<1>1. HeldBy(T, c) \in Held
  BY <1>0 DEF HeldBy, Shape, Typed, Nodes
<1>2. p \in Paths /\ IsPrefix(p, LeafOf(T, c))
  BY <1>0, UpwardsArePrefixes
<1>3. s \in Slave /\ HeldBy(T, c)[s] \in Amounts
  BY <1>1, HeldIs
<1>4. CASE HeldBy(T, c)[s] # Zero
  <2>1. CanSubtract(HeldBy(T, c), s, HeldBy(T, c)[s])
    BY <1>3 DEF CanSubtract, Covers, Amounts
  <2> QED BY <1>2, <1>3, <1>4, <2>1, CanSubtractAbove
<1>5. CASE HeldBy(T, c)[s] = Zero /\ s \in DOMAIN T[p].held
  <2>1. T[p].held \in Held
    BY <1>2, NodeCoversClient
  <2>2. T[p].held[s] \in Amounts
    BY <1>5, <2>1, HeldIs
  <2> QED BY <1>5, <2>2 DEF CanSubtract, Covers, Amounts, Zero
<1> QED BY <1>4, <1>5

\* A client is in two trees the same: in the sort or not, and with the same amounts.
SameClient(T, U, c) ==
  /\ U[LeafOf(U, c)].kind = T[LeafOf(T, c)].kind
  /\ \A s \in Slave, k \in Scalar : Amount(HeldBy(U, c), s, k) = Amount(HeldBy(T, c), s, k)

\* The weights that are cached stay, and new nodes have none.
SameWeights(T, U) ==
  \A p \in DOMAIN U : U[p].weight = IF p \in DOMAIN T THEN T[p].weight ELSE Unset

\* The allocation of one client was changed: of its nodes nothing but what they hold.
Rebooked(T, U, c) ==
  /\ Good(U) /\ ClientsOf(U) = ClientsOf(T) /\ DOMAIN U = DOMAIN T /\ SameWeights(T, U)
  /\ \A p \in DOMAIN T : U[p].kind = T[p].kind
  /\ U[LeafOf(U, c)].kind = T[LeafOf(T, c)].kind
  /\ \A b \in ClientsOf(T) \ {c} : SameClient(T, U, b)

\* A tree that was changed at the nodes above one client, by the same amounts.
LEMMA PathChanges ==
  ASSUME NEW T, Good(T), NEW c \in ClientsOf(T), NEW h, NEW U, NEW s \in Slave, NEW d,
         U = [p \in DOMAIN T |-> IF p \in Upwards(LeafOf(T, c))
                                 THEN [T[p] EXCEPT !.held = h[p]] ELSE T[p]],
         \A k \in Scalar : d[k] \in Int,
         \A p \in DOMAIN T : IsPrefix(p, LeafOf(T, c)) =>
           /\ h[p] \in Held
           /\ \A t \in Slave, k \in Scalar :
                Amount(h[p], t, k) = Amount(T[p].held, t, k) + (IF t = s THEN d[k] ELSE 0)
  PROVE  Rebooked(T, U, c) /\ HeldBy(U, c) = h[LeafOf(T, c)]
<1> DEFINE leaf == LeafOf(T, c)
<1>0. /\ Shape(T) /\ leaf \in Paths /\ leaf \in DOMAIN T /\ ~IsVirtual(c) /\ c \in Paths
      /\ ClientPath(leaf) = c /\ T[leaf].kind # "internal"
      /\ \A q \in Paths : IsPrefix(q, leaf) <=> q = leaf \/ IsPrefix(q, c)
      /\ DOMAIN T \subseteq Paths /\ \A p \in DOMAIN T : T[p] \in Nodes
  BY LeafIs DEF Good, Shape, Typed
<1>1. \A p \in DOMAIN T : p \in Upwards(leaf) <=> IsPrefix(p, leaf)
  BY <1>0, UpwardsArePrefixes
<1> HIDE DEF leaf
<1>2. /\ DOMAIN U = DOMAIN T /\ U \in [DOMAIN T -> Nodes]
      /\ \A p \in DOMAIN T : /\ U[p].kind = T[p].kind /\ U[p].weight = T[p].weight
                             /\ U[p].held = IF IsPrefix(p, leaf) THEN h[p] ELSE T[p].held
  <2>1. U = [p \in DOMAIN T |-> IF IsPrefix(p, leaf)
                                THEN [T[p] EXCEPT !.held = h[p]] ELSE T[p]]
    BY <1>1 DEF leaf
  <2>2. ASSUME NEW p \in DOMAIN T
        PROVE  /\ U[p] \in Nodes /\ U[p].kind = T[p].kind /\ U[p].weight = T[p].weight
               /\ U[p].held = IF IsPrefix(p, leaf) THEN h[p] ELSE T[p].held
    BY <1>0, <2>1 DEF Nodes, leaf
  <2> QED BY <2>1, <2>2
<1>3. Shape(U) /\ ClientsOf(U) = ClientsOf(T) /\ \A b : LeafOf(U, b) = LeafOf(T, b)
  <2>1. Typed(U)
    BY <1>0, <1>2 DEF Typed
  <2>2. \A p \in DOMAIN T : U[p].kind = "internal" <=> T[p].kind = "internal"
    BY <1>2
  <2>3. Shape(T) /\ DOMAIN U = DOMAIN T
    BY <1>0, <1>2
  <2> HIDE DEF leaf
  <2> QED BY ONLY <2>1, <2>2, <2>3, SameShape
<1>4. HeldBy(U, c) = h[leaf]
  BY <1>0, <1>2, <1>3, PrefixOrder DEF HeldBy, leaf
<1>5. ASSUME NEW b \in ClientsOf(T) \ {c}
      PROVE  HeldBy(U, b) = HeldBy(T, b)
  <2>1. LeafOf(T, b) \in DOMAIN T /\ T[LeafOf(T, b)].kind # "internal"
        /\ ClientPath(LeafOf(T, b)) = b
    BY <1>0, LeafIs
  <2>2. ~IsPrefix(LeafOf(T, b), leaf)
    BY <1>0, <2>1, LeavesAre
  <2> QED BY <1>2, <1>3, <2>1, <2>2 DEF HeldBy
<1>6. ASSUME NEW p \in DOMAIN U, ~IsVirtual(p), NEW t \in Slave, NEW k \in Scalar
      PROVE  Amount(U[p].held, t, k) = SumFunctionOnSet(Part(U, t, k), Under(U, p))
  <2>0. p \in DOMAIN T /\ p \in Paths /\ Under(U, p) = Under(T, p)
    BY <1>0, <1>2, <1>3, <1>6 DEF Under
  <2>1. Amount(T[p].held, t, k) = SumFunctionOnSet(Part(T, t, k), Under(T, p))
    BY <1>6, <2>0 DEF Good, NodesSumClients, Part, Under
  <2>2. /\ \A b \in ClientsOf(T) : /\ Part(T, t, k)[b] \in Nat /\ Part(U, t, k)[b] \in Nat
                                   /\ Part(T, t, k)[b] = Amount(HeldBy(T, b), t, k)
                                   /\ Part(U, t, k)[b] = Amount(HeldBy(U, b), t, k)
        /\ IsFiniteSet(Under(T, p)) /\ Under(T, p) \subseteq ClientsOf(T)
    BY <1>0, <1>3, PartType DEF Under
  <2>3. CASE IsPrefix(p, leaf)
    <3>1. c \in Under(T, p)
      <4>1. p = leaf => p = c
        BY <1>0, <1>6, ClientOfVirtual
      <4> QED BY <1>0, <2>0, <2>3, <4>1, PrefixOrder DEF Under
    <3>2. \A b \in Under(T, p) \ {c} : Part(U, t, k)[b] = Part(T, t, k)[b]
      BY <1>5, <2>2
    <3>3. SumFunctionOnSet(Part(U, t, k), Under(T, p)) =
            SumFunctionOnSet(Part(T, t, k), Under(T, p)) - Part(T, t, k)[c] + Part(U, t, k)[c]
      BY <2>2, <3>1, <3>2, SumChangesAt
    <3>4. /\ Amount(U[p].held, t, k) = Amount(T[p].held, t, k) + (IF t = s THEN d[k] ELSE 0)
          /\ Part(U, t, k)[c] = Part(T, t, k)[c] + (IF t = s THEN d[k] ELSE 0)
      <4>1. Amount(U[p].held, t, k) = Amount(T[p].held, t, k) + (IF t = s THEN d[k] ELSE 0)
        BY <1>2, <2>0, <2>3 DEF leaf
      <4>2. IsPrefix(leaf, leaf)
        BY <1>0, PrefixOrder
      <4>3. Amount(h[leaf], t, k) = Amount(T[leaf].held, t, k) + (IF t = s THEN d[k] ELSE 0)
        BY <1>0, <4>2 DEF leaf
      <4> QED BY <1>4, <2>2, <4>1, <4>3 DEF HeldBy, leaf
    <3>5. SumFunctionOnSet(Part(T, t, k), Under(T, p)) \in Int
      <4>1. \A b \in Under(T, p) : Part(T, t, k)[b] \in Int
        BY <2>2
      <4> QED BY <2>2, <4>1, SumType
    <3> QED BY <2>0, <2>1, <2>2, <3>3, <3>4, <3>5
  <2>4. CASE ~IsPrefix(p, leaf)
    <3>1. c \notin Under(T, p)
      BY <1>0, <2>0, <2>4 DEF Under
    <3>2. \A b \in Under(T, p) : Part(U, t, k)[b] = Part(T, t, k)[b]
      BY <1>5, <2>2, <3>1
    <3>3. SumFunctionOnSet(Part(U, t, k), Under(T, p)) =
            SumFunctionOnSet(Part(T, t, k), Under(T, p))
      BY <2>2, <3>2, SumsEqual
    <3> QED BY <1>2, <2>0, <2>1, <2>4, <3>3
  <2> QED BY <2>3, <2>4
<1>7. NodesSumClients(U)
  BY <1>6 DEF NodesSumClients, Part, Under
<1>8. \A b \in ClientsOf(T) : LeafOf(T, b) \in DOMAIN T
  BY <1>0, LeafIs
<1>9. Good(U)
  BY <1>3, <1>7 DEF Good
<1>10. \A b \in ClientsOf(T) \ {c} : SameClient(T, U, b)
  BY <1>2, <1>3, <1>5, <1>8 DEF SameClient
<1> QED BY <1>2, <1>3, <1>4, <1>8, <1>9, <1>10 DEF Rebooked, SameWeights, leaf

\* A tree whose nodes hold the same, of the same kind but for the leaves.
LEMMA SameHolders ==
  ASSUME NEW T, Good(T), NEW U, Typed(U), DOMAIN U = DOMAIN T,
         \A p \in DOMAIN T : /\ U[p].kind = "internal" <=> T[p].kind = "internal"
                             /\ U[p].held = T[p].held
  PROVE  /\ Good(U) /\ ClientsOf(U) = ClientsOf(T) /\ \A b : LeafOf(U, b) = LeafOf(T, b)
         /\ \A b \in ClientsOf(T) : HeldBy(U, b) = HeldBy(T, b)
<1>1. Shape(T)
  BY DEF Good
<1>2. Shape(U) /\ ClientsOf(U) = ClientsOf(T) /\ \A b : LeafOf(U, b) = LeafOf(T, b)
  BY <1>1, SameShape
<1>3. \A b \in ClientsOf(T) : HeldBy(U, b) = HeldBy(T, b)
  BY <1>1, <1>2, LeafIs DEF HeldBy
<1>4. ASSUME NEW p \in DOMAIN U, ~IsVirtual(p), NEW s \in Slave, NEW k \in Scalar
      PROVE  Amount(U[p].held, s, k) = SumFunctionOnSet(Part(U, s, k), Under(U, p))
  <2>1. Part(U, s, k) = Part(T, s, k) /\ Under(U, p) = Under(T, p)
    BY <1>2, <1>3 DEF Part, Under
  <2>2. Amount(T[p].held, s, k) = SumFunctionOnSet(Part(T, s, k), Under(T, p))
    BY <1>4 DEF Good, NodesSumClients, Part, Under
  <2> QED BY <2>1, <2>2
<1>5. NodesSumClients(U)
  BY <1>4 DEF NodesSumClients, Part, Under
<1> QED BY <1>2, <1>3, <1>5 DEF Good

-----------------------------------------------------------------------------
(* Removal.                                                                *)

\* The child of a node on the way to a node below.
LEMMA ChildTowards ==
  ASSUME NEW p \in Paths, NEW q \in Paths, IsPrefix(p, q), p # q
  PROVE  \E a \in Paths : a # Root /\ Front(a) = p /\ IsPrefix(a, q) /\ IsPrefix(p, a)
<1> DEFINE n == Len(p) + 1
           a == SubSeq(q, 1, n)
<1>1. Len(p) \in Nat /\ Len(q) \in Nat /\ Len(p) < Len(q) /\ \A i \in 1..Len(p) : p[i] = q[i]
  BY PrefixIs, PrefixOrder DEF Paths
<1>2. n \in Nat /\ n <= Len(q) /\ n > 0
  BY <1>1
<1> HIDE DEF n
<1>3. a \in Paths /\ Len(a) = n /\ \A i \in 1..n : a[i] = q[i]
  BY <1>2 DEF Paths
<1> HIDE DEF a
<1>4. IsPrefix(a, q) /\ a # Root
  BY <1>2, <1>3, PrefixIs DEF Root, Paths
<1>5. IsPrefix(p, a)
  BY <1>1, <1>3, PrefixIs DEF n
<1>6. Front(a) = p
  <2>1. Front(a) \in Paths /\ IsPrefix(p, Front(a)) /\ Len(Front(a)) = n - 1
    BY <1>1, <1>3, <1>4, <1>5, FrontOf DEF n
  <2>2. ~(Len(p) < Len(Front(a)))
    BY <1>1, <2>1 DEF n
  <2> QED BY <2>1, <2>2, PrefixOrder
<1> QED BY <1>3, <1>4, <1>5, <1>6

\* A sum over one element.
LEMMA SumOfSingle ==
  ASSUME NEW g, NEW x, g[x] \in Int
  PROVE  SumFunctionOnSet(g, {x}) = g[x]
<1>1. IsFiniteSet({x})
  BY FS_Singleton
<1>2. PICK S : S = {x}
  OBVIOUS
<1>3. PICK A : A = {}
  OBVIOUS
<1>4. SumFunctionOnSet(g, A \cup {x}) = g[x] + SumFunctionOnSet(g, A)
  <2>1. /\ IsFiniteSet(S) /\ \A y \in S : g[y] \in Int
        /\ A \in SUBSET S /\ x \in S /\ x \notin A
    BY <1>1, <1>2, <1>3
  <2> QED BY ONLY <2>1, SumOfOneMore
<1>5. SumFunctionOnSet(g, A) = 0
  BY <1>3, SumOfNone
<1>6. A \cup {x} = {x}
  BY <1>3
<1>7. SumFunctionOnSet(g, A \cup {x}) = g[x]
  BY <1>4, <1>5
<1> QED BY <1>6, <1>7, Zenon

\* Clients survive when a node becomes its virtual leaf.
LEMMA CollapseKeeps ==
  ASSUME NEW T, Good(T), NEW f \in DOMAIN T, NEW U, U = Collapse(T, f)
  PROVE  /\ Good(U) /\ ClientsOf(U) = ClientsOf(T) /\ DOMAIN U \subseteq DOMAIN T
         /\ \A p \in DOMAIN U : U[p].weight = T[p].weight
         /\ \A c \in ClientsOf(T) : SameClient(T, U, c)
<1>1. CASE ~(f # Root /\ ChildrenOf(T, f) = {Virtual(f)})
  BY <1>1 DEF Collapse, SameClient
<1>2. CASE f # Root /\ ChildrenOf(T, f) = {Virtual(f)}
  <2> DEFINE v == Virtual(f)
  <2>0. /\ Shape(T) /\ DOMAIN T \subseteq Paths /\ \A p \in DOMAIN T : T[p] \in Nodes
        /\ T \in [DOMAIN T -> Nodes]
    BY DEF Good, Shape, Typed
  <2>1. /\ f \in Paths /\ v \in DOMAIN T /\ v # f /\ v \in Paths /\ IsPrefix(f, v)
        /\ IsVirtual(v) /\ ClientPath(v) = f
    <3>1. v \in DOMAIN T
      BY <1>2 DEF ChildrenOf
    <3> QED BY <2>0, <3>1, VirtualOf
  <2>2. T[f].kind = "internal" /\ ~IsVirtual(f) /\ T[v].kind \in {"active", "inactive"}
    <3>1. T[f].kind = "internal"
      BY <2>0, <2>1 DEF Shape, Closed
    <3> QED BY <2>0, <2>1, <3>1 DEF Shape, LeavesServe, Nodes, Kinds
  <2>3. f \in ClientsOf(T) /\ LeafOf(T, f) = v /\ f \in Client
        /\ \A q \in DOMAIN T : IsPrefix(v, q) => q = v
    BY <2>0, <2>1, <2>2, LeavesAre, LeafIs
  <2>4. ASSUME NEW q \in DOMAIN T, IsPrefix(f, q)
        PROVE  q \in {f, v}
    <3>1. CASE q # f
      <4>1. PICK a \in Paths : a # Root /\ Front(a) = f /\ IsPrefix(a, q)
        BY <2>0, <2>1, <2>4, <3>1, ChildTowards
      <4>2. a \in DOMAIN T
        BY <2>0, <4>1 DEF Shape, Closed
      <4>3. a = v
        BY <1>2, <4>1, <4>2 DEF ChildrenOf
      <4> QED BY <2>3, <4>1, <4>3
    <3> QED BY <3>1
  <2> HIDE DEF v
  <2>5. /\ DOMAIN U = DOMAIN T \ {v} /\ U = [p \in DOMAIN U |-> U[p]]
        /\ \A p \in DOMAIN U : /\ U[p] \in Nodes
                               /\ U[p].held = T[p].held /\ U[p].weight = T[p].weight
                               /\ U[p].kind = IF p = f THEN T[v].kind ELSE T[p].kind
    <3>1. U = [[p \in DOMAIN T \ {v} |-> T[p]] EXCEPT ![f] = [@ EXCEPT !.kind = T[v].kind]]
      BY <1>2 DEF Collapse, Restrict, v
    <3>2. /\ DOMAIN U = DOMAIN T \ {v} /\ U = [p \in DOMAIN U |-> U[p]]
          /\ \A p \in DOMAIN U : U[p] = IF p = f THEN [T[f] EXCEPT !.kind = T[v].kind] ELSE T[p]
      BY <2>1, <3>1
    <3>3. T[v].kind \in Kinds
      BY <2>2 DEF Kinds
    <3>4. ASSUME NEW p \in DOMAIN U
          PROVE  /\ U[p] \in Nodes
                 /\ U[p].held = T[p].held /\ U[p].weight = T[p].weight
                 /\ U[p].kind = IF p = f THEN T[v].kind ELSE T[p].kind
      BY <2>0, <3>2, <3>3 DEF Nodes
    <3> QED BY <3>2, <3>4
  <2>6. /\ \A c \in Client : c # f => LeafOf(U, c) = LeafOf(T, c)
        /\ LeafOf(U, f) = f
    <3>1. \A c \in Client : c # f => Virtual(c) # v
      BY <2>1, ClientPaths, VirtualOf
    <3> QED BY <2>5, <3>1 DEF LeafOf, v
  <2>7. ClientsOf(U) = ClientsOf(T)
    <3>1. ASSUME NEW c \in ClientsOf(T)
          PROVE  c \in ClientsOf(U)
      <4>1. CASE c = f
        <5>1. ClientPath(f) = f /\ f \in DOMAIN U /\ U[f].kind # "internal"
          BY <2>1, <2>2, <2>5 DEF ClientPath
        <5> QED BY <4>1, <5>1 DEF ClientsOf, IsLeaf
      <4>2. CASE c # f
        <5>1. /\ LeafOf(T, c) \in DOMAIN T /\ ClientPath(LeafOf(T, c)) = c
              /\ T[LeafOf(T, c)].kind # "internal"
          BY <2>0, LeafIs
        <5>2. LeafOf(T, c) # v /\ LeafOf(T, c) # f
          BY <2>1, <2>2, <4>2, <5>1
        <5> QED BY <2>5, <5>1, <5>2 DEF ClientsOf, IsLeaf
      <4> QED BY <4>1, <4>2
    <3>2. ASSUME NEW c \in ClientsOf(U)
          PROVE  c \in ClientsOf(T)
      <4>1. PICK p \in DOMAIN U : U[p].kind # "internal" /\ ClientPath(p) = c
        BY DEF ClientsOf, IsLeaf
      <4>2. CASE p = f
        BY <2>2, <2>3, <4>1, <4>2 DEF ClientPath
      <4>3. CASE p # f
        BY <2>5, <4>1, <4>3 DEF ClientsOf, IsLeaf
      <4> QED BY <4>2, <4>3
    <3> QED BY <3>1, <3>2
  <2>8. Shape(U)
    <3>1. Typed(U)
      BY <2>0, <2>5 DEF Typed
    <3>2. Rooted(U)
      BY <1>2, <2>0, <2>1, <2>2, <2>5 DEF Shape, Rooted, IsVirtual
    <3>3. Closed(U)
      <4> SUFFICES ASSUME NEW p \in DOMAIN U, NEW q \in Paths, IsPrefix(q, p), q # p
                   PROVE  q \in DOMAIN U /\ U[q].kind = "internal"
        BY DEF Closed
      <4>1. q \in DOMAIN T /\ T[q].kind = "internal"
        BY <2>0, <2>5 DEF Shape, Closed
      <4>2. q # v /\ q # f
        BY <2>2, <2>4, <2>5, <4>1
      <4> QED BY <2>5, <4>1, <4>2
    <3>4. LeavesServe(U)
      <4>1. ClientPath(f) = f
        BY <2>2 DEF ClientPath
      <4> QED BY <2>0, <2>2, <2>3, <2>5, <4>1 DEF Shape, LeavesServe
    <3> QED BY <2>0, <2>7, <3>1, <3>2, <3>3, <3>4 DEF Shape
  <2>9. Under(T, f) = {f}
    <3>1. ASSUME NEW c \in ClientsOf(T), IsPrefix(f, c)
          PROVE  c = f
      BY <2>0, <2>1, <2>4, <3>1, LeafIs
    <3>2. IsPrefix(f, f)
      BY <2>1, PrefixOrder
    <3> QED BY <2>3, <3>1, <3>2 DEF Under
  <2>10. ASSUME NEW s \in Slave, NEW k \in Scalar
         PROVE  Amount(T[f].held, s, k) = Amount(HeldBy(T, f), s, k)
    <3>1. Amount(T[f].held, s, k) = SumFunctionOnSet(Part(T, s, k), {f})
      BY <2>2, <2>9 DEF Good, NodesSumClients, Part, Under
    <3>2. Part(T, s, k)[f] \in Int /\ Part(T, s, k)[f] = Amount(HeldBy(T, f), s, k)
      BY <2>0, <2>3, PartType
    <3> QED BY <3>1, <3>2, SumOfSingle
  <2>11. ASSUME NEW c \in ClientsOf(T)
         PROVE  SameClient(T, U, c)
    <3>1. CASE c = f
      <4>1. U[LeafOf(U, f)].kind = T[v].kind /\ HeldBy(U, f) = T[f].held
        BY <2>1, <2>5, <2>6 DEF HeldBy
      <4> QED BY <2>3, <2>10, <3>1, <4>1 DEF SameClient
    <3>2. CASE c # f
      <4>1. /\ LeafOf(T, c) \in DOMAIN T /\ ClientPath(LeafOf(T, c)) = c /\ c \in Client
            /\ T[LeafOf(T, c)].kind # "internal"
        BY <2>0, LeafIs
      <4>2. LeafOf(T, c) # v /\ LeafOf(T, c) # f
        BY <2>1, <2>2, <3>2, <4>1
      <4> QED BY <2>5, <2>6, <3>2, <4>1, <4>2 DEF SameClient, HeldBy
    <3> QED BY <3>1, <3>2
  <2>12. ASSUME NEW p \in DOMAIN U, ~IsVirtual(p), NEW s \in Slave, NEW k \in Scalar
         PROVE  Amount(U[p].held, s, k) = SumFunctionOnSet(Part(U, s, k), Under(U, p))
    <3>1. Amount(T[p].held, s, k) = SumFunctionOnSet(Part(T, s, k), Under(T, p))
      BY <2>5, <2>12 DEF Good, NodesSumClients, Part, Under
    <3>2. /\ Under(U, p) = Under(T, p) /\ IsFiniteSet(Under(T, p))
          /\ \A c \in Under(T, p) : /\ Part(T, s, k)[c] \in Int
                                    /\ Part(U, s, k)[c] = Part(T, s, k)[c]
      <4>1. Under(U, p) = Under(T, p) /\ Under(T, p) \subseteq ClientsOf(T)
        BY <2>7 DEF Under
      <4>2. \A c \in ClientsOf(T) : /\ Part(T, s, k)[c] \in Nat
                                    /\ Part(T, s, k)[c] = Amount(HeldBy(T, c), s, k)
                                    /\ Part(U, s, k)[c] = Amount(HeldBy(U, c), s, k)
        BY <2>0, <2>7, <2>8, PartType
      <4>3. \A c \in ClientsOf(T) : Part(U, s, k)[c] = Part(T, s, k)[c]
        BY <2>11, <4>2 DEF SameClient
      <4> QED BY <2>0, <4>1, <4>2, <4>3, PartType
    <3>3. SumFunctionOnSet(Part(U, s, k), Under(T, p)) =
            SumFunctionOnSet(Part(T, s, k), Under(T, p))
      BY <3>2, SumsEqual
    <3> QED BY <2>5, <3>1, <3>2, <3>3
  <2>13. NodesSumClients(U)
    BY <2>12 DEF NodesSumClients, Part, Under
  <2> QED BY <2>5, <2>7, <2>8, <2>11, <2>13 DEF Good
<1> QED BY <1>1, <1>2

\* The nodes that go with a client: its leaf and those above that lead nowhere else.
Dead(T, c) ==
  {p \in Above(LeafOf(T, c)) : \A q \in DOMAIN T : IsPrefix(p, q) => IsPrefix(q, LeafOf(T, c))}

\* What remove leaves before it looks for a virtual leaf alone.
Left(T, c) ==
  [p \in DOMAIN T \ Dead(T, c) |->
     IF p \in Upwards(LeafOf(T, c))
     THEN [T[p] EXCEPT !.held = SubtractAll(@, HeldBy(T, c))] ELSE T[p]]

\* Which nodes these are.
LEMMA DeadAre ==
  ASSUME NEW T, Shape(T), NEW c \in ClientsOf(T)
  PROVE  /\ Dead(T, c) \subseteq DOMAIN T /\ Root \notin Dead(T, c)
         /\ LeafOf(T, c) \in Dead(T, c)
         /\ \A p \in Dead(T, c) : p \in Paths /\ IsPrefix(p, LeafOf(T, c))
                                  /\ (p # LeafOf(T, c) => T[p].kind = "internal")
         /\ \A p \in Dead(T, c), q \in DOMAIN T : IsPrefix(p, q) => q \in Dead(T, c)
<1> DEFINE leaf == LeafOf(T, c)
<1>0. /\ leaf \in Paths /\ leaf \in DOMAIN T /\ leaf # Root /\ T[leaf].kind # "internal"
      /\ DOMAIN T \subseteq Paths /\ IsPrefix(leaf, leaf)
  BY LeafIs, PrefixOrder DEF Shape, Typed
<1>1. \A p \in Dead(T, c) : /\ p \in Paths /\ IsPrefix(p, leaf) /\ p # Root
                            /\ \A q \in DOMAIN T : IsPrefix(p, q) => IsPrefix(q, leaf)
  BY <1>0, UpwardsArePrefixes DEF Dead
<1>2. \A p \in Paths : IsPrefix(p, leaf) /\ p # leaf => p \in DOMAIN T /\ T[p].kind = "internal"
  BY <1>0 DEF Shape, Closed
<1>3. leaf \in Dead(T, c)
  <2>1. \A q \in DOMAIN T : IsPrefix(leaf, q) => q = leaf
    BY <1>0, LeavesAre
  <2> QED BY <1>0, <2>1, UpwardsArePrefixes DEF Dead
<1>4. ASSUME NEW p \in Dead(T, c), NEW q \in DOMAIN T, IsPrefix(p, q)
      PROVE  q \in Dead(T, c)
  <2>1. q \in Paths /\ IsPrefix(q, leaf)
    BY <1>0, <1>1, <1>4
  <2>2. q # Root
    <3>1. q = Root => p = Root
      BY <1>1, <1>4, PrefixOrder
    <3> QED BY <1>1, <3>1
  <2>3. ASSUME NEW r \in DOMAIN T, IsPrefix(q, r)
        PROVE  IsPrefix(r, leaf)
    <3>1. IsPrefix(p, r)
      BY <1>0, <1>1, <1>4, <2>1, <2>3, PrefixOrder
    <3> QED BY <1>1, <3>1
  <2> QED BY <1>0, <2>1, <2>2, <2>3, UpwardsArePrefixes DEF Dead
<1> QED BY <1>0, <1>1, <1>2, <1>3, <1>4

\* The other clients survive when a client's leaf and the nodes of no one else are gone.
LEMMA PruneKeeps ==
  ASSUME NEW T, Good(T), NEW c \in ClientsOf(T), CanRemove(T, c), NEW U, U = Left(T, c)
  PROVE  /\ Good(U) /\ ClientsOf(U) = ClientsOf(T) \ {c}
         /\ DOMAIN U = DOMAIN T \ Dead(T, c)
         /\ \A p \in DOMAIN U : U[p].weight = T[p].weight
         /\ \A b \in ClientsOf(U) : SameClient(T, U, b)
<1> DEFINE leaf == LeafOf(T, c)
           dead == Dead(T, c)
           gone == HeldBy(T, c)
<1>0. /\ Shape(T) /\ leaf \in Paths /\ leaf \in DOMAIN T /\ ~IsVirtual(c) /\ c \in Paths
      /\ ClientPath(leaf) = c /\ T[leaf].kind # "internal" /\ leaf \in {c, Virtual(c)}
      /\ \A q \in Paths : IsPrefix(q, leaf) <=> q = leaf \/ IsPrefix(q, c)
      /\ DOMAIN T \subseteq Paths /\ \A p \in DOMAIN T : T[p] \in Nodes /\ T[p].held \in Held
  BY LeafIs DEF Good, Shape, Typed, Nodes
<1>1. /\ dead \subseteq DOMAIN T /\ Root \notin dead /\ leaf \in dead
      /\ \A p \in dead : p \in Paths /\ IsPrefix(p, leaf) /\ (p # leaf => T[p].kind = "internal")
      /\ \A p \in dead, q \in DOMAIN T : IsPrefix(p, q) => q \in dead
  BY <1>0, DeadAre
<1>2. \A p \in DOMAIN T : p \in Upwards(leaf) <=> IsPrefix(p, leaf)
  BY <1>0, UpwardsArePrefixes
<1>3. gone \in Held
  BY <1>0 DEF HeldBy
<1>4. ASSUME NEW p \in DOMAIN T, IsPrefix(p, leaf)
      PROVE  /\ SubtractAll(T[p].held, gone) \in Held
             /\ \A s \in Slave, k \in Scalar :
                  Amount(SubtractAll(T[p].held, gone), s, k) =
                    Amount(T[p].held, s, k) - Amount(gone, s, k)
  <2>1. \A s \in DOMAIN gone : CanSubtract(T[p].held, s, gone[s])
    BY <1>2, <1>4 DEF CanRemove, HeldBy
  <2> QED BY <1>0, <1>3, <2>1, SubtractAllTakes
<1> HIDE DEF leaf, dead, gone
<1>5. /\ DOMAIN U = DOMAIN T \ dead /\ U \in [DOMAIN U -> Nodes]
      /\ \A p \in DOMAIN U : /\ U[p].kind = T[p].kind /\ U[p].weight = T[p].weight
                             /\ U[p].held = IF IsPrefix(p, leaf) THEN SubtractAll(T[p].held, gone)
                                            ELSE T[p].held
  <2>1. U = [p \in DOMAIN T \ dead |->
               IF p \in Upwards(leaf)
               THEN [T[p] EXCEPT !.held = SubtractAll(T[p].held, gone)] ELSE T[p]]
    BY <1>0 DEF Left, leaf, dead, gone, Nodes
  <2>2. ASSUME NEW p \in DOMAIN T \ dead
        PROVE  /\ U[p] \in Nodes /\ U[p].kind = T[p].kind /\ U[p].weight = T[p].weight
               /\ U[p].held = IF IsPrefix(p, leaf) THEN SubtractAll(T[p].held, gone)
                              ELSE T[p].held
    BY <1>0, <1>2, <1>4, <2>1 DEF Nodes
  <2> QED BY <2>1, <2>2
<1>6. ASSUME NEW b \in ClientsOf(T) \ {c}
      PROVE  /\ LeafOf(T, b) \in DOMAIN U /\ LeafOf(U, b) = LeafOf(T, b) /\ b \in ClientsOf(U)
             /\ HeldBy(U, b) = HeldBy(T, b) /\ U[LeafOf(U, b)].kind = T[LeafOf(T, b)].kind
  <2>1. /\ LeafOf(T, b) \in DOMAIN T /\ T[LeafOf(T, b)].kind # "internal"
        /\ ClientPath(LeafOf(T, b)) = b /\ b \in Paths /\ ~IsVirtual(b)
    BY <1>0, LeafIs
  <2>2. LeafOf(T, b) # leaf /\ LeafOf(T, b) \in DOMAIN U
    BY <1>0, <1>1, <1>5, <2>1
  <2>3. ~IsPrefix(LeafOf(T, b), leaf)
    BY <1>0, <2>1, <2>2, LeavesAre
  <2>4. LeafOf(U, b) = LeafOf(T, b)
    <3>1. CASE Virtual(b) \in DOMAIN T
      BY <2>2, <3>1 DEF LeafOf
    <3>2. CASE Virtual(b) \notin DOMAIN T
      BY <1>5, <3>2 DEF LeafOf
    <3> QED BY <3>1, <3>2
  <2>5. b \in ClientsOf(U)
    BY <1>5, <2>1, <2>2 DEF ClientsOf, IsLeaf
  <2> QED BY <1>5, <2>2, <2>3, <2>4, <2>5 DEF HeldBy
<1>7. ClientsOf(U) = ClientsOf(T) \ {c}
  <2>1. ASSUME NEW b \in ClientsOf(U)
        PROVE  b \in ClientsOf(T) \ {c}
    <3>1. PICK p \in DOMAIN U : U[p].kind # "internal" /\ ClientPath(p) = b
      BY DEF ClientsOf, IsLeaf
    <3>2. p \in DOMAIN T /\ T[p].kind # "internal" /\ p # leaf
      BY <1>1, <1>5, <3>1
    <3>3. LeafOf(T, b) = p /\ b \in ClientsOf(T)
      BY <1>0, <3>1, <3>2, LeavesAre
    <3> QED BY <3>2, <3>3 DEF leaf
  <2> QED BY <1>6, <2>1
<1>8. Shape(U)
  <2>1. Typed(U)
    BY <1>0, <1>5 DEF Typed
  <2>2. Rooted(U) /\ LeavesServe(U)
    BY <1>0, <1>1, <1>5 DEF Shape, Rooted, LeavesServe
  <2>3. Closed(U)
    <3> SUFFICES ASSUME NEW p \in DOMAIN U, NEW q \in Paths, IsPrefix(q, p), q # p
                 PROVE  q \in DOMAIN U /\ U[q].kind = "internal"
      BY DEF Closed
    <3>1. q \in DOMAIN T /\ T[q].kind = "internal"
      BY <1>0, <1>5 DEF Shape, Closed
    <3>2. q \notin dead
      BY <1>1, <1>5
    <3> QED BY <1>5, <3>1, <3>2
  <2>4. IsFiniteSet(ClientsOf(U))
    BY <1>0, <1>7, FS_Subset DEF Shape
  <2> QED BY <2>1, <2>2, <2>3, <2>4 DEF Shape
<1>9. ASSUME NEW p \in DOMAIN U, ~IsVirtual(p), NEW s \in Slave, NEW k \in Scalar
      PROVE  Amount(U[p].held, s, k) = SumFunctionOnSet(Part(U, s, k), Under(U, p))
  <2>0. p \in DOMAIN T /\ p \in Paths /\ Under(U, p) = Under(T, p) \ {c} /\ p # leaf
    BY <1>0, <1>1, <1>5, <1>7 DEF Under
  <2>1. Amount(T[p].held, s, k) = SumFunctionOnSet(Part(T, s, k), Under(T, p))
    BY <1>9, <2>0 DEF Good, NodesSumClients, Part, Under
  <2>2. /\ \A b \in ClientsOf(T) : /\ Part(T, s, k)[b] \in Int
                                   /\ Part(T, s, k)[b] = Amount(HeldBy(T, b), s, k)
        /\ \A b \in ClientsOf(T) \ {c} : Part(U, s, k)[b] = Amount(HeldBy(U, b), s, k)
        /\ IsFiniteSet(Under(T, p)) /\ IsFiniteSet(Under(U, p))
        /\ Under(T, p) \subseteq ClientsOf(T)
    <3>1. /\ \A b \in ClientsOf(T) : /\ Part(T, s, k)[b] \in Nat
                                     /\ Part(T, s, k)[b] = Amount(HeldBy(T, b), s, k)
          /\ IsFiniteSet(Under(T, p))
      BY <1>0, PartType
    <3>2. /\ \A b \in ClientsOf(U) : Part(U, s, k)[b] = Amount(HeldBy(U, b), s, k)
          /\ IsFiniteSet(Under(U, p))
      BY <1>8, PartType
    <3> QED BY <1>7, <3>1, <3>2 DEF Under
  <2>3. \A b \in Under(U, p) : Part(U, s, k)[b] = Part(T, s, k)[b] /\ Part(T, s, k)[b] \in Int
    BY <1>6, <2>0, <2>2
  <2>4. SumFunctionOnSet(Part(U, s, k), Under(U, p)) =
          SumFunctionOnSet(Part(T, s, k), Under(U, p))
    BY <2>2, <2>3, SumsEqual
  <2>5. CASE IsPrefix(p, leaf)
    <3>1. c \in Under(T, p)
      BY <1>0, <2>0, <2>5 DEF Under
    <3>2. /\ Under(U, p) \in SUBSET Under(T, p) /\ c \notin Under(U, p)
          /\ Under(T, p) = Under(U, p) \cup {c} /\ \A b \in Under(T, p) : Part(T, s, k)[b] \in Int
      BY <2>0, <2>2, <3>1
    <3>3. /\ SumFunctionOnSet(Part(T, s, k), Under(U, p)) \in Int
          /\ SumFunctionOnSet(Part(T, s, k), Under(U, p) \cup {c}) =
               Part(T, s, k)[c] + SumFunctionOnSet(Part(T, s, k), Under(U, p))
      BY <2>2, <3>1, <3>2, SumOfOneMore
    <3>4. Amount(U[p].held, s, k) = Amount(T[p].held, s, k) - Amount(gone, s, k)
      BY <1>4, <1>5, <2>0, <2>5
    <3>5. Part(T, s, k)[c] = Amount(gone, s, k) /\ Part(T, s, k)[c] \in Int
      BY <2>2 DEF gone
    <3>6. SumFunctionOnSet(Part(T, s, k), Under(T, p)) =
            Part(T, s, k)[c] + SumFunctionOnSet(Part(T, s, k), Under(U, p))
      BY <3>2, <3>3, Zenon
    <3> QED BY <2>1, <2>4, <3>3, <3>4, <3>5, <3>6
  <2>6. CASE ~IsPrefix(p, leaf)
    <3>1. Under(U, p) = Under(T, p)
      BY <1>0, <2>0, <2>6 DEF Under
    <3> QED BY <1>5, <2>1, <2>4, <2>6, <3>1
  <2> QED BY <2>5, <2>6
<1>10. NodesSumClients(U)
  BY <1>9 DEF NodesSumClients, Part, Under
<1>11. ASSUME NEW b \in ClientsOf(U)
       PROVE  SameClient(T, U, b)
  BY <1>6, <1>7 DEF SameClient
<1> QED BY <1>5, <1>7, <1>8, <1>10, <1>11 DEF Good, dead

\* The node above them stays.
LEMMA ShortestIs ==
  ASSUME NEW T, Shape(T), NEW c \in ClientsOf(T), NEW top, top = Shortest(Dead(T, c))
  PROVE  top \in Dead(T, c) /\ Front(top) \in DOMAIN T \ Dead(T, c)
<1> DEFINE dead == Dead(T, c)
<1>1. /\ dead \subseteq DOMAIN T /\ Root \notin dead /\ dead # {}
      /\ \A p \in dead : p \in Paths /\ Len(p) \in Nat
  BY DeadAre DEF Paths
<1> HIDE DEF dead
<1>2. top \in dead /\ \A q \in dead : Len(top) <= Len(q)
  <2> DEFINE lengths == {Len(p) : p \in dead}
  <2>1. lengths \in SUBSET Nat /\ lengths # {}
    BY <1>1
  <2>2. PICK n \in lengths : \A m \in lengths : ~(m < n)
    BY <2>1, LeastNumber
  <2>3. PICK p \in dead : Len(p) = n
    BY <2>2
  <2>4. \A q \in dead : Len(p) <= Len(q)
    BY <1>1, <2>2, <2>3
  <2> QED BY <2>3, <2>4 DEF Shortest, dead
<1>3. top \in Paths /\ top # Root /\ top \in DOMAIN T
  BY <1>1, <1>2
<1>4. /\ Front(top) \in Paths /\ IsPrefix(Front(top), top) /\ Front(top) # top
      /\ Len(Front(top)) = Len(top) - 1
  BY <1>3, FrontOf
<1>5. Front(top) \in DOMAIN T
  BY <1>3, <1>4 DEF Shape, Closed
<1>6. Front(top) \notin dead
  BY <1>1, <1>2, <1>4
<1> QED BY <1>2, <1>5, <1>6 DEF dead

\* remove.
LEMMA RemoveKeeps ==
  ASSUME NEW T, Good(T), NEW c \in ClientsOf(T), CanRemove(T, c), NEW U, U = RemoveClient(T, c)
  PROVE  /\ Good(U) /\ ClientsOf(U) = ClientsOf(T) \ {c} /\ DOMAIN U \subseteq DOMAIN T
         /\ \A p \in DOMAIN U : U[p].weight = T[p].weight
         /\ \A b \in ClientsOf(U) : SameClient(T, U, b)
<1> DEFINE top == Shortest(Dead(T, c))
<1>2. U = Collapse(Left(T, c), Front(top))
  BY DEF RemoveClient, Left, Dead, HeldBy
<1>3. Front(top) \in DOMAIN T \ Dead(T, c)
  BY ShortestIs DEF Good
<1> HIDE DEF top
<1> DEFINE L == Left(T, c)
<1>4. /\ Good(L) /\ ClientsOf(L) = ClientsOf(T) \ {c} /\ DOMAIN L = DOMAIN T \ Dead(T, c)
      /\ \A p \in DOMAIN L : L[p].weight = T[p].weight
      /\ \A b \in ClientsOf(L) : SameClient(T, L, b)
  BY PruneKeeps
<1> HIDE DEF L
<1>5. /\ Good(U) /\ ClientsOf(U) = ClientsOf(L) /\ DOMAIN U \subseteq DOMAIN L
      /\ \A p \in DOMAIN U : U[p].weight = L[p].weight
      /\ \A b \in ClientsOf(L) : SameClient(L, U, b)
  BY <1>2, <1>3, <1>4, CollapseKeeps DEF L
<1>6. \A b \in ClientsOf(U) : SameClient(T, U, b)
  BY <1>4, <1>5 DEF SameClient
<1> QED BY <1>4, <1>5, <1>6

-----------------------------------------------------------------------------
(* A new client.                                                           *)

\* A leaf becomes internal, its client the virtual leaf below.
LEMMA SplitKeeps ==
  ASSUME NEW T, Good(T), NEW p \in DOMAIN T, T[p].kind # "internal", ~IsVirtual(p),
         NEW U, U = Split(T, p)
  PROVE  /\ Good(U) /\ ClientsOf(U) = ClientsOf(T)
         /\ DOMAIN U = DOMAIN T \cup {Virtual(p)} /\ Virtual(p) \notin DOMAIN T
         /\ \A q \in DOMAIN T : U[q].weight = T[q].weight
         /\ U[Virtual(p)].weight = Unset /\ U[p].kind = "internal"
         /\ \A b \in ClientsOf(T) : SameClient(T, U, b)
<1> DEFINE v == Virtual(p)
<1>0. /\ Shape(T) /\ DOMAIN T \subseteq Paths /\ \A q \in DOMAIN T : T[q] \in Nodes
      /\ T \in [DOMAIN T -> Nodes] /\ p \in Paths
  BY DEF Good, Shape, Typed
<1>1. /\ v # p /\ v \in Paths /\ IsPrefix(p, v) /\ IsVirtual(v) /\ ClientPath(v) = p
      /\ \A q \in Paths : IsPrefix(q, v) <=> q = v \/ IsPrefix(q, p)
  BY <1>0, VirtualOf
<1>2. /\ p \in ClientsOf(T) /\ LeafOf(T, p) = p /\ p \in Client
      /\ \A q \in DOMAIN T : IsPrefix(p, q) => q = p
  BY <1>0, LeavesAre, LeafIs, ClientOfVirtual
<1>3. v \notin DOMAIN T
  BY <1>1, <1>2
<1>4. /\ DOMAIN U = DOMAIN T \cup {v} /\ U \in [DOMAIN U -> Nodes]
      /\ U[v].kind = T[p].kind /\ U[v].held = T[p].held /\ U[v].weight = Unset
      /\ \A q \in DOMAIN T : /\ U[q].held = T[q].held /\ U[q].weight = T[q].weight
                             /\ U[q].kind = IF q = p THEN "internal" ELSE T[q].kind
  <2>1. U = [q \in DOMAIN T \cup {v} |->
               IF q = v THEN [T[p] EXCEPT !.weight = Unset]
               ELSE IF q = p THEN [T[p] EXCEPT !.kind = "internal"] ELSE T[q]]
    BY DEF Split
  <2> HIDE DEF v
  <2>2. /\ U = [q \in DOMAIN U |-> U[q]] /\ DOMAIN U = DOMAIN T \cup {v}
        /\ U[v] = [T[p] EXCEPT !.weight = Unset]
        /\ \A q \in DOMAIN T : U[q] = IF q = p THEN [T[p] EXCEPT !.kind = "internal"] ELSE T[q]
    BY <1>3, <2>1
  <2>3. /\ [T[p] EXCEPT !.weight = Unset] \in Nodes
        /\ [T[p] EXCEPT !.weight = Unset].kind = T[p].kind
        /\ [T[p] EXCEPT !.weight = Unset].held = T[p].held
        /\ [T[p] EXCEPT !.weight = Unset].weight = Unset
    BY <1>0 DEF Nodes, Unset
  <2>4. /\ [T[p] EXCEPT !.kind = "internal"] \in Nodes
        /\ [T[p] EXCEPT !.kind = "internal"].kind = "internal"
        /\ [T[p] EXCEPT !.kind = "internal"].held = T[p].held
        /\ [T[p] EXCEPT !.kind = "internal"].weight = T[p].weight
    BY <1>0 DEF Nodes, Kinds
  <2>5. \A q \in DOMAIN U : U[q] \in Nodes
    BY <1>0, <2>2, <2>3, <2>4
  <2> QED BY <2>2, <2>3, <2>4, <2>5
<1> HIDE DEF v
<1>5. /\ \A c \in Client : c # p => LeafOf(U, c) = LeafOf(T, c)
      /\ LeafOf(U, p) = v
  <2>1. \A c \in Client : c # p => Virtual(c) # v
    BY <1>1, ClientPaths, VirtualOf
  <2> QED BY <1>4, <2>1 DEF LeafOf, v
<1>6. ASSUME NEW c \in ClientsOf(T)
      PROVE  c \in ClientsOf(U) /\ SameClient(T, U, c) /\ HeldBy(U, c) = HeldBy(T, c)
  <2>1. CASE c = p
    <3>1. p \in ClientsOf(U)
      BY <1>1, <1>4 DEF ClientsOf, IsLeaf
    <3> QED BY <1>2, <1>4, <1>5, <2>1, <3>1 DEF SameClient, HeldBy
  <2>2. CASE c # p
    <3>1. /\ LeafOf(T, c) \in DOMAIN T /\ ClientPath(LeafOf(T, c)) = c /\ c \in Client
          /\ T[LeafOf(T, c)].kind # "internal" /\ LeafOf(T, c) # p
      BY <1>0, <2>2, LeafIs, ClientOfVirtual
    <3>2. c \in ClientsOf(U)
      BY <1>4, <3>1 DEF ClientsOf, IsLeaf
    <3> QED BY <1>4, <1>5, <2>2, <3>1, <3>2 DEF SameClient, HeldBy
  <2> QED BY <2>1, <2>2
<1>7. ClientsOf(U) = ClientsOf(T)
  <2>1. ASSUME NEW c \in ClientsOf(U)
        PROVE  c \in ClientsOf(T)
    <3>1. PICK q \in DOMAIN U : U[q].kind # "internal" /\ ClientPath(q) = c
      BY DEF ClientsOf, IsLeaf
    <3>2. CASE q = v
      BY <1>1, <1>2, <3>1, <3>2
    <3>3. CASE q # v
      BY <1>4, <3>1, <3>3 DEF ClientsOf, IsLeaf
    <3> QED BY <3>2, <3>3
  <2> QED BY <1>6, <2>1
<1>8. Shape(U)
  <2>1. Typed(U)
    BY <1>0, <1>1, <1>4 DEF Typed
  <2>2. Rooted(U)
    BY <1>0, <1>4 DEF Shape, Rooted
  <2>3. Closed(U)
    <3> SUFFICES ASSUME NEW r \in DOMAIN U, NEW q \in Paths, IsPrefix(q, r), q # r
                 PROVE  q \in DOMAIN U /\ U[q].kind = "internal"
      BY DEF Closed
    <3>1. CASE r = v
      <4>1. IsPrefix(q, p)
        BY <1>1, <3>1
      <4>2. q \in DOMAIN T /\ (q # p => T[q].kind = "internal")
        BY <1>0, <4>1 DEF Shape, Closed
      <4> QED BY <1>4, <4>2
    <3>2. CASE r # v
      <4>1. q \in DOMAIN T /\ T[q].kind = "internal"
        BY <1>0, <1>4, <3>2 DEF Shape, Closed
      <4> QED BY <1>4, <4>1
    <3> QED BY <3>1, <3>2
  <2>4. LeavesServe(U)
    BY <1>0, <1>1, <1>2, <1>4 DEF Shape, LeavesServe
  <2> QED BY <1>0, <1>7, <2>1, <2>2, <2>3, <2>4 DEF Shape
<1>9. ASSUME NEW q \in DOMAIN U, ~IsVirtual(q), NEW s \in Slave, NEW k \in Scalar
      PROVE  Amount(U[q].held, s, k) = SumFunctionOnSet(Part(U, s, k), Under(U, q))
  <2>1. q \in DOMAIN T
    BY <1>1, <1>4, <1>9
  <2>2. Amount(T[q].held, s, k) = SumFunctionOnSet(Part(T, s, k), Under(T, q))
    BY <1>9, <2>1 DEF Good, NodesSumClients, Part, Under
  <2>3. Under(U, q) = Under(T, q) /\ Part(U, s, k) = Part(T, s, k)
    BY <1>6, <1>7 DEF Under, Part
  <2> QED BY <1>4, <2>1, <2>2, <2>3
<1>10. NodesSumClients(U)
  BY <1>9 DEF NodesSumClients, Part, Under
<1> QED BY <1>3, <1>4, <1>6, <1>7, <1>8, <1>10 DEF Good, v

\* Who was given nothing holds nothing.
LEMMA NothingHeld ==
  << >> \in Held /\ \A s, k : Amount(<< >>, s, k) = 0
<1>1. DOMAIN << >> = {} /\ << >> = [s \in {} |-> << >>[s]]
  OBVIOUS
<1>2. << >> \in Held
  BY <1>1, HeldIs
<1> QED BY <1>1, <1>2 DEF Amount

\* The nodes down to a new leaf, below the internal node p.
Grown(B, p, leaf) ==
  LET new == {q \in Above(leaf) : Len(q) > Len(p)}
  IN  [q \in DOMAIN B \cup new |->
         IF q \in new
         THEN [kind |-> IF q = leaf THEN "inactive" ELSE "internal", held |-> << >>,
               weight |-> Unset]
         ELSE B[q]]

\* A new client below the longest of its prefixes in the tree.
LEMMA GrowKeeps ==
  ASSUME NEW B, Good(B), NEW c \in Client \ ClientsOf(B),
         NEW p \in DOMAIN B, B[p].kind = "internal", IsPrefix(p, c),
         \A q \in DOMAIN B : IsPrefix(q, c) => Len(q) <= Len(p),
         NEW leaf, leaf = IF p = c THEN Virtual(c) ELSE c,
         NEW U, U = Grown(B, p, leaf)
  PROVE  /\ Good(U) /\ ClientsOf(U) = ClientsOf(B) \cup {c} /\ DOMAIN B \subseteq DOMAIN U
         /\ \A q \in DOMAIN B : U[q].weight = B[q].weight
         /\ \A q \in DOMAIN U \ DOMAIN B : U[q].weight = Unset
         /\ U[LeafOf(U, c)].kind = "inactive" /\ HeldBy(U, c) = << >>
         /\ \A b \in ClientsOf(B) : SameClient(B, U, b)
<1> DEFINE new == {q \in Paths : IsPrefix(q, leaf) /\ Len(q) > Len(p)}
<1>0. /\ Shape(B) /\ DOMAIN B \subseteq Paths /\ \A q \in DOMAIN B : B[q] \in Nodes
      /\ p \in Paths /\ Len(p) \in Nat /\ \A q \in Paths : Len(q) \in Nat
  BY DEF Good, Shape, Typed, Paths
<1>1. /\ c \in Client /\ c \in Paths /\ c # Root /\ ~IsVirtual(c)
      /\ \A q \in Paths : IsPrefix(q, c) => ~IsVirtual(q)
  BY ClientPaths
<1>2. /\ leaf \in Paths /\ leaf # Root /\ leaf \in {c, Virtual(c)} /\ ClientPath(leaf) = c
      /\ IsPrefix(c, leaf) /\ IsPrefix(p, leaf) /\ IsPrefix(leaf, leaf)
      /\ \A q \in Paths : IsPrefix(q, leaf) <=> q = leaf \/ IsPrefix(q, c)
  <2>1. CASE p = c
    BY <1>1, <2>1, VirtualOf, PrefixOrder
  <2>2. CASE p # c
    BY <1>1, <2>2, ClientOfVirtual, PrefixOrder
  <2> QED BY <2>1, <2>2
<1>3. leaf \in new
  <2>1. CASE p = c
    <3>1. Len(leaf) = Len(p) + 1
      BY <1>1, <2>1, VirtualOf
    <3> QED BY <1>0, <1>2, <3>1
  <2>2. CASE p # c
    <3>1. Len(p) < Len(c)
      BY <1>0, <1>1, <2>2, PrefixOrder
    <3> QED BY <1>0, <1>2, <2>2, <3>1
  <2> QED BY <2>1, <2>2
<1>4. \A q \in new : q \notin DOMAIN B
  <2> SUFFICES ASSUME NEW q \in new, q \in DOMAIN B
               PROVE  FALSE
    OBVIOUS
  <2>1. ~IsPrefix(q, c)
    BY <1>0
  <2>2. q = leaf /\ q = Virtual(c)
    BY <1>0, <1>1, <1>2, <2>1, PrefixOrder
  <2>3. IsVirtual(q) /\ ClientPath(q) = c
    BY <1>1, <2>2, VirtualOf
  <2>4. B[q].kind # "internal"
    BY <1>0, <2>3 DEF Shape, LeavesServe
  <2> QED BY <2>3, <2>4 DEF ClientsOf, IsLeaf
<1>5. \A q \in Paths : IsPrefix(q, leaf) => q \in new \/ IsPrefix(q, p)
  BY <1>0, <1>2, PrefixOrder
<1>6. new = {q \in Above(leaf) : Len(q) > Len(p)}
  <2>1. \A q \in new : q # Root
    BY <1>0 DEF Root
  <2> QED BY <1>2, <2>1, UpwardsArePrefixes
<1> HIDE DEF new
<1>7. /\ DOMAIN U = DOMAIN B \cup new /\ U \in [DOMAIN U -> Nodes]
      /\ \A q \in DOMAIN B : U[q] = B[q]
      /\ \A q \in new : /\ U[q].kind = IF q = leaf THEN "inactive" ELSE "internal"
                        /\ U[q].held = << >> /\ U[q].weight = Unset
  <2>1. U = [q \in DOMAIN B \cup new |->
               IF q \in new
               THEN [kind |-> IF q = leaf THEN "inactive" ELSE "internal", held |-> << >>,
                     weight |-> Unset]
               ELSE B[q]]
    BY <1>6 DEF Grown
  <2>2. \A q \in DOMAIN B : q \in DOMAIN U /\ U[q] = B[q]
    BY <1>4, <2>1
  <2>3. ASSUME NEW q \in new
        PROVE  /\ U[q] \in Nodes
               /\ U[q].kind = IF q = leaf THEN "inactive" ELSE "internal"
               /\ U[q].held = << >> /\ U[q].weight = Unset
    BY <2>1, NothingHeld DEF Nodes, Kinds, Unset
  <2> QED BY <1>0, <2>1, <2>2, <2>3
<1>8. /\ \A q \in new : q \in Paths /\ IsPrefix(q, leaf)
      /\ \A q \in new : q # leaf => ~IsVirtual(q)
  <2>1. \A q \in new : q \in Paths /\ IsPrefix(q, leaf)
    BY DEF new
  <2> QED BY <1>1, <1>2, <2>1
<1>9. LeafOf(U, c) = leaf
  <2>1. CASE p = c
    BY <1>3, <1>7, <2>1 DEF LeafOf
  <2>2. CASE p # c
    <3>1. leaf = c /\ Virtual(c) \in Paths /\ IsVirtual(Virtual(c)) /\ IsPrefix(c, Virtual(c))
          /\ Virtual(c) # c
      BY <1>1, <2>2, VirtualOf
    <3>2. Virtual(c) \notin new
      BY <1>8, <3>1
    <3>3. Virtual(c) \notin DOMAIN B
      <4>1. Virtual(c) \in DOMAIN B => c \in DOMAIN B
        BY <1>0, <1>1, <3>1 DEF Shape, Closed
      <4>2. c \notin DOMAIN B
        BY <1>3, <1>4, <3>1
      <4> QED BY <4>1, <4>2
    <3> QED BY <1>7, <3>1, <3>2, <3>3 DEF LeafOf
  <2> QED BY <2>1, <2>2
<1>10. HeldBy(U, c) = << >> /\ U[LeafOf(U, c)].kind = "inactive" /\ c \in ClientsOf(U)
  <2>1. leaf \in DOMAIN U /\ U[leaf].kind = "inactive" /\ U[leaf].held = << >>
    BY <1>3, <1>7
  <2> QED BY <1>2, <1>9, <2>1 DEF HeldBy, ClientsOf, IsLeaf
<1>11. ASSUME NEW b \in ClientsOf(B)
       PROVE  b \in ClientsOf(U) /\ SameClient(B, U, b) /\ HeldBy(U, b) = HeldBy(B, b)
  <2>1. /\ b \in Client /\ b # c /\ b \in Paths
        /\ LeafOf(B, b) \in DOMAIN B /\ ClientPath(LeafOf(B, b)) = b
        /\ B[LeafOf(B, b)].kind # "internal"
    BY <1>0, LeafIs
  <2>2. Virtual(b) \notin new
    <3>1. IsVirtual(Virtual(b)) /\ ClientPath(Virtual(b)) = b
      BY <2>1, VirtualOf
    <3> QED BY <1>2, <1>8, <2>1, <3>1
  <2>3. LeafOf(U, b) = LeafOf(B, b)
    BY <1>7, <2>2 DEF LeafOf
  <2>4. b \in ClientsOf(U)
    BY <1>7, <2>1 DEF ClientsOf, IsLeaf
  <2> QED BY <1>7, <2>1, <2>3, <2>4 DEF SameClient, HeldBy
<1>12. ClientsOf(U) = ClientsOf(B) \cup {c}
  <2>1. ASSUME NEW b \in ClientsOf(U)
        PROVE  b \in ClientsOf(B) \cup {c}
    <3>1. PICK q \in DOMAIN U : U[q].kind # "internal" /\ ClientPath(q) = b
      BY DEF ClientsOf, IsLeaf
    <3>2. CASE q \in new
      BY <1>2, <1>7, <3>1, <3>2
    <3>3. CASE q \notin new
      BY <1>7, <3>1, <3>3 DEF ClientsOf, IsLeaf
    <3> QED BY <3>2, <3>3
  <2> QED BY <1>10, <1>11, <2>1
<1>13. Shape(U)
  <2>1. Typed(U)
    BY <1>0, <1>7, <1>8 DEF Typed
  <2>2. Rooted(U)
    BY <1>0, <1>7 DEF Shape, Rooted
  <2>3. Closed(U)
    <3> SUFFICES ASSUME NEW r \in DOMAIN U, NEW q \in Paths, IsPrefix(q, r), q # r
                 PROVE  q \in DOMAIN U /\ U[q].kind = "internal"
      BY DEF Closed
    <3>1. CASE r \in new
      <4>1. IsPrefix(q, leaf) /\ q # leaf
        BY <1>2, <1>8, <3>1, PrefixOrder
      <4>2. CASE q \in new
        BY <1>7, <4>1, <4>2
      <4>3. CASE IsPrefix(q, p)
        <5>1. q \in DOMAIN B /\ B[q].kind = "internal"
          BY <1>0, <4>3 DEF Shape, Closed
        <5> QED BY <1>7, <5>1
      <4> QED BY <1>5, <4>1, <4>2, <4>3
    <3>2. CASE r \in DOMAIN B
      <4>1. q \in DOMAIN B /\ B[q].kind = "internal"
        BY <1>0, <3>2 DEF Shape, Closed
      <4> QED BY <1>7, <4>1
    <3> QED BY <1>7, <3>1, <3>2
  <2>4. LeavesServe(U)
    <3>1. \A q \in new : /\ U[q].kind # "internal" => ClientPath(q) \in Client
                         /\ IsVirtual(q) => U[q].kind # "internal"
      BY <1>1, <1>2, <1>7, <1>8
    <3> QED BY <1>0, <1>7, <3>1 DEF Shape, LeavesServe
  <2>5. IsFiniteSet(ClientsOf(U))
    BY <1>0, <1>12, FS_AddElement DEF Shape
  <2> QED BY <2>1, <2>2, <2>3, <2>4, <2>5 DEF Shape
<1>14. ASSUME NEW q \in DOMAIN U, ~IsVirtual(q), NEW s \in Slave, NEW k \in Scalar
       PROVE  Amount(U[q].held, s, k) = SumFunctionOnSet(Part(U, s, k), Under(U, q))
  <2>1. /\ IsFiniteSet(Under(U, q)) /\ Under(U, q) \subseteq ClientsOf(U)
        /\ \A b \in ClientsOf(U) : /\ Part(U, s, k)[b] \in Int
                                   /\ Part(U, s, k)[b] = Amount(HeldBy(U, b), s, k)
    <3>1. /\ \A b \in ClientsOf(U) : /\ Part(U, s, k)[b] \in Nat
                                     /\ Part(U, s, k)[b] = Amount(HeldBy(U, b), s, k)
          /\ IsFiniteSet(Under(U, q))
      BY <1>13, PartType
    <3> QED BY <3>1 DEF Under
  <2>2. Part(U, s, k)[c] = 0
    BY <1>10, <2>1, NothingHeld
  <2>3. CASE q \in new
    <3>1. ASSUME NEW b \in Under(U, q)
          PROVE  b = c
      <4>1. b \in ClientsOf(U) /\ IsPrefix(q, b)
        BY DEF Under
      <4>2. CASE b \in ClientsOf(B)
        <5>1. b \in DOMAIN B
          BY <1>0, <4>2, LeafIs
        <5>2. q \in DOMAIN B
          BY <1>0, <1>8, <2>3, <4>1, <5>1 DEF Shape, Closed
        <5> QED BY <1>4, <2>3, <5>2
      <4> QED BY <1>12, <4>1, <4>2
    <3>2. \A b \in Under(U, q) : Part(U, s, k)[b] = 0
      BY <2>2, <3>1
    <3>3. SumFunctionOnSet(Part(U, s, k), Under(U, q)) = 0
      BY <2>1, <3>2, SumOfZeros
    <3> QED BY <1>7, <2>3, <3>3, NothingHeld
  <2>4. CASE q \in DOMAIN B
    <3>1. Amount(B[q].held, s, k) = SumFunctionOnSet(Part(B, s, k), Under(B, q))
      BY <1>14, <2>4 DEF Good, NodesSumClients, Part, Under
    <3>2. /\ IsFiniteSet(Under(B, q)) /\ Under(B, q) \subseteq ClientsOf(B)
          /\ \A b \in ClientsOf(B) : /\ Part(B, s, k)[b] \in Nat
                                     /\ Part(B, s, k)[b] = Amount(HeldBy(B, b), s, k)
      BY <1>0, PartType DEF Under
    <3>3. \A b \in Under(B, q) : Part(B, s, k)[b] \in Int /\ Part(U, s, k)[b] = Part(B, s, k)[b]
      BY <1>11, <2>1, <3>2
    <3>4. SumFunctionOnSet(Part(U, s, k), Under(B, q)) =
            SumFunctionOnSet(Part(B, s, k), Under(B, q))
      BY <3>2, <3>3, SumsEqual
    <3>5. CASE c \in Under(U, q)
      <4>1. /\ Under(U, q) = Under(B, q) \cup {c} /\ c \notin Under(B, q)
            /\ Under(B, q) \in SUBSET Under(U, q) /\ \A b \in Under(U, q) : Part(U, s, k)[b] \in Int
        BY <1>12, <2>1, <3>2, <3>5 DEF Under
      <4>2. /\ SumFunctionOnSet(Part(U, s, k), Under(B, q)) \in Int
            /\ SumFunctionOnSet(Part(U, s, k), Under(B, q) \cup {c}) =
                 Part(U, s, k)[c] + SumFunctionOnSet(Part(U, s, k), Under(B, q))
        BY <2>1, <3>5, <4>1, SumOfOneMore
      <4>3. SumFunctionOnSet(Part(U, s, k), Under(U, q)) =
              Part(U, s, k)[c] + SumFunctionOnSet(Part(U, s, k), Under(B, q))
        BY <4>1, <4>2, Zenon
      <4> QED BY <1>7, <2>2, <2>4, <3>1, <3>4, <4>2, <4>3
    <3>6. CASE c \notin Under(U, q)
      <4>1. Under(U, q) = Under(B, q)
        BY <1>12, <3>6 DEF Under
      <4> QED BY <1>7, <2>4, <3>1, <3>4, <4>1
    <3> QED BY <3>5, <3>6
  <2> QED BY <1>7, <2>3, <2>4
<1>15. NodesSumClients(U)
  BY <1>14 DEF NodesSumClients, Part, Under
<1> QED BY <1>7, <1>10, <1>11, <1>12, <1>13, <1>15 DEF Good

\* The longest prefix of a client in the tree.
LEMMA LongestIs ==
  ASSUME NEW T, Shape(T), NEW c \in Client, NEW p, p = Longest(Upwards(c) \cap DOMAIN T)
  PROVE  /\ p \in DOMAIN T /\ p \in Paths /\ IsPrefix(p, c) /\ ~IsVirtual(p)
         /\ \A r \in DOMAIN T : IsPrefix(r, c) => Len(r) <= Len(p)
<1> DEFINE known == Upwards(c) \cap DOMAIN T
<1>0. /\ DOMAIN T \subseteq Paths /\ c \in Paths /\ \A q \in Paths : IsPrefix(q, c) => ~IsVirtual(q)
      /\ Root \in Paths /\ IsPrefix(Root, c) /\ \A q \in Paths : Len(q) \in Nat
  BY ClientPaths, PrefixOrder DEF Shape, Typed, Paths
<1>1. known = {q \in DOMAIN T : IsPrefix(q, c)} /\ Root \in known
  <2>1. Root \in DOMAIN T
    BY DEF Shape, Rooted
  <2> QED BY <1>0, <2>1, UpwardsArePrefixes
<1> HIDE DEF known
<1>2. p \in known /\ \A r \in known : Len(r) <= Len(p)
  <2> DEFINE gaps == {Len(c) - Len(q) : q \in known}
  <2>1. \A q \in known : Len(c) - Len(q) \in Nat
    BY <1>0, <1>1, PrefixIs
  <2>2. gaps \in SUBSET Nat /\ gaps # {}
    BY <1>1, <2>1
  <2>3. PICK n \in gaps : \A m \in gaps : ~(m < n)
    BY <2>2, LeastNumber
  <2>4. PICK q \in known : Len(c) - Len(q) = n
    BY <2>3
  <2>5. ASSUME NEW r \in known
        PROVE  Len(r) <= Len(q)
    <3>1. Len(c) \in Nat /\ Len(r) \in Nat /\ Len(q) \in Nat
      BY <1>0, <1>1
    <3>2. ~(Len(c) - Len(r) < Len(c) - Len(q))
      BY <2>3, <2>4
    <3> QED BY <3>1, <3>2
  <2> QED BY <2>4, <2>5 DEF Longest, known
<1> QED BY <1>0, <1>1, <1>2

\* add.
LEMMA AddKeeps ==
  ASSUME NEW T, Good(T), NEW c \in Client \ ClientsOf(T), NEW U, U = AddClient(T, c)
  PROVE  /\ Good(U) /\ ClientsOf(U) = ClientsOf(T) \cup {c} /\ DOMAIN T \subseteq DOMAIN U
         /\ \A q \in DOMAIN T : U[q].weight = T[q].weight
         /\ \A q \in DOMAIN U \ DOMAIN T : U[q].weight = Unset
         /\ U[LeafOf(U, c)].kind = "inactive" /\ HeldBy(U, c) = << >>
         /\ \A b \in ClientsOf(T) : SameClient(T, U, b)
<1> DEFINE p == Longest(Upwards(c) \cap DOMAIN T)
           B == IF IsLeaf(T, p) THEN Split(T, p) ELSE T
           leaf == IF p = c THEN Virtual(c) ELSE c
<1>0. /\ Shape(T) /\ c \in Paths /\ \A q \in Paths : IsPrefix(q, c) => ~IsVirtual(q)
  BY ClientPaths DEF Good
<1>1. U = Grown(B, p, leaf)
  BY DEF AddClient, Grown
<1> HIDE DEF p
<1>2. /\ p \in DOMAIN T /\ p \in Paths /\ IsPrefix(p, c) /\ ~IsVirtual(p)
      /\ \A r \in DOMAIN T : IsPrefix(r, c) => Len(r) <= Len(p)
  BY <1>0, LongestIs DEF p
<1> HIDE DEF B, leaf
<1>3. /\ Good(B) /\ ClientsOf(B) = ClientsOf(T) /\ DOMAIN T \subseteq DOMAIN B
      /\ p \in DOMAIN B /\ B[p].kind = "internal"
      /\ \A r \in DOMAIN B : IsPrefix(r, c) => Len(r) <= Len(p)
      /\ \A q \in DOMAIN T : B[q].weight = T[q].weight
      /\ \A q \in DOMAIN B \ DOMAIN T : B[q].weight = Unset
      /\ \A b \in ClientsOf(T) : SameClient(T, B, b)
  <2>1. CASE T[p].kind = "internal"
    <3>1. B = T
      BY <2>1 DEF B, IsLeaf
    <3> QED BY <1>2, <2>1, <3>1 DEF SameClient
  <2>2. CASE T[p].kind # "internal"
    <3>1. B = Split(T, p)
      BY <2>2 DEF B, IsLeaf
    <3>2. /\ Good(B) /\ ClientsOf(B) = ClientsOf(T)
          /\ DOMAIN B = DOMAIN T \cup {Virtual(p)}
          /\ \A q \in DOMAIN T : B[q].weight = T[q].weight
          /\ B[Virtual(p)].weight = Unset /\ B[p].kind = "internal"
          /\ \A b \in ClientsOf(T) : SameClient(T, B, b)
      <4>1. p \in DOMAIN T /\ ~IsVirtual(p)
        BY <1>2
      <4>2. PICK r \in DOMAIN T : r = p
        BY <4>1
      <4>3. PICK V : V = Split(T, r)
        OBVIOUS
      <4>4. T[r].kind # "internal" /\ ~IsVirtual(r)
        BY <2>2, <4>1, <4>2
      <4>5. /\ Good(V) /\ ClientsOf(V) = ClientsOf(T)
            /\ DOMAIN V = DOMAIN T \cup {Virtual(r)}
            /\ \A q \in DOMAIN T : V[q].weight = T[q].weight
            /\ V[Virtual(r)].weight = Unset /\ V[r].kind = "internal"
            /\ \A b \in ClientsOf(T) : SameClient(T, V, b)
        BY <4>3, <4>4, SplitKeeps
      <4> QED BY <3>1, <4>2, <4>3, <4>5
    <3>3. ~IsPrefix(Virtual(p), c)
      BY <1>0, <1>2, VirtualOf
    <3> QED BY <1>2, <3>2, <3>3
  <2> QED BY <2>1, <2>2
<1>4. /\ Good(U) /\ ClientsOf(U) = ClientsOf(B) \cup {c} /\ DOMAIN B \subseteq DOMAIN U
      /\ \A q \in DOMAIN B : U[q].weight = B[q].weight
      /\ \A q \in DOMAIN U \ DOMAIN B : U[q].weight = Unset
      /\ U[LeafOf(U, c)].kind = "inactive" /\ HeldBy(U, c) = << >>
      /\ \A b \in ClientsOf(B) : SameClient(B, U, b)
  <2>1. c \in Client \ ClientsOf(B)
    BY <1>3
  <2>2. leaf = IF p = c THEN Virtual(c) ELSE c
    BY DEF leaf
  <2> QED BY ONLY <1>1, <1>2, <1>3, <2>1, <2>2, GrowKeeps
<1>5. \A b \in ClientsOf(T) : SameClient(T, U, b)
  BY <1>3, <1>4 DEF SameClient
<1>6. \A q \in DOMAIN U \ DOMAIN T : U[q].weight = Unset
  BY <1>3, <1>4
<1> QED BY <1>3, <1>4, <1>5, <1>6

-----------------------------------------------------------------------------
(* Both sorters work on their trees with the operators of SorterTree.      *)

\* The DRFSorter's.
LEMMA DRFTree ==
  /\ D!Default = Default /\ D!EmptyTree = EmptyTree
  /\ \A p : D!Upwards(p) = Upwards(p)
  /\ \A T, c : /\ D!ClientsOf(T) = ClientsOf(T) /\ D!LeafOf(T, c) = LeafOf(T, c)
               /\ D!ActiveClients(T) = ActiveClients(T)
               /\ D!AddClient(T, c) = AddClient(T, c)
               /\ D!CanRemove(T, c) = CanRemove(T, c)
               /\ D!RemoveClient(T, c) = RemoveClient(T, c)
  /\ \A T, c, kind : D!SetKind(T, c, kind) = SetKind(T, c, kind)
  /\ \A h, s, x : /\ D!AddTo(h, s, x) = AddTo(h, s, x)
                  /\ D!CanSubtract(h, s, x) = CanSubtract(h, s, x)
                  /\ D!SubtractFrom(h, s, x) = SubtractFrom(h, s, x)
  /\ \A h, s, x, y : D!UpdateIn(h, s, x, y) = UpdateIn(h, s, x, y)
  /\ \A T, path, w : D!Reweighted(T, path, w) = Reweighted(T, path, w)
  /\ \A T, ws, which : D!Cached(T, ws, which) = Cached(T, ws, which)
<1>1. D!Default = Default /\ D!EmptyTree = EmptyTree /\ D!Unset = Unset /\ D!Root = Root
  BY DEF D!Default, Default, D!EmptyTree, EmptyTree, D!Root, Root, D!Unset, Unset
<1>2. \A p : /\ D!Virtual(p) = Virtual(p) /\ D!IsVirtual(p) = IsVirtual(p)
             /\ D!ClientPath(p) = ClientPath(p) /\ D!Above(p) = Above(p)
             /\ D!Upwards(p) = Upwards(p) /\ D!Front(p) = Front(p)
  BY DEF D!Virtual, Virtual, D!IsVirtual, IsVirtual, D!ClientPath, ClientPath, D!Above, Above,
         D!Upwards, Upwards, D!Root, Root, D!Front, Front, D!Last, Last
<1>3. \A p, q : D!IsPrefix(p, q) = IsPrefix(p, q)
  BY DEF D!IsPrefix, IsPrefix
<1>4. \A T, c : /\ D!ClientsOf(T) = ClientsOf(T) /\ D!LeafOf(T, c) = LeafOf(T, c)
                /\ D!IsLeaf(T, c) = IsLeaf(T, c) /\ D!ActiveClients(T) = ActiveClients(T)
  BY <1>2 DEF D!ClientsOf, ClientsOf, D!LeafOf, LeafOf, D!IsLeaf, IsLeaf, D!ActiveClients,
              ActiveClients
<1>5. \A x, y : /\ D!Plus(x, y) = Plus(x, y) /\ D!Minus(x, y) = Minus(x, y)
                /\ D!Covers(x, y) = Covers(x, y) /\ D!Restrict(x, y) = Restrict(x, y)
                /\ D!SubtractAll(x, y) = SubtractAll(x, y)
  BY DEF D!Plus, Plus, D!Minus, Minus, D!Covers, Covers, D!Restrict, Restrict, D!SubtractAll,
         SubtractAll
<1>6. /\ \A h, s, x : /\ D!AddTo(h, s, x) = AddTo(h, s, x)
                       /\ D!CanSubtract(h, s, x) = CanSubtract(h, s, x)
                       /\ D!SubtractFrom(h, s, x) = SubtractFrom(h, s, x)
      /\ \A h, s, x, y : D!UpdateIn(h, s, x, y) = UpdateIn(h, s, x, y)
  BY <1>5 DEF D!AddTo, AddTo, D!CanSubtract, CanSubtract, D!SubtractFrom, SubtractFrom,
              D!UpdateIn, UpdateIn
<1>7. \A T, p : D!Split(T, p) = Split(T, p) /\ D!Collapse(T, p) = Collapse(T, p)
  BY <1>1, <1>2, <1>5 DEF D!Split, Split, D!Collapse, Collapse, D!ChildrenOf, ChildrenOf
<1>8. \A T, c : D!AddClient(T, c) = AddClient(T, c)
  BY DEF D!AddClient, AddClient, D!Upwards, Upwards, D!Above, Above, D!Root, Root,
         D!IsLeaf, IsLeaf, D!Split, Split, D!Virtual, Virtual, D!Unset, Unset,
         D!Longest, Longest
<1>9. \A T, c : /\ D!CanRemove(T, c) = CanRemove(T, c)
                /\ D!RemoveClient(T, c) = RemoveClient(T, c)
  <2>1. \A T, c : D!CanRemove(T, c) = CanRemove(T, c)
    BY <1>2, <1>4, <1>6 DEF D!CanRemove, CanRemove
  <2>2. \A T, c : D!RemoveClient(T, c) = RemoveClient(T, c)
    BY DEF D!RemoveClient, RemoveClient, D!LeafOf, LeafOf, D!Virtual, Virtual, D!Above, Above,
           D!IsPrefix, IsPrefix, D!Upwards, Upwards, D!Root, Root, D!SubtractAll, SubtractAll,
           D!Minus, Minus, D!Collapse, Collapse, D!ChildrenOf, ChildrenOf, D!Front, Front,
           D!Restrict, Restrict, D!Shortest, Shortest
  <2> QED BY <2>1, <2>2
<1>10. \A T, c, kind : D!SetKind(T, c, kind) = SetKind(T, c, kind)
  BY <1>4 DEF D!SetKind, SetKind
<1>11. /\ \A T, path, w : D!Reweighted(T, path, w) = Reweighted(T, path, w)
       /\ \A T, ws, which : D!Cached(T, ws, which) = Cached(T, ws, which)
  BY <1>1, <1>4 DEF D!Reweighted, Reweighted, D!Cached, Cached, D!WeightOf, WeightOf,
                    D!Configured, Configured
<1> QED BY <1>1, <1>2, <1>4, <1>6, <1>8, <1>9, <1>10, <1>11

\* The RandomSorter's.
LEMMA RandomTree ==
  /\ R!Default = Default /\ R!EmptyTree = EmptyTree
  /\ \A p : R!Upwards(p) = Upwards(p)
  /\ \A T, c : /\ R!ClientsOf(T) = ClientsOf(T) /\ R!LeafOf(T, c) = LeafOf(T, c)
               /\ R!ActiveClients(T) = ActiveClients(T)
               /\ R!AddClient(T, c) = AddClient(T, c)
               /\ R!CanRemove(T, c) = CanRemove(T, c)
               /\ R!RemoveClient(T, c) = RemoveClient(T, c)
  /\ \A T, c, kind : R!SetKind(T, c, kind) = SetKind(T, c, kind)
  /\ \A h, s, x : /\ R!AddTo(h, s, x) = AddTo(h, s, x)
                  /\ R!CanSubtract(h, s, x) = CanSubtract(h, s, x)
                  /\ R!SubtractFrom(h, s, x) = SubtractFrom(h, s, x)
  /\ \A h, s, x, y : R!UpdateIn(h, s, x, y) = UpdateIn(h, s, x, y)
  /\ \A T, path, w : R!Reweighted(T, path, w) = Reweighted(T, path, w)
  /\ \A T, ws, which : R!Cached(T, ws, which) = Cached(T, ws, which)
<1>1. R!Default = Default /\ R!EmptyTree = EmptyTree /\ R!Unset = Unset /\ R!Root = Root
  BY DEF R!Default, Default, R!EmptyTree, EmptyTree, R!Root, Root, R!Unset, Unset
<1>2. \A p : /\ R!Virtual(p) = Virtual(p) /\ R!IsVirtual(p) = IsVirtual(p)
             /\ R!ClientPath(p) = ClientPath(p) /\ R!Above(p) = Above(p)
             /\ R!Upwards(p) = Upwards(p) /\ R!Front(p) = Front(p)
  BY DEF R!Virtual, Virtual, R!IsVirtual, IsVirtual, R!ClientPath, ClientPath, R!Above, Above,
         R!Upwards, Upwards, R!Root, Root, R!Front, Front, R!Last, Last
<1>3. \A p, q : R!IsPrefix(p, q) = IsPrefix(p, q)
  BY DEF R!IsPrefix, IsPrefix
<1>4. \A T, c : /\ R!ClientsOf(T) = ClientsOf(T) /\ R!LeafOf(T, c) = LeafOf(T, c)
                /\ R!IsLeaf(T, c) = IsLeaf(T, c) /\ R!ActiveClients(T) = ActiveClients(T)
  BY <1>2 DEF R!ClientsOf, ClientsOf, R!LeafOf, LeafOf, R!IsLeaf, IsLeaf, R!ActiveClients,
              ActiveClients
<1>5. \A x, y : /\ R!Plus(x, y) = Plus(x, y) /\ R!Minus(x, y) = Minus(x, y)
                /\ R!Covers(x, y) = Covers(x, y) /\ R!Restrict(x, y) = Restrict(x, y)
                /\ R!SubtractAll(x, y) = SubtractAll(x, y)
  BY DEF R!Plus, Plus, R!Minus, Minus, R!Covers, Covers, R!Restrict, Restrict, R!SubtractAll,
         SubtractAll
<1>6. /\ \A h, s, x : /\ R!AddTo(h, s, x) = AddTo(h, s, x)
                       /\ R!CanSubtract(h, s, x) = CanSubtract(h, s, x)
                       /\ R!SubtractFrom(h, s, x) = SubtractFrom(h, s, x)
      /\ \A h, s, x, y : R!UpdateIn(h, s, x, y) = UpdateIn(h, s, x, y)
  BY <1>5 DEF R!AddTo, AddTo, R!CanSubtract, CanSubtract, R!SubtractFrom, SubtractFrom,
              R!UpdateIn, UpdateIn
<1>7. \A T, p : R!Split(T, p) = Split(T, p) /\ R!Collapse(T, p) = Collapse(T, p)
  BY <1>1, <1>2, <1>5 DEF R!Split, Split, R!Collapse, Collapse, R!ChildrenOf, ChildrenOf
<1>8. \A T, c : R!AddClient(T, c) = AddClient(T, c)
  BY DEF R!AddClient, AddClient, R!Upwards, Upwards, R!Above, Above, R!Root, Root,
         R!IsLeaf, IsLeaf, R!Split, Split, R!Virtual, Virtual, R!Unset, Unset,
         R!Longest, Longest
<1>9. \A T, c : /\ R!CanRemove(T, c) = CanRemove(T, c)
                /\ R!RemoveClient(T, c) = RemoveClient(T, c)
  <2>1. \A T, c : R!CanRemove(T, c) = CanRemove(T, c)
    BY <1>2, <1>4, <1>6 DEF R!CanRemove, CanRemove
  <2>2. \A T, c : R!RemoveClient(T, c) = RemoveClient(T, c)
    BY DEF R!RemoveClient, RemoveClient, R!LeafOf, LeafOf, R!Virtual, Virtual, R!Above, Above,
           R!IsPrefix, IsPrefix, R!Upwards, Upwards, R!Root, Root, R!SubtractAll, SubtractAll,
           R!Minus, Minus, R!Collapse, Collapse, R!ChildrenOf, ChildrenOf, R!Front, Front,
           R!Restrict, Restrict, R!Shortest, Shortest
  <2> QED BY <2>1, <2>2
<1>10. \A T, c, kind : R!SetKind(T, c, kind) = SetKind(T, c, kind)
  BY <1>4 DEF R!SetKind, SetKind
<1>11. /\ \A T, path, w : R!Reweighted(T, path, w) = Reweighted(T, path, w)
       /\ \A T, ws, which : R!Cached(T, ws, which) = Cached(T, ws, which)
  BY <1>1, <1>4 DEF R!Reweighted, Reweighted, R!Cached, Cached, R!WeightOf, WeightOf,
                    R!Configured, Configured
<1> QED BY <1>1, <1>2, <1>4, <1>6, <1>8, <1>9, <1>10, <1>11

-----------------------------------------------------------------------------
(* What the calls for one client do to a tree.                             *)

\* allocated.
LEMMA AllocatedKeeps ==
  ASSUME NEW T, Good(T), NEW c \in ClientsOf(T), NEW s \in Slave, NEW x \in Quantity, NEW U,
         U = [p \in DOMAIN T |-> IF p \in Upwards(LeafOf(T, c))
                                 THEN [T[p] EXCEPT !.held = AddTo(@, s, x)] ELSE T[p]]
  PROVE  Rebooked(T, U, c) /\ HeldBy(U, c) = AddTo(HeldBy(T, c), s, x)
<1>0. x \in Amounts /\ \A p \in DOMAIN T : T[p].held \in Held
  BY QuantityType DEF Good, Shape, Typed, Nodes
<1>1. PICK h : h = [p \in DOMAIN T |-> AddTo(T[p].held, s, x)]
  OBVIOUS
<1>2. U = [p \in DOMAIN T |-> IF p \in Upwards(LeafOf(T, c))
                              THEN [T[p] EXCEPT !.held = h[p]] ELSE T[p]]
  BY <1>1
<1>3. \A k \in Scalar : x[k] \in Int
  BY <1>0 DEF Amounts
<1>4. \A p \in DOMAIN T :
        /\ h[p] \in Held
        /\ \A t \in Slave, k \in Scalar :
             Amount(h[p], t, k) = Amount(T[p].held, t, k) + (IF t = s THEN x[k] ELSE 0)
  BY <1>0, <1>1, AddToAdds
<1>5. Rebooked(T, U, c) /\ HeldBy(U, c) = h[LeafOf(T, c)]
  BY ONLY Good(T), <1>2, <1>3, <1>4, PathChanges
<1>6. LeafOf(T, c) \in DOMAIN T
  BY LeafIs DEF Good
<1> QED BY <1>1, <1>5, <1>6 DEF HeldBy

\* unallocated.
LEMMA UnallocatedKeeps ==
  ASSUME NEW T, Good(T), NEW c \in ClientsOf(T), NEW s \in Slave, NEW x \in Quantity,
         CanSubtract(HeldBy(T, c), s, x), NEW U,
         U = [p \in DOMAIN T |-> IF p \in Upwards(LeafOf(T, c))
                                 THEN [T[p] EXCEPT !.held = SubtractFrom(@, s, x)] ELSE T[p]]
  PROVE  Rebooked(T, U, c) /\ HeldBy(U, c) = SubtractFrom(HeldBy(T, c), s, x)
<1>0. /\ x \in Amounts /\ x # Zero /\ \A p \in DOMAIN T : T[p].held \in Held
      /\ DOMAIN T \subseteq Paths
  BY QuantityType DEF Good, Shape, Typed, Nodes
<1>1. PICK h : h = [p \in DOMAIN T |-> SubtractFrom(T[p].held, s, x)]
  OBVIOUS
<1>2. U = [p \in DOMAIN T |-> IF p \in Upwards(LeafOf(T, c))
                              THEN [T[p] EXCEPT !.held = h[p]] ELSE T[p]]
  BY <1>1
<1>3. PICK d : d = [k \in Scalar |-> 0 - x[k]]
  OBVIOUS
<1>4. \A k \in Scalar : d[k] \in Int /\ d[k] = 0 - x[k] /\ x[k] \in Nat
  BY <1>0, <1>3 DEF Amounts
<1>5. ASSUME NEW p \in DOMAIN T, IsPrefix(p, LeafOf(T, c))
      PROVE  /\ h[p] \in Held
             /\ \A t \in Slave, k \in Scalar :
                  Amount(h[p], t, k) = Amount(T[p].held, t, k) + (IF t = s THEN d[k] ELSE 0)
  <2>1. CanSubtract(T[p].held, s, x)
    BY <1>0, <1>5, CanSubtractAbove
  <2>2. /\ h[p] \in Held
        /\ \A t \in Slave, k \in Scalar :
             Amount(h[p], t, k) = Amount(T[p].held, t, k) - (IF t = s THEN x[k] ELSE 0)
    BY <1>0, <1>1, <2>1, SubtractFromTakes
  <2>3. \A t \in Slave, k \in Scalar : Amount(T[p].held, t, k) \in Nat
    BY <1>0, AmountType
  <2> QED BY <1>4, <2>2, <2>3
<1>6. Rebooked(T, U, c) /\ HeldBy(U, c) = h[LeafOf(T, c)]
  <2>1. \A k \in Scalar : d[k] \in Int
    BY <1>4
  <2> QED BY ONLY Good(T), <1>2, <1>5, <2>1, PathChanges
<1>7. LeafOf(T, c) \in DOMAIN T
  BY LeafIs DEF Good
<1> QED BY <1>1, <1>6, <1>7 DEF HeldBy

\* update.
LEMMA UpdateKeeps ==
  ASSUME NEW T, Good(T), NEW c \in ClientsOf(T), NEW s \in Slave, NEW x \in Quantity,
         NEW y \in Amounts, CanSubtract(HeldBy(T, c), s, x), NEW U,
         U = [p \in DOMAIN T |-> IF p \in Upwards(LeafOf(T, c))
                                 THEN [T[p] EXCEPT !.held = UpdateIn(@, s, x, y)] ELSE T[p]]
  PROVE  Rebooked(T, U, c) /\ HeldBy(U, c) = UpdateIn(HeldBy(T, c), s, x, y)
<1>0. /\ x \in Amounts /\ x # Zero /\ \A p \in DOMAIN T : T[p].held \in Held
      /\ DOMAIN T \subseteq Paths
  BY QuantityType DEF Good, Shape, Typed, Nodes
<1>1. PICK h : h = [p \in DOMAIN T |-> UpdateIn(T[p].held, s, x, y)]
  OBVIOUS
<1>2. U = [p \in DOMAIN T |-> IF p \in Upwards(LeafOf(T, c))
                              THEN [T[p] EXCEPT !.held = h[p]] ELSE T[p]]
  BY <1>1
<1>3. PICK d : d = [k \in Scalar |-> y[k] - x[k]]
  OBVIOUS
<1>4. \A k \in Scalar : d[k] \in Int /\ d[k] = y[k] - x[k]
  BY <1>0, <1>3 DEF Amounts
<1>5. ASSUME NEW p \in DOMAIN T, IsPrefix(p, LeafOf(T, c))
      PROVE  /\ h[p] \in Held
             /\ \A t \in Slave, k \in Scalar :
                  Amount(h[p], t, k) = Amount(T[p].held, t, k) + (IF t = s THEN d[k] ELSE 0)
  <2>1. CanSubtract(T[p].held, s, x)
    BY <1>0, <1>5, CanSubtractAbove
  <2>2. /\ h[p] \in Held
        /\ \A t \in Slave, k \in Scalar :
             Amount(h[p], t, k) = Amount(T[p].held, t, k) + (IF t = s THEN y[k] - x[k] ELSE 0)
    BY <1>0, <1>1, <2>1, UpdateInMoves
  <2> QED BY <1>4, <2>2
<1>6. Rebooked(T, U, c) /\ HeldBy(U, c) = h[LeafOf(T, c)]
  <2>1. \A k \in Scalar : d[k] \in Int
    BY <1>4
  <2> QED BY ONLY Good(T), <1>2, <1>5, <2>1, PathChanges
<1>7. LeafOf(T, c) \in DOMAIN T
  BY LeafIs DEF Good
<1> QED BY <1>1, <1>6, <1>7 DEF HeldBy

\* activate and deactivate.
LEMMA SetKindKeeps ==
  ASSUME NEW T, Good(T), NEW c \in ClientsOf(T), NEW kind \in {"active", "inactive"},
         NEW U, U = SetKind(T, c, kind)
  PROVE  /\ Good(U) /\ ClientsOf(U) = ClientsOf(T) /\ DOMAIN U = DOMAIN T /\ SameWeights(T, U)
         /\ \A p \in DOMAIN T : U[p].kind = IF p = LeafOf(T, c) THEN kind ELSE T[p].kind
         /\ U[LeafOf(U, c)].kind = kind /\ HeldBy(U, c) = HeldBy(T, c)
         /\ \A b \in ClientsOf(T) \ {c} : SameClient(T, U, b)
<1>0. /\ Shape(T) /\ DOMAIN T \subseteq Paths /\ T \in [DOMAIN T -> Nodes]
      /\ \A p \in DOMAIN T : T[p] \in Nodes
      /\ \A b \in ClientsOf(T) : /\ LeafOf(T, b) \in DOMAIN T /\ ClientPath(LeafOf(T, b)) = b
                                 /\ T[LeafOf(T, b)].kind # "internal"
  BY LeafIs DEF Good, Shape, Typed
<1>1. U = [T EXCEPT ![LeafOf(T, c)] = [T[LeafOf(T, c)] EXCEPT !.kind = kind]]
  BY <1>0 DEF SetKind
<1>2. /\ DOMAIN U = DOMAIN T /\ U \in [DOMAIN U -> Nodes]
      /\ \A p \in DOMAIN T : /\ U[p].kind = IF p = LeafOf(T, c) THEN kind ELSE T[p].kind
                             /\ U[p].held = T[p].held /\ U[p].weight = T[p].weight
  <2>1. ASSUME NEW p \in DOMAIN T
        PROVE  /\ U[p] \in Nodes
               /\ U[p].kind = IF p = LeafOf(T, c) THEN kind ELSE T[p].kind
               /\ U[p].held = T[p].held /\ U[p].weight = T[p].weight
    BY <1>0, <1>1 DEF Nodes, Kinds
  <2> QED BY <1>0, <1>1, <2>1
<1>3. /\ Good(U) /\ ClientsOf(U) = ClientsOf(T) /\ \A b : LeafOf(U, b) = LeafOf(T, b)
      /\ \A b \in ClientsOf(T) : HeldBy(U, b) = HeldBy(T, b)
  <2>1. Typed(U)
    BY <1>0, <1>2 DEF Typed
  <2>2. \A p \in DOMAIN T : /\ U[p].kind = "internal" <=> T[p].kind = "internal"
                            /\ U[p].held = T[p].held
    BY <1>0, <1>2
  <2>3. DOMAIN U = DOMAIN T
    BY <1>2
  <2> QED BY ONLY Good(T), <2>1, <2>2, <2>3, SameHolders
<1>4. ASSUME NEW b \in ClientsOf(T) \ {c}
      PROVE  SameClient(T, U, b)
  BY <1>0, <1>2, <1>3 DEF SameClient
<1> QED BY <1>0, <1>2, <1>3, <1>4 DEF SameWeights

\* Nothing but weights was changed.
Retuned(T, U) ==
  /\ Good(U) /\ ClientsOf(U) = ClientsOf(T) /\ DOMAIN U = DOMAIN T
  /\ \A p \in DOMAIN T : U[p].kind = T[p].kind
  /\ \A b \in ClientsOf(T) : SameClient(T, U, b)

\* SameHolders in these words.
LEMMA WeightsRetune ==
  ASSUME NEW T, Good(T), NEW w \in [DOMAIN T -> Nat], NEW U,
         U = [p \in DOMAIN T |-> [T[p] EXCEPT !.weight = w[p]]]
  PROVE  Retuned(T, U) /\ \A p \in DOMAIN T : U[p].weight = w[p]
<1>0. /\ Shape(T) /\ DOMAIN T \subseteq Paths /\ \A p \in DOMAIN T : T[p] \in Nodes
      /\ \A b \in ClientsOf(T) : LeafOf(T, b) \in DOMAIN T
  BY LeafIs DEF Good, Shape, Typed
<1>1. /\ DOMAIN U = DOMAIN T /\ U \in [DOMAIN U -> Nodes]
      /\ \A p \in DOMAIN T : /\ U[p].kind = T[p].kind /\ U[p].held = T[p].held
                             /\ U[p].weight = w[p]
  BY <1>0 DEF Nodes
<1>2. /\ Good(U) /\ ClientsOf(U) = ClientsOf(T) /\ \A b : LeafOf(U, b) = LeafOf(T, b)
      /\ \A b \in ClientsOf(T) : HeldBy(U, b) = HeldBy(T, b)
  <2>1. Typed(U)
    BY <1>0, <1>1 DEF Typed
  <2>2. \A p \in DOMAIN T : /\ U[p].kind = "internal" <=> T[p].kind = "internal"
                            /\ U[p].held = T[p].held
    BY <1>1
  <2>3. DOMAIN U = DOMAIN T
    BY <1>1
  <2> QED BY ONLY Good(T), <2>1, <2>2, <2>3, SameHolders
<1>3. \A b \in ClientsOf(T) : SameClient(T, U, b)
  BY <1>0, <1>1, <1>2 DEF SameClient
<1> QED BY <1>1, <1>2, <1>3 DEF Retuned

\* getWeight.
LEMMA CachedKeeps ==
  ASSUME NEW T, Good(T), NEW ws, \A p \in DOMAIN ws : ws[p] \in Nat \ {0}, NEW which,
         NEW U, U = Cached(T, ws, which)
  PROVE  /\ Retuned(T, U)
         /\ \A p \in DOMAIN T : U[p].weight \in {T[p].weight, Configured(ws, p)}
<1>0. \A p \in DOMAIN T : T[p] \in Nodes /\ T[p].weight \in Nat
  BY DEF Good, Shape, Typed, Nodes
<1>1. PICK w : w = [p \in DOMAIN T |-> IF p \in which THEN WeightOf(T, ws, p) ELSE T[p].weight]
  OBVIOUS
<1>2. \A p : Configured(ws, p) \in Nat \ {0}
  BY DEF Configured, Default
<1>3. \A p \in DOMAIN T : w[p] \in Nat /\ w[p] \in {T[p].weight, Configured(ws, p)}
  BY <1>0, <1>1, <1>2 DEF WeightOf
<1>4. U = [p \in DOMAIN T |-> [T[p] EXCEPT !.weight = w[p]]]
  <2>1. ASSUME NEW p \in DOMAIN T
        PROVE  (IF p \in which THEN [T[p] EXCEPT !.weight = WeightOf(T, ws, p)] ELSE T[p])
                 = [T[p] EXCEPT !.weight = w[p]]
    <3>1. T[p] = [T[p] EXCEPT !.weight = T[p].weight]
      BY <1>0 DEF Nodes
    <3> QED BY <1>1, <3>1
  <2> QED BY <2>1 DEF Cached
<1>5. w \in [DOMAIN T -> Nat]
  BY <1>1, <1>3
<1>6. Retuned(T, U) /\ \A p \in DOMAIN T : U[p].weight = w[p]
  BY ONLY Good(T), <1>4, <1>5, WeightsRetune
<1> QED BY <1>3, <1>6

\* updateWeight.
LEMMA ReweightedKeeps ==
  ASSUME NEW T, Good(T), NEW path, NEW weight, weight \in Nat, NEW U,
         U = Reweighted(T, path, weight)
  PROVE  /\ Retuned(T, U)
         /\ \A p \in DOMAIN T : U[p].weight = IF p = path /\ path \in ClientsOf(T) THEN weight
                                              ELSE T[p].weight
<1>0. /\ T = [p \in DOMAIN T |-> T[p]]
      /\ \A p \in DOMAIN T : T[p] \in Nodes /\ T[p].weight \in Nat
  BY DEF Good, Shape, Typed, Nodes
<1>1. CASE path \in ClientsOf(T)
  <2>1. path \in DOMAIN T
    BY <1>1, LeafIs DEF Good
  <2>2. PICK w : w = [p \in DOMAIN T |-> IF p = path THEN weight ELSE T[p].weight]
    OBVIOUS
  <2>3. w \in [DOMAIN T -> Nat]
    BY <1>0, <2>2
  <2>4. U = [T EXCEPT ![path] = [T[path] EXCEPT !.weight = weight]]
    BY <1>0, <1>1, <2>1 DEF Reweighted
  <2>5. U = [p \in DOMAIN T |-> [T[p] EXCEPT !.weight = w[p]]]
    <3>1. ASSUME NEW p \in DOMAIN T
          PROVE  U[p] = [T[p] EXCEPT !.weight = w[p]]
      <4>1. T[p] = [T[p] EXCEPT !.weight = T[p].weight]
        BY <1>0 DEF Nodes
      <4> QED BY <2>1, <2>2, <2>4, <4>1
    <3>2. DOMAIN U = DOMAIN T /\ U = [p \in DOMAIN U |-> U[p]]
      BY <1>0, <2>4
    <3> QED BY <3>1, <3>2
  <2>6. Retuned(T, U) /\ \A p \in DOMAIN T : U[p].weight = w[p]
    BY ONLY Good(T), <2>3, <2>5, WeightsRetune
  <2> QED BY <1>1, <2>2, <2>6
<1>2. CASE path \notin ClientsOf(T)
  BY <1>2 DEF Reweighted, Retuned, SameClient
<1> QED BY <1>1, <1>2

-----------------------------------------------------------------------------
(* The two trees.                                                          *)

\* The same nodes, each of the same kind.
Agree(T, V) == DOMAIN T = DOMAIN V /\ \A p \in DOMAIN T : T[p].kind = V[p].kind

\* So they have the same clients.
LEMMA AgreeOnClients ==
  ASSUME NEW T, NEW V, Agree(T, V)
  PROVE  ClientsOf(T) = ClientsOf(V) /\ \A c : LeafOf(T, c) = LeafOf(V, c)
BY DEF Agree, ClientsOf, IsLeaf, LeafOf

\* They grow together.
LEMMA AddAgrees ==
  ASSUME NEW T, NEW V, Shape(T), Shape(V), Agree(T, V), NEW c \in Client
  PROVE  Agree(AddClient(T, c), AddClient(V, c))
<1>0. /\ DOMAIN T = DOMAIN V /\ \A p \in DOMAIN T : T[p].kind = V[p].kind
      /\ \A p \in DOMAIN T : T[p] \in Nodes /\ V[p] \in Nodes
  BY DEF Agree, Shape, Typed
<1> DEFINE p == Longest(Upwards(c) \cap DOMAIN T)
           leaf == IF p = c THEN Virtual(c) ELSE c
           B == IF IsLeaf(T, p) THEN Split(T, p) ELSE T
           C == IF IsLeaf(V, p) THEN Split(V, p) ELSE V
<1>1. AddClient(T, c) = Grown(B, p, leaf) /\ AddClient(V, c) = Grown(C, p, leaf)
  BY <1>0 DEF AddClient, Grown
<1>2. p \in DOMAIN T
  BY LongestIs
<1> HIDE DEF p, leaf
<1>3. Agree(B, C)
  <2>1. Agree(Split(T, p), Split(V, p))
    <3>1. DOMAIN Split(T, p) = DOMAIN Split(V, p)
      BY <1>0 DEF Split
    <3>2. ASSUME NEW q \in DOMAIN Split(T, p)
          PROVE  Split(T, p)[q].kind = Split(V, p)[q].kind
      <4>1. q \in DOMAIN T \cup {Virtual(p)}
        BY DEF Split
      <4>2. CASE q = Virtual(p)
        BY <1>0, <1>2, <4>1, <4>2 DEF Split, Nodes
      <4>3. CASE q # Virtual(p)
        BY <1>0, <1>2, <4>1, <4>3 DEF Split, Nodes
      <4> QED BY <4>2, <4>3
    <3> QED BY <3>1, <3>2 DEF Agree
  <2> QED BY <1>0, <1>2, <2>1 DEF IsLeaf
<1> HIDE DEF B, C
<1>4. Agree(Grown(B, p, leaf), Grown(C, p, leaf))
  BY <1>3 DEF Agree, Grown
<1> QED BY <1>1, <1>4

\* And shrink together.
LEMMA RemoveAgrees ==
  ASSUME NEW T, NEW V, Good(T), Good(V), Agree(T, V), NEW c \in ClientsOf(T),
         CanRemove(T, c), CanRemove(V, c)
  PROVE  Agree(RemoveClient(T, c), RemoveClient(V, c))
<1>0. /\ DOMAIN T = DOMAIN V /\ \A p \in DOMAIN T : T[p].kind = V[p].kind
      /\ \A p \in DOMAIN T : T[p] \in Nodes /\ V[p] \in Nodes
      /\ c \in ClientsOf(V) /\ LeafOf(V, c) = LeafOf(T, c) /\ Shape(T)
  BY AgreeOnClients DEF Agree, Good, Shape, Typed
<1>1. Dead(T, c) = Dead(V, c)
  BY <1>0 DEF Dead
<1> DEFINE L == Left(T, c)
           M == Left(V, c)
           f == Front(Shortest(Dead(T, c)))
<1>2. RemoveClient(T, c) = Collapse(L, f) /\ RemoveClient(V, c) = Collapse(M, f)
  <2>1. RemoveClient(T, c) = Collapse(L, f)
    BY DEF RemoveClient, Left, Dead, HeldBy
  <2>2. RemoveClient(V, c) = Collapse(M, Front(Shortest(Dead(V, c))))
    BY DEF RemoveClient, Left, Dead, HeldBy
  <2> QED BY <1>1, <2>1, <2>2
<1>3. f \in DOMAIN T \ Dead(T, c)
  BY <1>0, ShortestIs
<1> HIDE DEF f
<1>4. /\ DOMAIN L = DOMAIN T \ Dead(T, c) /\ DOMAIN M = DOMAIN L
      /\ \A p \in DOMAIN L : /\ L[p].kind = T[p].kind /\ M[p].kind = V[p].kind
                             /\ L[p] \in Nodes /\ M[p] \in Nodes
  <2>1. DOMAIN L = DOMAIN T \ Dead(T, c) /\ DOMAIN M = DOMAIN L
    BY <1>0, <1>1 DEF Left
  <2>2. \A p \in DOMAIN L : L[p] \in Nodes /\ M[p] \in Nodes
    <3>1. Good(L) /\ Good(M)
      BY <1>0, PruneKeeps
    <3> QED BY <2>1, <3>1 DEF Good, Shape, Typed
  <2>3. ASSUME NEW p \in DOMAIN L
        PROVE  L[p].kind = T[p].kind /\ M[p].kind = V[p].kind
    BY <1>0, <1>1, <2>1 DEF Left, Nodes
  <2> QED BY <2>1, <2>2, <2>3
<1> HIDE DEF L, M
<1>5. Agree(Collapse(L, f), Collapse(M, f))
  <2>1. ChildrenOf(L, f) = ChildrenOf(M, f)
    BY <1>4 DEF ChildrenOf
  <2>2. \A p \in DOMAIN L : L[p].kind = M[p].kind
    BY <1>0, <1>4
  <2>3. CASE f # Root /\ ChildrenOf(L, f) = {Virtual(f)}
    <3>1. Virtual(f) \in DOMAIN L
      BY <2>3 DEF ChildrenOf
    <3>2. DOMAIN Collapse(L, f) = DOMAIN L \ {Virtual(f)}
          /\ DOMAIN Collapse(M, f) = DOMAIN L \ {Virtual(f)}
      BY <1>4, <2>1, <2>3 DEF Collapse, Restrict
    <3>3. ASSUME NEW p \in DOMAIN L \ {Virtual(f)}
          PROVE  Collapse(L, f)[p].kind = Collapse(M, f)[p].kind
      <4>1. CASE p = f
        BY <1>4, <2>1, <2>2, <2>3, <3>1, <4>1 DEF Collapse, Restrict, Nodes
      <4>2. CASE p # f
        BY <1>4, <2>1, <2>2, <2>3, <4>2 DEF Collapse, Restrict
      <4> QED BY <4>1, <4>2
    <3> QED BY <3>2, <3>3 DEF Agree
  <2>4. CASE ~(f # Root /\ ChildrenOf(L, f) = {Virtual(f)})
    <3>1. Collapse(L, f) = L /\ Collapse(M, f) = M
      BY <2>1, <2>4 DEF Collapse
    <3> QED BY <1>4, <2>2, <3>1 DEF Agree
  <2> QED BY <2>3, <2>4
<1> QED BY <1>2, <1>5

-----------------------------------------------------------------------------
(* What the actions do to the trees.                                       *)

\* Trees after allocated, unallocated and update.
WithMore(T, c, s, x) ==
  [p \in DOMAIN T |-> IF p \in Upwards(LeafOf(T, c))
                      THEN [T[p] EXCEPT !.held = AddTo(@, s, x)] ELSE T[p]]
WithLess(T, c, s, x) ==
  [p \in DOMAIN T |-> IF p \in Upwards(LeafOf(T, c))
                      THEN [T[p] EXCEPT !.held = SubtractFrom(@, s, x)] ELSE T[p]]
WithNew(T, c, s, x, y) ==
  [p \in DOMAIN T |-> IF p \in Upwards(LeafOf(T, c))
                      THEN [T[p] EXCEPT !.held = UpdateIn(@, s, x, y)] ELSE T[p]]

\* What no client's call touches.
SamePool == UNCHANGED <<weights, total>>

\* add.
LEMMA AddStep ==
  ASSUME NEW c \in Client, Add(c)
  PROVE  /\ c \notin ClientsOf(drfTree) /\ c \notin ClientsOf(randomTree)
         /\ drfTree' = AddClient(drfTree, c) /\ randomTree' = AddClient(randomTree, c)
         /\ SamePool /\ UNCHANGED missed /\ sortInfo'.dirty /\ randomSorted' = <<>>
BY DRFTree, RandomTree DEF Add, D!Add, R!Add, R!Dirty, SamePool

\* remove.
LEMMA RemoveStep ==
  ASSUME NEW c \in Client, RemoveC(c)
  PROVE  /\ c \in ClientsOf(drfTree) /\ c \in ClientsOf(randomTree)
         /\ CanRemove(drfTree, c) /\ CanRemove(randomTree, c)
         /\ drfTree' = RemoveClient(drfTree, c) /\ randomTree' = RemoveClient(randomTree, c)
         /\ SamePool /\ missed' = missed \cap DOMAIN drfTree'
         /\ sortInfo'.dirty /\ randomSorted' = <<>>
BY DRFTree, RandomTree DEF RemoveC, D!RemoveC, R!RemoveC, R!Dirty, SamePool

\* activate and deactivate.
LEMMA SetActiveStep ==
  ASSUME NEW c \in Client, SetActive(c)
  PROVE  /\ c \in ClientsOf(drfTree) /\ c \in ClientsOf(randomTree)
         /\ \E kind \in {"active", "inactive"} :
              drfTree' = SetKind(drfTree, c, kind) /\ randomTree' = SetKind(randomTree, c, kind)
         /\ SamePool /\ UNCHANGED missed /\ sortInfo'.dirty /\ randomSorted' = <<>>
BY DRFTree, RandomTree DEF SetActive, Clients, D!Activate, D!Deactivate, R!Activate, R!Deactivate,
     R!Dirty, SamePool

\* updateWeight.
LEMMA UpdateWeightStep ==
  ASSUME NEW path \in Weighted, NEW weight \in 2..MaxWeight, UpdateWeight(path, weight)
  PROVE  /\ drfTree' = Reweighted(drfTree, path, weight)
         /\ randomTree' = Reweighted(randomTree, path, weight)
         /\ weights' = [weights EXCEPT ![path] = weight] /\ UNCHANGED total
         /\ missed' = IF path \in ClientsOf(drfTree) THEN missed \ {path}
                      ELSE missed \cup CachedAt(path)
         /\ sortInfo'.dirty /\ randomSorted' = <<>>
BY DRFTree, RandomTree DEF UpdateWeight, Clients, D!UpdateWeight, R!UpdateWeight, R!Dirty

\* allocated.
LEMMA AllocatedStep ==
  ASSUME NEW c \in Client, NEW s \in Slave, NEW x \in Quantity, Allocated(c, s, x)
  PROVE  /\ c \in ClientsOf(drfTree) /\ c \in ClientsOf(randomTree)
         /\ \E which : drfTree' = Cached(WithMore(drfTree, c, s, x), weights, which)
         /\ randomTree' = WithMore(randomTree, c, s, x)
         /\ SamePool /\ UNCHANGED <<missed, sortInfo>> /\ randomSorted' = <<>>
<1>1. /\ c \in ClientsOf(randomTree) /\ randomTree' = WithMore(randomTree, c, s, x)
      /\ SamePool /\ UNCHANGED <<missed, sortInfo>> /\ randomSorted' = <<>>
  BY RandomTree DEF Allocated, R!Allocated, R!OnPath, R!Clean, WithMore, SamePool
<1>2. /\ c \in ClientsOf(drfTree)
      /\ \E which : drfTree' = D!Cached(WithMore(drfTree, c, s, x), weights, which)
  BY DRFTree DEF Allocated, D!Allocated, D!OnPath, WithMore
<1> QED BY <1>1, <1>2, DRFTree

\* unallocated.
LEMMA UnallocatedStep ==
  ASSUME NEW c \in Client, NEW s \in Slave, NEW x \in Quantity, Unallocated(c, s, x)
  PROVE  /\ c \in ClientsOf(drfTree) /\ c \in ClientsOf(randomTree)
         /\ CanSubtract(HeldBy(drfTree, c), s, x) /\ CanSubtract(HeldBy(randomTree, c), s, x)
         /\ drfTree' = WithLess(drfTree, c, s, x) /\ randomTree' = WithLess(randomTree, c, s, x)
         /\ SamePool /\ UNCHANGED <<missed, sortInfo>> /\ randomSorted' = <<>>
BY DRFTree, RandomTree DEF Unallocated, D!Unallocated, R!Unallocated, D!OnPath, R!OnPath, R!Clean,
     WithLess, SamePool, HeldBy

\* update.
LEMMA UpdateStep ==
  ASSUME NEW c \in Client, NEW s \in Slave, NEW x \in Quantity, Update(c, s, x)
  PROVE  /\ c \in ClientsOf(drfTree) /\ c \in ClientsOf(randomTree)
         /\ CanSubtract(HeldBy(drfTree, c), s, x) /\ CanSubtract(HeldBy(randomTree, c), s, x)
         /\ \E y \in {x, Zero} : /\ drfTree' = WithNew(drfTree, c, s, x, y)
                                 /\ randomTree' = WithNew(randomTree, c, s, x, y)
         /\ SamePool /\ UNCHANGED <<missed, sortInfo>> /\ randomSorted' = <<>>
BY DRFTree, RandomTree DEF Update, D!Update, R!Update, D!OnPath, R!OnPath, R!Clean,
     WithNew, SamePool, HeldBy

\* The pool.
LEMMA ChangeTotalStep ==
  ASSUME NEW s \in Slave, NEW x \in Quantity, ChangeTotal(s, x)
  PROVE  /\ UNCHANGED <<drfTree, randomTree, weights, missed, sortInfo>>
         /\ \/ total' = AddTo(total, s, x)
            \/ CanSubtract(total, s, x) /\ total' = SubtractFrom(total, s, x)
         /\ randomSorted' = <<>>
BY DRFTree, RandomTree DEF ChangeTotal, D!AddTotal, R!AddTotal, D!RemoveTotal, R!RemoveTotal,
     R!Clean

\* sort.
LEMMA SortStep ==
  ASSUME Sort
  PROVE  /\ drfTree' = drfTree \/ \E which : drfTree' = Cached(drfTree, weights, which)
         /\ randomTree' = randomTree \/ \E which : randomTree' = Cached(randomTree, weights, which)
         /\ SamePool /\ UNCHANGED missed
         /\ \/ sortInfo.dirty /\ DOMAIN sortInfo'.relative = ActiveClients(randomTree)
            \/ ~sortInfo.dirty /\ sortInfo' = sortInfo
         /\ randomSorted' \in SetToSeqs(DOMAIN sortInfo'.relative)
<1>1. drfTree' = drfTree \/ \E which : drfTree' = Cached(drfTree, weights, which)
  BY DRFTree DEF Sort, D!Sort
<1>2. randomTree' = randomTree \/ \E which : randomTree' = Cached(randomTree, weights, which)
  BY RandomTree DEF Sort, R!Sort
<1>3. \/ sortInfo.dirty /\ DOMAIN sortInfo'.relative = ActiveClients(randomTree)
      \/ ~sortInfo.dirty /\ sortInfo' = sortInfo
  <2>1. \A T : DOMAIN R!Relative(T) = R!ActiveClients(T)
    BY DEF R!Relative
  <2>2. R!ActiveClients(R!Weighed(randomTree, weights)) = R!ActiveClients(randomTree)
    BY DEF R!ActiveClients, R!Weighed
  <2> QED BY <2>1, <2>2, RandomTree DEF Sort, R!Sort
<1>4. randomSorted' \in SetToSeqs(DOMAIN sortInfo'.relative)
  BY DEF Sort, R!Sort, R!SetToSeqs, SetToSeqs, R!Cardinality, Cardinality
<1> QED BY <1>1, <1>2, <1>3, <1>4 DEF Sort, R!Sort, SamePool

-----------------------------------------------------------------------------
(* The inductive invariant.                                                *)

\* The trees have the same nodes, which hold what their clients hold.
Books == Good(drfTree) /\ Good(randomTree) /\ Agree(drfTree, randomTree)

\* The cached weights of a tree are the configured ones, but for some nodes.
Current(T, ws, but) ==
  \A p \in DOMAIN T : T[p].weight \in {Unset, Configured(ws, p)} \/ p \in but

CurrentWeights == Current(drfTree, weights, missed) /\ Current(randomTree, weights, missed)

\* Relative weights that are not dirty are those of the active clients.
SortInfoListsActive == ~sortInfo.dirty => DOMAIN sortInfo.relative = ActiveClients(randomTree)

IInv ==
  /\ Books
  /\ weights \in [Weighted -> Nat \ {0}] /\ total \in Held
  /\ CurrentWeights
  /\ SortInfoListsActive

\* Of trees whose weights stay.
LEMMA StaysCurrent ==
  ASSUME NEW T, NEW U, NEW ws, NEW m, NEW n, Current(T, ws, m), SameWeights(T, U),
         m \cap DOMAIN U \subseteq n
  PROVE  Current(U, ws, n)
BY DEF Current, SameWeights

\* Of trees whose weights were read.
LEMMA CachingStaysCurrent ==
  ASSUME NEW T, NEW U, NEW ws, NEW m, Current(T, ws, m), DOMAIN U = DOMAIN T,
         \A p \in DOMAIN T : U[p].weight \in {T[p].weight, Configured(ws, p)}
  PROVE  Current(U, ws, m)
BY DEF Current

\* A new client.
LEMMA AddInv ==
  ASSUME IInv, NEW c \in Client, Add(c)
  PROVE  IInv'
<1>1. /\ c \notin ClientsOf(drfTree) /\ c \notin ClientsOf(randomTree)
      /\ drfTree' = AddClient(drfTree, c) /\ randomTree' = AddClient(randomTree, c)
      /\ SamePool /\ UNCHANGED missed /\ sortInfo'.dirty
  BY AddStep
<1>2. Good(drfTree') /\ SameWeights(drfTree, drfTree')
  <2>1. /\ Good(drfTree') /\ \A q \in DOMAIN drfTree : drfTree'[q].weight = drfTree[q].weight
        /\ \A q \in DOMAIN drfTree' \ DOMAIN drfTree : drfTree'[q].weight = Unset
    BY <1>1, AddKeeps DEF IInv, Books
  <2> QED BY <2>1 DEF SameWeights
<1>3. Good(randomTree') /\ SameWeights(randomTree, randomTree')
  <2>1. /\ Good(randomTree')
        /\ \A q \in DOMAIN randomTree : randomTree'[q].weight = randomTree[q].weight
        /\ \A q \in DOMAIN randomTree' \ DOMAIN randomTree : randomTree'[q].weight = Unset
    BY <1>1, AddKeeps DEF IInv, Books
  <2> QED BY <2>1 DEF SameWeights
<1>4. Agree(drfTree', randomTree')
  BY <1>1, AddAgrees DEF IInv, Books, Good
<1>5. Current(drfTree', weights', missed') /\ Current(randomTree', weights', missed')
  <2>1. weights' = weights /\ missed' = missed
    BY <1>1 DEF SamePool
  <2>2. Current(drfTree', weights, missed) /\ Current(randomTree', weights, missed)
    BY <1>2, <1>3, StaysCurrent DEF IInv, CurrentWeights
  <2> QED BY <2>1, <2>2
<1> QED BY <1>1, <1>2, <1>3, <1>4, <1>5
        DEF IInv, Books, SamePool, CurrentWeights, SortInfoListsActive

\* A client less.
LEMMA RemoveInv ==
  ASSUME IInv, NEW c \in Client, RemoveC(c)
  PROVE  IInv'
<1>1. /\ c \in ClientsOf(drfTree) /\ c \in ClientsOf(randomTree)
      /\ CanRemove(drfTree, c) /\ CanRemove(randomTree, c)
      /\ drfTree' = RemoveClient(drfTree, c) /\ randomTree' = RemoveClient(randomTree, c)
      /\ SamePool /\ missed' = missed \cap DOMAIN drfTree' /\ sortInfo'.dirty
  BY RemoveStep
<1>2. Good(drfTree') /\ SameWeights(drfTree, drfTree')
  <2>1. /\ Good(drfTree') /\ DOMAIN drfTree' \subseteq DOMAIN drfTree
        /\ \A q \in DOMAIN drfTree' : drfTree'[q].weight = drfTree[q].weight
    BY <1>1, RemoveKeeps DEF IInv, Books
  <2> QED BY <2>1 DEF SameWeights
<1>3. Good(randomTree') /\ SameWeights(randomTree, randomTree')
  <2>1. /\ Good(randomTree') /\ DOMAIN randomTree' \subseteq DOMAIN randomTree
        /\ \A q \in DOMAIN randomTree' : randomTree'[q].weight = randomTree[q].weight
    BY <1>1, RemoveKeeps DEF IInv, Books
  <2> QED BY <2>1 DEF SameWeights
<1>4. Agree(drfTree', randomTree')
  BY <1>1, RemoveAgrees DEF IInv, Books
<1>5. Current(drfTree', weights', missed') /\ Current(randomTree', weights', missed')
  <2>1. weights' = weights /\ DOMAIN randomTree' = DOMAIN drfTree'
    BY <1>1, <1>4 DEF SamePool, Agree
  <2>2. Current(drfTree', weights, missed') /\ Current(randomTree', weights, missed')
    BY <1>1, <1>2, <1>3, <2>1, StaysCurrent DEF IInv, CurrentWeights
  <2> QED BY <2>1, <2>2
<1> QED BY <1>1, <1>2, <1>3, <1>4, <1>5
        DEF IInv, Books, SamePool, CurrentWeights, SortInfoListsActive

\* A client in the sort, or out of it.
LEMMA SetActiveInv ==
  ASSUME IInv, NEW c \in Client, SetActive(c)
  PROVE  IInv'
<1>1. /\ c \in ClientsOf(drfTree) /\ c \in ClientsOf(randomTree)
      /\ SamePool /\ UNCHANGED missed /\ sortInfo'.dirty
  BY SetActiveStep
<1>2. PICK kind \in {"active", "inactive"} :
        drfTree' = SetKind(drfTree, c, kind) /\ randomTree' = SetKind(randomTree, c, kind)
  BY SetActiveStep
<1>3. /\ Good(drfTree') /\ DOMAIN drfTree' = DOMAIN drfTree /\ SameWeights(drfTree, drfTree')
      /\ \A p \in DOMAIN drfTree :
           drfTree'[p].kind = IF p = LeafOf(drfTree, c) THEN kind ELSE drfTree[p].kind
  BY <1>1, <1>2, SetKindKeeps DEF IInv, Books
<1>4. /\ Good(randomTree') /\ DOMAIN randomTree' = DOMAIN randomTree
      /\ SameWeights(randomTree, randomTree')
      /\ \A p \in DOMAIN randomTree :
           randomTree'[p].kind = IF p = LeafOf(randomTree, c) THEN kind ELSE randomTree[p].kind
  BY <1>1, <1>2, SetKindKeeps DEF IInv, Books
<1>5. Agree(drfTree', randomTree')
  <2>1. LeafOf(drfTree, c) = LeafOf(randomTree, c)
    BY AgreeOnClients DEF IInv, Books
  <2> QED BY <1>3, <1>4, <2>1 DEF IInv, Books, Agree
<1>6. Current(drfTree', weights', missed') /\ Current(randomTree', weights', missed')
  <2>1. weights' = weights /\ missed' = missed
    BY <1>1 DEF SamePool
  <2>2. Current(drfTree', weights, missed) /\ Current(randomTree', weights, missed)
    BY <1>3, <1>4, StaysCurrent DEF IInv, CurrentWeights
  <2> QED BY <2>1, <2>2
<1> QED BY <1>1, <1>3, <1>4, <1>5, <1>6
        DEF IInv, Books, SamePool, CurrentWeights, SortInfoListsActive

\* Another weight for a path.
LEMMA UpdateWeightInv ==
  ASSUME IInv, NEW path \in Weighted, NEW weight \in 2..MaxWeight, UpdateWeight(path, weight)
  PROVE  IInv'
<1>1. /\ drfTree' = Reweighted(drfTree, path, weight)
      /\ randomTree' = Reweighted(randomTree, path, weight)
      /\ weights' = [weights EXCEPT ![path] = weight] /\ UNCHANGED total
      /\ missed' = IF path \in ClientsOf(drfTree) THEN missed \ {path}
                   ELSE missed \cup CachedAt(path)
      /\ sortInfo'.dirty
  BY UpdateWeightStep
<1>2. weight \in Nat \ {0} /\ ClientsOf(randomTree) = ClientsOf(drfTree)
      /\ DOMAIN randomTree = DOMAIN drfTree
  BY AgreeOnClients DEF IInv, Books, Agree
<1>3. /\ Retuned(drfTree, drfTree')
      /\ \A p \in DOMAIN drfTree :
           drfTree'[p].weight = IF p = path /\ path \in ClientsOf(drfTree) THEN weight
                                ELSE drfTree[p].weight
  BY <1>1, <1>2, ReweightedKeeps DEF IInv, Books
<1>4. /\ Retuned(randomTree, randomTree')
      /\ \A p \in DOMAIN randomTree :
           randomTree'[p].weight = IF p = path /\ path \in ClientsOf(randomTree) THEN weight
                                   ELSE randomTree[p].weight
  BY <1>1, <1>2, ReweightedKeeps DEF IInv, Books
<1>5. Books'
  BY <1>3, <1>4 DEF IInv, Books, Agree, Retuned
<1>6. weights' \in [Weighted -> Nat \ {0}]
  BY <1>1, <1>2 DEF IInv
<1>7. \A p : Configured(weights', p) = IF p = path THEN weight ELSE Configured(weights, p)
  BY <1>1 DEF IInv, Configured
<1>8. Current(drfTree', weights', missed') /\ Current(randomTree', weights', missed')
  <2>1. ASSUME NEW p \in DOMAIN drfTree
        PROVE  /\ drfTree'[p].weight \in {Unset, Configured(weights', p)} \/ p \in missed'
               /\ randomTree'[p].weight \in {Unset, Configured(weights', p)} \/ p \in missed'
    <3>1. /\ drfTree[p].weight \in {Unset, Configured(weights, p)} \/ p \in missed
          /\ randomTree[p].weight \in {Unset, Configured(weights, p)} \/ p \in missed
      BY <1>2 DEF IInv, CurrentWeights, Current
    <3>2. CASE p = path
      <4>1. CASE path \in ClientsOf(drfTree)
        BY <1>1, <1>2, <1>3, <1>4, <1>7, <3>2, <4>1
      <4>2. CASE path \notin ClientsOf(drfTree)
        BY <1>1, <1>2, <1>3, <1>4, <3>2, <4>2 DEF CachedAt
      <4> QED BY <4>1, <4>2
    <3>3. CASE p # path
      BY <1>1, <1>2, <1>3, <1>4, <1>7, <3>1, <3>3
    <3> QED BY <3>2, <3>3
  <2> QED BY <1>2, <1>3, <1>4, <2>1 DEF Current, Retuned
<1> QED BY <1>1, <1>5, <1>6, <1>8 DEF IInv, CurrentWeights, SortInfoListsActive

\* The active clients of a tree.
LEMMA ActiveAre ==
  ASSUME NEW T, Shape(T)
  PROVE  ActiveClients(T) = {c \in ClientsOf(T) : T[LeafOf(T, c)].kind = "active"}
<1>1. ASSUME NEW p \in DOMAIN T, T[p].kind = "active"
      PROVE  ClientPath(p) \in ClientsOf(T) /\ LeafOf(T, ClientPath(p)) = p
  BY <1>1, LeavesAre
<1>2. ASSUME NEW c \in ClientsOf(T)
      PROVE  LeafOf(T, c) \in DOMAIN T /\ ClientPath(LeafOf(T, c)) = c
  BY LeafIs
<1> QED BY <1>1, <1>2 DEF ActiveClients

\* What a client holds was changed.
LEMMA RebookedInv ==
  ASSUME IInv, NEW c, c \in ClientsOf(drfTree), c \in ClientsOf(randomTree),
         NEW T, Rebooked(drfTree, T, c),
         drfTree' = T \/ \E which : drfTree' = Cached(T, weights, which),
         Rebooked(randomTree, randomTree', c),
         SamePool, UNCHANGED <<missed, sortInfo>>
  PROVE  IInv'
<1>1. Good(T) /\ Agree(T, drfTree) /\ Current(T, weights, missed)
  BY StaysCurrent DEF IInv, CurrentWeights, Rebooked, Agree
<1>2. Good(drfTree') /\ Agree(drfTree', T) /\ Current(drfTree', weights, missed)
  <2>1. CASE drfTree' = T
    BY <1>1, <2>1 DEF Agree
  <2>2. CASE \E which : drfTree' = Cached(T, weights, which)
    <3>1. PICK which : drfTree' = Cached(T, weights, which)
      BY <2>2
    <3>2. \A p \in DOMAIN weights : weights[p] \in Nat \ {0}
      BY DEF IInv
    <3>3. PICK U : U = drfTree'
      OBVIOUS
    <3>4. /\ Retuned(T, U)
          /\ \A p \in DOMAIN T : U[p].weight \in {T[p].weight, Configured(weights, p)}
      BY <1>1, <3>1, <3>2, <3>3, CachedKeeps
    <3>5. Current(U, weights, missed)
      BY <1>1, <3>4, CachingStaysCurrent DEF Retuned
    <3> QED BY <3>3, <3>4, <3>5 DEF Retuned, Agree
  <2> QED BY <2>1, <2>2
<1>3. Good(randomTree') /\ Agree(randomTree', randomTree) /\ Current(randomTree', weights, missed)
  BY StaysCurrent DEF IInv, CurrentWeights, Rebooked, Agree
<1>4. Agree(drfTree', randomTree')
  BY <1>1, <1>2, <1>3 DEF IInv, Books, Agree
<1>5. ActiveClients(randomTree') = ActiveClients(randomTree)
  BY <1>3 DEF ActiveClients, Agree
<1> QED BY <1>2, <1>3, <1>4, <1>5
        DEF IInv, Books, SamePool, CurrentWeights, SortInfoListsActive

\* allocated.
LEMMA AllocatedInv ==
  ASSUME IInv, NEW c \in Client, NEW s \in Slave, NEW x \in Quantity, Allocated(c, s, x)
  PROVE  IInv'
<1>1. /\ c \in ClientsOf(drfTree) /\ c \in ClientsOf(randomTree)
      /\ \E which : drfTree' = Cached(WithMore(drfTree, c, s, x), weights, which)
      /\ randomTree' = WithMore(randomTree, c, s, x)
      /\ SamePool /\ UNCHANGED <<missed, sortInfo>>
  BY AllocatedStep
<1>2. \A T : Good(T) /\ c \in ClientsOf(T) => Rebooked(T, WithMore(T, c, s, x), c)
  BY AllocatedKeeps DEF WithMore
<1>3. /\ Rebooked(drfTree, WithMore(drfTree, c, s, x), c)
      /\ Rebooked(randomTree, randomTree', c)
  BY <1>1, <1>2 DEF IInv, Books
<1> QED BY <1>1, <1>3, RebookedInv

\* unallocated.
LEMMA UnallocatedInv ==
  ASSUME IInv, NEW c \in Client, NEW s \in Slave, NEW x \in Quantity, Unallocated(c, s, x)
  PROVE  IInv'
<1>1. /\ c \in ClientsOf(drfTree) /\ c \in ClientsOf(randomTree)
      /\ CanSubtract(HeldBy(drfTree, c), s, x) /\ CanSubtract(HeldBy(randomTree, c), s, x)
      /\ drfTree' = WithLess(drfTree, c, s, x) /\ randomTree' = WithLess(randomTree, c, s, x)
      /\ SamePool /\ UNCHANGED <<missed, sortInfo>>
  BY UnallocatedStep
<1>2. \A T : Good(T) /\ c \in ClientsOf(T) /\ CanSubtract(HeldBy(T, c), s, x) =>
        Rebooked(T, WithLess(T, c, s, x), c)
  BY UnallocatedKeeps DEF WithLess
<1>3. /\ Rebooked(drfTree, WithLess(drfTree, c, s, x), c)
      /\ Rebooked(randomTree, randomTree', c)
  BY <1>1, <1>2 DEF IInv, Books
<1> QED BY <1>1, <1>3, RebookedInv

\* update.
LEMMA UpdateInv ==
  ASSUME IInv, NEW c \in Client, NEW s \in Slave, NEW x \in Quantity, Update(c, s, x)
  PROVE  IInv'
<1>1. /\ c \in ClientsOf(drfTree) /\ c \in ClientsOf(randomTree)
      /\ CanSubtract(HeldBy(drfTree, c), s, x) /\ CanSubtract(HeldBy(randomTree, c), s, x)
      /\ SamePool /\ UNCHANGED <<missed, sortInfo>>
  BY UpdateStep
<1>2. PICK y \in {x, Zero} : /\ drfTree' = WithNew(drfTree, c, s, x, y)
                             /\ randomTree' = WithNew(randomTree, c, s, x, y)
  BY UpdateStep
<1>3. y \in Amounts
  BY <1>2, QuantityType
<1>4. \A T : Good(T) /\ c \in ClientsOf(T) /\ CanSubtract(HeldBy(T, c), s, x) =>
        Rebooked(T, WithNew(T, c, s, x, y), c)
  BY <1>3, UpdateKeeps DEF WithNew
<1>5. /\ Rebooked(drfTree, WithNew(drfTree, c, s, x, y), c)
      /\ Rebooked(randomTree, randomTree', c)
  BY <1>1, <1>2, <1>4 DEF IInv, Books
<1> QED BY <1>1, <1>2, <1>5, RebookedInv

\* The pool.
LEMMA ChangeTotalInv ==
  ASSUME IInv, NEW s \in Slave, NEW x \in Quantity, ChangeTotal(s, x)
  PROVE  IInv'
<1>1. /\ UNCHANGED <<drfTree, randomTree, weights, missed, sortInfo>>
      /\ \/ total' = AddTo(total, s, x)
         \/ CanSubtract(total, s, x) /\ total' = SubtractFrom(total, s, x)
  BY ChangeTotalStep
<1>2. total' \in Held
  <2>1. x \in Amounts /\ total \in Held
    BY QuantityType DEF IInv
  <2> QED BY <1>1, <2>1, AddToAdds, SubtractFromTakes
<1> QED BY <1>1, <1>2 DEF IInv, Books, CurrentWeights, SortInfoListsActive

\* A tree whose weights sort() has read.
LEMMA SortedTree ==
  ASSUME NEW T, Good(T), NEW m, Current(T, weights, m), weights \in [Weighted -> Nat \ {0}], NEW U,
         U = T \/ \E which : U = Cached(T, weights, which)
  PROVE  Retuned(T, U) /\ Current(U, weights, m)
<1>1. CASE U = T
  BY <1>1 DEF Retuned, SameClient
<1>2. CASE \E which : U = Cached(T, weights, which)
  <2>1. /\ Retuned(T, U)
        /\ \A p \in DOMAIN T : U[p].weight \in {T[p].weight, Configured(weights, p)}
    BY <1>2, CachedKeeps
  <2> QED BY <2>1, CachingStaysCurrent DEF Retuned
<1> QED BY <1>1, <1>2

\* sort.
LEMMA SortInv ==
  ASSUME IInv, Sort
  PROVE  IInv'
<1>1. /\ drfTree' = drfTree \/ \E which : drfTree' = Cached(drfTree, weights, which)
      /\ randomTree' = randomTree \/ \E which : randomTree' = Cached(randomTree, weights, which)
      /\ SamePool /\ UNCHANGED missed
      /\ \/ sortInfo.dirty /\ DOMAIN sortInfo'.relative = ActiveClients(randomTree)
         \/ ~sortInfo.dirty /\ sortInfo' = sortInfo
  BY SortStep
<1>2. Retuned(drfTree, drfTree') /\ Current(drfTree', weights, missed)
  BY <1>1, SortedTree DEF IInv, Books, CurrentWeights
<1>3. Retuned(randomTree, randomTree') /\ Current(randomTree', weights, missed)
  BY <1>1, SortedTree DEF IInv, Books, CurrentWeights
<1>4. Books'
  BY <1>2, <1>3 DEF IInv, Books, Retuned, Agree
<1>5. ActiveClients(randomTree') = ActiveClients(randomTree)
  BY <1>3 DEF Retuned, ActiveClients
<1> QED BY <1>1, <1>2, <1>3, <1>4, <1>5 DEF IInv, SamePool, CurrentWeights, SortInfoListsActive

\* The first state.
LEMMA InitInv ==
  Init => IInv
<1> SUFFICES ASSUME Init
             PROVE  IInv
  OBVIOUS
<1>1. /\ drfTree = EmptyTree /\ randomTree = EmptyTree /\ total = << >>
      /\ weights = [p \in Weighted |-> Default] /\ sortInfo.dirty
  BY DRFTree, RandomTree DEF Init, D!Init, R!Init
<1>2. /\ DOMAIN EmptyTree = {Root} /\ EmptyTree \in [{Root} -> Nodes]
      /\ EmptyTree[Root] = [kind |-> "internal", held |-> << >>, weight |-> Unset]
      /\ Root \in Paths /\ ~IsVirtual(Root) /\ \A p \in Paths : IsPrefix(p, Root) => p = Root
  <2>1. Root \in Paths /\ ~IsVirtual(Root)
    BY DEF Root, Paths, IsVirtual
  <2>2. \A p \in Paths : IsPrefix(p, Root) => p = Root
    BY <2>1, PrefixOrder
  <2> QED BY <2>1, <2>2, NothingHeld DEF EmptyTree, Nodes, Kinds, Unset
<1>3. ClientsOf(EmptyTree) = {}
  BY <1>2 DEF ClientsOf, IsLeaf
<1>4. Shape(EmptyTree)
  BY <1>2, <1>3, FS_EmptySet DEF Shape, Typed, Rooted, Closed, LeavesServe
<1>5. NodesSumClients(EmptyTree)
  <2> SUFFICES ASSUME NEW p \in DOMAIN EmptyTree, NEW s \in Slave, NEW k \in Scalar
               PROVE  Amount(EmptyTree[p].held, s, k) =
                        SumFunctionOnSet(Part(EmptyTree, s, k), Under(EmptyTree, p))
    BY DEF NodesSumClients, Part, Under
  <2>1. Under(EmptyTree, p) = {}
    BY <1>3 DEF Under
  <2>2. Amount(EmptyTree[p].held, s, k) = 0
    BY <1>2, NothingHeld
  <2> QED BY <2>1, <2>2, SumOfNone
<1>6. Books /\ CurrentWeights
  BY <1>1, <1>2, <1>4, <1>5 DEF Books, Good, Agree, CurrentWeights, Current
<1>7. weights \in [Weighted -> Nat \ {0}] /\ total \in Held
  BY <1>1, NothingHeld DEF Default
<1> QED BY <1>1, <1>6, <1>7 DEF IInv, SortInfoListsActive

\* Every step.
LEMMA NextInv ==
  IInv /\ [Next]_vars => IInv'
<1> SUFFICES ASSUME IInv, [Next]_vars
             PROVE  IInv'
  OBVIOUS
<1>1. ASSUME NEW c \in Client, Add(c) \/ RemoveC(c) \/ SetActive(c)
      PROVE  IInv'
  BY <1>1, AddInv, RemoveInv, SetActiveInv
<1>2. ASSUME NEW path \in Weighted, NEW weight \in 2..MaxWeight, UpdateWeight(path, weight)
      PROVE  IInv'
  BY <1>2, UpdateWeightInv
<1>3. ASSUME NEW c \in Client, NEW s \in Slave, NEW x \in Quantity,
             Allocated(c, s, x) \/ Unallocated(c, s, x) \/ Update(c, s, x)
      PROVE  IInv'
  BY <1>3, AllocatedInv, UnallocatedInv, UpdateInv
<1>4. ASSUME NEW s \in Slave, NEW x \in Quantity, ChangeTotal(s, x)
      PROVE  IInv'
  BY <1>4, ChangeTotalInv
<1>5. CASE Sort
  BY <1>5, SortInv
<1>6. CASE UNCHANGED vars
  BY <1>6 DEF IInv, Books, CurrentWeights, SortInfoListsActive, vars, drfVars, randomVars
<1> QED BY <1>1, <1>2, <1>3, <1>4, <1>5, <1>6 DEF Next

\* The invariant holds.
LEMMA Invariant ==
  Spec => []IInv
<1> QED BY InitInv, NextInv, PTL DEF Spec

\* The roles and frameworks of either sorter can always be taken away again: the nodes of
\* both trees hold what their clients hold, after any calls of add, remove, allocated,
\* unallocated and update (sorter.cpp of either sorter).
THEOREM SortersAddUp ==
  Spec => []AllocationsAddUp
<1>1. IInv => AllocationsAddUp
  BY ChecksHold DEF IInv, Books, Good, AllocationsAddUp
<1> QED BY <1>1, Invariant, PTL

\* No node is served by a weight it no longer has, but for those that updateWeight() cannot
\* find, as they are no client's (updateWeight and getWeight of either sorter).
THEOREM WeightsStayCurrent ==
  Spec => []WeightsAreCurrent
<1>1. IInv => WeightsAreCurrent
  BY DEF IInv, Books, Agree, CurrentWeights, Current, WeightsAreCurrent
<1> QED BY <1>1, Invariant, PTL

-----------------------------------------------------------------------------
(* Both sorters implement Sorter: what their trees are for their clients.  *)

\* The entries that are not empty.
Kept(h) == [s \in {t \in DOMAIN h : h[t] # Zero} |-> h[s]]

\* What ClientsIn says of a client.
Entry(T, c) == [active |-> T[LeafOf(T, c)].kind = "active", held |-> Kept(HeldBy(T, c))]

\* The refinement mapping, client by client.
LEMMA ClientsInIs ==
  ASSUME NEW T
  PROVE  ClientsIn(T) = [c \in ClientsOf(T) |-> Entry(T, c)]
BY DEF ClientsIn, Entry, Kept, HeldBy, Restrict

\* The kept entries are those with an amount.
LEMMA KeptIs ==
  ASSUME NEW h \in Held
  PROVE  /\ Kept(h) \in Held /\ DOMAIN Kept(h) = {s \in Slave : \E k \in Scalar : Amount(h, s, k) # 0}
         /\ \A s \in DOMAIN Kept(h) : Kept(h)[s] = [k \in Scalar |-> Amount(h, s, k)]
<1>0. h = [s \in DOMAIN h |-> h[s]] /\ DOMAIN h \subseteq Slave /\ \A s \in DOMAIN h : h[s] \in Amounts
  BY HeldIs
<1>1. ASSUME NEW s \in DOMAIN h
      PROVE  h[s] # Zero <=> \E k \in Scalar : Amount(h, s, k) # 0
  <2>1. h[s] \in Amounts /\ \A k \in Scalar : Amount(h, s, k) = h[s][k]
    BY <1>0 DEF Amount
  <2>2. ASSUME \A k \in Scalar : h[s][k] = 0
        PROVE  h[s] = Zero
    BY <2>1, <2>2 DEF Amounts, Zero
  <2> QED BY <2>1, <2>2 DEF Zero
<1>2. \A s \in Slave \ DOMAIN h, k \in Scalar : Amount(h, s, k) = 0
  BY DEF Amount
<1>3. DOMAIN Kept(h) = {s \in Slave : \E k \in Scalar : Amount(h, s, k) # 0}
  BY <1>0, <1>1, <1>2 DEF Kept
<1>4. \A s \in DOMAIN Kept(h) : Kept(h)[s] = [k \in Scalar |-> Amount(h, s, k)]
  BY <1>0, AmountType DEF Kept
<1>5. Kept(h) \in Held
  <2>1. DOMAIN Kept(h) \subseteq DOMAIN h /\ \A s \in DOMAIN Kept(h) : Kept(h)[s] = h[s]
    BY DEF Kept
  <2>2. Kept(h) = [s \in DOMAIN Kept(h) |-> Kept(h)[s]]
    BY DEF Kept
  <2> QED BY <1>0, <2>1, <2>2, HeldIs
<1> QED BY <1>3, <1>4, <1>5

\* So they are a matter of amounts.
LEMMA SameKept ==
  ASSUME NEW h \in Held, NEW g \in Held,
         \A s \in Slave, k \in Scalar : Amount(g, s, k) = Amount(h, s, k)
  PROVE  Kept(g) = Kept(h)
<1>1. DOMAIN Kept(g) = DOMAIN Kept(h)
  BY KeptIs
<1>2. ASSUME NEW s \in DOMAIN Kept(h)
      PROVE  Kept(g)[s] = Kept(h)[s]
  <2>1. s \in Slave /\ s \in DOMAIN Kept(g)
    BY <1>1, KeptIs
  <2>2. /\ Kept(g)[s] = [k \in Scalar |-> Amount(g, s, k)]
        /\ Kept(h)[s] = [k \in Scalar |-> Amount(h, s, k)]
    BY <2>1, KeptIs
  <2> QED BY <2>1, <2>2
<1>3. Kept(g) = [s \in DOMAIN Kept(g) |-> Kept(g)[s]] /\ Kept(h) = [s \in DOMAIN Kept(h) |-> Kept(h)[s]]
  BY DEF Kept
<1> QED BY <1>1, <1>2, <1>3

\* What a client of a tree holds.
LEMMA ClientHolds ==
  ASSUME NEW T, Shape(T), NEW c \in ClientsOf(T)
  PROVE  HeldBy(T, c) \in Held
BY LeafIs DEF HeldBy, Shape, Typed, Nodes

\* A client that is in two trees the same has the same entry.
LEMMA SameEntry ==
  ASSUME NEW T, NEW U, Shape(T), Shape(U), NEW c \in ClientsOf(T), c \in ClientsOf(U),
         SameClient(T, U, c)
  PROVE  Entry(U, c) = Entry(T, c)
<1>1. Kept(HeldBy(U, c)) = Kept(HeldBy(T, c))
  BY ClientHolds, SameKept DEF SameClient
<1> QED BY <1>1 DEF Entry, SameClient

\* Trees with the same clients.
LEMMA SameClients ==
  ASSUME NEW T, NEW U, Shape(T), Shape(U), ClientsOf(U) = ClientsOf(T),
         \A c \in ClientsOf(T) : SameClient(T, U, c)
  PROVE  ClientsIn(U) = ClientsIn(T)
BY SameEntry, ClientsInIs

\* What Sorter makes of entries with more: Allocation::add on those that are not empty.
LEMMA MoreIs ==
  ASSUME NEW h \in Held, NEW s \in Slave, NEW x \in Quantity
  PROVE  Kept(AddTo(h, s, x)) = Random!More(Kept(h), s, x)
<1> DEFINE g == AddTo(h, s, x)
           more == Random!More(Kept(h), s, x)
<1>0. x \in Amounts /\ DOMAIN x = Scalar /\ \E k \in Scalar : x[k] > 0
  BY QuantityType DEF Amounts
<1>1. /\ g \in Held
      /\ \A t \in Slave, k \in Scalar :
           Amount(g, t, k) = Amount(h, t, k) + (IF t = s THEN x[k] ELSE 0)
  BY <1>0, AddToAdds
<1>2. \A t \in Slave, k \in Scalar : Amount(h, t, k) \in Nat /\ x[k] \in Nat
  BY <1>0, AmountType DEF Amounts
<1>3. /\ DOMAIN Kept(h) = {t \in Slave : \E k \in Scalar : Amount(h, t, k) # 0}
      /\ \A t \in DOMAIN Kept(h) : Kept(h)[t] = [k \in Scalar |-> Amount(h, t, k)]
      /\ DOMAIN Kept(g) = {t \in Slave : \E k \in Scalar : Amount(g, t, k) # 0}
      /\ \A t \in DOMAIN Kept(g) : Kept(g)[t] = [k \in Scalar |-> Amount(g, t, k)]
  BY <1>1, KeptIs
<1>4. /\ more = [t \in DOMAIN more |-> more[t]] /\ DOMAIN more = DOMAIN Kept(h) \cup {s}
      /\ \A t \in DOMAIN more :
           more[t] = IF t = s /\ s \in DOMAIN Kept(h)
                     THEN [k \in DOMAIN x |-> Kept(h)[s][k] + x[k]]
                     ELSE IF t = s THEN x ELSE Kept(h)[t]
  BY DEF Random!More
<1>5. Kept(g) = [t \in DOMAIN Kept(g) |-> Kept(g)[t]]
  BY DEF Kept
<1> HIDE DEF g, more
<1>6. DOMAIN Kept(g) = DOMAIN more
  <2>1. ASSUME NEW t \in Slave
        PROVE  (\E k \in Scalar : Amount(g, t, k) # 0)
                 <=> t = s \/ \E k \in Scalar : Amount(h, t, k) # 0
    <3>1. CASE t = s
      <4>1. PICK k \in Scalar : x[k] > 0
        BY <1>0
      <4>2. Amount(g, t, k) = Amount(h, t, k) + x[k]
        BY <1>1, <3>1
      <4> QED BY <1>2, <3>1, <4>1, <4>2
    <3>2. CASE t # s
      BY <1>1, <1>2, <3>2
    <3> QED BY <3>1, <3>2
  <2> QED BY <1>3, <1>4, <2>1
<1>7. ASSUME NEW t \in DOMAIN more
      PROVE  Kept(g)[t] = more[t]
  <2>0. t \in Slave /\ Kept(g)[t] = [k \in Scalar |-> Amount(g, t, k)]
    BY <1>3, <1>6
  <2>1. CASE t = s /\ s \in DOMAIN Kept(h)
    <3>1. more[t] = [k \in Scalar |-> Kept(h)[s][k] + x[k]]
      BY <1>0, <1>4, <2>1
    <3>2. \A k \in Scalar : Kept(h)[s][k] + x[k] = Amount(g, t, k)
      BY <1>1, <1>3, <2>1
    <3> QED BY <2>0, <3>1, <3>2
  <2>2. CASE t = s /\ s \notin DOMAIN Kept(h)
    <3>1. more[t] = x /\ x = [k \in Scalar |-> x[k]]
      BY <1>0, <1>4, <2>2 DEF Amounts
    <3>2. \A k \in Scalar : Amount(g, t, k) = x[k]
      BY <1>1, <1>2, <1>3, <2>2
    <3> QED BY <2>0, <3>1, <3>2
  <2>3. CASE t # s
    <3>1. more[t] = [k \in Scalar |-> Amount(h, t, k)]
      BY <1>3, <1>4, <2>3
    <3>2. \A k \in Scalar : Amount(g, t, k) = Amount(h, t, k)
      BY <1>1, <1>2, <2>0, <2>3
    <3> QED BY <2>0, <3>1, <3>2
  <2> QED BY <2>1, <2>2, <2>3
<1> QED BY <1>4, <1>5, <1>6, <1>7 DEF g, more

\* And of those with less: Allocation::subtract.
LEMMA LessIs ==
  ASSUME NEW h \in Held, NEW s \in Slave, NEW x \in Quantity, CanSubtract(h, s, x)
  PROVE  /\ Kept(SubtractFrom(h, s, x)) = Random!Less(Kept(h), s, x)
         /\ Random!Has(Kept(h), s, x)
<1>0. /\ x \in Amounts /\ DOMAIN x = Scalar /\ h[s] \in Amounts /\ s \in DOMAIN h
      /\ \A k \in Scalar : x[k] <= h[s][k]
      /\ DOMAIN h \subseteq Slave /\ \A t \in DOMAIN h : h[t] \in Amounts
  BY QuantityType, HeldIs DEF Amounts, CanSubtract, Covers
<1>1. h[s] # Zero
  <2>1. PICK k \in Scalar : x[k] > 0
    BY QuantityType
  <2>2. x[k] <= h[s][k] /\ x[k] \in Nat /\ h[s][k] \in Nat
    BY <1>0 DEF Amounts
  <2> QED BY <2>1, <2>2 DEF Zero
<1>2. s \in DOMAIN Kept(h) /\ Kept(h)[s] = h[s]
  BY <1>0, <1>1 DEF Kept
<1>3. Random!Has(Kept(h), s, x)
  BY <1>0, <1>2 DEF Random!Has
<1>4. CASE h[s] = x
  <2>1. SubtractFrom(h, s, x) = [t \in DOMAIN h \ {s} |-> h[t]]
    BY <1>4 DEF SubtractFrom, Restrict
  <2>2. Kept(SubtractFrom(h, s, x)) = [t \in DOMAIN Kept(h) \ {s} |-> Kept(h)[t]]
    BY <2>1 DEF Kept
  <2> QED BY <1>2, <1>3, <1>4, <2>2 DEF Random!Less, Random!Restrict
<1>5. CASE h[s] # x
  <2>1. SubtractFrom(h, s, x) = [t \in DOMAIN h |-> IF t = s THEN Minus(h[s], x) ELSE h[t]]
    <3>1. h = [t \in DOMAIN h |-> h[t]]
      BY HeldIs
    <3> QED BY <1>0, <1>5, <3>1 DEF SubtractFrom
  <2>2. Minus(h[s], x) = [k \in DOMAIN x |-> h[s][k] - x[k]] /\ Minus(h[s], x) # Zero
    <3>1. Minus(h[s], x) = [k \in DOMAIN x |-> h[s][k] - x[k]]
      BY <1>0 DEF Minus
    <3>2. ASSUME Minus(h[s], x) = Zero
          PROVE  h[s] = x
      <4>1. ASSUME NEW k \in Scalar
            PROVE  h[s][k] = x[k]
        <5>1. Minus(h[s], x)[k] = h[s][k] - x[k] /\ Zero[k] = 0
          BY DEF Minus, Zero
        <5>2. h[s][k] \in Nat /\ x[k] \in Nat
          BY <1>0 DEF Amounts
        <5> QED BY <3>2, <5>1, <5>2
      <4> QED BY <1>0, <4>1 DEF Amounts
    <3> QED BY <1>5, <3>1, <3>2
  <2>3. Kept(SubtractFrom(h, s, x)) =
          [t \in DOMAIN Kept(h) |-> IF t = s THEN Minus(h[s], x) ELSE Kept(h)[t]]
    BY <1>2, <2>1, <2>2 DEF Kept
  <2>4. Random!Less(Kept(h), s, x) = [Kept(h) EXCEPT ![s] = Minus(h[s], x)]
    BY <1>2, <1>5, <2>2 DEF Random!Less
  <2>5. Kept(h) = [t \in DOMAIN Kept(h) |-> Kept(h)[t]]
    BY DEF Kept
  <2> QED BY <1>2, <1>3, <2>3, <2>4, <2>5
<1> QED BY <1>4, <1>5

\* add is a call of Sorter.
LEMMA AddSimulates ==
  ASSUME NEW T, Good(T), NEW c \in Client \ ClientsOf(T), NEW U, U = AddClient(T, c)
  PROVE  ClientsIn(U) \in Random!Added(ClientsIn(T))
<1>1. /\ Good(U) /\ ClientsOf(U) = ClientsOf(T) \cup {c}
      /\ U[LeafOf(U, c)].kind = "inactive" /\ HeldBy(U, c) = << >>
      /\ \A b \in ClientsOf(T) : SameClient(T, U, b)
  BY AddKeeps
<1>2. \A b \in ClientsOf(T) : Entry(U, b) = Entry(T, b)
  BY <1>1, SameEntry DEF Good
<1>3. Entry(U, c) = [active |-> FALSE, held |-> << >>]
  <2>1. Kept(<< >>) = << >>
    BY DEF Kept
  <2> QED BY <1>1, <2>1 DEF Entry
<1>4. ClientsIn(U) = [d \in ClientsOf(T) \cup {c} |-> Entry(U, d)]
  BY <1>1, ClientsInIs
<1>5. /\ DOMAIN ClientsIn(T) = ClientsOf(T)
      /\ \A d \in ClientsOf(T) : ClientsIn(T)[d] = Entry(T, d)
  BY ClientsInIs
<1>6. ClientsIn(U) = [d \in DOMAIN ClientsIn(T) \cup {c} |->
                        IF d = c THEN [active |-> FALSE, held |-> << >>] ELSE ClientsIn(T)[d]]
  BY <1>2, <1>3, <1>4, <1>5
<1> QED BY <1>5, <1>6 DEF Random!Added

\* remove is.
LEMMA RemoveSimulates ==
  ASSUME NEW T, Good(T), NEW c \in ClientsOf(T), CanRemove(T, c), NEW U, U = RemoveClient(T, c)
  PROVE  ClientsIn(U) \in Random!Removed(ClientsIn(T))
<1>1. /\ Good(U) /\ ClientsOf(U) = ClientsOf(T) \ {c}
      /\ \A b \in ClientsOf(U) : SameClient(T, U, b)
  BY RemoveKeeps
<1>2. \A b \in ClientsOf(U) : Entry(U, b) = Entry(T, b)
  BY <1>1, SameEntry DEF Good
<1>3. /\ DOMAIN ClientsIn(T) = ClientsOf(T)
      /\ \A d \in ClientsOf(T) : ClientsIn(T)[d] = Entry(T, d)
      /\ ClientsIn(U) = [d \in ClientsOf(U) |-> Entry(U, d)]
  BY ClientsInIs
<1>4. ClientsIn(U) = [d \in DOMAIN ClientsIn(T) \ {c} |-> ClientsIn(T)[d]]
  BY <1>1, <1>2, <1>3
<1> QED BY <1>3, <1>4 DEF Random!Removed, Random!Restrict

\* activate and deactivate are.
LEMMA SetKindSimulates ==
  ASSUME NEW T, Good(T), NEW c \in ClientsOf(T), NEW kind \in {"active", "inactive"},
         NEW U, U = SetKind(T, c, kind)
  PROVE  ClientsIn(U) \in Random!Switched(ClientsIn(T))
<1>1. /\ Good(U) /\ ClientsOf(U) = ClientsOf(T)
      /\ U[LeafOf(U, c)].kind = kind /\ HeldBy(U, c) = HeldBy(T, c)
      /\ \A b \in ClientsOf(T) \ {c} : SameClient(T, U, b)
  BY SetKindKeeps
<1>2. \A b \in ClientsOf(T) \ {c} : Entry(U, b) = Entry(T, b)
  BY <1>1, SameEntry DEF Good
<1>3. PICK on \in BOOLEAN : on = (kind = "active")
  OBVIOUS
<1>4. Entry(U, c) = [Entry(T, c) EXCEPT !.active = on]
  BY <1>1, <1>3 DEF Entry
<1>5. /\ DOMAIN ClientsIn(T) = ClientsOf(T)
      /\ ClientsIn(T) = [d \in ClientsOf(T) |-> Entry(T, d)]
      /\ ClientsIn(U) = [d \in ClientsOf(T) |-> Entry(U, d)]
  BY <1>1, ClientsInIs
<1>6. ClientsIn(U) = [ClientsIn(T) EXCEPT ![c].active = on]
  BY <1>2, <1>4, <1>5
<1>7. \A cs : \A d \in DOMAIN cs : [cs EXCEPT ![d].active = on] \in Random!Switched(cs)
  <2>1. \A cs : \A d \in DOMAIN cs : [cs EXCEPT ![d].active = TRUE] \in Random!Switched(cs)
    BY DEF Random!Switched
  <2>2. \A cs : \A d \in DOMAIN cs : [cs EXCEPT ![d].active = FALSE] \in Random!Switched(cs)
    BY DEF Random!Switched
  <2>3. on = TRUE \/ on = FALSE
    BY <1>3
  <2> QED BY <2>1, <2>2, <2>3
<1> QED BY <1>5, <1>6, <1>7

\* So is every call that books something for one client.
LEMMA BookingSimulates ==
  ASSUME NEW T, Good(T), NEW c \in ClientsOf(T), NEW U, Rebooked(T, U, c),
         Kept(HeldBy(U, c)) \in Random!Changes(Kept(HeldBy(T, c)))
  PROVE  ClientsIn(U) \in Random!Booked(ClientsIn(T))
<1>1. \A b \in ClientsOf(T) \ {c} : Entry(U, b) = Entry(T, b)
  BY SameEntry DEF Good, Rebooked
<1>2. Entry(U, c) = [Entry(T, c) EXCEPT !.held = Kept(HeldBy(U, c))]
  BY DEF Entry, Rebooked
<1>3. /\ DOMAIN ClientsIn(T) = ClientsOf(T)
      /\ ClientsIn(T) = [d \in ClientsOf(T) |-> Entry(T, d)]
      /\ ClientsIn(U) = [d \in ClientsOf(T) |-> Entry(U, d)]
  BY ClientsInIs DEF Rebooked
<1>4. ClientsIn(U) = [ClientsIn(T) EXCEPT ![c].held = Kept(HeldBy(U, c))]
  BY <1>1, <1>2, <1>3
<1>5. ClientsIn(T)[c].held = Kept(HeldBy(T, c))
  BY <1>3 DEF Entry
<1>6. \A cs : \A d \in DOMAIN cs : \A h \in Random!Changes(cs[d].held) :
        [cs EXCEPT ![d].held = h] \in Random!Booked(cs)
  BY DEF Random!Booked
<1> QED BY <1>3, <1>4, <1>5, <1>6

\* allocated, unallocated, and an update that takes resources away; one that keeps the
\* amounts changes nothing.
LEMMA CallsBook ==
  ASSUME NEW T, Good(T), NEW c \in ClientsOf(T), NEW s \in Slave, NEW x \in Quantity
  PROVE  /\ ClientsIn(WithMore(T, c, s, x)) \in Random!Booked(ClientsIn(T))
         /\ CanSubtract(HeldBy(T, c), s, x) =>
              /\ ClientsIn(WithLess(T, c, s, x)) \in Random!Booked(ClientsIn(T))
              /\ ClientsIn(WithNew(T, c, s, x, Zero)) \in Random!Booked(ClientsIn(T))
              /\ ClientsIn(WithNew(T, c, s, x, x)) = ClientsIn(T)
<1>0. /\ HeldBy(T, c) \in Held /\ Shape(T) /\ x \in Amounts /\ Zero \in Amounts
      /\ \A k \in Scalar : x[k] \in Nat /\ Zero[k] = 0
  BY ClientHolds, QuantityType DEF Good, Amounts, Zero
<1>1. ClientsIn(WithMore(T, c, s, x)) \in Random!Booked(ClientsIn(T))
  <2>1. PICK U : U = WithMore(T, c, s, x)
    OBVIOUS
  <2>2. Rebooked(T, U, c) /\ HeldBy(U, c) = AddTo(HeldBy(T, c), s, x)
    BY <2>1, AllocatedKeeps DEF WithMore
  <2>3. Kept(HeldBy(U, c)) \in Random!Changes(Kept(HeldBy(T, c)))
    BY <1>0, <2>2, MoreIs DEF Random!Changes
  <2> QED BY <2>1, <2>2, <2>3, BookingSimulates
<1>2. ASSUME CanSubtract(HeldBy(T, c), s, x), NEW g, Kept(g) = Kept(SubtractFrom(HeldBy(T, c), s, x))
      PROVE  Kept(g) \in Random!Changes(Kept(HeldBy(T, c)))
  <2>1. /\ Kept(g) = Random!Less(Kept(HeldBy(T, c)), s, x)
        /\ Random!Has(Kept(HeldBy(T, c)), s, x)
    BY <1>0, <1>2, LessIs
  <2>2. PICK y \in Slave \X Quantity : y = <<s, x>>
    OBVIOUS
  <2> QED BY <2>1, <2>2 DEF Random!Changes
<1>3. ASSUME CanSubtract(HeldBy(T, c), s, x)
      PROVE  ClientsIn(WithLess(T, c, s, x)) \in Random!Booked(ClientsIn(T))
  <2>1. PICK U : U = WithLess(T, c, s, x)
    OBVIOUS
  <2>2. Rebooked(T, U, c) /\ HeldBy(U, c) = SubtractFrom(HeldBy(T, c), s, x)
    BY <1>3, <2>1, UnallocatedKeeps DEF WithLess
  <2> QED BY <1>2, <1>3, <2>1, <2>2, BookingSimulates
<1>4. ASSUME CanSubtract(HeldBy(T, c), s, x)
      PROVE  ClientsIn(WithNew(T, c, s, x, Zero)) \in Random!Booked(ClientsIn(T))
  <2>1. PICK U : U = WithNew(T, c, s, x, Zero)
    OBVIOUS
  <2>2. Rebooked(T, U, c) /\ HeldBy(U, c) = UpdateIn(HeldBy(T, c), s, x, Zero)
    BY <1>0, <1>4, <2>1, UpdateKeeps DEF WithNew
  <2>3. Kept(HeldBy(U, c)) = Kept(SubtractFrom(HeldBy(T, c), s, x))
    <3>1. /\ HeldBy(U, c) \in Held
          /\ \A t \in Slave, k \in Scalar :
               Amount(HeldBy(U, c), t, k) =
                 Amount(HeldBy(T, c), t, k) + (IF t = s THEN Zero[k] - x[k] ELSE 0)
      BY <1>0, <1>4, <2>2, UpdateInMoves
    <3>2. /\ SubtractFrom(HeldBy(T, c), s, x) \in Held
          /\ \A t \in Slave, k \in Scalar :
               Amount(SubtractFrom(HeldBy(T, c), s, x), t, k) =
                 Amount(HeldBy(T, c), t, k) - (IF t = s THEN x[k] ELSE 0)
      BY <1>0, <1>4, SubtractFromTakes
    <3>3. \A t \in Slave, k \in Scalar : Amount(HeldBy(T, c), t, k) \in Nat
      BY <1>0, AmountType
    <3>4. \A t \in Slave, k \in Scalar :
            Amount(HeldBy(U, c), t, k) = Amount(SubtractFrom(HeldBy(T, c), s, x), t, k)
      BY <1>0, <3>1, <3>2, <3>3
    <3> QED BY <3>1, <3>2, <3>4, SameKept
  <2> QED BY <1>2, <1>4, <2>1, <2>2, <2>3, BookingSimulates
<1>5. ASSUME CanSubtract(HeldBy(T, c), s, x)
      PROVE  ClientsIn(WithNew(T, c, s, x, x)) = ClientsIn(T)
  <2>1. PICK U : U = WithNew(T, c, s, x, x)
    OBVIOUS
  <2>2. Rebooked(T, U, c) /\ HeldBy(U, c) = UpdateIn(HeldBy(T, c), s, x, x)
    BY <1>0, <1>5, <2>1, UpdateKeeps DEF WithNew
  <2>3. \A t \in Slave, k \in Scalar : Amount(HeldBy(U, c), t, k) = Amount(HeldBy(T, c), t, k)
    <3>1. \A t \in Slave, k \in Scalar :
            Amount(HeldBy(U, c), t, k) =
              Amount(HeldBy(T, c), t, k) + (IF t = s THEN x[k] - x[k] ELSE 0)
      BY <1>0, <1>5, <2>2, UpdateInMoves
    <3>2. \A t \in Slave, k \in Scalar : Amount(HeldBy(T, c), t, k) \in Nat
      BY <1>0, AmountType
    <3> QED BY <1>0, <3>1, <3>2
  <2>4. \A b \in ClientsOf(T) : SameClient(T, U, b)
    BY <2>2, <2>3 DEF Rebooked, SameClient
  <2> QED BY <1>0, <2>1, <2>2, <2>4, SameClients DEF Rebooked, Good
<1> QED BY <1>1, <1>3, <1>4, <1>5

\* The pool, kept as it is.
LEMMA TotalsChange ==
  ASSUME NEW h \in Held, NEW s \in Slave, NEW x \in Quantity
  PROVE  /\ AddTo(h, s, x) \in Random!Changes(h)
         /\ CanSubtract(h, s, x) => SubtractFrom(h, s, x) \in Random!Changes(h)
<1>0. /\ x \in Amounts /\ DOMAIN x = Scalar
      /\ h = [t \in DOMAIN h |-> h[t]] /\ DOMAIN h \subseteq Slave
      /\ \A t \in DOMAIN h : h[t] \in Amounts
  BY QuantityType, HeldIs DEF Amounts
<1>1. AddTo(h, s, x) = Random!More(h, s, x)
  <2>1. ASSUME NEW t \in DOMAIN h \cup {s}
        PROVE  (IF t # s THEN h[t] ELSE IF s \in DOMAIN h THEN Plus(h[s], x) ELSE x)
                 = IF t = s /\ s \in DOMAIN h THEN [k \in DOMAIN x |-> h[s][k] + x[k]]
                   ELSE IF t = s THEN x ELSE h[t]
    BY <1>0 DEF Plus
  <2> QED BY <2>1 DEF AddTo, Random!More
<1>2. ASSUME CanSubtract(h, s, x)
      PROVE  SubtractFrom(h, s, x) = Random!Less(h, s, x) /\ Random!Has(h, s, x)
  <2>1. Random!Has(h, s, x)
    BY <1>0, <1>2 DEF Random!Has, CanSubtract, Covers
  <2>2. SubtractFrom(h, s, x) = Random!Less(h, s, x)
    BY <1>0 DEF SubtractFrom, Random!Less, Restrict, Random!Restrict, Minus
  <2> QED BY <2>1, <2>2
<1>3. ASSUME CanSubtract(h, s, x)
      PROVE  SubtractFrom(h, s, x) \in Random!Changes(h)
  <2>1. PICK y \in Slave \X Quantity : y = <<s, x>>
    OBVIOUS
  <2> QED BY <1>2, <1>3, <2>1 DEF Random!Changes
<1> QED BY <1>1, <1>3 DEF Random!Changes

\* A change of one client of the RandomSorter.
RandomChanges ==
  /\ randomSorted' = <<>> /\ UNCHANGED total
  /\ \/ ClientsIn(randomTree') \in Random!Added(ClientsIn(randomTree))
     \/ ClientsIn(randomTree') \in Random!Removed(ClientsIn(randomTree))
     \/ ClientsIn(randomTree') \in Random!Switched(ClientsIn(randomTree))
     \/ ClientsIn(randomTree') \in Random!Booked(ClientsIn(randomTree))
     \/ ClientsIn(randomTree') = ClientsIn(randomTree)

\* Each is a step of Sorter.
LEMMA RandomChangesStep ==
  ASSUME RandomChanges
  PROVE  Random!Next
<1>1. CASE ClientsIn(randomTree') = ClientsIn(randomTree)
  <2>1. Random!ChangeTotal
    BY <1>1 DEF Random!ChangeTotal, RandomChanges
  <2> QED BY <2>1 DEF Random!Next, RandomChanges
<1>2. CASE ClientsIn(randomTree') # ClientsIn(randomTree)
  <2>1. Random!ChangeClient
    BY <1>2 DEF Random!ChangeClient, RandomChanges
  <2> QED BY <2>1 DEF Random!Next, RandomChanges
<1> QED BY <1>1, <1>2

\* Every step of the RandomSorter is one of Sorter.
LEMMA RandomSimulates ==
  IInv /\ IInv' /\ [Next]_vars => [Random!Next]_(Random!vars)
<1> SUFFICES ASSUME IInv, IInv', [Next]_vars
             PROVE  [Random!Next]_(Random!vars)
  OBVIOUS
<1>0. Good(randomTree) /\ Good(randomTree') /\ total \in Held
  BY DEF IInv, Books
<1>1. ASSUME NEW c \in Client, Add(c)
      PROVE  RandomChanges
  BY <1>0, <1>1, AddStep, AddSimulates DEF RandomChanges, SamePool
<1>2. ASSUME NEW c \in Client, RemoveC(c)
      PROVE  RandomChanges
  BY <1>0, <1>2, RemoveStep, RemoveSimulates DEF RandomChanges, SamePool
<1>3. ASSUME NEW c \in Client, SetActive(c)
      PROVE  RandomChanges
  BY <1>0, <1>3, SetActiveStep, SetKindSimulates DEF RandomChanges, SamePool
<1>4. ASSUME NEW path \in Weighted, NEW weight \in 2..MaxWeight, UpdateWeight(path, weight)
      PROVE  RandomChanges
  <2>1. /\ randomTree' = Reweighted(randomTree, path, weight) /\ UNCHANGED total
        /\ randomSorted' = <<>> /\ weight \in Int
    BY <1>4, UpdateWeightStep
  <2>2. Retuned(randomTree, randomTree')
    BY <1>0, <2>1, ReweightedKeeps
  <2>3. ClientsIn(randomTree') = ClientsIn(randomTree)
    BY <1>0, <2>2, SameClients DEF Retuned, Good
  <2> QED BY <2>1, <2>3 DEF RandomChanges
<1>5. ASSUME NEW c \in Client, NEW s \in Slave, NEW x \in Quantity,
             Allocated(c, s, x) \/ Unallocated(c, s, x) \/ Update(c, s, x)
      PROVE  RandomChanges
  <2>1. CASE Allocated(c, s, x)
    BY <1>0, <2>1, AllocatedStep, CallsBook DEF RandomChanges, SamePool
  <2>2. CASE Unallocated(c, s, x)
    BY <1>0, <2>2, UnallocatedStep, CallsBook DEF RandomChanges, SamePool
  <2>3. CASE Update(c, s, x)
    BY <1>0, <2>3, UpdateStep, CallsBook DEF RandomChanges, SamePool
  <2> QED BY <1>5, <2>1, <2>2, <2>3
<1>6. ASSUME NEW s \in Slave, NEW x \in Quantity, ChangeTotal(s, x)
      PROVE  Random!Next
  <2>1. /\ randomTree' = randomTree /\ randomSorted' = <<>>
        /\ total' \in Random!Changes(total)
    BY <1>0, <1>6, ChangeTotalStep, TotalsChange
  <2>2. Random!ChangeTotal
    BY <2>1 DEF Random!ChangeTotal
  <2> QED BY <2>1, <2>2 DEF Random!Next
<1>7. CASE Sort
  <2>1. /\ randomTree' = randomTree \/ \E which : randomTree' = Cached(randomTree, weights, which)
        /\ SamePool
        /\ \/ sortInfo.dirty /\ DOMAIN sortInfo'.relative = ActiveClients(randomTree)
           \/ ~sortInfo.dirty /\ sortInfo' = sortInfo
        /\ randomSorted' \in SetToSeqs(DOMAIN sortInfo'.relative)
    BY <1>7, SortStep
  <2>2. Retuned(randomTree, randomTree')
    BY <1>0, <2>1, SortedTree DEF IInv, CurrentWeights
  <2>3. ClientsIn(randomTree') = ClientsIn(randomTree)
    BY <1>0, <2>2, SameClients DEF Retuned, Good
  <2>4. DOMAIN sortInfo'.relative = ActiveClients(randomTree)
    BY <2>1 DEF IInv, SortInfoListsActive
  <2>5. ActiveClients(randomTree) =
          {c \in DOMAIN ClientsIn(randomTree) : ClientsIn(randomTree)[c].active}
    BY <1>0, ActiveAre, ClientsInIs DEF Good, Entry
  <2>6. \A S : Random!SetToSeqs(S) = SetToSeqs(S)
    BY DEF Random!SetToSeqs, SetToSeqs, Random!Cardinality, Cardinality
  <2>7. Random!Sort
    BY <2>1, <2>3, <2>4, <2>5, <2>6 DEF Random!Sort, SamePool
  <2> QED BY <2>7 DEF Random!Next
<1>8. CASE UNCHANGED vars
  BY <1>8 DEF vars, randomVars, Random!vars
<1> QED BY <1>1, <1>2, <1>3, <1>4, <1>5, <1>6, <1>7, <1>8, RandomChangesStep DEF Next

\* The RandomSorter implements Sorter (sorter.hpp), for any clients, agents and resources:
\* add, remove, split and collapsed nodes, and what sortInfo remembers from a sort() to the
\* next, lose no client, no allocation and no activation.
THEOREM RandomImplementsSorter ==
  Spec => RandomIsSorter
<1>1. Init => Random!Init
  <2> SUFFICES ASSUME Init
               PROVE  Random!Init
    OBVIOUS
  <2>1. randomTree = EmptyTree /\ total = << >> /\ randomSorted = <<>>
    BY RandomTree DEF Init, R!Init
  <2>2. ClientsOf(EmptyTree) = {}
    BY DEF ClientsOf, IsLeaf, EmptyTree
  <2>3. ClientsIn(EmptyTree) = << >>
    BY <2>2, ClientsInIs
  <2> QED BY <2>1, <2>3 DEF Random!Init
<1> QED BY <1>1, RandomSimulates, Invariant, PTL DEF Spec, RandomIsSorter, Random!Spec

\* What Sorter says of a call is the same for both.
LEMMA SameCalls ==
  /\ \A cs : /\ DRF!Added(cs) = Random!Added(cs) /\ DRF!Removed(cs) = Random!Removed(cs)
             /\ DRF!Switched(cs) = Random!Switched(cs) /\ DRF!Booked(cs) = Random!Booked(cs)
  /\ \A h : DRF!Changes(h) = Random!Changes(h)
<1>1. \A h, s, x : /\ DRF!More(h, s, x) = Random!More(h, s, x)
                   /\ DRF!Less(h, s, x) = Random!Less(h, s, x)
                   /\ DRF!Has(h, s, x) = Random!Has(h, s, x)
  BY DEF DRF!More, Random!More, DRF!Less, Random!Less, DRF!Has, Random!Has, DRF!Restrict,
         Random!Restrict
<1>2. \A h : DRF!Changes(h) = Random!Changes(h)
  BY <1>1 DEF DRF!Changes, Random!Changes
<1>3. \A cs : DRF!Booked(cs) = Random!Booked(cs)
  BY <1>2 DEF DRF!Booked, Random!Booked
<1>4. \A cs : /\ DRF!Added(cs) = Random!Added(cs) /\ DRF!Removed(cs) = Random!Removed(cs)
              /\ DRF!Switched(cs) = Random!Switched(cs)
  BY DEF DRF!Added, Random!Added, DRF!Removed, Random!Removed, DRF!Restrict, Random!Restrict,
         DRF!Switched, Random!Switched
<1> QED BY <1>2, <1>3, <1>4

\* A change of one client of the DRFSorter.
DRFChanges ==
  /\ drfSorted' = <<>> /\ UNCHANGED total
  /\ \/ ClientsIn(drfTree') \in Random!Added(ClientsIn(drfTree))
     \/ ClientsIn(drfTree') \in Random!Removed(ClientsIn(drfTree))
     \/ ClientsIn(drfTree') \in Random!Switched(ClientsIn(drfTree))
     \/ ClientsIn(drfTree') \in Random!Booked(ClientsIn(drfTree))
     \/ ClientsIn(drfTree') = ClientsIn(drfTree)

\* Each is a step of Sorter.
LEMMA DRFChangesStep ==
  ASSUME DRFChanges
  PROVE  DRF!Next
<1>1. CASE ClientsIn(drfTree') = ClientsIn(drfTree)
  <2>1. DRF!ChangeTotal
    BY <1>1 DEF DRF!ChangeTotal, DRFChanges
  <2> QED BY <2>1 DEF DRF!Next, DRFChanges
<1>2. CASE ClientsIn(drfTree') # ClientsIn(drfTree)
  <2>1. DRF!ChangeClient
    BY <1>2, SameCalls DEF DRF!ChangeClient, DRFChanges
  <2> QED BY <2>1 DEF DRF!Next, DRFChanges
<1> QED BY <1>1, <1>2

\* Every call but sort() forgets what sort() returned.
LEMMA DRFForgets ==
  /\ \A c \in Client : Add(c) \/ RemoveC(c) \/ SetActive(c) => drfSorted' = <<>>
  /\ \A path \in Weighted, weight \in 2..MaxWeight :
       UpdateWeight(path, weight) => drfSorted' = <<>>
  /\ \A c \in Client, s \in Slave, x \in Quantity :
       Allocated(c, s, x) \/ Unallocated(c, s, x) \/ Update(c, s, x) => drfSorted' = <<>>
  /\ \A s \in Slave, x \in Quantity : ChangeTotal(s, x) => drfSorted' = <<>>
<1>1. \A c \in Client : Add(c) \/ RemoveC(c) \/ SetActive(c) => drfSorted' = <<>>
  BY DEF Add, D!Add, RemoveC, D!RemoveC, SetActive, D!Activate, D!Deactivate, D!MakeDirty
<1>2. \A path \in Weighted, weight \in 2..MaxWeight :
        UpdateWeight(path, weight) => drfSorted' = <<>>
  BY DEF UpdateWeight, D!UpdateWeight, D!MakeDirty
<1>3. \A c \in Client, s \in Slave, x \in Quantity :
        Allocated(c, s, x) \/ Unallocated(c, s, x) \/ Update(c, s, x) => drfSorted' = <<>>
  <2>1. ASSUME NEW c \in Client, NEW s \in Slave, NEW x \in Quantity
        PROVE  /\ Allocated(c, s, x) => drfSorted' = <<>>
               /\ Unallocated(c, s, x) => drfSorted' = <<>>
               /\ Update(c, s, x) => drfSorted' = <<>>
    <3>1. Allocated(c, s, x) => drfSorted' = <<>>
      BY Zenon DEF Allocated, D!Allocated
    <3>2. Unallocated(c, s, x) => drfSorted' = <<>>
      BY Zenon DEF Unallocated, D!Unallocated, D!MakeDirty
    <3>3. Update(c, s, x) => drfSorted' = <<>>
      BY Zenon DEF Update, D!Update, D!MakeDirty
    <3> QED BY <3>1, <3>2, <3>3
  <2> QED BY <2>1
<1>4. \A s \in Slave, x \in Quantity : ChangeTotal(s, x) => drfSorted' = <<>>
  BY DEF ChangeTotal, D!AddTotal, D!RemoveTotal, D!MakeDirty
<1> QED BY <1>1, <1>2, <1>3, <1>4

\* sort() of the DRFSorter, whatever it lists.
DRFSorts == Sort /\ ClientsIn(drfTree') = ClientsIn(drfTree) /\ UNCHANGED total

\* Every other step of the DRFSorter is one of Sorter.
LEMMA DRFSimulates ==
  IInv /\ IInv' /\ [Next]_vars => [DRF!Next \/ DRFSorts]_(DRF!vars)
<1> SUFFICES ASSUME IInv, IInv', [Next]_vars
             PROVE  [DRF!Next \/ DRFSorts]_(DRF!vars)
  OBVIOUS
<1>0. Good(drfTree) /\ Good(drfTree') /\ total \in Held /\ weights \in [Weighted -> Nat \ {0}]
  BY DEF IInv, Books
<1>1. ASSUME NEW c \in Client, Add(c)
      PROVE  DRFChanges
  BY <1>0, <1>1, AddStep, AddSimulates, DRFForgets DEF DRFChanges, SamePool
<1>2. ASSUME NEW c \in Client, RemoveC(c)
      PROVE  DRFChanges
  BY <1>0, <1>2, RemoveStep, RemoveSimulates, DRFForgets DEF DRFChanges, SamePool
<1>3. ASSUME NEW c \in Client, SetActive(c)
      PROVE  DRFChanges
  BY <1>0, <1>3, SetActiveStep, SetKindSimulates, DRFForgets DEF DRFChanges, SamePool
<1>4. ASSUME NEW path \in Weighted, NEW weight \in 2..MaxWeight, UpdateWeight(path, weight)
      PROVE  DRFChanges
  <2>1. /\ drfTree' = Reweighted(drfTree, path, weight) /\ UNCHANGED total
        /\ drfSorted' = <<>> /\ weight \in Int
    BY <1>4, UpdateWeightStep, DRFForgets
  <2>2. Retuned(drfTree, drfTree')
    BY <1>0, <2>1, ReweightedKeeps
  <2>3. ClientsIn(drfTree') = ClientsIn(drfTree)
    BY <1>0, <2>2, SameClients DEF Retuned, Good
  <2> QED BY <2>1, <2>3 DEF DRFChanges
<1>5. ASSUME NEW c \in Client, NEW s \in Slave, NEW x \in Quantity,
             Allocated(c, s, x) \/ Unallocated(c, s, x) \/ Update(c, s, x)
      PROVE  DRFChanges
  <2>1. CASE Allocated(c, s, x)
    <3>1. /\ c \in ClientsOf(drfTree) /\ SamePool /\ drfSorted' = <<>>
          /\ \E which : drfTree' = Cached(WithMore(drfTree, c, s, x), weights, which)
      BY <2>1, AllocatedStep, DRFForgets
    <3>2. PICK T : T = WithMore(drfTree, c, s, x)
      OBVIOUS
    <3>3. Good(T)
      BY <1>0, <3>1, <3>2, AllocatedKeeps DEF WithMore, Rebooked
    <3>4. Retuned(T, drfTree')
      BY <1>0, <3>1, <3>2, <3>3, CachedKeeps
    <3>5. ClientsIn(drfTree') = ClientsIn(T)
      BY <1>0, <3>3, <3>4, SameClients DEF Retuned, Good
    <3>6. ClientsIn(T) \in Random!Booked(ClientsIn(drfTree))
      BY <1>0, <3>1, <3>2, CallsBook
    <3> QED BY <3>1, <3>5, <3>6 DEF DRFChanges, SamePool
  <2>2. CASE Unallocated(c, s, x)
    BY <1>0, <2>2, UnallocatedStep, CallsBook, DRFForgets DEF DRFChanges, SamePool
  <2>3. CASE Update(c, s, x)
    BY <1>0, <2>3, UpdateStep, CallsBook, DRFForgets DEF DRFChanges, SamePool
  <2> QED BY <1>5, <2>1, <2>2, <2>3
<1>6. ASSUME NEW s \in Slave, NEW x \in Quantity, ChangeTotal(s, x)
      PROVE  DRF!Next
  <2>1. /\ drfTree' = drfTree /\ drfSorted' = <<>>
        /\ total' \in DRF!Changes(total)
    BY <1>0, <1>6, ChangeTotalStep, TotalsChange, DRFForgets, SameCalls
  <2>2. DRF!ChangeTotal
    BY <2>1 DEF DRF!ChangeTotal
  <2> QED BY <2>1, <2>2 DEF DRF!Next
<1>7. CASE Sort
  <2>1. drfTree' = drfTree \/ \E which : drfTree' = Cached(drfTree, weights, which)
    BY <1>7, SortStep
  <2>2. Retuned(drfTree, drfTree')
    BY <1>0, <2>1, SortedTree DEF IInv, CurrentWeights
  <2>3. ClientsIn(drfTree') = ClientsIn(drfTree)
    BY <1>0, <2>2, SameClients DEF Retuned, Good
  <2> QED BY <1>7, <2>3, SortStep DEF DRFSorts, SamePool
<1>8. CASE UNCHANGED vars
  BY <1>8 DEF vars, drfVars, DRF!vars
<1> QED BY <1>1, <1>2, <1>3, <1>4, <1>5, <1>6, <1>7, <1>8, DRFChangesStep DEF Next

\* A tree weighs the same when its kinds and the weights that getWeight returns are the same.
LEMMA SameWeighed ==
  ASSUME NEW T, NEW U, NEW ws, DOMAIN U = DOMAIN T,
         \A p \in DOMAIN T : /\ U[p].kind = T[p].kind
                             /\ \/ U[p].weight = T[p].weight
                                \/ U[p].weight = WeightOf(T, ws, p)
  PROVE  R!Weighed(U, ws) = R!Weighed(T, ws)
<1>1. ASSUME NEW p \in DOMAIN T
      PROVE  WeightOf(U, ws, p) = WeightOf(T, ws, p)
  BY <1>1 DEF WeightOf
<1>2. \A V, p : R!WeightOf(V, ws, p) = WeightOf(V, ws, p)
  BY DEF R!WeightOf, WeightOf, R!Configured, Configured, R!Unset, Unset, R!Default, Default
<1> QED BY <1>1, <1>2 DEF R!Weighed

\* Steps keep the relative weights fresh.
LEMMA StaysFresh ==
  IInv /\ IInv' /\ RelativeWeightsAreFresh /\ [Next]_vars => RelativeWeightsAreFresh'
<1> SUFFICES ASSUME IInv, IInv', RelativeWeightsAreFresh, [Next]_vars
             PROVE  RelativeWeightsAreFresh'
  OBVIOUS
<1>1. ASSUME NEW c \in Client, Add(c) \/ RemoveC(c) \/ SetActive(c)
      PROVE  sortInfo'.dirty
  BY <1>1, AddStep, RemoveStep, SetActiveStep
<1>2. ASSUME NEW path \in Weighted, NEW weight \in 2..MaxWeight, UpdateWeight(path, weight)
      PROVE  sortInfo'.dirty
  BY <1>2, UpdateWeightStep
<1>3. ASSUME NEW c, c \in ClientsOf(randomTree), Rebooked(randomTree, randomTree', c), SamePool,
             UNCHANGED sortInfo
      PROVE  RelativeWeightsAreFresh'
  <2>1. R!Weighed(randomTree', weights) = R!Weighed(randomTree, weights)
    <3>1. PICK U : U = randomTree'
      OBVIOUS
    <3>2. /\ DOMAIN U = DOMAIN randomTree
          /\ \A p \in DOMAIN randomTree : /\ U[p].kind = randomTree[p].kind
                                          /\ U[p].weight = randomTree[p].weight
      BY <1>3, <3>1 DEF Rebooked, SameWeights
    <3>3. R!Weighed(U, weights) = R!Weighed(randomTree, weights)
      BY <3>2, SameWeighed
    <3> QED BY <3>1, <3>3
  <2> QED BY <1>3, <2>1 DEF RelativeWeightsAreFresh, SamePool
<1>4. ASSUME NEW c \in Client, NEW s \in Slave, NEW x \in Quantity,
             Allocated(c, s, x) \/ Unallocated(c, s, x) \/ Update(c, s, x)
      PROVE  RelativeWeightsAreFresh'
  <2>0. Good(randomTree) /\ x \in Amounts /\ Zero \in Amounts
    BY QuantityType DEF IInv, Books
  <2>1. CASE Allocated(c, s, x)
    <3>1. /\ c \in ClientsOf(randomTree) /\ randomTree' = WithMore(randomTree, c, s, x)
          /\ SamePool /\ UNCHANGED sortInfo
      BY <2>1, AllocatedStep
    <3>2. Rebooked(randomTree, randomTree', c)
      BY <2>0, <3>1, AllocatedKeeps DEF WithMore
    <3> QED BY <1>3, <3>1, <3>2
  <2>2. CASE Unallocated(c, s, x)
    <3>1. /\ c \in ClientsOf(randomTree) /\ randomTree' = WithLess(randomTree, c, s, x)
          /\ CanSubtract(HeldBy(randomTree, c), s, x) /\ SamePool /\ UNCHANGED sortInfo
      BY <2>2, UnallocatedStep
    <3>2. Rebooked(randomTree, randomTree', c)
      BY <2>0, <3>1, UnallocatedKeeps DEF WithLess
    <3> QED BY <1>3, <3>1, <3>2
  <2>3. CASE Update(c, s, x)
    <3>1. /\ c \in ClientsOf(randomTree)
          /\ CanSubtract(HeldBy(randomTree, c), s, x) /\ SamePool /\ UNCHANGED sortInfo
      BY <2>3, UpdateStep
    <3>2. PICK y \in Amounts : randomTree' = WithNew(randomTree, c, s, x, y)
      BY <2>0, <2>3, UpdateStep
    <3>3. Rebooked(randomTree, randomTree', c)
      BY <2>0, <3>1, <3>2, UpdateKeeps DEF WithNew
    <3> QED BY <1>3, <3>1, <3>3
  <2> QED BY <1>4, <2>1, <2>2, <2>3
<1>5. ASSUME NEW s \in Slave, NEW x \in Quantity, ChangeTotal(s, x)
      PROVE  RelativeWeightsAreFresh'
  BY <1>5, ChangeTotalStep DEF RelativeWeightsAreFresh
<1>6. CASE Sort
  <2>1. CASE sortInfo.dirty
    <3>1. /\ sortInfo'.relative = R!Relative(R!Weighed(randomTree, weights))
          /\ UNCHANGED weights
          /\ randomTree' = Cached(randomTree, weights, R!ActiveNodes(randomTree))
      BY <1>6, <2>1, RandomTree DEF Sort, R!Sort
    <3>2. PICK U : U = randomTree'
      OBVIOUS
    <3>3. /\ DOMAIN U = DOMAIN randomTree
          /\ \A p \in DOMAIN randomTree :
               /\ U[p].kind = randomTree[p].kind
               /\ U[p].weight = randomTree[p].weight \/ U[p].weight = WeightOf(randomTree, weights, p)
      <4>1. \A p \in DOMAIN randomTree : randomTree[p] \in Nodes
        BY DEF IInv, Books, Good, Shape, Typed
      <4> QED BY <3>1, <3>2, <4>1 DEF Cached, Nodes
    <3>4. R!Weighed(U, weights) = R!Weighed(randomTree, weights)
      BY <3>3, SameWeighed
    <3> QED BY <3>1, <3>2, <3>4 DEF RelativeWeightsAreFresh
  <2>2. CASE ~sortInfo.dirty
    BY <1>6, <2>2 DEF Sort, R!Sort, RelativeWeightsAreFresh
  <2> QED BY <2>1, <2>2
<1>7. CASE UNCHANGED vars
  BY <1>7 DEF vars, randomVars, RelativeWeightsAreFresh
<1> QED BY <1>1, <1>2, <1>4, <1>5, <1>6, <1>7 DEF Next, RelativeWeightsAreFresh

\* What sortInfo remembers while it is clean is what sort() would work out: no call that
\* leaves it clean has a part in the relative weights, and reading the weights into the
\* nodes changes none (SortInfo, random/sorter.cpp).
THEOREM RelativeWeightsStayFresh ==
  Spec => []RelativeWeightsAreFresh
<1>1. Init => RelativeWeightsAreFresh
  BY DEF Init, R!Init, RelativeWeightsAreFresh
<1> QED BY <1>1, StaysFresh, Invariant, PTL DEF Spec

-----------------------------------------------------------------------------
(* The DRFSorter's order.                                                  *)

\* More of what it takes from SorterTree.
LEMMA DRFNodes ==
  /\ D!Root = Root
  /\ \A p : /\ D!Virtual(p) = Virtual(p) /\ D!IsVirtual(p) = IsVirtual(p)
            /\ D!ClientPath(p) = ClientPath(p) /\ D!Above(p) = Above(p) /\ D!Front(p) = Front(p)
            /\ D!ToSet(p) = ToSet(p) /\ D!SetToSeqs(p) = SetToSeqs(p) /\ D!Cardinality(p) = Cardinality(p)
  /\ \A p, q : D!IsPrefix(p, q) = IsPrefix(p, q) /\ D!Among(p, q) = Among(p, q)
  /\ \A T, p : D!IsLeaf(T, p) = IsLeaf(T, p) /\ D!ChildrenOf(T, p) = ChildrenOf(T, p)
  /\ \A h : D!TotalOf(h) = TotalOf(h)
  /\ \A T, ws, p : D!WeightOf(T, ws, p) = WeightOf(T, ws, p)
<1>1. D!Root = Root /\ D!Unset = Unset /\ D!Default = Default
  BY DEF D!Root, Root, D!Unset, Unset, D!Default, Default
<1>2. \A p : /\ D!Virtual(p) = Virtual(p) /\ D!IsVirtual(p) = IsVirtual(p)
             /\ D!ClientPath(p) = ClientPath(p) /\ D!Above(p) = Above(p)
             /\ D!Front(p) = Front(p) /\ D!ToSet(p) = ToSet(p) /\ D!Cardinality(p) = Cardinality(p)
  BY DEF D!Virtual, Virtual, D!IsVirtual, IsVirtual, D!ClientPath, ClientPath, D!Above, Above,
         D!Root, Root, D!Front, Front, D!Last, Last, D!ToSet, ToSet, D!Cardinality, Cardinality
<1>3. \A p : D!SetToSeqs(p) = SetToSeqs(p)
  BY <1>2 DEF D!SetToSeqs, SetToSeqs
<1>4. \A p, q : D!IsPrefix(p, q) = IsPrefix(p, q)
  BY DEF D!IsPrefix, IsPrefix
<1>5. \A p, q : D!Among(p, q) = Among(p, q)
  BY DEF D!Among, Among, D!FoldLeft, FoldLeft, D!MapThenFoldSet, MapThenFoldSet, D!Max, Max
<1>6. \A T, p : D!IsLeaf(T, p) = IsLeaf(T, p) /\ D!ChildrenOf(T, p) = ChildrenOf(T, p)
  BY <1>1, <1>2 DEF D!IsLeaf, IsLeaf, D!ChildrenOf, ChildrenOf
<1>7. \A h : D!TotalOf(h) = TotalOf(h)
  BY DEF D!TotalOf, TotalOf, D!SumFunction, SumFunction, D!SumFunctionOnSet, SumFunctionOnSet,
         D!FoldFunctionOnSet, FoldFunctionOnSet, D!MapThenFoldSet, MapThenFoldSet
<1>8. \A T, ws, p : D!WeightOf(T, ws, p) = WeightOf(T, ws, p)
  BY <1>1 DEF D!WeightOf, WeightOf, D!Configured, Configured
<1> QED BY <1>1, <1>2, <1>3, <1>4, <1>5, <1>6, <1>7, <1>8

-----------------------------------------------------------------------------
(* Shares.                                                                 *)

\* A share is a fraction.
Fractions == Nat \X (Nat \ {0})

\* What is at most a fraction is at most a greater one.
LEMMA AtMostChain ==
  ASSUME NEW a \in Nat, NEW b \in Nat \ {0}, NEW c \in Nat, NEW d \in Nat \ {0},
         NEW e \in Nat, NEW f \in Nat \ {0}, a * d <= c * b, c * f <= e * d
  PROVE  a * f <= e * b
<1>1. (a * d) * f <= (c * b) * f
  OBVIOUS
<1>2. (c * f) * b <= (e * d) * b
  OBVIOUS
<1>3. (a * f) * d <= (e * b) * d
  BY <1>1, <1>2
<1>4. ASSUME e * b < a * f PROVE FALSE
  <2> DEFINE x == a * f
             y == e * b
  <2>1. x \in Nat /\ y \in Nat /\ y < x
    BY <1>4
  <2>2. x * d <= y * d
    BY <1>3
  <2> HIDE DEF x, y
  <2>3. (y + 1) * d <= x * d
    BY <2>1
  <2>4. (y + 1) * d = y * d + d /\ y * d \in Nat /\ x * d \in Nat
    BY <2>1
  <2> QED BY <2>2, <2>3, <2>4
<1> QED BY <1>4

\* Fractions are ordered, as some are the same.
LEMMA FractionsOrdered ==
  ASSUME NEW x \in Fractions, NEW y \in Fractions, NEW z \in Fractions
  PROVE  /\ ~D!Less(x, x) /\ D!Same(x, x)
         /\ D!Less(x, y) \/ D!Same(x, y) \/ D!Less(y, x)
         /\ D!Same(x, y) => D!Same(y, x) /\ ~D!Less(x, y)
         /\ D!Less(x, y) /\ (D!Less(y, z) \/ D!Same(y, z)) => D!Less(x, z)
         /\ D!Same(x, y) /\ D!Less(y, z) => D!Less(x, z)
         /\ D!Same(x, y) /\ D!Same(y, z) => D!Same(x, z)
<1> DEFINE AtMost(u, v) == u[1] * v[2] <= v[1] * u[2]
<1>1. \A u, v \in Fractions : u[1] * v[2] \in Nat
  BY DEF Fractions
<1>2. \A u, v \in Fractions : /\ D!Less(u, v) <=> ~AtMost(v, u)
                              /\ D!Same(u, v) <=> AtMost(u, v) /\ AtMost(v, u)
                              /\ AtMost(u, v) \/ AtMost(v, u)
  BY <1>1 DEF D!Less, D!Same
<1>3. \A u, v, w \in Fractions : AtMost(u, v) /\ AtMost(v, w) => AtMost(u, w)
  <2> SUFFICES ASSUME NEW u \in Fractions, NEW v \in Fractions, NEW w \in Fractions,
                      AtMost(u, v), AtMost(v, w)
               PROVE  AtMost(u, w)
    OBVIOUS
  <2> DEFINE a == u[1]
             b == u[2]
             c == v[1]
             d == v[2]
             e == w[1]
             f == w[2]
  <2>1. /\ a \in Nat /\ b \in Nat \ {0} /\ c \in Nat /\ d \in Nat \ {0}
        /\ e \in Nat /\ f \in Nat \ {0}
    BY DEF Fractions
  <2>2. a * d <= c * b /\ c * f <= e * d
    OBVIOUS
  <2> HIDE DEF a, b, c, d, e, f
  <2>3. a * f <= e * b
    BY <2>1, <2>2, AtMostChain
  <2> QED BY <2>3 DEF a, b, e, f
<1> HIDE DEF AtMost
<1> QED BY <1>2, <1>3

\* Of nodes with a share and a count, compareDRF puts one before the other.
Ranks(S, sh, cnt) ==
  /\ \A p \in S : ~D!Before(p, p, sh, cnt)
  /\ \A p, q, r \in S : D!Before(p, q, sh, cnt) /\ D!Before(q, r, sh, cnt) => D!Before(p, r, sh, cnt)
  /\ \A p, q \in S : p = q \/ D!Before(p, q, sh, cnt) \/ D!Before(q, p, sh, cnt)

\* compareDRF does so for nodes that have a fraction for a share.
LEMMA BeforeRanks ==
  ASSUME NEW S \in SUBSET NodePaths, NEW sh, NEW cnt,
         \A p \in S : sh[p] \in Fractions /\ cnt[p] \in Nat
  PROVE  Ranks(S, sh, cnt)
<1>1. ASSUME NEW p \in S, NEW q \in S, NEW r \in S
      PROVE  /\ ~D!Before(p, p, sh, cnt)
             /\ D!Before(p, q, sh, cnt) /\ D!Before(q, r, sh, cnt) => D!Before(p, r, sh, cnt)
             /\ p = q \/ D!Before(p, q, sh, cnt) \/ D!Before(q, p, sh, cnt)
  <2>1. /\ ~D!PathBefore(p, p)
        /\ D!PathBefore(p, q) /\ D!PathBefore(q, r) => D!PathBefore(p, r)
        /\ p = q \/ D!PathBefore(p, q) \/ D!PathBefore(q, p)
    BY PathOrderAssumption DEF D!PathBefore
  <2>2. /\ ~D!Less(sh[p], sh[p]) /\ D!Same(sh[p], sh[p])
        /\ D!Less(sh[p], sh[q]) \/ D!Same(sh[p], sh[q]) \/ D!Less(sh[q], sh[p])
        /\ D!Same(sh[p], sh[q]) => D!Same(sh[q], sh[p]) /\ ~D!Less(sh[p], sh[q])
        /\ D!Less(sh[p], sh[q]) /\ (D!Less(sh[q], sh[r]) \/ D!Same(sh[q], sh[r])) =>
             D!Less(sh[p], sh[r])
        /\ D!Same(sh[p], sh[q]) /\ D!Less(sh[q], sh[r]) => D!Less(sh[p], sh[r])
        /\ D!Same(sh[p], sh[q]) /\ D!Same(sh[q], sh[r]) => D!Same(sh[p], sh[r])
    BY FractionsOrdered
  <2>3. /\ ~(cnt[p] < cnt[p]) /\ (cnt[p] < cnt[q] /\ cnt[q] < cnt[r] => cnt[p] < cnt[r])
        /\ cnt[p] < cnt[q] \/ cnt[p] = cnt[q] \/ cnt[q] < cnt[p]
    OBVIOUS
  <2> QED BY <2>1, <2>2, <2>3 DEF D!Before
<1> QED BY <1>1 DEF Ranks

-----------------------------------------------------------------------------
(* Children in a sequence.                                                 *)

\* cs are the elements of S, each once and the inactive leaves last.
Lists(T, cs, S) ==
  /\ cs \in Seq(S) /\ \A x \in S : \E i \in DOMAIN cs : cs[i] = x
  /\ \A i, j \in DOMAIN cs : i # j => cs[i] # cs[j]
  /\ \A i, j \in DOMAIN cs : i < j /\ T[cs[i]].kind = "inactive" => T[cs[j]].kind = "inactive"

\* Elements of P are in ds as they are in cs.
SameOrder(ds, cs, P) ==
  \A i, j \in DOMAIN ds : i < j /\ ds[i] \in P /\ ds[j] \in P =>
    \E k, l \in DOMAIN cs : k < l /\ cs[k] = ds[i] /\ cs[l] = ds[j]

\* One child more.
LEMMA AddChildLists ==
  ASSUME NEW T, NEW S, NEW cs, Lists(T, cs, S), NEW p, p \notin S,
         NEW ds, ds = D!AddChild(cs, p, T[p].kind)
  PROVE  Lists(T, ds, S \cup {p}) /\ SameOrder(ds, cs, S)
<1>1. /\ cs \in Seq(S) /\ Len(cs) \in Nat /\ DOMAIN cs = 1..Len(cs)
      /\ \A i \in DOMAIN cs : cs[i] \in S
  BY DEF Lists
<1>2. CASE T[p].kind = "inactive"
  <2>1. /\ ds \in Seq(S \cup {p}) /\ DOMAIN ds = 1..Len(cs)+1 /\ ds[Len(cs)+1] = p
        /\ \A i \in DOMAIN cs : ds[i] = cs[i]
    BY <1>1, <1>2 DEF D!AddChild
  <2>2. \A x \in S \cup {p} : \E i \in DOMAIN ds : ds[i] = x
    BY <1>1, <2>1 DEF Lists
  <2>3. \A i, j \in DOMAIN ds : i # j => ds[i] # ds[j]
    BY <1>1, <2>1 DEF Lists
  <2>4. \A i, j \in DOMAIN ds : i < j /\ T[ds[i]].kind = "inactive" => T[ds[j]].kind = "inactive"
    BY <1>1, <1>2, <2>1 DEF Lists
  <2>5. \A i \in DOMAIN ds : ds[i] \in S => i \in DOMAIN cs /\ cs[i] = ds[i]
    BY <1>1, <2>1
  <2>6. SameOrder(ds, cs, S)
    BY <2>5 DEF SameOrder
  <2> QED BY <2>1, <2>2, <2>3, <2>4, <2>6 DEF Lists
<1>3. CASE T[p].kind # "inactive"
  <2>1. /\ ds \in Seq(S \cup {p}) /\ DOMAIN ds = 1..Len(cs)+1 /\ ds[1] = p
        /\ \A i \in DOMAIN ds : i # 1 => i - 1 \in DOMAIN cs /\ ds[i] = cs[i - 1]
    BY <1>1, <1>3 DEF D!AddChild
  <2>2. \A x \in S \cup {p} : \E i \in DOMAIN ds : ds[i] = x
    <3>1. ASSUME NEW i \in DOMAIN cs PROVE i + 1 \in DOMAIN ds /\ ds[i + 1] = cs[i]
      <4>1. i + 1 \in DOMAIN ds /\ i + 1 # 1 /\ (i + 1) - 1 = i
        BY <1>1, <2>1
      <4> QED BY <2>1, <4>1
    <3>2. \A x \in S : \E i \in DOMAIN ds : ds[i] = x
      BY <3>1 DEF Lists
    <3>3. 1 \in DOMAIN ds
      BY <1>1, <2>1
    <3> QED BY <2>1, <3>2, <3>3
  <2>3. \A i, j \in DOMAIN ds : i # j => ds[i] # ds[j]
    <3> SUFFICES ASSUME NEW i \in DOMAIN ds, NEW j \in DOMAIN ds, i # j PROVE ds[i] # ds[j]
      OBVIOUS
    <3>1. CASE i = 1
      BY <1>1, <2>1, <3>1
    <3>2. CASE j = 1
      BY <1>1, <2>1, <3>2
    <3>3. CASE i # 1 /\ j # 1
      <4>1. i - 1 \in DOMAIN cs /\ j - 1 \in DOMAIN cs /\ i - 1 # j - 1
        BY <1>1, <2>1, <3>3
      <4> QED BY <2>1, <3>3, <4>1 DEF Lists
    <3> QED BY <3>1, <3>2, <3>3
  <2>4. \A i, j \in DOMAIN ds : i < j /\ T[ds[i]].kind = "inactive" => T[ds[j]].kind = "inactive"
    <3> SUFFICES ASSUME NEW i \in DOMAIN ds, NEW j \in DOMAIN ds, i < j,
                        T[ds[i]].kind = "inactive"
                 PROVE  T[ds[j]].kind = "inactive"
      OBVIOUS
    <3>1. i # 1 /\ j # 1 /\ i - 1 < j - 1
      BY <1>3, <2>1
    <3> QED BY <2>1, <3>1 DEF Lists
  <2>5. SameOrder(ds, cs, S)
    <3> SUFFICES ASSUME NEW i \in DOMAIN ds, NEW j \in DOMAIN ds, i < j, ds[i] \in S, ds[j] \in S
                 PROVE  \E k, l \in DOMAIN cs : k < l /\ cs[k] = ds[i] /\ cs[l] = ds[j]
      BY DEF SameOrder
    <3>1. i # 1 /\ j # 1 /\ i - 1 < j - 1
      BY <2>1
    <3> QED BY <2>1, <3>1
  <2> QED BY <2>1, <2>2, <2>3, <2>4, <2>5 DEF Lists
<1> QED BY <1>2, <1>3

\* One more, or none.
LEMMA AddAnyLists ==
  ASSUME NEW T, NEW S, NEW cs, Lists(T, cs, S), NEW P, P \cap S = {},
         \A p, q \in P : p = q, NEW ds, ds = D!AddAny(cs, P, T)
  PROVE  Lists(T, ds, S \cup P) /\ SameOrder(ds, cs, S)
<1>1. CASE P = {}
  <2>1. ds = cs /\ S \cup P = S
    BY <1>1 DEF D!AddAny
  <2> QED BY <2>1 DEF SameOrder
<1>2. CASE P # {}
  <2> DEFINE p == CHOOSE q \in P : TRUE
  <2>1. p \in P
    BY <1>2
  <2>2. ds = D!AddChild(cs, p, T[p].kind)
    BY <1>2 DEF D!AddAny
  <2> HIDE DEF p
  <2>3. p \notin S /\ S \cup P = S \cup {p}
    BY <2>1
  <2> QED BY <2>2, <2>3, AddChildLists
<1> QED BY <1>1, <1>2

\* What of it is in a set.
LEMMA AmongLists ==
  ASSUME NEW T, NEW S, NEW cs, Lists(T, cs, S), NEW W, NEW U,
         \A x \in S \cap W : U[x].kind = T[x].kind, NEW ds, ds = Among(cs, W)
  PROVE  Lists(U, ds, S \cap W) /\ SameOrder(ds, cs, S)
<1>1. /\ cs \in Seq(S) /\ Len(cs) \in Nat /\ DOMAIN cs = 1..Len(cs)
      /\ \A i \in DOMAIN cs : cs[i] \in S
  BY DEF Lists
<1>2. ds \in Seq(S) /\ \E h : Picks(ds, cs, Len(cs), W, h)
  BY <1>1, AmongPicks
<1>3. PICK h : Picks(ds, cs, Len(cs), W, h)
  BY <1>2
<1>4. Len(ds) \in Nat /\ DOMAIN ds = 1..Len(ds)
  BY <1>2
<1>5. /\ \A i \in DOMAIN ds : h[i] \in DOMAIN cs /\ ds[i] = cs[h[i]] /\ ds[i] \in S \cap W
      /\ \A i, j \in DOMAIN ds : i < j => h[i] < h[j]
      /\ \A k \in DOMAIN cs : cs[k] \in W => \E i \in DOMAIN ds : h[i] = k
  <2>1. h \in [1..Len(ds) -> 1..Len(cs)]
    BY <1>3 DEF Picks
  <2> QED BY <1>1, <1>3, <1>4, <2>1 DEF Picks
<1>6. ds \in Seq(S \cap W)
  BY <1>2, <1>4, <1>5
<1>7. \A x \in S \cap W : \E i \in DOMAIN ds : ds[i] = x
  BY <1>5 DEF Lists
<1>8. ASSUME NEW i \in DOMAIN ds, NEW j \in DOMAIN ds, i # j PROVE ds[i] # ds[j]
  <2>1. h[i] # h[j]
    BY <1>1, <1>4, <1>5, <1>8
  <2> QED BY <1>5, <2>1 DEF Lists
<1>9. \A i, j \in DOMAIN ds : i < j /\ U[ds[i]].kind = "inactive" => U[ds[j]].kind = "inactive"
  BY <1>5 DEF Lists
<1>10. SameOrder(ds, cs, S)
  BY <1>5 DEF SameOrder
<1> QED BY <1>6, <1>7, <1>8, <1>9, <1>10 DEF Lists

-----------------------------------------------------------------------------
(* The children of a tree that changed.                                    *)

\* The children of every node of T that has some.
Listing(T, ch) ==
  /\ DOMAIN ch = {p \in DOMAIN T : T[p].kind = "internal"}
  /\ \A p \in DOMAIN ch : Lists(T, ch[p], ChildrenOf(T, p))

\* The nodes of U that are in T, and of the same kind.
Staying(T, U) == {p \in DOMAIN U : p \in DOMAIN T /\ U[p].kind = T[p].kind}

\* The others are above c, but for virtual leaves.
OnBranch(T, U, c) == \A p \in DOMAIN U \ Staying(T, U) : IsVirtual(p) \/ IsPrefix(p, c)

\* So that no node has two of them as children, besides its virtual leaf.
LEMMA OneOnBranch ==
  ASSUME NEW T, NEW U, DOMAIN U \subseteq Paths, NEW c \in Paths, OnBranch(T, U, c), NEW p \in DOMAIN U,
         NEW q \in ChildrenOf(U, p) \ Staying(T, U), NEW r \in ChildrenOf(U, p) \ Staying(T, U),
         q # Virtual(p), r # Virtual(p)
  PROVE  q = r
<1>1. /\ q \in Paths /\ q # Root /\ Front(q) = p /\ r \in Paths /\ r # Root /\ Front(r) = p
      /\ q \in DOMAIN U /\ r \in DOMAIN U
  BY DEF ChildrenOf
<1>2. ~IsVirtual(q) /\ ~IsVirtual(r)
  <2>1. IsVirtual(q) => q = Virtual(p)
    BY <1>1, ClientOfVirtual DEF ClientPath
  <2>2. IsVirtual(r) => r = Virtual(p)
    BY <1>1, ClientOfVirtual DEF ClientPath
  <2> QED BY <2>1, <2>2
<1>3. IsPrefix(q, c) /\ IsPrefix(r, c)
  BY <1>1, <1>2 DEF OnBranch
<1>4. Len(q) = Len(r) /\ Len(q) \in Nat
  <2>1. Len(Front(q)) = Len(q) - 1 /\ Len(q) \in Nat
    BY <1>1, FrontOf
  <2>2. Len(Front(r)) = Len(r) - 1 /\ Len(r) \in Nat
    BY <1>1, FrontOf
  <2> QED BY <1>1, <2>1, <2>2
<1>5. IsPrefix(r, q)
  BY <1>1, <1>3, <1>4, PrefixOrder
<1> QED BY <1>1, <1>4, <1>5, PrefixOrder

\* A node's children before, none if it had none.
Had(ch, p) == IF p \in DOMAIN ch THEN ch[p] ELSE <<>>

\* They list what the tree before has below it.
LEMMA ListedBefore ==
  ASSUME NEW T, Shape(T), NEW ch, Listing(T, ch), NEW p
  PROVE  Lists(T, Had(ch, p), ChildrenOf(T, p))
<1>1. CASE p \in DOMAIN ch
  BY <1>1 DEF Listing, Had
<1>2. CASE p \notin DOMAIN ch
  <2>1. ASSUME NEW q \in ChildrenOf(T, p) PROVE FALSE
    <3>1. q \in DOMAIN T /\ q \in Paths /\ q # Root /\ Front(q) = p
      BY DEF ChildrenOf, Shape, Typed
    <3>2. IsPrefix(p, q) /\ p # q /\ p \in Paths
      BY <3>1, FrontOf
    <3>3. p \in DOMAIN T /\ T[p].kind = "internal"
      BY <3>1, <3>2 DEF Shape, Closed
    <3> QED BY <1>2, <3>3 DEF Listing
  <2>2. Had(ch, p) = <<>> /\ ChildrenOf(T, p) = {}
    BY <1>2, <2>1 DEF Had
  <2> QED BY <2>2 DEF Lists
<1> QED BY <1>1, <1>2

\* Rearranged gives the children of the new tree, and those that stay in the order they had.
LEMMA RearrangedLists ==
  ASSUME NEW c \in Paths, NEW U, Shape(drfTree), Shape(U), OnBranch(drfTree, U, c),
         Listing(drfTree, children), NEW ch, ch = D!Rearranged(U)
  PROVE  /\ Listing(U, ch)
         /\ \A p \in DOMAIN ch :
              SameOrder(ch[p], Had(children, p), Staying(drfTree, U))
<1> DEFINE W == Staying(drfTree, U)
           new(p) == ChildrenOf(U, p) \ W
           kept(p) == Among(Had(children, p), W)
           one(p) == D!AddAny(kept(p), new(p) \cap {Virtual(p)}, U)
           two(p) == D!AddAny(one(p), new(p) \ {Virtual(p)}, U)
<1>1. ch = [p \in {q \in DOMAIN U : U[q].kind = "internal"} |-> two(p)]
  <2> DEFINE moved == {p \in DOMAIN U : p \notin DOMAIN drfTree \/ U[p].kind # drfTree[p].kind}
  <2>1. DOMAIN U \ moved = W /\ \A p : ChildrenOf(U, p) \cap moved = new(p)
    BY DEF Staying, ChildrenOf
  <2>2. \A p : (IF p \in DOMAIN children THEN D!Among(children[p], W) ELSE <<>>) = kept(p)
    <3>1. Among(<<>>, W) = <<>>
      <4>1. <<>> \in Seq({}) /\ Len(<<>>) = 0
        OBVIOUS
      <4>2. Among(<<>>, W) \in Seq({})
        BY <4>1, AmongPicks
      <4> QED BY <4>2
    <3> QED BY <3>1, DRFNodes DEF Had
  <2>3. ch = [p \in {q \in DOMAIN U : ~D!IsLeaf(U, q)} |->
                D!AddAny(D!AddAny(IF p \in DOMAIN children THEN D!Among(children[p], DOMAIN U \ moved) ELSE <<>>,
                                  (D!ChildrenOf(U, p) \cap moved) \cap {D!Virtual(p)}, U),
                         (D!ChildrenOf(U, p) \cap moved) \ {D!Virtual(p)}, U)]
    BY DEF D!Rearranged
  <2> HIDE DEF moved, W, new, kept
  <2>4. \A p : D!ChildrenOf(U, p) = ChildrenOf(U, p) /\ D!Virtual(p) = Virtual(p)
               /\ (D!IsLeaf(U, p) <=> U[p].kind # "internal")
    BY DRFNodes DEF IsLeaf
  <2> QED BY <2>1, <2>2, <2>3, <2>4
<1>2. ASSUME NEW p \in DOMAIN ch
      PROVE  /\ Lists(U, ch[p], ChildrenOf(U, p))
             /\ SameOrder(ch[p], Had(children, p), W)
  <2> DEFINE S == ChildrenOf(drfTree, p)
             cs == Had(children, p)
  <2>1. p \in DOMAIN U /\ ch[p] = two(p)
    BY <1>1, <1>2
  <2>2. Lists(drfTree, cs, S)
    BY ListedBefore
  <2>3. \A x \in S \cap W : U[x].kind = drfTree[x].kind
    BY DEF Staying
  <2>4. Lists(U, kept(p), S \cap W) /\ SameOrder(kept(p), cs, S)
    BY <2>2, <2>3, AmongLists
  <2>5. Lists(U, one(p), (S \cap W) \cup (new(p) \cap {Virtual(p)}))
        /\ SameOrder(one(p), kept(p), S \cap W)
    BY <2>4, AddAnyLists
  <2>6. \A q, r \in new(p) \ {Virtual(p)} : q = r
    BY <2>1, OneOnBranch DEF Shape, Typed
  <2>7. /\ Lists(U, two(p), ((S \cap W) \cup (new(p) \cap {Virtual(p)})) \cup (new(p) \ {Virtual(p)}))
        /\ SameOrder(two(p), one(p), (S \cap W) \cup (new(p) \cap {Virtual(p)}))
    BY <2>5, <2>6, AddAnyLists
  <2>8. ((S \cap W) \cup (new(p) \cap {Virtual(p)})) \cup (new(p) \ {Virtual(p)}) = ChildrenOf(U, p)
    BY DEF ChildrenOf, Staying
  <2>9. \A x \in W : x \in ChildrenOf(U, p) => x \in S
    BY DEF ChildrenOf, Staying
  <2> HIDE DEF S, cs, kept, one, two, W
  <2>10. SameOrder(two(p), cs, W)
    <3> SUFFICES ASSUME NEW i \in DOMAIN two(p), NEW j \in DOMAIN two(p), i < j,
                        two(p)[i] \in W, two(p)[j] \in W
                 PROVE  \E k, l \in DOMAIN cs : k < l /\ cs[k] = two(p)[i] /\ cs[l] = two(p)[j]
      BY DEF SameOrder
    <3>1. two(p)[i] \in S \cap W /\ two(p)[j] \in S \cap W
      BY <2>7, <2>8, <2>9 DEF Lists
    <3>2. PICK k1, l1 \in DOMAIN one(p) : k1 < l1 /\ one(p)[k1] = two(p)[i] /\ one(p)[l1] = two(p)[j]
      BY <2>7, <3>1 DEF SameOrder
    <3>3. PICK k2, l2 \in DOMAIN kept(p) : k2 < l2 /\ kept(p)[k2] = two(p)[i] /\ kept(p)[l2] = two(p)[j]
      BY <2>5, <3>1, <3>2 DEF SameOrder
    <3> QED BY <2>4, <3>1, <3>3 DEF SameOrder
  <2> QED BY <2>1, <2>7, <2>8, <2>10 DEF cs
<1> QED BY <1>1, <1>2 DEF Listing

\* A new client has its new nodes on its branch.
LEMMA AddOnBranch ==
  ASSUME NEW T, Good(T), NEW c \in Client, NEW U, U = AddClient(T, c)
  PROVE  OnBranch(T, U, c) /\ DOMAIN U \subseteq DOMAIN T \cup NodePaths
<1> DEFINE p == Longest(Upwards(c) \cap DOMAIN T)
           leaf == IF p = c THEN Virtual(c) ELSE c
           B == IF IsLeaf(T, p) THEN Split(T, p) ELSE T
<1>1. U = Grown(B, p, leaf)
  BY DEF AddClient, Grown
<1>2. p \in DOMAIN T /\ p \in Paths /\ IsPrefix(p, c) /\ ~IsVirtual(p)
  BY LongestIs DEF Good
<1>3. c \in Paths /\ Virtual(c) \in Paths /\ leaf \in {c, Virtual(c)}
  BY ClientPaths, VirtualOf
<1> HIDE DEF p, leaf
<1>4. /\ DOMAIN B \subseteq DOMAIN T \cup {Virtual(p)} /\ (IsLeaf(T, p) \/ B = T)
      /\ \A q \in DOMAIN B \ {Virtual(p)} : q # p => B[q] = T[q]
  BY DEF Split
<1> HIDE DEF B
<1>5. /\ DOMAIN U = DOMAIN B \cup {q \in Above(leaf) : Len(q) > Len(p)}
      /\ \A q \in DOMAIN U : q \in Above(leaf) \/ U[q] = B[q]
  BY <1>1 DEF Grown
<1>6. \A q \in Above(leaf) : q \in NodePaths /\ (IsVirtual(q) \/ IsPrefix(q, c))
  <2> SUFFICES ASSUME NEW q \in Above(leaf)
               PROVE  q \in NodePaths /\ (IsVirtual(q) \/ IsPrefix(q, c))
    OBVIOUS
  <2>1. q \in Paths /\ IsPrefix(q, leaf)
    BY <1>3, UpwardsArePrefixes
  <2>2. q = Virtual(c) \/ IsPrefix(q, c)
    BY <1>3, <2>1, VirtualOf
  <2>3. IsPrefix(q, Virtual(c))
    BY <1>3, <2>1, <2>2, VirtualOf, PrefixOrder
  <2>4. q \in Upwards(Virtual(c))
    BY <1>3, <2>1, <2>3, UpwardsArePrefixes
  <2>5. IsVirtual(Virtual(c))
    BY <1>3, VirtualOf
  <2> QED BY <2>2, <2>4, <2>5 DEF NodePaths
<1>7. IsVirtual(Virtual(p))
  BY <1>2, VirtualOf
<1>8. OnBranch(T, U, c)
  <2> SUFFICES ASSUME NEW q \in DOMAIN U, q \notin Staying(T, U)
               PROVE  IsVirtual(q) \/ IsPrefix(q, c)
    BY DEF OnBranch
  <2>1. CASE q \in Above(leaf) \/ q = p \/ q = Virtual(p)
    BY <1>2, <1>6, <1>7, <2>1
  <2>2. CASE ~(q \in Above(leaf) \/ q = p \/ q = Virtual(p))
    <3>1. q \in DOMAIN B /\ U[q] = B[q] /\ B[q] = T[q] /\ q \in DOMAIN T
      BY <1>4, <1>5, <2>2
    <3> QED BY <3>1 DEF Staying
  <2> QED BY <2>1, <2>2
<1>9. IsLeaf(T, p) => Virtual(p) \in NodePaths
  <2> HAVE IsLeaf(T, p)
  <2>1. ClientPath(p) = p /\ p \in Client
    BY <1>2, ClientOfVirtual DEF Good, Shape, LeavesServe, IsLeaf
  <2>2. Virtual(p) \in Upwards(Virtual(p))
    BY <1>2, VirtualOf, UpwardsArePrefixes, PrefixOrder
  <2> QED BY <2>1, <2>2 DEF NodePaths
<1>10. DOMAIN U \subseteq DOMAIN T \cup NodePaths
  BY <1>4, <1>5, <1>6, <1>9
<1> QED BY <1>8, <1>10

\* One that is removed changes the kind of the node above it at most.
LEMMA RemoveOnBranch ==
  ASSUME NEW T, Good(T), NEW c \in ClientsOf(T), CanRemove(T, c), NEW U, U = RemoveClient(T, c)
  PROVE  OnBranch(T, U, c)
<1> DEFINE top == Shortest(Dead(T, c))
           f == Front(top)
           L == Left(T, c)
<1>1. U = Collapse(L, f)
  BY DEF RemoveClient, Left, Dead, HeldBy
<1>2. top \in Dead(T, c) /\ f \in DOMAIN T \ Dead(T, c)
  BY ShortestIs DEF Good
<1> HIDE DEF top
<1>3. /\ top \in Paths /\ IsPrefix(top, LeafOf(T, c)) /\ top # Root
      /\ LeafOf(T, c) \in Paths /\ LeafOf(T, c) \in Dead(T, c)
  BY <1>2, DeadAre, LeafIs DEF Good
<1>4. f \in Paths /\ IsPrefix(f, c)
  <2>1. f \in Paths /\ IsPrefix(f, top)
    BY <1>3, FrontOf
  <2>2. IsPrefix(f, LeafOf(T, c)) /\ f # LeafOf(T, c)
    BY <1>2, <1>3, <2>1, PrefixOrder
  <2> QED BY <2>1, <2>2, LeafIs DEF Good
<1> HIDE DEF f
<1>5. /\ DOMAIN L = DOMAIN T \ Dead(T, c)
      /\ \A p \in DOMAIN L : L[p].kind = T[p].kind
  <2>1. \A p \in DOMAIN T : T[p] \in Nodes
    BY DEF Good, Shape, Typed
  <2> QED BY <2>1 DEF Left, Nodes
<1> HIDE DEF L
<1>6. DOMAIN U \subseteq DOMAIN L /\ \A p \in DOMAIN U : p # f => U[p] = L[p]
  BY <1>1 DEF Collapse, Restrict
<1> QED BY <1>4, <1>5, <1>6 DEF OnBranch, Staying

\* And one in the sort, or out of it, that of its leaf.
LEMMA SetKindOnBranch ==
  ASSUME NEW T, Good(T), NEW c \in ClientsOf(T), NEW kind \in {"active", "inactive"},
         NEW U, U = SetKind(T, c, kind)
  PROVE  OnBranch(T, U, c)
<1>1. /\ DOMAIN U = DOMAIN T
      /\ \A p \in DOMAIN T : U[p].kind = IF p = LeafOf(T, c) THEN kind ELSE T[p].kind
  BY SetKindKeeps
<1>2. c \in Paths /\ LeafOf(T, c) \in {c, Virtual(c)}
  BY LeafIs DEF Good
<1>3. IsVirtual(Virtual(c)) /\ IsPrefix(c, c)
  BY <1>2, VirtualOf, PrefixOrder
<1> QED BY <1>1, <1>2, <1>3 DEF OnBranch, Staying

-----------------------------------------------------------------------------
(* The shares of nodes.                                                    *)

\* calculateShare, of the resources of the agents and the weights.
ShareIn(tot, ws, T, p) ==
  LET all == TotalOf(tot)
      held == TotalOf(T[p].held)
      parts == {<<held[k], all[k]>> : k \in {l \in Scalar \ Excluded : all[l] > 0}}
      dominant == D!Greatest(parts \cup {D!NoShare})
  IN  <<dominant[1], dominant[2] * WeightOf(T, ws, p)>>

\* It is what the DRFSorter works out.
LEMMA ShareOfIs ==
  ASSUME NEW T, NEW p
  PROVE  D!ShareOf(T, p) = ShareIn(total, weights, T, p)
BY DRFNodes DEF D!ShareOf, ShareIn

\* It depends on what the node holds and on its weight.
LEMMA SameShare ==
  ASSUME NEW tot, NEW ws, NEW T, NEW U, NEW p, U[p].held = T[p].held,
         WeightOf(U, ws, p) = WeightOf(T, ws, p)
  PROVE  ShareIn(tot, ws, U, p) = ShareIn(tot, ws, T, p)
BY DEF ShareIn

\* The totals of an allocation.
LEMMA TotalsType ==
  ASSUME NEW h \in Held
  PROVE  TotalOf(h) \in Amounts
<1>1. h = [s \in DOMAIN h |-> h[s]] /\ DOMAIN h \subseteq Slave /\ \A s \in DOMAIN h : h[s] \in Amounts
  BY HeldIs
<1>2. IsFiniteSet(DOMAIN h)
  BY <1>1, FiniteAssumption, FS_Subset
<1>3. ASSUME NEW k \in Scalar
      PROVE  SumFunction([s \in DOMAIN h |-> h[s][k]]) \in Nat
  <2> DEFINE g == [s \in DOMAIN h |-> h[s][k]]
  <2>1. g \in [DOMAIN h -> Nat]
    BY <1>1 DEF Amounts
  <2> HIDE DEF g
  <2>2. SumFunction(g) \in Nat
    BY <1>2, <2>1, SumFunctionType
  <2> QED BY <2>2 DEF g
<1> QED BY <1>3 DEF TotalOf, Amounts

\* A weight that counts is positive.
LEMMA WeightType ==
  ASSUME NEW T, NEW p, T[p].weight \in Nat, NEW ws, ws \in [Weighted -> Nat \ {0}]
  PROVE  WeightOf(T, ws, p) \in Nat \ {0}
BY DEF WeightOf, Configured, Unset, Default

\* A share is a fraction.
LEMMA ShareType ==
  ASSUME NEW tot \in Held, NEW ws, ws \in [Weighted -> Nat \ {0}], NEW T, NEW p, T[p] \in Nodes
  PROVE  ShareIn(tot, ws, T, p) \in Fractions
<1> DEFINE all == TotalOf(tot)
           held == TotalOf(T[p].held)
           K == {l \in Scalar \ Excluded : all[l] > 0}
           parts == {<<held[k], all[k]>> : k \in K}
           X == parts \cup {D!NoShare}
           Q == {e \in X \X X : D!Less(e[1], e[2])}
<1>1. all \in Amounts /\ held \in Amounts
  BY TotalsType DEF Nodes
<1>2. parts \subseteq Fractions
  BY <1>1 DEF Amounts, Fractions
<1>3. X \subseteq Fractions /\ X # {}
  <2>1. D!NoShare \in Fractions
    BY DEF D!NoShare, Fractions
  <2> HIDE DEF parts
  <2> QED BY <1>2, <2>1
<1>4. IsFiniteSet(X)
  <2> DEFINE f == [k \in K |-> <<held[k], all[k]>>]
  <2>1. IsFiniteSet(K)
    BY FiniteAssumption, FS_Subset
  <2>2. f \in Surjection(K, parts)
    BY DEF Surjection
  <2>3. IsFiniteSet(parts)
    BY <2>1, <2>2, FS_Surjection
  <2> QED BY <2>3, FS_AddElement
<1> HIDE DEF X
<1>5. StrictOn(Q, X)
  <2>1. \A x \in X : <<x, x>> \notin Q
    BY <1>3, FractionsOrdered
  <2>2. ASSUME NEW x \in X, NEW y \in X, NEW z \in X, <<x, y>> \in Q, <<y, z>> \in Q
        PROVE  <<x, z>> \in Q
    <3>1. D!Less(x, y) /\ D!Less(y, z)
      BY <2>2
    <3>2. D!Less(x, z)
      BY <1>3, <3>1, FractionsOrdered
    <3> QED BY <3>2
  <2> QED BY <2>1, <2>2 DEF StrictOn
<1>6. \E x \in X : \A y \in X : ~D!Less(x, y)
  <2>1. PICK m \in X : \A y \in X : <<m, y>> \notin Q
    BY <1>3, <1>4, <1>5, LastElement
  <2> QED BY <2>1
<1>7. D!Greatest(X) \in Fractions
  BY <1>3, <1>6 DEF D!Greatest
<1>8. WeightOf(T, ws, p) \in Nat \ {0}
  BY WeightType DEF Nodes
<1>9. ShareIn(tot, ws, T, p) = <<D!Greatest(X)[1], D!Greatest(X)[2] * WeightOf(T, ws, p)>>
  BY DEF ShareIn, X
<1> DEFINE d == D!Greatest(X)[2]
           w == WeightOf(T, ws, p)
<1>10. D!Greatest(X)[1] \in Nat /\ d \in Nat \ {0}
  BY <1>7 DEF Fractions
<1> HIDE DEF d, w
<1>11. d * w \in Nat \ {0}
  BY <1>8, <1>10, Times DEF w
<1> QED BY <1>9, <1>10, <1>11 DEF Fractions, d, w

-----------------------------------------------------------------------------
(* An element of a sequence is moved.                                      *)

\* h tells where the elements of a sequence of length n were, of which the one at i was
\* moved to j.
Moves(h, n, i, j) ==
  /\ h \in [1..n -> 1..n] /\ h[j] = i
  /\ \A k \in 1..n : /\ k < j => h[k] = IF k < i THEN k ELSE k + 1
                     /\ j < k => h[k] = IF i < k THEN k ELSE k - 1

\* So ds has the elements of cs.
IsMoved(ds, cs, i, j) ==
  \E h : Moves(h, Len(cs), i, j) /\ \A k \in 1..Len(cs) : ds[k] = cs[h[k]]

\* There is such a function.
LEMMA MovedToIs ==
  ASSUME NEW S, NEW cs \in Seq(S), NEW i \in 1..Len(cs), NEW j \in 1..Len(cs),
         NEW ds, ds = D!MovedTo(cs, i, j)
  PROVE  ds \in Seq(S) /\ DOMAIN ds = 1..Len(cs) /\ IsMoved(ds, cs, i, j)
<1> DEFINE n == Len(cs)
           h == [k \in 1..n |-> CASE k = j -> i
                                  [] i <= k /\ k < j -> k + 1
                                  [] j < k /\ k <= i -> k - 1
                                  [] OTHER -> k]
<1>1. n \in Nat /\ DOMAIN cs = 1..n /\ \A k \in 1..n : cs[k] \in S
  OBVIOUS
<1>2. Moves(h, n, i, j)
  <2>1. \A k \in 1..n : h[k] \in 1..n
    BY <1>1
  <2>2. h[j] = i
    BY <1>1
  <2>3. \A k \in 1..n : /\ k < j => h[k] = IF k < i THEN k ELSE k + 1
                        /\ j < k => h[k] = IF i < k THEN k ELSE k - 1
    BY <1>1
  <2> QED BY <2>1, <2>2, <2>3 DEF Moves
<1>3. \A k \in 1..n : ds[k] = cs[h[k]]
  BY <1>1 DEF D!MovedTo
<1>4. ds = [k \in 1..n |-> ds[k]]
  BY <1>1 DEF D!MovedTo
<1> HIDE DEF h
<1>5. \A k \in 1..n : ds[k] \in S
  BY <1>1, <1>2, <1>3 DEF Moves
<1>6. ds \in Seq(S)
  BY <1>1, <1>4, <1>5
<1> QED BY <1>2, <1>3, <1>4, <1>6 DEF IsMoved

\* It takes every place once, and keeps the others in their order.
LEMMA MovesOnce ==
  ASSUME NEW n \in Nat, NEW i \in 1..n, NEW j \in 1..n, NEW h, Moves(h, n, i, j)
  PROVE  /\ \A k, l \in 1..n : k # l => h[k] # h[l]
         /\ \A m \in 1..n : \E k \in 1..n : h[k] = m
         /\ \A k, l \in 1..n : k < l /\ k # j /\ l # j => h[k] < h[l] /\ h[k] # i /\ h[l] # i
         /\ \A m \in Nat : i <= m /\ j <= m => \A k \in 1..n : k <= m <=> h[k] <= m
<1>1. /\ h[j] = i /\ \A k \in 1..n : h[k] \in 1..n
      /\ \A k \in 1..n : /\ k < j => h[k] = IF k < i THEN k ELSE k + 1
                         /\ j < k => h[k] = IF i < k THEN k ELSE k - 1
  BY DEF Moves
<1>2. \A k, l \in 1..n : k # l => h[k] # h[l]
  <2> SUFFICES ASSUME NEW k \in 1..n, NEW l \in 1..n, k < l PROVE h[k] # h[l]
    OBVIOUS
  <2>1. CASE k < j /\ l < j
    BY <1>1, <2>1
  <2>2. CASE k < j /\ l = j
    BY <1>1, <2>2
  <2>3. CASE k < j /\ j < l
    BY <1>1, <2>3
  <2>4. CASE k = j
    BY <1>1, <2>4
  <2>5. CASE j < k
    BY <1>1, <2>5
  <2> QED BY <2>1, <2>2, <2>3, <2>4, <2>5
<1>3. ASSUME NEW m \in 1..n PROVE \E k \in 1..n : h[k] = m
  <2>1. CASE m = i
    BY <1>1, <2>1
  <2>2. CASE m < i /\ m < j
    BY <1>1, <2>2
  <2>3. CASE m < i /\ j <= m
    <3>1. m + 1 \in 1..n /\ j < m + 1 /\ ~(i < m + 1) /\ (m + 1) - 1 = m
      BY <2>3
    <3> QED BY <1>1, <3>1
  <2>4. CASE i < m /\ j < m
    BY <1>1, <2>4
  <2>5. CASE i < m /\ m <= j
    <3>1. m - 1 \in 1..n /\ m - 1 < j /\ ~(m - 1 < i) /\ (m - 1) + 1 = m
      BY <2>5
    <3> QED BY <1>1, <3>1
  <2> QED BY <2>1, <2>2, <2>3, <2>4, <2>5
<1>4. \A k, l \in 1..n : k < l /\ k # j /\ l # j => h[k] < h[l] /\ h[k] # i /\ h[l] # i
  <2> SUFFICES ASSUME NEW k \in 1..n, NEW l \in 1..n, k < l, k # j, l # j
               PROVE  h[k] < h[l] /\ h[k] # i /\ h[l] # i
    OBVIOUS
  <2>1. h[k] # i /\ h[l] # i
    BY <1>1, <1>2
  <2>2. CASE l < j
    BY <1>1, <2>2
  <2>3. CASE k < j /\ j < l
    BY <1>1, <2>3
  <2>4. CASE j < k
    BY <1>1, <2>4
  <2> QED BY <2>1, <2>2, <2>3, <2>4
<1>5. \A m \in Nat : i <= m /\ j <= m => \A k \in 1..n : k <= m <=> h[k] <= m
  <2> SUFFICES ASSUME NEW m \in Nat, i <= m, j <= m, NEW k \in 1..n
               PROVE  k <= m <=> h[k] <= m
    OBVIOUS
  <2>1. CASE k < j
    BY <1>1, <2>1
  <2>2. CASE k = j
    BY <1>1, <2>2
  <2>3. CASE j < k
    BY <1>1, <2>3
  <2> QED BY <2>1, <2>2, <2>3
<1> QED BY <1>2, <1>3, <1>4, <1>5

\* The first n of cs are in the order of their shares and counts, but for one place.
InOrderBut(cs, n, at, sh, cnt) ==
  \A k, l \in 1..n : k < l /\ k # at /\ l # at => D!Before(cs[k], cs[l], sh, cnt)

\* The place that allocated gives to p, the element at `at`.
Place(cs, n, at, p, sh, cnt) ==
  LET ahead == {i \in 1..at-1 : \A j \in i..at-1 : D!Before(p, cs[j], sh, cnt)}
      behind == {i \in at+1..n : \A j \in at+1..i : D!Before(cs[j], p, sh, cnt)}
  IN  IF ahead # {} THEN D!Min(ahead) ELSE IF behind # {} THEN D!Max(behind) ELSE at

\* Elements before that place, when the one at `at` is taken out, come before it, the
\* others after it.
LEMMA PlaceFits ==
  ASSUME NEW S, NEW sh, NEW cnt, Ranks(S, sh, cnt), NEW cs, NEW n \in Nat, NEW at \in 1..n,
         \A k \in 1..n : cs[k] \in S, \A k, l \in 1..n : k # l => cs[k] # cs[l],
         InOrderBut(cs, n, at, sh, cnt), NEW place, place = Place(cs, n, at, cs[at], sh, cnt)
  PROVE  /\ place \in 1..n
         /\ \A m \in 1..n : m # at =>
              /\ m < place \/ (m = place /\ at < place) => D!Before(cs[m], cs[at], sh, cnt)
              /\ place < m \/ (m = place /\ place < at) => D!Before(cs[at], cs[m], sh, cnt)
<1> DEFINE B(k, l) == D!Before(cs[k], cs[l], sh, cnt)
           ahead == {i \in 1..at-1 : \A j \in i..at-1 : B(at, j)}
           behind == {i \in at+1..n : \A j \in at+1..i : B(j, at)}
<1>1. place = IF ahead # {} THEN D!Min(ahead) ELSE IF behind # {} THEN D!Max(behind) ELSE at
  BY DEF Place
<1>2. /\ \A k, l \in 1..n : k # l => B(k, l) \/ B(l, k)
      /\ \A k, l, m \in 1..n : B(k, l) /\ B(l, m) => B(k, m)
  BY DEF Ranks
<1>3. \A k, l \in 1..n : k < l /\ k # at /\ l # at => B(k, l)
  BY DEF InOrderBut
<1> HIDE DEF B
<1>4. CASE ahead # {}
  <2>1. ahead \in SUBSET Nat
    OBVIOUS
  <2>2. PICK a \in ahead : \A b \in ahead : ~(b < a)
    <3> HIDE DEF ahead
    <3> QED BY <1>4, <2>1, LeastNumber
  <2>3. \A b \in ahead : a <= b
    BY <2>2
  <2>4. place \in ahead /\ \A b \in ahead : place <= b
    <3> HIDE DEF ahead
    <3> QED BY <1>1, <1>4, <2>2, <2>3 DEF D!Min
  <2>5. place \in 1..at-1 /\ \A j \in place..at-1 : B(at, j)
    BY <2>4
  <2>6. ASSUME NEW m \in 1..n, m < place PROVE B(m, at)
    <3>1. place - 1 \in 1..at-1 /\ place - 1 \notin ahead
      <4>1. place - 1 \in 1..at-1 /\ ~(place <= place - 1)
        BY <2>5, <2>6
      <4> QED BY <2>4, <4>1
    <3>2. ~B(at, place - 1)
      <4>1. PICK j \in place-1..at-1 : ~B(at, j)
        BY <3>1
      <4>2. j = place - 1
        BY <2>5, <4>1
      <4> QED BY <4>1, <4>2
    <3>3. B(place - 1, at)
      BY <1>2, <2>5, <3>1, <3>2
    <3>4. m = place - 1 \/ B(m, place - 1)
      BY <1>3, <2>5, <2>6, <3>1
    <3> QED BY <1>2, <2>5, <3>1, <3>3, <3>4
  <2>7. ASSUME NEW m \in 1..n, m # at, place <= m PROVE B(at, m)
    <3>1. CASE m < at
      BY <2>5, <2>7, <3>1
    <3>2. CASE at < m
      <4>1. at - 1 \in 1..n /\ B(at, at - 1) /\ at - 1 < m /\ at - 1 # at
        BY <2>5, <3>2
      <4>2. B(at - 1, m)
        BY <1>3, <2>7, <4>1
      <4> QED BY <1>2, <4>1, <4>2
    <3> QED BY <2>7, <3>1, <3>2
  <2>8. place \in 1..n /\ place < at
    BY <2>5
  <2> QED BY <2>6, <2>7, <2>8 DEF B
<1>5. CASE ahead = {} /\ behind # {}
  <2>1. behind \in SUBSET (1..n)
    OBVIOUS
  <2>2. place \in behind /\ \A b \in behind : place >= b
    <3>1. place = Greatest(behind)
      BY <1>1, <1>5 DEF D!Max, Greatest
    <3> HIDE DEF behind
    <3> QED BY <1>5, <2>1, <3>1, GreatestNumber
  <2>3. place \in at+1..n /\ \A j \in at+1..place : B(j, at)
    BY <2>2
  <2>4. ASSUME NEW m \in 1..n, place < m PROVE B(at, m)
    <3>1. place + 1 \in at+1..n /\ place + 1 \notin behind
      <4>1. place + 1 \in at+1..n /\ ~(place >= place + 1)
        BY <2>3, <2>4
      <4> QED BY <2>2, <4>1
    <3>2. ~B(place + 1, at)
      <4>1. PICK j \in at+1..place+1 : ~B(j, at)
        BY <3>1
      <4>2. j = place + 1
        BY <2>3, <4>1
      <4> QED BY <4>1, <4>2
    <3>3. B(at, place + 1)
      BY <1>2, <2>3, <3>1, <3>2
    <3>4. m = place + 1 \/ B(place + 1, m)
      BY <1>3, <2>3, <2>4, <3>1
    <3> QED BY <1>2, <2>3, <3>1, <3>3, <3>4
  <2>5. ASSUME NEW m \in 1..n, m # at, m <= place PROVE B(m, at)
    <3>1. CASE at < m
      BY <2>3, <2>5, <3>1
    <3>2. CASE m < at
      <4>1. at + 1 \in 1..n /\ B(at + 1, at) /\ m < at + 1 /\ at + 1 # at
        BY <2>3, <3>2
      <4>2. B(m, at + 1)
        BY <1>3, <2>5, <4>1
      <4> QED BY <1>2, <4>1, <4>2
    <3> QED BY <2>5, <3>1, <3>2
  <2>6. place \in 1..n /\ at < place
    BY <2>3
  <2> QED BY <2>4, <2>5, <2>6 DEF B
<1>6. CASE ahead = {} /\ behind = {}
  <2>1. place = at
    BY <1>1, <1>6
  <2>2. ASSUME NEW m \in 1..n, m < at PROVE B(m, at)
    <3>1. at - 1 \in 1..at-1 /\ at - 1 \notin ahead /\ at - 1 \in 1..n /\ at - 1 # at
      BY <1>6, <2>2
    <3>2. ~B(at, at - 1)
      <4>1. PICK j \in at-1..at-1 : ~B(at, j)
        BY <3>1
      <4>2. j = at - 1
        BY <4>1
      <4> QED BY <4>1, <4>2
    <3>3. B(at - 1, at)
      BY <1>2, <3>1, <3>2
    <3>4. m = at - 1 \/ B(m, at - 1)
      BY <1>3, <2>2, <3>1
    <3> QED BY <1>2, <3>1, <3>3, <3>4
  <2>3. ASSUME NEW m \in 1..n, at < m PROVE B(at, m)
    <3>1. at + 1 \in at+1..n /\ at + 1 \notin behind
      <4>1. at + 1 \in at+1..n
        BY <2>3
      <4> HIDE DEF behind
      <4> QED BY <1>6, <4>1
    <3>2. ~B(at + 1, at)
      <4>1. PICK j \in at+1..at+1 : ~B(j, at)
        BY <3>1
      <4>2. j = at + 1
        BY <4>1
      <4> QED BY <4>1, <4>2
    <3>3. B(at, at + 1)
      BY <1>2, <3>1, <3>2
    <3>4. m = at + 1 \/ B(at + 1, m)
      BY <1>3, <2>3, <3>1
    <3> QED BY <1>2, <3>1, <3>3, <3>4
  <2> QED BY <2>1, <2>2, <2>3 DEF B
<1> QED BY <1>4, <1>5, <1>6

\* Those that are sorted are in the order of their shares and counts.
Ranked(T, cs, sh, cnt) ==
  \A i, j \in DOMAIN cs : i < j /\ T[cs[j]].kind # "inactive" => D!Before(cs[i], cs[j], sh, cnt)

\* The first n of cs are the ones that are sorted.
SortedAre(T, cs, n) ==
  /\ n \in Nat /\ n <= Len(cs)
  /\ \A k \in DOMAIN cs : T[cs[k]].kind # "inactive" <=> k <= n

\* An element that is given its place among children that are in order but for it.
LEMMA ShiftedLists ==
  ASSUME NEW T, NEW X, NEW cs, Lists(T, cs, X), NEW n, SortedAre(T, cs, n), NEW at \in 1..n,
         NEW S, S = {x \in X : T[x].kind # "inactive"}, NEW sh, NEW cnt, Ranks(S, sh, cnt),
         InOrderBut(cs, n, at, sh, cnt), NEW p, cs[at] = p, NEW ds, ds = D!Shifted(cs, n, p, sh, cnt)
  PROVE  Lists(T, ds, X) /\ Ranked(T, ds, sh, cnt)
<1> DEFINE place == Place(cs, n, at, cs[at], sh, cnt)
           N == Len(cs)
<1>1. /\ cs \in Seq(X) /\ N \in Nat /\ DOMAIN cs = 1..N /\ n \in Nat /\ n <= N
      /\ \A k \in 1..N : cs[k] \in X
      /\ \A k, l \in 1..N : k # l => cs[k] # cs[l]
      /\ \A x \in X : \E k \in 1..N : cs[k] = x
      /\ \A k \in 1..N : T[cs[k]].kind # "inactive" <=> k <= n
  <2>1. cs \in Seq(X) /\ N \in Nat /\ DOMAIN cs = 1..N
    BY DEF Lists
  <2> QED BY <2>1 DEF Lists, SortedAre
<1>2. ds = D!MovedTo(cs, at, place)
  <2> DEFINE q == CHOOSE i \in DOMAIN cs : cs[i] = p
  <2>1. q = at
    BY <1>1
  <2>2. ds = D!MovedTo(cs, q, Place(cs, n, q, p, sh, cnt))
    BY DEF D!Shifted, Place
  <2> QED BY <2>1, <2>2
<1>3. /\ place \in 1..n
      /\ \A m \in 1..n : m # at =>
           /\ m < place \/ (m = place /\ at < place) => D!Before(cs[m], cs[at], sh, cnt)
           /\ place < m \/ (m = place /\ place < at) => D!Before(cs[at], cs[m], sh, cnt)
  <2>1. \A k \in 1..n : cs[k] \in S
    BY <1>1
  <2>2. \A k, l \in 1..n : k # l => cs[k] # cs[l]
    BY <1>1
  <2>3. n \in Nat /\ at \in 1..n /\ place = Place(cs, n, at, cs[at], sh, cnt)
    BY <1>1
  <2> HIDE DEF place
  <2> QED BY ONLY Ranks(S, sh, cnt), InOrderBut(cs, n, at, sh, cnt), <2>1, <2>2, <2>3, PlaceFits
<1> HIDE DEF place
<1>4. at \in 1..N /\ place \in 1..N
  BY <1>1, <1>3
<1>5. ds \in Seq(X) /\ DOMAIN ds = 1..N /\ IsMoved(ds, cs, at, place)
  BY <1>1, <1>2, <1>4, MovedToIs
<1>6. PICK h : Moves(h, N, at, place) /\ \A k \in 1..N : ds[k] = cs[h[k]]
  BY <1>5 DEF IsMoved
<1>7. /\ \A k, l \in 1..N : k # l => h[k] # h[l]
      /\ \A m \in 1..N : \E k \in 1..N : h[k] = m
      /\ \A k, l \in 1..N : k < l /\ k # place /\ l # place => h[k] < h[l] /\ h[k] # at /\ h[l] # at
      /\ \A m \in Nat : at <= m /\ place <= m => \A k \in 1..N : k <= m <=> h[k] <= m
  BY <1>1, <1>4, <1>6, MovesOnce
<1>8. /\ \A k \in 1..N : h[k] \in 1..N
      /\ h[place] = at
      /\ \A k \in 1..N : /\ k < place => h[k] = IF k < at THEN k ELSE k + 1
                         /\ place < k => h[k] = IF at < k THEN k ELSE k - 1
  BY <1>6 DEF Moves
<1>9. \A k \in 1..N : k <= n <=> h[k] <= n
  BY <1>1, <1>3, <1>7
<1>10. \A k \in 1..N : T[ds[k]].kind # "inactive" <=> k <= n
  BY <1>1, <1>6, <1>8, <1>9
<1>11. Lists(T, ds, X)
  <2>1. \A x \in X : \E k \in 1..N : ds[k] = x
    <3> SUFFICES ASSUME NEW x \in X PROVE \E k \in 1..N : ds[k] = x
      OBVIOUS
    <3>1. PICK m \in 1..N : cs[m] = x
      BY <1>1
    <3>2. PICK k \in 1..N : h[k] = m
      BY <1>7
    <3> QED BY <1>6, <3>1, <3>2
  <2>2. ASSUME NEW k \in 1..N, NEW l \in 1..N, k # l PROVE ds[k] # ds[l]
    <3>1. h[k] \in 1..N /\ h[l] \in 1..N /\ h[k] # h[l]
      BY <1>7, <1>8, <2>2
    <3> QED BY <1>1, <1>6, <3>1
  <2>3. \A i, j \in 1..N : i < j /\ T[ds[i]].kind = "inactive" => T[ds[j]].kind = "inactive"
    BY <1>1, <1>10
  <2>4. ds \in Seq(X) /\ DOMAIN ds = 1..N
    BY <1>5
  <2> QED BY ONLY <2>1, <2>2, <2>3, <2>4 DEF Lists
<1>12. Ranked(T, ds, sh, cnt)
  <2> SUFFICES ASSUME NEW i \in 1..N, NEW j \in 1..N, i < j, T[ds[j]].kind # "inactive"
               PROVE  D!Before(cs[h[i]], cs[h[j]], sh, cnt)
    BY <1>5, <1>6 DEF Ranked
  <2>1. i <= n /\ j <= n /\ h[i] \in 1..n /\ h[j] \in 1..n
    BY <1>1, <1>8, <1>9, <1>10
  <2>2. CASE i # place /\ j # place
    BY <1>7, <2>1, <2>2 DEF InOrderBut
  <2>3. CASE j = place
    <3>1. h[i] = IF i < at THEN i ELSE i + 1
      BY <1>8, <2>3
    <3>2. h[i] # at /\ (h[i] < place \/ (h[i] = place /\ at < place))
      BY <1>3, <2>3, <3>1
    <3> QED BY <1>3, <1>8, <2>1, <2>3, <3>2
  <2>4. CASE i = place
    <3>1. h[j] = IF at < j THEN j ELSE j - 1
      BY <1>8, <2>4
    <3>2. h[j] # at /\ (place < h[j] \/ (h[j] = place /\ place < at))
      BY <1>3, <2>4, <3>1
    <3> QED BY <1>3, <1>8, <2>1, <2>4, <3>2
  <2> QED BY <2>2, <2>3, <2>4
<1> QED BY <1>11, <1>12

\* The ones that are sorted come first.
LEMMA SortableIs ==
  ASSUME NEW X, NEW cs, Lists(drfTree, cs, X)
  PROVE  \E n : SortedAre(drfTree, cs, n) /\ D!Sortable(cs) = SubSeq(cs, 1, n)
<1> DEFINE N == Len(cs)
           inactive == {i \in DOMAIN cs : drfTree[cs[i]].kind = "inactive"}
<1>1. cs \in Seq(X) /\ N \in Nat /\ DOMAIN cs = 1..N
  BY DEF Lists
<1>2. D!Sortable(cs) = SubSeq(cs, 1, IF inactive = {} THEN N ELSE D!Min(inactive) - 1)
  BY DEF D!Sortable
<1>3. CASE inactive = {}
  BY <1>1, <1>2, <1>3 DEF SortedAre
<1>4. CASE inactive # {}
  <2> DEFINE a == D!Min(inactive)
  <2>1. inactive \in SUBSET Nat
    BY <1>1
  <2>2. PICK b \in inactive : \A i \in inactive : ~(i < b)
    <3> HIDE DEF inactive
    <3> QED BY <1>4, <2>1, LeastNumber
  <2>3. \A i \in inactive : b <= i
    BY <1>1, <2>2
  <2>4. a \in inactive /\ \A i \in inactive : a <= i
    <3> HIDE DEF inactive
    <3> QED BY <1>4, <2>2, <2>3 DEF D!Min
  <2>5. a \in 1..N /\ drfTree[cs[a]].kind = "inactive"
    BY <1>1, <2>4
  <2>6. \A k \in 1..N : k < a => drfTree[cs[k]].kind # "inactive"
    <3> HIDE DEF a
    <3> QED BY <1>1, <2>4, <2>5
  <2>7. \A k \in 1..N : a < k => drfTree[cs[k]].kind = "inactive"
    BY <1>1, <2>5 DEF Lists
  <2> HIDE DEF a, inactive
  <2>8. SortedAre(drfTree, cs, a - 1)
    BY <1>1, <2>5, <2>6, <2>7 DEF SortedAre
  <2> QED BY <1>2, <1>4, <2>8 DEF a
<1> QED BY <1>3, <1>4

\* Elements in the order of their shares and counts.
Ordered(P, sh, cnt) ==
  CHOOSE l \in SetToSeqs(P) : \A i, j \in DOMAIN l : i < j => D!Before(l[i], l[j], sh, cnt)

\* There is such an order.
LEMMA OrderedIs ==
  ASSUME NEW P, IsFiniteSet(P), NEW sh, NEW cnt, Ranks(P, sh, cnt)
  PROVE  /\ Ordered(P, sh, cnt) \in SetToSeqs(P)
         /\ \A i, j \in DOMAIN Ordered(P, sh, cnt) : i < j =>
              D!Before(Ordered(P, sh, cnt)[i], Ordered(P, sh, cnt)[j], sh, cnt)
<1> DEFINE Q == {e \in P \X P : D!Before(e[1], e[2], sh, cnt)}
<1>1. \A x, y \in P : <<x, y>> \in Q <=> D!Before(x, y, sh, cnt)
  OBVIOUS
<1>2. TotalOn(Q, P)
  <2> HIDE DEF Q
  <2> QED BY <1>1 DEF Ranks, TotalOn, StrictOn
<1>3. PICK l \in SetToSeqs(P) : Ascends(l, Q)
  BY <1>2, OrderedListing
<1>4. \A i, j \in DOMAIN l : i < j => D!Before(l[i], l[j], sh, cnt)
  BY <1>3 DEF Ascends
<1> HIDE DEF Q
<1> QED BY <1>3, <1>4 DEF Ordered

\* One sequence after another.
LEMMA JoinIs ==
  ASSUME NEW S, NEW l \in Seq(S), NEW r \in Seq(S), NEW ds, ds = l \o r
  PROVE  /\ ds \in Seq(S) /\ Len(ds) = Len(l) + Len(r) /\ DOMAIN ds = 1..Len(l)+Len(r)
         /\ \A i \in 1..Len(l) : ds[i] = l[i]
         /\ \A i \in 1..Len(r) : ds[Len(l) + i] = r[i]
OBVIOUS

\* The elements of a sequence after the first n.
LEMMA TailIs ==
  ASSUME NEW S, NEW cs \in Seq(S), NEW n \in Nat, n <= Len(cs)
  PROVE  /\ SubSeq(cs, n + 1, Len(cs)) \in Seq(S)
         /\ Len(SubSeq(cs, n + 1, Len(cs))) = Len(cs) - n
         /\ \A i \in 1..Len(cs)-n : SubSeq(cs, n + 1, Len(cs))[i] = cs[n + i]
OBVIOUS

\* ds is cs with l in place of its first n elements.
Headed(ds, l, cs, n) ==
  /\ DOMAIN ds = 1..Len(cs)
  /\ \A i \in 1..n : ds[i] = l[i]
  /\ \A i \in n+1..Len(cs) : ds[i] = cs[i]

\* The first n are replaced.
LEMMA HeadReplaced ==
  ASSUME NEW S, NEW cs \in Seq(S), NEW l \in Seq(S), NEW n \in Nat, Len(l) = n, n <= Len(cs),
         NEW ds, ds = l \o SubSeq(cs, n + 1, Len(cs))
  PROVE  ds \in Seq(S) /\ Headed(ds, l, cs, n)
<1> DEFINE r == SubSeq(cs, n + 1, Len(cs))
<1>1. r \in Seq(S) /\ Len(r) = Len(cs) - n /\ \A i \in 1..Len(cs)-n : r[i] = cs[n + i]
  BY TailIs
<1>2. ds = l \o r /\ Len(cs) \in Nat
  OBVIOUS
<1> HIDE DEF r
<1>3. /\ ds \in Seq(S) /\ DOMAIN ds = 1..Len(l)+Len(r)
      /\ \A i \in 1..Len(l) : ds[i] = l[i]
      /\ \A i \in 1..Len(r) : ds[Len(l) + i] = r[i]
  <2>1. l \in Seq(S) /\ r \in Seq(S) /\ ds = l \o r
    BY <1>1, <1>2
  <2> QED BY ONLY <2>1, JoinIs
<1>4. Len(l) + Len(r) = Len(cs)
  BY <1>1, <1>2
<1>5. ASSUME NEW i \in n+1..Len(cs) PROVE ds[i] = cs[i]
  <2> DEFINE k == i - n
  <2>1. k \in 1..Len(r) /\ k \in 1..Len(cs)-n /\ n + k = i /\ Len(l) + k = i
    BY <1>1, <1>2
  <2> HIDE DEF k
  <2>2. ds[i] = r[k]
    BY <1>3, <2>1
  <2>3. r[k] = cs[i]
    BY <1>1, <2>1
  <2> QED BY <2>2, <2>3
<1> QED BY <1>3, <1>4, <1>5 DEF Headed

\* By those that are sorted, in order.
NewHead(T, X, cs, n, ds, sh, cnt) ==
  /\ ds \in Seq(X) /\ DOMAIN ds = DOMAIN cs
  /\ \A i \in 1..n : T[ds[i]].kind # "inactive"
  /\ \A x \in X : T[x].kind # "inactive" => \E i \in 1..n : ds[i] = x
  /\ \A i, j \in 1..n : i # j => ds[i] # ds[j]
  /\ \A i, j \in 1..n : i < j => D!Before(ds[i], ds[j], sh, cnt)
  /\ \A i \in n+1..Len(cs) : ds[i] = cs[i]

\* So all are listed, and in order.
LEMMA HeadLists ==
  ASSUME NEW T, NEW X, NEW cs, Lists(T, cs, X), NEW n, SortedAre(T, cs, n),
         NEW sh, NEW cnt, NEW ds, NewHead(T, X, cs, n, ds, sh, cnt)
  PROVE  Lists(T, ds, X) /\ Ranked(T, ds, sh, cnt)
<1>0. /\ ds \in Seq(X) /\ DOMAIN ds = DOMAIN cs
      /\ \A i \in 1..n : T[ds[i]].kind # "inactive"
      /\ \A x \in X : T[x].kind # "inactive" => \E i \in 1..n : ds[i] = x
      /\ \A i, j \in 1..n : i # j => ds[i] # ds[j]
      /\ \A i, j \in 1..n : i < j => D!Before(ds[i], ds[j], sh, cnt)
      /\ \A i \in n+1..Len(cs) : ds[i] = cs[i]
  BY DEF NewHead
<1> DEFINE N == Len(cs)
<1>1. /\ N \in Nat /\ DOMAIN cs = 1..N /\ n \in Nat /\ n <= N
      /\ \A k, m \in 1..N : k # m => cs[k] # cs[m]
      /\ \A x \in X : \E k \in 1..N : cs[k] = x
      /\ \A k \in 1..N : T[cs[k]].kind # "inactive" <=> k <= n
  <2>1. cs \in Seq(X) /\ N \in Nat /\ DOMAIN cs = 1..N
    BY DEF Lists
  <2> QED BY <2>1 DEF Lists, SortedAre
<1>2. \A i \in n+1..N : ds[i] = cs[i]
  BY <1>0
<1> HIDE DEF N
<1>3. \A i \in 1..N : T[ds[i]].kind # "inactive" <=> i <= n
  <2> SUFFICES ASSUME NEW i \in 1..N PROVE T[ds[i]].kind # "inactive" <=> i <= n
    OBVIOUS
  <2>1. CASE i <= n
    BY <1>0, <1>1, <2>1
  <2>2. CASE n < i
    BY <1>1, <1>2, <2>2
  <2> QED BY <1>1, <2>1, <2>2
<1>4. ASSUME NEW x \in X PROVE \E i \in 1..N : ds[i] = x
  <2>1. CASE T[x].kind # "inactive"
    BY <1>0, <1>1, <2>1
  <2>2. CASE T[x].kind = "inactive"
    <3>1. PICK k \in 1..N : cs[k] = x
      BY <1>1
    <3>2. k \in n+1..N
      BY <1>1, <2>2, <3>1
    <3> QED BY <1>2, <3>1, <3>2
  <2> QED BY <2>1, <2>2
<1>5. ASSUME NEW i \in 1..N, NEW j \in 1..N, i < j PROVE ds[i] # ds[j]
  <2>1. CASE j <= n
    BY <1>0, <1>1, <1>5, <2>1
  <2>2. CASE i <= n /\ n < j
    <3>1. T[ds[i]].kind # "inactive" /\ ~(j <= n)
      BY <1>1, <1>3, <2>2
    <3>2. T[ds[j]].kind = "inactive"
      BY <1>3, <3>1
    <3> QED BY <3>1, <3>2
  <2>3. CASE n < i
    <3>1. ds[i] = cs[i] /\ ds[j] = cs[j]
      BY <1>1, <1>2, <1>5, <2>3
    <3> QED BY <1>1, <1>5, <3>1
  <2> QED BY <1>1, <2>1, <2>2, <2>3
<1>6. \A i, j \in 1..N : i # j => ds[i] # ds[j]
  BY <1>1, <1>5
<1>7. \A i, j \in 1..N : i < j /\ T[ds[i]].kind = "inactive" => T[ds[j]].kind = "inactive"
  BY <1>1, <1>3
<1>8. ds \in Seq(X) /\ DOMAIN ds = 1..N
  BY <1>0, <1>1
<1>9. Lists(T, ds, X)
  BY <1>4, <1>6, <1>7, <1>8 DEF Lists
<1>10. Ranked(T, ds, sh, cnt)
  <2> SUFFICES ASSUME NEW i \in 1..N, NEW j \in 1..N, i < j, T[ds[j]].kind # "inactive"
               PROVE  D!Before(ds[i], ds[j], sh, cnt)
    BY <1>8 DEF Ranked
  <2>1. i \in 1..n /\ j \in 1..n
    BY <1>1, <1>3
  <2> QED BY <1>0, <2>1
<1> QED BY <1>9, <1>10

\* The ones that are sorted, sorted.
LEMMA OrderedLists ==
  ASSUME NEW T, NEW X, NEW cs, Lists(T, cs, X), NEW n, SortedAre(T, cs, n),
         NEW S, S = {x \in X : T[x].kind # "inactive"}, NEW sh, NEW cnt, Ranks(S, sh, cnt), NEW ds,
         ds = Ordered(ToSet(SubSeq(cs, 1, n)), sh, cnt) \o SubSeq(cs, n + 1, Len(cs))
  PROVE  Lists(T, ds, X) /\ Ranked(T, ds, sh, cnt)
<1> DEFINE N == Len(cs)
           l == Ordered(ToSet(SubSeq(cs, 1, n)), sh, cnt)
<1>1. /\ cs \in Seq(X) /\ N \in Nat /\ DOMAIN cs = 1..N /\ n \in Nat /\ n <= N
      /\ \A k \in 1..N : cs[k] \in X
      /\ \A k, m \in 1..N : k # m => cs[k] # cs[m]
      /\ \A x \in X : \E k \in 1..N : cs[k] = x
      /\ \A k \in 1..N : T[cs[k]].kind # "inactive" <=> k <= n
  <2>1. cs \in Seq(X) /\ N \in Nat /\ DOMAIN cs = 1..N
    BY DEF Lists
  <2> QED BY <2>1 DEF Lists, SortedAre
<1>2. /\ DOMAIN SubSeq(cs, 1, n) = 1..n
      /\ \A k \in 1..n : SubSeq(cs, 1, n)[k] = cs[k]
  BY <1>1
<1>3. ToSet(SubSeq(cs, 1, n)) = S
  <2>1. ToSet(SubSeq(cs, 1, n)) = {cs[k] : k \in 1..n}
    BY <1>2 DEF ToSet
  <2>2. \A k \in 1..n : cs[k] \in S
    BY <1>1
  <2>3. \A x \in S : \E k \in 1..n : cs[k] = x
    BY <1>1
  <2> QED BY <2>1, <2>2, <2>3
<1>4. IsFiniteSet(S) /\ Cardinality(S) = n
  <2> DEFINE f == [k \in 1..n |-> cs[k]]
  <2>1. \A k \in 1..n : cs[k] \in S
    BY <1>1
  <2>2. \A x \in S : \E k \in 1..n : cs[k] = x
    BY <1>1
  <2>3. f \in Surjection(1..n, S)
    BY <2>1, <2>2 DEF Surjection
  <2>4. f \in Injection(1..n, S)
    BY <1>1, <2>1 DEF Injection, IsInjective
  <2>5. IsFiniteSet(1..n) /\ Cardinality(1..n) = n
    BY <1>1, FS_Interval
  <2>6. /\ IsFiniteSet(S)
        /\ Cardinality(S) = Cardinality(1..n) <=> f \in Injection(1..n, S)
    BY <2>3, <2>5, FS_Surjection
  <2> QED BY <2>4, <2>5, <2>6
<1>5. /\ l \in SetToSeqs(S)
      /\ \A i, j \in DOMAIN l : i < j => D!Before(l[i], l[j], sh, cnt)
  <2>1. l = Ordered(S, sh, cnt)
    BY <1>3
  <2> QED BY <1>4, <2>1, OrderedIs
<1> HIDE DEF l
<1>6. /\ l \in Seq(S) /\ Len(l) = n /\ ToSet(l) = S
      /\ \A i, j \in DOMAIN l : i # j => l[i] # l[j]
  BY <1>4, <1>5, ListingIs
<1>7. /\ DOMAIN l = 1..n /\ \A i \in 1..n : l[i] \in S
      /\ \A x \in S : \E i \in 1..n : l[i] = x
  BY <1>6 DEF ToSet
<1>8. /\ ds \in Seq(X) /\ DOMAIN ds = 1..N
      /\ \A i \in 1..n : ds[i] = l[i]
      /\ \A i \in n+1..N : ds[i] = cs[i]
  <2>1. l \in Seq(X)
    BY <1>1, <1>6, <1>7
  <2>2. /\ cs \in Seq(X) /\ n \in Nat /\ Len(l) = n /\ n <= Len(cs)
        /\ ds = l \o SubSeq(cs, n + 1, Len(cs))
    BY <1>1, <1>6 DEF l
  <2>3. ds \in Seq(X) /\ Headed(ds, l, cs, n)
    BY ONLY <2>1, <2>2, HeadReplaced
  <2> QED BY <2>3 DEF Headed
<1>9. /\ \A i \in 1..n : T[ds[i]].kind # "inactive"
      /\ \A x \in X : T[x].kind # "inactive" => \E i \in 1..n : ds[i] = x
      /\ \A i, j \in 1..n : i # j => ds[i] # ds[j]
      /\ \A i, j \in 1..n : i < j => D!Before(ds[i], ds[j], sh, cnt)
  <2>1. \A i \in 1..n : ds[i] = l[i] /\ ds[i] \in S
    BY <1>7, <1>8
  <2>2. \A i \in 1..n : T[ds[i]].kind # "inactive"
    BY <2>1
  <2>3. \A x \in S : \E i \in 1..n : ds[i] = x
    BY <1>7, <2>1
  <2>4. \A i, j \in 1..n : i # j => ds[i] # ds[j]
    <3> SUFFICES ASSUME NEW i \in 1..n, NEW j \in 1..n, i # j PROVE ds[i] # ds[j]
      OBVIOUS
    <3>1. l[i] # l[j]
      BY <1>6, <1>7
    <3> QED BY <2>1, <3>1
  <2>5. \A i, j \in 1..n : i < j => D!Before(ds[i], ds[j], sh, cnt)
    <3> SUFFICES ASSUME NEW i \in 1..n, NEW j \in 1..n, i < j
                 PROVE  D!Before(ds[i], ds[j], sh, cnt)
      OBVIOUS
    <3>1. D!Before(l[i], l[j], sh, cnt)
      BY <1>5, <1>7
    <3> QED BY <2>1, <3>1
  <2> QED BY <2>2, <2>3, <2>4, <2>5
<1>10. DOMAIN ds = DOMAIN cs /\ ds \in Seq(X) /\ \A i \in n+1..Len(cs) : ds[i] = cs[i]
  BY <1>1, <1>8
<1>11. NewHead(T, X, cs, n, ds, sh, cnt)
  <2>1. \A x \in X : T[x].kind # "inactive" => \E i \in 1..n : ds[i] = x
    BY <1>9
  <2> QED BY <1>9, <1>10, <2>1 DEF NewHead
<1> QED BY <1>11, HeadLists

-----------------------------------------------------------------------------
(* The order of the children, step by step.                                *)

\* Shares are what would now be worked out, and the children in their order.
Sorted(T, ch, sh, cnt, tot, ws) ==
  /\ \A q \in DOMAIN T : q # Root /\ T[q].kind # "inactive" => sh[q] = ShareIn(tot, ws, T, q)
  /\ \A p \in DOMAIN ch : Ranked(T, ch[p], sh, cnt)

\* Every node's children are listed, and in order unless the tree is dirty.
OrderInv ==
  /\ DOMAIN drfTree \subseteq NodePaths \cup {Root}
  /\ Listing(drfTree, children)
  /\ DOMAIN share = DOMAIN drfTree
  /\ count \in [DOMAIN drfTree -> Nat]
  /\ ~dirty => Sorted(drfTree, children, share, count, total, weights)

\* The children of a tree with the same nodes of the same kinds.
LEMMA SameListing ==
  ASSUME NEW T, NEW U, NEW ch, Listing(T, ch), DOMAIN U = DOMAIN T,
         \A p \in DOMAIN T : U[p].kind = T[p].kind
  PROVE  Listing(U, ch)
<1>1. \A p : ChildrenOf(U, p) = ChildrenOf(T, p) /\ ChildrenOf(T, p) \subseteq DOMAIN T
  BY DEF ChildrenOf
<1>2. ASSUME NEW p, NEW cs, Lists(T, cs, ChildrenOf(T, p))
      PROVE  Lists(U, cs, ChildrenOf(U, p))
  <2>1. cs \in Seq(ChildrenOf(T, p)) /\ \A i \in DOMAIN cs : cs[i] \in DOMAIN T
    BY <1>1, <1>2 DEF Lists
  <2> QED BY <1>1, <1>2, <2>1 DEF Lists
<1> QED BY <1>2 DEF Listing

\* A tree that is dirty need not be in order.
LEMMA DirtyKeeps ==
  ASSUME dirty', DOMAIN drfTree' \subseteq NodePaths \cup {Root}, Listing(drfTree', children'),
         share' = [p \in DOMAIN drfTree' |-> D!NoShare], count' \in [DOMAIN drfTree' -> Nat]
  PROVE  OrderInv'
BY DEF OrderInv

\* One that stays as it is, with other weights, totals or allocations.
LEMMA SameNodesKeep ==
  ASSUME OrderInv, D!MakeDirty, UNCHANGED <<children, count>>, DOMAIN drfTree' = DOMAIN drfTree,
         \A p \in DOMAIN drfTree : drfTree'[p].kind = drfTree[p].kind
  PROVE  OrderInv'
<1>1. Listing(drfTree', children')
  BY SameListing DEF OrderInv
<1> QED BY <1>1, DirtyKeeps DEF OrderInv, D!MakeDirty

\* The counts of a tree that changed.
LEMMA CountsType ==
  ASSUME OrderInv, NEW U
  PROVE  D!Counts(U) \in [DOMAIN U -> Nat]
BY DRFNodes DEF D!Counts, OrderInv

\* add.
LEMMA AddOrder ==
  ASSUME IInv, IInv', OrderInv, NEW c \in Client, Add(c)
  PROVE  OrderInv'
<1>1. drfTree' = AddClient(drfTree, c) /\ Good(drfTree) /\ Shape(drfTree) /\ Shape(drfTree')
  BY AddStep DEF IInv, Books, Good
<1>2. children' = D!Rearranged(drfTree') /\ count' = D!Counts(drfTree') /\ D!MakeDirty
  BY DEF Add, D!Add
<1>3. OnBranch(drfTree, drfTree', c) /\ DOMAIN drfTree' \subseteq DOMAIN drfTree \cup NodePaths
  BY <1>1, AddOnBranch
<1>4. Listing(drfTree', children')
  BY <1>1, <1>2, <1>3, ClientPaths, RearrangedLists DEF OrderInv
<1>5. count' \in [DOMAIN drfTree' -> Nat]
  BY <1>2, CountsType
<1> QED BY <1>2, <1>3, <1>4, <1>5, DirtyKeeps DEF OrderInv, D!MakeDirty

\* remove.
LEMMA RemoveOrder ==
  ASSUME IInv, IInv', OrderInv, NEW c \in Client, RemoveC(c)
  PROVE  OrderInv'
<1>1. /\ c \in ClientsOf(drfTree) /\ CanRemove(drfTree, c) /\ drfTree' = RemoveClient(drfTree, c)
      /\ Good(drfTree) /\ Shape(drfTree) /\ Shape(drfTree')
  BY RemoveStep DEF IInv, Books, Good
<1>2. children' = D!Rearranged(drfTree') /\ count' = D!Counts(drfTree') /\ D!MakeDirty
  BY DEF RemoveC, D!RemoveC
<1>3. OnBranch(drfTree, drfTree', c) /\ DOMAIN drfTree' \subseteq DOMAIN drfTree
  BY <1>1, RemoveOnBranch, RemoveKeeps
<1>4. Listing(drfTree', children')
  BY <1>1, <1>2, <1>3, ClientPaths, RearrangedLists DEF OrderInv
<1>5. count' \in [DOMAIN drfTree' -> Nat]
  BY <1>2, CountsType
<1> QED BY <1>2, <1>3, <1>4, <1>5, DirtyKeeps DEF OrderInv, D!MakeDirty

\* The calls that leave the nodes as they are and make the tree dirty.
LEMMA BookingOrder ==
  ASSUME IInv, OrderInv, NEW c \in Client, NEW s \in Slave, NEW x \in Quantity,
         Unallocated(c, s, x) \/ Update(c, s, x)
  PROVE  OrderInv'
<1>1. Good(drfTree)
  BY DEF IInv, Books
<1>2. CASE Unallocated(c, s, x)
  <2>1. /\ c \in ClientsOf(drfTree) /\ CanSubtract(HeldBy(drfTree, c), s, x)
        /\ drfTree' = WithLess(drfTree, c, s, x)
    BY <1>2, UnallocatedStep
  <2>2. Rebooked(drfTree, drfTree', c)
    BY <1>1, <2>1, UnallocatedKeeps DEF WithLess
  <2>3. D!MakeDirty /\ UNCHANGED <<children, count>>
    BY <1>2 DEF Unallocated, D!Unallocated
  <2> QED BY <2>2, <2>3, SameNodesKeep DEF Rebooked
<1>3. CASE Update(c, s, x)
  <2>1. c \in ClientsOf(drfTree) /\ CanSubtract(HeldBy(drfTree, c), s, x)
    BY <1>3, UpdateStep
  <2>2. PICK y \in {x, Zero} : drfTree' = WithNew(drfTree, c, s, x, y)
    BY <1>3, UpdateStep
  <2>3. y \in Amounts
    BY QuantityType
  <2>4. Rebooked(drfTree, drfTree', c)
    BY <1>1, <2>1, <2>2, <2>3, UpdateKeeps DEF WithNew
  <2>5. D!MakeDirty /\ UNCHANGED <<children, count>>
    BY <1>3 DEF Update, D!Update
  <2> QED BY <2>4, <2>5, SameNodesKeep DEF Rebooked
<1> QED BY <1>2, <1>3

\* updateWeight, and the totals.
LEMMA PoolOrder ==
  ASSUME IInv, OrderInv,
         \/ \E path \in Weighted, weight \in 2..MaxWeight : UpdateWeight(path, weight)
         \/ \E s \in Slave, x \in Quantity : ChangeTotal(s, x)
  PROVE  OrderInv'
<1>1. ASSUME NEW path \in Weighted, NEW weight \in 2..MaxWeight, UpdateWeight(path, weight)
      PROVE  OrderInv'
  <2>1. Good(drfTree) /\ drfTree' = Reweighted(drfTree, path, weight) /\ weight \in Nat
    BY <1>1, UpdateWeightStep DEF IInv, Books
  <2>2. Retuned(drfTree, drfTree')
    BY <2>1, ReweightedKeeps
  <2>3. D!MakeDirty /\ UNCHANGED <<children, count>>
    BY <1>1 DEF UpdateWeight, D!UpdateWeight
  <2> QED BY <2>2, <2>3, SameNodesKeep DEF Retuned
<1>2. ASSUME NEW s \in Slave, NEW x \in Quantity, ChangeTotal(s, x)
      PROVE  OrderInv'
  <2>1. D!MakeDirty /\ UNCHANGED <<drfTree, children, count>>
    BY <1>2 DEF ChangeTotal, D!AddTotal, D!RemoveTotal
  <2> QED BY <2>1, SameNodesKeep
<1> QED BY <1>1, <1>2

\* Nothing is in the sorter at first.
LEMMA InitOrder ==
  ASSUME Init
  PROVE  OrderInv
<1>1. /\ drfTree = EmptyTree /\ dirty = FALSE
      /\ children = [p \in {Root} |-> <<>>] /\ share = [p \in {Root} |-> D!NoShare]
      /\ count = [p \in {Root} |-> 0]
  BY DRFTree, DRFNodes DEF Init, D!Init
<1>2. DOMAIN drfTree = {Root} /\ drfTree[Root].kind = "internal" /\ \A p : ChildrenOf(drfTree, p) = {}
  BY <1>1 DEF EmptyTree, ChildrenOf
<1>3. DOMAIN children = {Root} /\ children[Root] = <<>>
  BY <1>1
<1>4. Lists(drfTree, <<>>, {})
  BY DEF Lists
<1>5. Listing(drfTree, children)
  BY <1>2, <1>3, <1>4 DEF Listing
<1>6. Sorted(drfTree, children, share, count, total, weights)
  BY <1>2, <1>3 DEF Sorted, Ranked
<1>7. count \in [DOMAIN drfTree -> Nat] /\ DOMAIN share = DOMAIN drfTree
  BY <1>1, <1>2
<1> QED BY <1>2, <1>5, <1>6, <1>7 DEF OrderInv

\* A tree of which some leaves are now inactive, and of the others nothing changed.
LEMMA StillSorted ==
  ASSUME NEW T, NEW U, NEW ch, NEW dh, NEW sh, NEW th, NEW cnt, NEW tot, NEW ws,
         Sorted(T, ch, sh, cnt, tot, ws), DOMAIN U = DOMAIN T,
         \A q \in DOMAIN U : U[q].kind # "inactive" => th[q] = sh[q] /\ T[q].kind = U[q].kind,
         \A q \in DOMAIN U : U[q].held = T[q].held /\ U[q].weight = T[q].weight,
         Listing(U, dh), \A p \in DOMAIN dh : SameOrder(dh[p], Had(ch, p), Staying(T, U))
  PROVE  Sorted(U, dh, th, cnt, tot, ws)
<1>1. ASSUME NEW q \in DOMAIN U, q # Root, U[q].kind # "inactive"
      PROVE  th[q] = ShareIn(tot, ws, U, q)
  <2>1. th[q] = ShareIn(tot, ws, T, q)
    BY <1>1 DEF Sorted
  <2>2. U[q].held = T[q].held /\ WeightOf(U, ws, q) = WeightOf(T, ws, q)
    BY DEF WeightOf
  <2> QED BY <2>1, <2>2, SameShare
<1>2. ASSUME NEW p \in DOMAIN dh, NEW i \in DOMAIN dh[p], NEW j \in DOMAIN dh[p], i < j,
             U[dh[p][j]].kind # "inactive"
      PROVE  D!Before(dh[p][i], dh[p][j], th, cnt)
  <2> DEFINE x == dh[p][i]
             y == dh[p][j]
  <2>1. Lists(U, dh[p], ChildrenOf(U, p))
    BY DEF Listing
  <2>2. x \in DOMAIN U /\ y \in DOMAIN U
    BY <2>1 DEF Lists, ChildrenOf
  <2>3. U[x].kind # "inactive" /\ U[y].kind # "inactive"
    BY <1>2, <2>1 DEF Lists
  <2>4. x \in Staying(T, U) /\ y \in Staying(T, U) /\ th[x] = sh[x] /\ th[y] = sh[y]
        /\ T[y].kind # "inactive"
    BY <2>2, <2>3 DEF Staying
  <2> HIDE DEF x, y
  <2>5. PICK k, l \in DOMAIN Had(ch, p) : k < l /\ Had(ch, p)[k] = x /\ Had(ch, p)[l] = y
    <3>1. SameOrder(dh[p], Had(ch, p), Staying(T, U))
      OBVIOUS
    <3> QED BY <1>2, <2>4, <3>1 DEF SameOrder, x, y
  <2>6. p \in DOMAIN ch /\ Had(ch, p) = ch[p]
    <3>1. DOMAIN <<>> = {}
      OBVIOUS
    <3> QED BY <2>5, <3>1 DEF Had
  <2>7. D!Before(x, y, sh, cnt)
    BY <2>4, <2>5, <2>6 DEF Sorted, Ranked
  <2>8. D!Before(x, y, th, cnt)
    BY <2>4, <2>7 DEF D!Before
  <2> QED BY <2>8 DEF x, y
<1> QED BY <1>1, <1>2 DEF Sorted, Ranked

\* activate and deactivate.
LEMMA SetActiveOrder ==
  ASSUME IInv, IInv', OrderInv, NEW c \in Client, SetActive(c)
  PROVE  OrderInv'
<1>1. c \in ClientsOf(drfTree) /\ Good(drfTree) /\ Shape(drfTree) /\ Shape(drfTree')
  BY SetActiveStep DEF IInv, Books, Good
<1>2. ASSUME NEW kind \in {"active", "inactive"}, drfTree' = SetKind(drfTree, c, kind),
             children' = D!Rearranged(drfTree'), UNCHANGED <<count, weights, total>>,
             \/ D!MakeDirty
             \/ /\ UNCHANGED dirty /\ DOMAIN share' = DOMAIN share
                /\ \A q \in DOMAIN drfTree : drfTree'[q].kind # "inactive" =>
                     share'[q] = share[q] /\ drfTree'[q].kind = drfTree[q].kind
      PROVE  OrderInv'
  <2>1. DOMAIN drfTree' = DOMAIN drfTree
    BY <1>1, <1>2, SetKindKeeps
  <2>2. OnBranch(drfTree, drfTree', c)
    BY <1>1, <1>2, SetKindOnBranch
  <2>3. /\ Listing(drfTree', children')
        /\ \A p \in DOMAIN children' :
             SameOrder(children'[p], Had(children, p), Staying(drfTree, drfTree'))
    BY <1>1, <1>2, <2>2, ClientPaths, RearrangedLists DEF OrderInv
  <2>4. CASE D!MakeDirty
    BY <1>2, <2>1, <2>3, <2>4, DirtyKeeps DEF OrderInv, D!MakeDirty
  <2>5. CASE ~D!MakeDirty
    <3>1. /\ UNCHANGED dirty /\ DOMAIN share' = DOMAIN share
          /\ \A q \in DOMAIN drfTree' : drfTree'[q].kind # "inactive" =>
               share'[q] = share[q] /\ drfTree[q].kind = drfTree'[q].kind
      BY <1>2, <2>1, <2>5
    <3>2. \A q \in DOMAIN drfTree' : /\ drfTree'[q].held = drfTree[q].held
                                     /\ drfTree'[q].weight = drfTree[q].weight
      <4>1. \A q \in DOMAIN drfTree : drfTree[q] \in Nodes
        BY <1>1 DEF Shape, Typed
      <4> QED BY <1>2, <2>1, <4>1 DEF SetKind, Nodes
    <3>3. ASSUME ~dirty
          PROVE  Sorted(drfTree', children', share', count, total, weights)
      <4>1. Sorted(drfTree, children, share, count, total, weights)
        BY <3>3 DEF OrderInv
      <4> QED BY <2>1, <2>3, <3>1, <3>2, <4>1, StillSorted
    <3> QED BY <1>2, <2>1, <2>3, <3>1, <3>3 DEF OrderInv
  <2> QED BY <2>4, <2>5
<1>3. CASE D!Activate(c)
  <2>1. /\ drfTree' = SetKind(drfTree, c, "active") /\ children' = D!Rearranged(drfTree')
        /\ UNCHANGED <<count, weights, total>>
        /\ IF c \in ActiveClients(drfTree) THEN UNCHANGED <<share, dirty>> ELSE D!MakeDirty
    BY <1>3, DRFTree DEF D!Activate
  <2>2. CASE c \notin ActiveClients(drfTree)
    BY <1>2, <2>1, <2>2
  <2>3. CASE c \in ActiveClients(drfTree)
    <3>1. drfTree[LeafOf(drfTree, c)].kind = "active"
      BY <1>1, <2>3, ActiveAre
    <3>2. \A q \in DOMAIN drfTree : drfTree'[q].kind = drfTree[q].kind
      BY <1>1, <2>1, <3>1, SetKindKeeps
    <3> QED BY <1>2, <2>1, <2>3, <3>2
  <2> QED BY <2>2, <2>3
<1>4. CASE D!Deactivate(c)
  <2>1. /\ drfTree' = SetKind(drfTree, c, "inactive") /\ children' = D!Rearranged(drfTree')
        /\ UNCHANGED <<count, dirty, weights, total>>
        /\ share' = [share EXCEPT ![LeafOf(drfTree, c)] = D!NoShare]
    BY <1>4, DRFTree DEF D!Deactivate
  <2>2. \A q \in DOMAIN drfTree :
          drfTree'[q].kind = IF q = LeafOf(drfTree, c) THEN "inactive" ELSE drfTree[q].kind
    BY <1>1, <2>1, SetKindKeeps
  <2>3. /\ DOMAIN share' = DOMAIN share
        /\ \A q \in DOMAIN drfTree : q # LeafOf(drfTree, c) => share'[q] = share[q]
    BY <2>1 DEF OrderInv
  <2>4. \A q \in DOMAIN drfTree : drfTree'[q].kind # "inactive" =>
          share'[q] = share[q] /\ drfTree'[q].kind = drfTree[q].kind
    BY <2>2, <2>3
  <2> QED BY <1>2, <2>1, <2>3, <2>4
<1> QED BY <1>3, <1>4 DEF SetActive

\* Weights that are cached change no share.
LEMMA CachedShares ==
  ASSUME NEW T, Good(T), NEW ws, ws \in [Weighted -> Nat \ {0}], NEW which,
         NEW U, U = Cached(T, ws, which)
  PROVE  /\ DOMAIN U = DOMAIN T /\ \A p \in DOMAIN T : U[p].kind = T[p].kind
         /\ \A tot, p : p \in DOMAIN T => ShareIn(tot, ws, U, p) = ShareIn(tot, ws, T, p)
<1>1. \A p \in DOMAIN T : T[p] \in Nodes
  BY DEF Good, Shape, Typed
<1>2. ASSUME NEW p \in DOMAIN T
      PROVE  /\ U[p].kind = T[p].kind /\ U[p].held = T[p].held
             /\ U[p].weight = IF p \in which THEN WeightOf(T, ws, p) ELSE T[p].weight
  BY <1>1 DEF Cached, Nodes
<1>3. ASSUME NEW p \in DOMAIN T
      PROVE  WeightOf(U, ws, p) = WeightOf(T, ws, p)
  <2>1. WeightOf(T, ws, p) \in Nat \ {0}
    BY <1>1, WeightType DEF Nodes
  <2>2. WeightOf(T, ws, p) # Unset
    BY <2>1 DEF Unset
  <2> QED BY <1>2, <2>2 DEF WeightOf
<1>4. DOMAIN U = DOMAIN T
  BY DEF Cached
<1> QED BY <1>2, <1>3, <1>4, SameShare

\* The nodes that are sorted have shares and counts to sort them by.
LEMMA RanksChildren ==
  ASSUME NEW T, DOMAIN T \subseteq NodePaths \cup {Root}, NEW r, NEW sh, NEW cnt,
         NEW S, S = {x \in ChildrenOf(T, r) : T[x].kind # "inactive"},
         \A x \in S : sh[x] \in Fractions /\ cnt[x] \in Nat
  PROVE  Ranks(S, sh, cnt)
<1>1. S \in SUBSET NodePaths
  BY DEF ChildrenOf
<1> QED BY <1>1, BeforeRanks

\* Children are as ranked in a tree with nodes of the same kinds.
LEMMA SameRanked ==
  ASSUME NEW T, NEW U, NEW cs, NEW sh, NEW cnt, Ranked(T, cs, sh, cnt),
         \A j \in DOMAIN cs : U[cs[j]].kind = T[cs[j]].kind
  PROVE  Ranked(U, cs, sh, cnt)
BY DEF Ranked

\* The children of a node, sorted.
SortedOut(cs, sh, cnt) ==
  Ordered(ToSet(D!Sortable(cs)), sh, cnt) \o SubSeq(cs, Len(D!Sortable(cs)) + 1, Len(cs))

\* The nodes that get a share, and the shares of all.
Reached == {p \in DOMAIN drfTree : p # Root /\ drfTree[p].kind # "inactive"}
SharesIn(tot, ws, T, which, sh) ==
  [p \in DOMAIN T |-> IF p \in which THEN ShareIn(tot, ws, T, p) ELSE sh[p]]

\* What sort does.
LEMMA SortDoes ==
  ASSUME Sort
  PROVE  /\ UNCHANGED <<count, weights, total>> /\ drfSorted' = D!Listed(children')
         /\ ~dirty => UNCHANGED <<drfTree, children, share, dirty>>
         /\ dirty => /\ drfTree' = Cached(drfTree, weights, Reached)
                     /\ children' = [p \in DOMAIN children |->
                          SortedOut(children[p], SharesIn(total, weights, drfTree, Reached, share), count)]
                     /\ share' = SharesIn(total, weights, drfTree, Reached, share)
                     /\ ~dirty'
<1>1. /\ UNCHANGED <<count, weights, total>> /\ drfSorted' = D!Listed(children')
      /\ ~dirty => UNCHANGED <<drfTree, children, share, dirty>>
  BY DEF Sort, D!Sort, D!Arranged
<1>2. /\ D!Root = Root /\ \A P : D!SetToSeqs(P) = SetToSeqs(P) /\ D!ToSet(P) = ToSet(P)
      /\ \A T, ws, which : D!Cached(T, ws, which) = Cached(T, ws, which)
  BY DRFNodes, DRFTree
<1>3. ASSUME dirty
      PROVE  /\ drfTree' = Cached(drfTree, weights, Reached)
             /\ share' = SharesIn(total, weights, drfTree, Reached, share)
             /\ ~dirty'
  BY <1>2, <1>3, ShareOfIs DEF Sort, D!Sort, D!Arranged, Reached, SharesIn
<1>4. ASSUME dirty
      PROVE  children' = [p \in DOMAIN children |-> SortedOut(children[p], share', count)]
  <2> DEFINE reached == {p \in DOMAIN drfTree : p # D!Root /\ drfTree[p].kind # "inactive"}
             sh == [p \in DOMAIN drfTree |-> IF p \in reached THEN D!ShareOf(drfTree, p) ELSE share[p]]
             order(cs) ==
               (CHOOSE l \in D!SetToSeqs(D!ToSet(D!Sortable(cs))) :
                  \A i, j \in DOMAIN l : i < j => D!Before(l[i], l[j], sh, count))
               \o SubSeq(cs, Len(D!Sortable(cs)) + 1, Len(cs))
  <2>1. children' = [p \in DOMAIN children |-> order(children[p])] /\ share' = sh
    BY <1>4 DEF Sort, D!Sort, D!Arranged
  <2> HIDE DEF sh
  <2>2. \A cs : order(cs) = SortedOut(cs, sh, count)
    BY <1>2 DEF SortedOut, Ordered
  <2> HIDE DEF order
  <2> QED BY <2>1, <2>2
<1> QED BY <1>1, <1>3, <1>4

\* sort.
LEMMA SortOrder ==
  ASSUME IInv, OrderInv, Sort
  PROVE  OrderInv'
<1>1. /\ Good(drfTree) /\ weights \in [Weighted -> Nat \ {0}] /\ total \in Held
      /\ \A p \in DOMAIN drfTree : drfTree[p] \in Nodes
  BY DEF IInv, Books, Good, Shape, Typed
<1>2. UNCHANGED <<count, weights, total>>
  BY SortDoes
<1>3. CASE ~dirty
  <2>1. UNCHANGED <<drfTree, children, share, dirty>>
    BY <1>3, SortDoes
  <2> QED BY <1>2, <2>1 DEF OrderInv
<1>4. CASE dirty
  <2> DEFINE sh == SharesIn(total, weights, drfTree, Reached, share)
             order(cs) == SortedOut(cs, sh, count)
  <2>1. /\ drfTree' = Cached(drfTree, weights, Reached)
        /\ children' = [p \in DOMAIN children |-> order(children[p])]
        /\ share' = sh /\ ~dirty'
    BY <1>4, SortDoes
  <2> HIDE DEF sh
  <2>2. \A x \in Reached : sh[x] = ShareIn(total, weights, drfTree, x) /\ sh[x] \in Fractions
    BY <1>1, ShareType DEF sh, SharesIn, Reached
  <2>3. ASSUME NEW r \in DOMAIN children
        PROVE  /\ Lists(drfTree, order(children[r]), ChildrenOf(drfTree, r))
               /\ Ranked(drfTree, order(children[r]), sh, count)
    <3> DEFINE cs == children[r]
               X == ChildrenOf(drfTree, r)
               S == {x \in X : drfTree[x].kind # "inactive"}
    <3>1. Lists(drfTree, cs, X)
      BY DEF OrderInv, Listing
    <3>2. PICK n : SortedAre(drfTree, cs, n) /\ D!Sortable(cs) = SubSeq(cs, 1, n)
      BY <3>1, SortableIs
    <3>3. \A x \in S : sh[x] \in Fractions /\ count[x] \in Nat
      BY <2>2 DEF ChildrenOf, OrderInv, Reached
    <3>4. Ranks(S, sh, count)
      BY <3>3, RanksChildren DEF OrderInv
    <3>5. Len(D!Sortable(cs)) = n
      BY <3>1, <3>2 DEF SortedAre, Lists
    <3> HIDE DEF cs, X, S
    <3>6. S = {x \in X : drfTree[x].kind # "inactive"}
      BY DEF S
    <3>7. Lists(drfTree, order(cs), X) /\ Ranked(drfTree, order(cs), sh, count)
      BY <3>1, <3>2, <3>4, <3>5, <3>6, OrderedLists DEF SortedOut
    <3> QED BY <3>7 DEF cs, X
  <2> HIDE DEF order
  <2>4. Listing(drfTree, children')
    BY <2>1, <2>3 DEF OrderInv, Listing
  <2>5. /\ DOMAIN drfTree' = DOMAIN drfTree /\ \A p \in DOMAIN drfTree : drfTree'[p].kind = drfTree[p].kind
        /\ \A tot, p : p \in DOMAIN drfTree =>
             ShareIn(tot, weights, drfTree', p) = ShareIn(tot, weights, drfTree, p)
    BY <1>1, <2>1, CachedShares
  <2>6. Listing(drfTree', children')
    BY <2>4, <2>5, SameListing
  <2>7. Sorted(drfTree', children', sh, count, total, weights)
    <3>1. \A q \in DOMAIN drfTree' : q # Root /\ drfTree'[q].kind # "inactive" =>
            sh[q] = ShareIn(total, weights, drfTree', q)
      BY <2>2, <2>5 DEF Reached
    <3>2. ASSUME NEW p \in DOMAIN children'
          PROVE  Ranked(drfTree', children'[p], sh, count)
      <4>1. Ranked(drfTree, children'[p], sh, count)
        BY <2>1, <2>3
      <4>2. \A j \in DOMAIN children'[p] : children'[p][j] \in DOMAIN drfTree
        <5>1. children'[p] \in Seq(ChildrenOf(drfTree, p)) /\ ChildrenOf(drfTree, p) \subseteq DOMAIN drfTree
          BY <2>4, <3>2 DEF Listing, Lists, ChildrenOf
        <5> QED BY <5>1
      <4> QED BY <2>5, <4>1, <4>2, SameRanked
    <3> QED BY <3>1, <3>2 DEF Sorted
  <2>8. DOMAIN share' = DOMAIN drfTree'
    BY <2>1, <2>5 DEF sh, SharesIn
  <2> QED BY <1>2, <2>1, <2>5, <2>6, <2>7, <2>8 DEF OrderInv
<1> QED BY <1>3, <1>4

\* What allocated does.
LEMMA AllocatedDoes ==
  ASSUME NEW c \in Client, NEW s \in Slave, NEW x \in Quantity, Allocated(c, s, x),
         NEW t, t = WithMore(drfTree, c, s, x), NEW path, path = Upwards(LeafOf(drfTree, c)),
         NEW moved, moved = {p \in path \ {Root} : ~dirty /\ t[p].kind # "inactive"}
  PROVE  /\ c \in ClientsOf(drfTree) /\ UNCHANGED <<dirty, weights, total>>
         /\ drfTree' = Cached(t, weights, moved)
         /\ share' = SharesIn(total, weights, t, moved, share)
         /\ count' = [p \in DOMAIN t |-> IF p \in path THEN count[p] + 1 ELSE count[p]]
         /\ children' = [p \in DOMAIN children |->
              IF ToSet(children[p]) \cap moved = {} THEN children[p]
              ELSE D!Shifted(children[p], Len(D!Sortable(children[p])),
                             CHOOSE q \in ToSet(children[p]) : q \in moved, share', count')]
<1>1. /\ D!Root = Root /\ \A P : D!ToSet(P) = ToSet(P)
      /\ \A p : D!Upwards(p) = Upwards(p)
      /\ \A T, ws, which : D!Cached(T, ws, which) = Cached(T, ws, which)
      /\ \A T, b : D!LeafOf(T, b) = LeafOf(T, b) /\ D!ClientsOf(T) = ClientsOf(T)
  BY DRFNodes, DRFTree
<1>2. t = [p \in DOMAIN drfTree |-> IF p \in D!Upwards(D!LeafOf(drfTree, c))
                                    THEN [drfTree[p] EXCEPT !.held = D!AddTo(@, s, x)]
                                    ELSE drfTree[p]]
  BY DRFTree DEF WithMore
<1> DEFINE dpath == D!Upwards(D!LeafOf(drfTree, c))
           dmoved == {p \in dpath \ {D!Root} : ~dirty /\ t[p].kind # "inactive"}
           sh == [p \in DOMAIN t |-> IF p \in dmoved THEN D!ShareOf(t, p) ELSE share[p]]
           cnt == [p \in DOMAIN t |-> IF p \in dpath THEN count[p] + 1 ELSE count[p]]
<1>3. /\ c \in D!ClientsOf(drfTree) /\ UNCHANGED <<dirty, weights, total>>
      /\ drfTree' = D!Cached(t, weights, dmoved) /\ share' = sh /\ count' = cnt
      /\ children' = [p \in DOMAIN children |->
              IF D!ToSet(children[p]) \cap dmoved = {} THEN children[p]
              ELSE D!Shifted(children[p], Len(D!Sortable(children[p])),
                             CHOOSE q \in D!ToSet(children[p]) : q \in dmoved, sh, cnt)]
  BY <1>2 DEF Allocated, D!Allocated, D!OnPath
<1>4. dpath = path /\ dmoved = moved
  BY <1>1
<1>5. share' = SharesIn(total, weights, t, moved, share)
  BY <1>3, <1>4, ShareOfIs DEF SharesIn
<1> HIDE DEF dpath, dmoved, sh
<1> QED BY <1>1, <1>3, <1>4, <1>5

\* A node has one child that leads to a leaf.
LEMMA OneLeads ==
  ASSUME NEW T, DOMAIN T \subseteq Paths, NEW leaf \in Paths, NEW r,
         NEW p \in ChildrenOf(T, r), NEW q \in ChildrenOf(T, r),
         p \in Upwards(leaf), q \in Upwards(leaf)
  PROVE  p = q
<1>1. /\ p \in Paths /\ p # Root /\ Front(p) = r /\ IsPrefix(p, leaf)
      /\ q \in Paths /\ q # Root /\ Front(q) = r /\ IsPrefix(q, leaf)
  BY UpwardsArePrefixes DEF ChildrenOf
<1>2. Len(p) = Len(q) /\ Len(p) \in Nat
  <2>1. Len(Front(p)) = Len(p) - 1 /\ Len(p) \in Nat
    BY <1>1, FrontOf
  <2>2. Len(Front(q)) = Len(q) - 1 /\ Len(q) \in Nat
    BY <1>1, FrontOf
  <2> QED BY <1>1, <2>1, <2>2
<1>3. IsPrefix(q, p)
  BY <1>1, <1>2, PrefixOrder
<1> QED BY <1>1, <1>2, <1>3, PrefixOrder

\* Children whose shares and counts did not change stay as ranked.
LEMMA StillRanked ==
  ASSUME NEW T, NEW cs, NEW X, Lists(T, cs, X), NEW sh, NEW cnt, Ranked(T, cs, sh, cnt),
         NEW sh2, NEW cnt2,
         \A x \in X : T[x].kind # "inactive" => sh2[x] = sh[x] /\ cnt2[x] = cnt[x]
  PROVE  Ranked(T, cs, sh2, cnt2)
<1> SUFFICES ASSUME NEW i \in DOMAIN cs, NEW j \in DOMAIN cs, i < j, T[cs[j]].kind # "inactive"
             PROVE  D!Before(cs[i], cs[j], sh2, cnt2)
  BY DEF Ranked
<1>1. T[cs[i]].kind # "inactive" /\ cs[i] \in X /\ cs[j] \in X
  BY DEF Lists
<1>2. D!Before(cs[i], cs[j], sh, cnt)
  BY DEF Ranked
<1> QED BY <1>1, <1>2 DEF D!Before

\* Nor do those of which one was given another share, but for that one.
LEMMA RankedBut ==
  ASSUME NEW T, NEW cs, NEW X, Lists(T, cs, X), NEW sh, NEW cnt, Ranked(T, cs, sh, cnt),
         NEW sh2, NEW cnt2, NEW n, SortedAre(T, cs, n), NEW at \in 1..n,
         \A x \in X : T[x].kind # "inactive" /\ x # cs[at] => sh2[x] = sh[x] /\ cnt2[x] = cnt[x]
  PROVE  InOrderBut(cs, n, at, sh2, cnt2)
<1>1. cs \in Seq(X) /\ DOMAIN cs = 1..Len(cs) /\ n \in Nat /\ n <= Len(cs) /\ Len(cs) \in Nat
  BY DEF Lists, SortedAre
<1> SUFFICES ASSUME NEW k \in 1..n, NEW l \in 1..n, k < l, k # at, l # at
             PROVE  D!Before(cs[k], cs[l], sh2, cnt2)
  BY DEF InOrderBut
<1>2. k \in DOMAIN cs /\ l \in DOMAIN cs /\ at \in DOMAIN cs
  BY <1>1
<1>3. T[cs[k]].kind # "inactive" /\ T[cs[l]].kind # "inactive"
  BY <1>2 DEF SortedAre
<1>4. cs[k] \in X /\ cs[l] \in X /\ cs[k] # cs[at] /\ cs[l] # cs[at]
  BY <1>1, <1>2 DEF Lists
<1>5. D!Before(cs[k], cs[l], sh, cnt)
  BY <1>2, <1>3 DEF Ranked
<1> QED BY <1>3, <1>4, <1>5 DEF D!Before

\* allocated.
LEMMA AllocatedOrder ==
  ASSUME IInv, OrderInv, NEW c \in Client, NEW s \in Slave, NEW x \in Quantity, Allocated(c, s, x)
  PROVE  OrderInv'
<1>1. /\ Good(drfTree) /\ weights \in [Weighted -> Nat \ {0}] /\ total \in Held
      /\ DOMAIN drfTree \subseteq Paths /\ \A p \in DOMAIN drfTree : drfTree[p] \in Nodes
  BY DEF IInv, Books, Good, Shape, Typed
<1>2. PICK t : t = WithMore(drfTree, c, s, x)
  OBVIOUS
<1>3. PICK path : path = Upwards(LeafOf(drfTree, c))
  OBVIOUS
<1>4. PICK moved : moved = {p \in path \ {Root} : ~dirty /\ t[p].kind # "inactive"}
  OBVIOUS
<1>5. /\ c \in ClientsOf(drfTree) /\ UNCHANGED <<dirty, weights, total>>
      /\ drfTree' = Cached(t, weights, moved)
      /\ share' = SharesIn(total, weights, t, moved, share)
      /\ count' = [p \in DOMAIN t |-> IF p \in path THEN count[p] + 1 ELSE count[p]]
      /\ children' = [p \in DOMAIN children |->
           IF ToSet(children[p]) \cap moved = {} THEN children[p]
           ELSE D!Shifted(children[p], Len(D!Sortable(children[p])),
                          CHOOSE q \in ToSet(children[p]) : q \in moved, share', count')]
  BY <1>2, <1>3, <1>4, AllocatedDoes
<1>6. /\ Good(t) /\ DOMAIN t = DOMAIN drfTree
      /\ \A p \in DOMAIN drfTree : t[p].kind = drfTree[p].kind /\ (p \notin path => t[p] = drfTree[p])
      /\ \A p \in DOMAIN t : t[p] \in Nodes
  <2>1. Rebooked(drfTree, t, c)
    BY <1>1, <1>2, <1>5, AllocatedKeeps DEF WithMore
  <2>2. \A p \in DOMAIN drfTree : p \notin path => t[p] = drfTree[p]
    BY <1>2, <1>3 DEF WithMore
  <2> QED BY <2>1, <2>2 DEF Rebooked, Good, Shape, Typed
<1>7. /\ DOMAIN drfTree' = DOMAIN t /\ \A p \in DOMAIN t : drfTree'[p].kind = t[p].kind
      /\ \A tot, p : p \in DOMAIN t => ShareIn(tot, weights, drfTree', p) = ShareIn(tot, weights, t, p)
  BY <1>1, <1>5, <1>6, CachedShares
<1>8. ASSUME NEW p \in DOMAIN drfTree, p \notin path
      PROVE  /\ share'[p] = share[p] /\ count'[p] = count[p]
             /\ ShareIn(total, weights, t, p) = ShareIn(total, weights, drfTree, p)
  <2>1. share'[p] = share[p] /\ count'[p] = count[p]
    BY <1>4, <1>5, <1>6, <1>8 DEF SharesIn
  <2>2. t[p] = drfTree[p]
    BY <1>6, <1>8
  <2>3. ShareIn(total, weights, t, p) = ShareIn(total, weights, drfTree, p)
    BY <2>2, SameShare DEF WeightOf
  <2> QED BY <2>1, <2>3
<1>9. ASSUME ~dirty, NEW p \in DOMAIN drfTree, p # Root, drfTree[p].kind # "inactive"
      PROVE  share'[p] = ShareIn(total, weights, t, p) /\ share'[p] \in Fractions
  <2>1. CASE p \in path
    <3>1. p \in moved
      BY <1>4, <1>6, <1>9, <2>1
    <3> QED BY <1>1, <1>5, <1>6, <3>1, ShareType DEF SharesIn
  <2>2. CASE p \notin path
    BY <1>1, <1>8, <1>9, <2>2, ShareType DEF OrderInv, Sorted
  <2> QED BY <2>1, <2>2
<1>10. count' \in [DOMAIN drfTree -> Nat] /\ DOMAIN share' = DOMAIN drfTree
  BY <1>5, <1>6 DEF OrderInv, SharesIn
<1>11. ASSUME NEW r \in DOMAIN children
       PROVE  /\ Lists(drfTree, children'[r], ChildrenOf(drfTree, r))
              /\ ~dirty => Ranked(drfTree, children'[r], share', count')
  <2> DEFINE cs == children[r]
             X == ChildrenOf(drfTree, r)
             S == {y \in X : drfTree[y].kind # "inactive"}
  <2>1. Lists(drfTree, cs, X) /\ (~dirty => Ranked(drfTree, cs, share, count))
    BY DEF OrderInv, Listing, Sorted
  <2>2. X \subseteq DOMAIN drfTree \ {Root}
    BY DEF ChildrenOf
  <2>3. ToSet(cs) = X
    BY <2>1 DEF Lists, ToSet
  <2>4. CASE ToSet(cs) \cap moved = {}
    <3>1. children'[r] = cs
      BY <1>5, <2>4
    <3>2. ASSUME ~dirty PROVE Ranked(drfTree, cs, share', count')
      <4>1. \A y \in X : drfTree[y].kind # "inactive" => share'[y] = share[y] /\ count'[y] = count[y]
        <5> SUFFICES ASSUME NEW y \in X, drfTree[y].kind # "inactive"
                     PROVE  share'[y] = share[y] /\ count'[y] = count[y]
          OBVIOUS
        <5>1. y \notin path
          BY <1>4, <1>6, <2>2, <2>3, <2>4, <3>2
        <5> QED BY <1>8, <2>2, <5>1
      <4> HIDE DEF cs, X
      <4> QED BY <2>1, <3>2, <4>1, StillRanked
    <3> QED BY <2>1, <3>1, <3>2
  <2>5. CASE ToSet(cs) \cap moved # {}
    <3> DEFINE p == CHOOSE q \in ToSet(cs) : q \in moved
    <3>1. p \in X /\ p \in moved
      BY <2>3, <2>5
    <3>2. PICK n : SortedAre(drfTree, cs, n) /\ D!Sortable(cs) = SubSeq(cs, 1, n)
      BY <2>1, SortableIs
    <3>3. Len(D!Sortable(cs)) = n
      BY <2>1, <3>2 DEF SortedAre, Lists
    <3>4. children'[r] = D!Shifted(cs, n, p, share', count')
      BY <1>5, <2>5, <3>3
    <3> HIDE DEF p
    <3>5. ~dirty /\ p \in path /\ drfTree[p].kind # "inactive"
      BY <1>4, <1>6, <2>2, <3>1
    <3>6. PICK at \in DOMAIN cs : cs[at] = p
      BY <2>1, <3>1 DEF Lists
    <3>7. at \in 1..n
      <4>1. at <= n /\ n \in Nat
        BY <3>2, <3>5, <3>6 DEF SortedAre
      <4>2. DOMAIN cs = 1..Len(cs) /\ Len(cs) \in Nat
        BY <2>1 DEF Lists
      <4> QED BY <3>6, <4>1, <4>2
    <3>8. ASSUME NEW y \in X, y # p
          PROVE  share'[y] = share[y] /\ count'[y] = count[y]
      <4>1. LeafOf(drfTree, c) \in Paths
        BY <1>1, <1>5, LeafIs DEF Good
      <4>2. y \notin path
        BY <1>1, <1>3, <3>1, <3>5, <3>8, <4>1, OneLeads
      <4> QED BY <1>8, <2>2, <4>2
    <3>9. \A y \in X : drfTree[y].kind # "inactive" /\ y # cs[at] =>
            share'[y] = share[y] /\ count'[y] = count[y]
      BY <3>6, <3>8
    <3>10. \A y \in S : share'[y] \in Fractions /\ count'[y] \in Nat
      BY <1>9, <1>10, <2>2, <3>5
    <3>11. Ranks(S, share', count')
      BY <3>10, RanksChildren DEF OrderInv
    <3> HIDE DEF cs, X, S
    <3>12. InOrderBut(cs, n, at, share', count')
      BY <2>1, <3>2, <3>5, <3>7, <3>9, RankedBut
    <3>13. S = {y \in X : drfTree[y].kind # "inactive"}
      BY DEF S
    <3>14. Lists(drfTree, children'[r], X) /\ Ranked(drfTree, children'[r], share', count')
      <4>1. /\ Lists(drfTree, cs, X) /\ SortedAre(drfTree, cs, n) /\ at \in 1..n
            /\ S = {y \in X : drfTree[y].kind # "inactive"} /\ Ranks(S, share', count')
            /\ InOrderBut(cs, n, at, share', count') /\ cs[at] = p
            /\ children'[r] = D!Shifted(cs, n, p, share', count')
        BY <2>1, <3>2, <3>4, <3>6, <3>7, <3>11, <3>12, <3>13
      <4> QED BY ONLY <4>1, ShiftedLists
    <3> QED BY <3>14 DEF X
  <2> QED BY <2>4, <2>5
<1>12. Listing(drfTree, children')
  BY <1>5, <1>11 DEF OrderInv, Listing
<1>13. Listing(drfTree', children')
  BY <1>6, <1>7, <1>12, SameListing
<1>14. ASSUME ~dirty
       PROVE  Sorted(drfTree', children', share', count', total, weights)
  <2>1. ASSUME NEW q \in DOMAIN drfTree', q # Root, drfTree'[q].kind # "inactive"
        PROVE  share'[q] = ShareIn(total, weights, drfTree', q)
    BY <1>6, <1>7, <1>9, <1>14, <2>1
  <2>2. ASSUME NEW p \in DOMAIN children'
        PROVE  Ranked(drfTree', children'[p], share', count')
    <3>1. Ranked(drfTree, children'[p], share', count')
      BY <1>5, <1>11, <1>14
    <3>2. children'[p] \in Seq(ChildrenOf(drfTree, p)) /\ ChildrenOf(drfTree, p) \subseteq DOMAIN drfTree
      BY <1>12, <2>2 DEF Listing, Lists, ChildrenOf
    <3>3. \A j \in DOMAIN children'[p] : drfTree'[children'[p][j]].kind = drfTree[children'[p][j]].kind
      <4>1. \A j \in DOMAIN children'[p] : children'[p][j] \in DOMAIN drfTree
        BY <3>2
      <4> QED BY <1>6, <1>7, <4>1
    <3> QED BY <3>1, <3>3, SameRanked
  <2> QED BY <2>1, <2>2 DEF Sorted
<1> QED BY <1>5, <1>6, <1>7, <1>10, <1>13, <1>14 DEF OrderInv

\* Every step keeps the children in order.
LEMMA OrderStays ==
  IInv /\ IInv' /\ OrderInv /\ [Next]_vars => OrderInv'
<1> SUFFICES ASSUME IInv, IInv', OrderInv, [Next]_vars
             PROVE  OrderInv'
  OBVIOUS
<1>1. ASSUME NEW c \in Client, Add(c) \/ RemoveC(c) \/ SetActive(c)
      PROVE  OrderInv'
  BY <1>1, AddOrder, RemoveOrder, SetActiveOrder
<1>2. ASSUME \/ \E path \in Weighted, weight \in 2..MaxWeight : UpdateWeight(path, weight)
             \/ \E s \in Slave, x \in Quantity : ChangeTotal(s, x)
      PROVE  OrderInv'
  BY <1>2, PoolOrder
<1>3. ASSUME NEW c \in Client, NEW s \in Slave, NEW x \in Quantity,
             Allocated(c, s, x) \/ Unallocated(c, s, x) \/ Update(c, s, x)
      PROVE  OrderInv'
  BY <1>3, AllocatedOrder, BookingOrder
<1>4. CASE UNCHANGED vars
  BY <1>4 DEF vars, drfVars, OrderInv
<1> QED BY <1>1, <1>2, <1>3, <1>4, SortOrder DEF Next

\* So they always are.
LEMMA OrderInvariant ==
  Spec => []OrderInv
BY InitOrder, OrderStays, Invariant, PTL DEF Spec

\* The children that are listed are all of them, and as many.
LEMMA ListsAll ==
  ASSUME NEW T, NEW X, NEW cs, Lists(T, cs, X)
  PROVE  ToSet(cs) = X /\ Len(cs) = Cardinality(X)
<1>1. /\ cs \in Seq(X) /\ Len(cs) \in Nat /\ DOMAIN cs = 1..Len(cs)
      /\ \A k \in 1..Len(cs) : cs[k] \in X
      /\ \A k, m \in 1..Len(cs) : k # m => cs[k] # cs[m]
      /\ \A x \in X : \E k \in 1..Len(cs) : cs[k] = x
  <2>1. cs \in Seq(X) /\ Len(cs) \in Nat /\ DOMAIN cs = 1..Len(cs)
    BY DEF Lists
  <2> QED BY <2>1 DEF Lists
<1>2. ToSet(cs) = X
  BY <1>1 DEF ToSet
<1> DEFINE n == Len(cs)
           f == [k \in 1..n |-> cs[k]]
<1>3. f \in Surjection(1..n, X) /\ f \in Injection(1..n, X)
  BY <1>1 DEF Surjection, Injection, IsInjective
<1>4. n \in Nat
  BY <1>1
<1> HIDE DEF n, f
<1>5. IsFiniteSet(1..n) /\ Cardinality(1..n) = n
  BY <1>4, FS_Interval
<1>6. Cardinality(X) = Cardinality(1..n) <=> f \in Injection(1..n, X)
  BY <1>3, <1>5, FS_Surjection
<1>7. Cardinality(X) = n
  BY <1>3, <1>5, <1>6
<1> QED BY <1>2, <1>7 DEF n

\* The invariants of the children follow.
LEMMA ChildrenOrder ==
  IInv /\ OrderInv => ChildrenAreOrdered
<1> SUFFICES ASSUME IInv, OrderInv, NEW p \in DOMAIN children, NEW cs, cs = children[p],
                    NEW fresh, fresh = [q \in DOMAIN drfTree |-> D!ShareOf(drfTree, q)]
             PROVE  LET n == Len(D!Sortable(cs))
                    IN  /\ ToSet(cs) = ChildrenOf(drfTree, p) /\ Len(cs) = Cardinality(ToSet(cs))
                        /\ \A i \in n+1..Len(cs) : drfTree[cs[i]].kind = "inactive"
                        /\ ~dirty => \A i \in 1..n-1 : D!Before(cs[i], cs[i+1], fresh, count)
  BY DEF ChildrenAreOrdered
<1>1. Lists(drfTree, cs, ChildrenOf(drfTree, p)) /\ (~dirty => Ranked(drfTree, cs, share, count))
  BY DEF OrderInv, Listing, Sorted
<1>2. ToSet(cs) = ChildrenOf(drfTree, p) /\ Len(cs) = Cardinality(ToSet(cs))
  BY <1>1, ListsAll
<1>3. PICK n : SortedAre(drfTree, cs, n) /\ D!Sortable(cs) = SubSeq(cs, 1, n)
  BY <1>1, SortableIs
<1>4. /\ cs \in Seq(ChildrenOf(drfTree, p)) /\ Len(cs) \in Nat /\ DOMAIN cs = 1..Len(cs)
      /\ n \in Nat /\ n <= Len(cs)
      /\ \A k \in DOMAIN cs : drfTree[cs[k]].kind # "inactive" <=> k <= n
  BY <1>1, <1>3 DEF Lists, SortedAre
<1>5. Len(D!Sortable(cs)) = n
  BY <1>3, <1>4
<1>6. \A i \in n+1..Len(cs) : drfTree[cs[i]].kind = "inactive"
  BY <1>4
<1>7. ASSUME ~dirty, NEW i \in 1..n-1
      PROVE  D!Before(cs[i], cs[i+1], fresh, count)
  <2>1. i \in DOMAIN cs /\ i+1 \in DOMAIN cs /\ i < i+1 /\ i <= n /\ i+1 <= n
    BY <1>4
  <2>2. D!Before(cs[i], cs[i+1], share, count)
    BY <1>1, <1>4, <1>7, <2>1 DEF Ranked
  <2>3. ASSUME NEW k \in DOMAIN cs, k <= n
        PROVE  fresh[cs[k]] = share[cs[k]]
    <3>1. cs[k] \in DOMAIN drfTree /\ cs[k] # Root
      BY <1>4 DEF ChildrenOf
    <3>2. fresh[cs[k]] = ShareIn(total, weights, drfTree, cs[k])
      BY <3>1, ShareOfIs
    <3> QED BY <1>4, <1>7, <2>3, <3>1, <3>2 DEF OrderInv, Sorted
  <2>4. fresh[cs[i]] = share[cs[i]] /\ fresh[cs[i+1]] = share[cs[i+1]]
    BY <2>1, <2>3
  <2> QED BY <2>2, <2>4 DEF D!Before
<1> QED BY <1>2, <1>5, <1>6, <1>7

\* The ordering invariants of Node::children hold, for any clients, agents, weights and
\* resources: whatever add, remove, activate and deactivate do to the children of a node, the
\* inactive leaves stay last, and while the tree is not dirty allocated() keeps the others in
\* the order of what calculateShare() would give, though it gives new shares only to the nodes
\* above one client, and moves each only as far as its siblings let it.
THEOREM ChildrenStayOrdered ==
  Spec => []ChildrenAreOrdered
BY ChildrenOrder, OrderInvariant, Invariant, PTL

-----------------------------------------------------------------------------
(* The walk of listClients.                                                *)

\* Of the children of a node.
LEMMA ListedNodes ==
  ASSUME NEW T, Shape(T), NEW ch, Listing(T, ch), NEW a \in DOMAIN ch
  PROVE  /\ a \in DOMAIN T /\ a \in Paths /\ T[a].kind = "internal"
         /\ DOMAIN ch[a] \subseteq Nat
         /\ \A i \in DOMAIN ch[a] :
              /\ ch[a][i] \in DOMAIN T /\ ch[a][i] \in Paths /\ ch[a][i] \in ChildrenOf(T, a)
              /\ IsPrefix(a, ch[a][i]) /\ Len(ch[a][i]) = Len(a) + 1
         /\ \A i, j \in DOMAIN ch[a] : ch[a][i] = ch[a][j] => i = j
         /\ \A x \in ChildrenOf(T, a) : \E i \in DOMAIN ch[a] : ch[a][i] = x
<1>1. a \in DOMAIN T /\ a \in Paths /\ T[a].kind = "internal"
  BY DEF Listing, Shape, Typed
<1>2. Lists(T, ch[a], ChildrenOf(T, a))
  BY DEF Listing
<1>3. ch[a] \in Seq(ChildrenOf(T, a)) /\ DOMAIN ch[a] \subseteq Nat
  BY <1>2 DEF Lists
<1>4. ASSUME NEW x \in ChildrenOf(T, a)
      PROVE  x \in DOMAIN T /\ x \in Paths /\ IsPrefix(a, x) /\ Len(x) = Len(a) + 1
  <2>1. x \in DOMAIN T /\ x \in Paths /\ x # Root /\ Front(x) = a
    BY DEF ChildrenOf, Shape, Typed
  <2>2. IsPrefix(a, x) /\ Len(a) = Len(x) - 1 /\ Len(x) \in Nat
    BY <2>1, FrontOf
  <2> QED BY <2>1, <2>2
<1>5. \A i \in DOMAIN ch[a] : ch[a][i] \in ChildrenOf(T, a)
  BY <1>3
<1>6. \A i, j \in DOMAIN ch[a] : ch[a][i] = ch[a][j] => i = j
  BY <1>2 DEF Lists
<1>7. \A x \in ChildrenOf(T, a) : \E i \in DOMAIN ch[a] : ch[a][i] = x
  BY <1>2 DEF Lists
<1> QED BY <1>1, <1>3, <1>4, <1>5, <1>6, <1>7

\* The walk comes to p before it comes to q.
Visits(ch, p, q) ==
  \E a \in DOMAIN ch : \E i, j \in DOMAIN ch[a] :
    i < j /\ IsPrefix(ch[a][i], p) /\ IsPrefix(ch[a][j], q)

\* So the model's Visited says it.
LEMMA VisitsIs ==
  ASSUME NEW ch, NEW p, NEW q
  PROVE  D!Visited(ch, p, q) = Visits(ch, p, q)
BY DRFNodes DEF D!Visited, Visits

\* A child of a node that is above another leads where that one leads.
LEMMA LeadsOn ==
  ASSUME NEW p \in Paths, NEW a \in Paths, NEW x \in Paths, NEW b \in Paths, NEW y \in Paths,
         IsPrefix(x, p), IsPrefix(b, p), Len(x) = Len(a) + 1, Len(a) < Len(b),
         IsPrefix(b, y), NEW r \in Paths, IsPrefix(y, r)
  PROVE  IsPrefix(x, r)
<1>1. Len(x) <= Len(b)
  BY DEF Paths
<1>2. IsPrefix(x, b)
  BY <1>1, PrefixOrder
<1>3. IsPrefix(x, y)
  BY <1>2, PrefixOrder
<1> QED BY <1>3, PrefixOrder

\* What comes before what comes before r.
LEMMA VisitsOn ==
  ASSUME NEW T, Shape(T), NEW ch, Listing(T, ch),
         NEW p \in DOMAIN T, NEW q \in DOMAIN T, NEW r \in DOMAIN T,
         Visits(ch, p, q), Visits(ch, q, r)
  PROVE  Visits(ch, p, r)
<1>1. p \in Paths /\ q \in Paths /\ r \in Paths
  BY DEF Shape, Typed
<1>2. PICK a \in DOMAIN ch : \E i, j \in DOMAIN ch[a] :
             i < j /\ IsPrefix(ch[a][i], p) /\ IsPrefix(ch[a][j], q)
  BY DEF Visits
<1>3. PICK i, j \in DOMAIN ch[a] : i < j /\ IsPrefix(ch[a][i], p) /\ IsPrefix(ch[a][j], q)
  BY <1>2
<1>4. PICK b \in DOMAIN ch : \E k, l \in DOMAIN ch[b] :
             k < l /\ IsPrefix(ch[b][k], q) /\ IsPrefix(ch[b][l], r)
  BY DEF Visits
<1>5. PICK k, l \in DOMAIN ch[b] : k < l /\ IsPrefix(ch[b][k], q) /\ IsPrefix(ch[b][l], r)
  BY <1>4
<1>6. /\ a \in Paths /\ ch[a][i] \in Paths /\ ch[a][j] \in Paths
      /\ IsPrefix(a, ch[a][i]) /\ IsPrefix(a, ch[a][j]) /\ Len(ch[a][j]) = Len(a) + 1
      /\ ch[a][j] \in ChildrenOf(T, a) /\ DOMAIN ch[a] \subseteq Nat
      /\ \A m, n \in DOMAIN ch[a] : ch[a][m] = ch[a][n] => m = n
  BY <1>3, ListedNodes
<1>7. /\ b \in Paths /\ ch[b][k] \in Paths /\ ch[b][l] \in Paths
      /\ IsPrefix(b, ch[b][k]) /\ IsPrefix(b, ch[b][l]) /\ Len(ch[b][k]) = Len(b) + 1
      /\ ch[b][k] \in ChildrenOf(T, b) /\ DOMAIN ch[b] \subseteq Nat
  BY <1>5, ListedNodes
<1>8. IsPrefix(a, q) /\ IsPrefix(b, q)
  BY <1>1, <1>3, <1>5, <1>6, <1>7, PrefixOrder
<1>9. Len(a) \in Nat /\ Len(b) \in Nat
  BY <1>6, <1>7 DEF Paths
<1>10. CASE Len(a) = Len(b)
  <2>1. a = b
    <3>1. IsPrefix(a, b)
      BY <1>1, <1>6, <1>7, <1>8, <1>9, <1>10, PrefixOrder
    <3> QED BY <1>6, <1>7, <1>9, <1>10, <3>1, PrefixOrder
  <2>2. ch[a][j] \in Upwards(q) /\ ch[a][k] \in Upwards(q)
    BY <1>1, <1>3, <1>5, <1>6, <1>7, <2>1, UpwardsArePrefixes
  <2>3. ch[a][j] = ch[a][k]
    BY <1>1, <1>6, <1>7, <2>1, <2>2, OneLeads DEF Shape, Typed
  <2>4. j = k
    BY <1>6, <2>1, <2>3
  <2>5. i < l
    BY <1>3, <1>5, <1>6, <2>1, <2>4
  <2> QED BY <1>3, <1>5, <2>1, <2>5 DEF Visits
<1>11. CASE Len(a) < Len(b)
  <2>1. IsPrefix(ch[a][j], r)
    BY <1>1, <1>3, <1>5, <1>6, <1>7, <1>8, <1>11, LeadsOn
  <2> QED BY <1>3, <2>1 DEF Visits
<1>12. CASE Len(b) < Len(a)
  <2>1. IsPrefix(ch[b][k], p)
    BY <1>1, <1>3, <1>5, <1>6, <1>7, <1>8, <1>12, LeadsOn
  <2> QED BY <1>5, <2>1 DEF Visits
<1> QED BY <1>9, <1>10, <1>11, <1>12

\* Of two leaves the walk comes to one first.
LEMMA VisitsOne ==
  ASSUME NEW T, Shape(T), NEW ch, Listing(T, ch), NEW p \in DOMAIN T, NEW q \in DOMAIN T,
         T[p].kind # "internal", T[q].kind # "internal", p # q
  PROVE  Visits(ch, p, q) \/ Visits(ch, q, p)
<1>1. p \in Paths /\ q \in Paths
  BY DEF Shape, Typed
<1>2. ~IsPrefix(p, q) /\ ~IsPrefix(q, p)
  BY LeavesAre
<1>3. PICK x \in Above(p) : ~IsPrefix(x, q) /\ \A y \in Above(p) : ~IsPrefix(y, q) => ~(Len(y) < Len(x))
  <2> DEFINE N == {Len(y) : y \in {z \in Above(p) : ~IsPrefix(z, q)}}
  <2>1. p \in Above(p)
    BY <1>1, <1>2, UpwardsArePrefixes, PrefixOrder
  <2>2. \A y \in Above(p) : Len(y) \in Nat
    BY <1>1, UpwardsArePrefixes DEF Paths
  <2>3. N \in SUBSET Nat /\ N # {}
    BY <1>2, <2>1, <2>2
  <2>4. PICK n \in N : \A m \in N : ~(m < n)
    <3> HIDE DEF N
    <3> QED BY <2>3, LeastNumber
  <2> QED BY <2>4
<1>4. x \in Paths /\ IsPrefix(x, p) /\ x # Root
  BY <1>1, <1>3, UpwardsArePrefixes
<1>5. PICK a : a = Front(x)
  OBVIOUS
<1>6. a \in Paths /\ IsPrefix(a, p) /\ Len(a) = Len(x) - 1 /\ Len(x) \in Nat
  <2>1. a \in Paths /\ IsPrefix(a, x) /\ Len(a) = Len(x) - 1 /\ Len(x) \in Nat
    BY <1>4, <1>5, FrontOf
  <2> QED BY <1>1, <1>4, <2>1, PrefixOrder
<1>7. IsPrefix(a, q)
  <2>1. CASE a = Root
    BY <1>1, <2>1, PrefixOrder
  <2>2. CASE a # Root
    <3>1. a \in Above(p)
      BY <1>1, <1>6, <2>2, UpwardsArePrefixes
    <3>2. Len(a) < Len(x)
      BY <1>6
    <3> QED BY <1>3, <3>1, <3>2
  <2> QED BY <2>1, <2>2
<1>8. a # q /\ a # p
  BY <1>2, <1>6, <1>7
<1>9. PICK y \in Paths : y # Root /\ Front(y) = a /\ IsPrefix(y, q)
  BY <1>1, <1>6, <1>7, <1>8, ChildTowards
<1>10. x # y
  BY <1>3, <1>9
<1>11. a \in DOMAIN T /\ T[a].kind = "internal"
  BY <1>6, <1>8 DEF Shape, Closed
<1>12. x \in ChildrenOf(T, a) /\ y \in ChildrenOf(T, a)
  <2>1. \A z \in Paths : IsPrefix(z, p) \/ IsPrefix(z, q) => z \in DOMAIN T
    BY DEF Shape, Closed
  <2> QED BY <1>4, <1>5, <1>9, <2>1 DEF ChildrenOf
<1>13. a \in DOMAIN ch
  BY <1>11 DEF Listing
<1>14. PICK i, j \in DOMAIN ch[a] : ch[a][i] = x /\ ch[a][j] = y
  BY <1>12, <1>13, ListedNodes
<1>15. i < j \/ j < i
  <2>1. i \in Nat /\ j \in Nat
    BY <1>13, <1>14, ListedNodes
  <2>2. i # j
    BY <1>10, <1>14
  <2> QED BY <2>1, <2>2
<1> QED BY <1>4, <1>9, <1>13, <1>14, <1>15 DEF Visits

\* So the leaves are in order.
LEMMA VisitsOrder ==
  ASSUME NEW T, Shape(T), NEW ch, Listing(T, ch), NEW L,
         L \subseteq {p \in DOMAIN T : T[p].kind # "internal"},
         NEW Q, Q = {e \in L \X L : Visits(ch, e[1], e[2])}
  PROVE  TotalOn(Q, L)
<1>1. \A p, q \in L : <<p, q>> \in Q <=> Visits(ch, p, q)
  OBVIOUS
<1>2. ASSUME NEW p \in L, Visits(ch, p, p)
      PROVE  FALSE
  <2>1. PICK a \in DOMAIN ch : \E i, j \in DOMAIN ch[a] :
               i < j /\ IsPrefix(ch[a][i], p) /\ IsPrefix(ch[a][j], p)
    BY <1>2 DEF Visits
  <2>2. PICK i, j \in DOMAIN ch[a] : i < j /\ IsPrefix(ch[a][i], p) /\ IsPrefix(ch[a][j], p)
    BY <2>1
  <2>3. /\ ch[a][i] \in Paths /\ ch[a][i] \in ChildrenOf(T, a)
        /\ ch[a][j] \in Paths /\ ch[a][j] \in ChildrenOf(T, a)
        /\ (ch[a][i] = ch[a][j] => i = j) /\ i \in Nat /\ j \in Nat
    BY <2>2, ListedNodes
  <2>4. DOMAIN T \subseteq Paths /\ p \in Paths
    BY DEF Shape, Typed
  <2>5. ch[a][i] \in Upwards(p) /\ ch[a][j] \in Upwards(p)
    BY <2>2, <2>3, <2>4, UpwardsArePrefixes
  <2>6. ch[a][i] = ch[a][j]
    BY <2>3, <2>4, <2>5, OneLeads
  <2> QED BY <2>2, <2>3, <2>6
<1>3. \A p, q, r \in L : Visits(ch, p, q) /\ Visits(ch, q, r) => Visits(ch, p, r)
  <2> SUFFICES ASSUME NEW p \in L, NEW q \in L, NEW r \in L, Visits(ch, p, q), Visits(ch, q, r)
               PROVE  Visits(ch, p, r)
    OBVIOUS
  <2>1. p \in DOMAIN T /\ q \in DOMAIN T /\ r \in DOMAIN T
    OBVIOUS
  <2> QED BY <2>1, VisitsOn
<1>4. \A p, q \in L : p = q \/ Visits(ch, p, q) \/ Visits(ch, q, p)
  BY VisitsOne
<1> HIDE DEF Visits
<1> QED BY <1>1, <1>2, <1>3, <1>4 DEF TotalOn, StrictOn

\* The ones of a node's children that are sorted.
LEMMA SortableAre ==
  ASSUME Shape(drfTree), NEW ch, Listing(drfTree, ch), NEW a \in DOMAIN ch
  PROVE  ToSet(D!Sortable(ch[a])) = {x \in ChildrenOf(drfTree, a) : drfTree[x].kind # "inactive"}
<1> DEFINE cs == ch[a]
           X == ChildrenOf(drfTree, a)
<1>1. Lists(drfTree, cs, X)
  BY DEF Listing
<1>2. PICK n : SortedAre(drfTree, cs, n) /\ D!Sortable(cs) = SubSeq(cs, 1, n)
  BY <1>1, SortableIs
<1>3. /\ cs \in Seq(X) /\ Len(cs) \in Nat /\ DOMAIN cs = 1..Len(cs)
      /\ n \in Nat /\ n <= Len(cs)
      /\ \A k \in DOMAIN cs : drfTree[cs[k]].kind # "inactive" <=> k <= n
      /\ \A x \in X : \E k \in DOMAIN cs : cs[k] = x
      /\ \A k \in DOMAIN cs : cs[k] \in X
  <2>1. cs \in Seq(X) /\ Len(cs) \in Nat /\ DOMAIN cs = 1..Len(cs) /\ \A k \in DOMAIN cs : cs[k] \in X
    BY <1>1 DEF Lists
  <2> QED BY <1>1, <1>2, <2>1 DEF Lists, SortedAre
<1> HIDE DEF cs, X
<1>4. DOMAIN SubSeq(cs, 1, n) = 1..n /\ \A k \in 1..n : SubSeq(cs, 1, n)[k] = cs[k]
  BY <1>3
<1>5. ToSet(D!Sortable(cs)) = {cs[k] : k \in 1..n}
  BY <1>2, <1>4 DEF ToSet
<1>6. ToSet(D!Sortable(cs)) = {x \in X : drfTree[x].kind # "inactive"}
  BY <1>3, <1>5
<1> QED BY <1>6 DEF cs, X

\* The walk reaches the active leaves.
LEMMA WalkReaches ==
  ASSUME Shape(drfTree), NEW ch, Listing(drfTree, ch), NEW p \in DOMAIN drfTree
  PROVE  IsLeaf(drfTree, p) /\ (\A q \in Above(p) : q \in ToSet(D!Sortable(ch[Front(q)])))
           <=> drfTree[p].kind = "active"
<1>1. p \in Paths /\ drfTree[p].kind \in {"active", "inactive", "internal"}
  BY DEF Shape, Typed, Nodes, Kinds
<1>2. ASSUME NEW q \in Above(p)
      PROVE  /\ q \in DOMAIN drfTree /\ (q # p => drfTree[q].kind = "internal")
             /\ q \in ToSet(D!Sortable(ch[Front(q)])) <=> drfTree[q].kind # "inactive"
  <2>1. q \in Paths /\ IsPrefix(q, p) /\ q # Root
    BY <1>1, UpwardsArePrefixes
  <2>2. q \in DOMAIN drfTree /\ (q # p => drfTree[q].kind = "internal")
    BY <2>1 DEF Shape, Closed
  <2>3. Front(q) \in Paths /\ IsPrefix(Front(q), q) /\ Front(q) # q
    BY <2>1, FrontOf
  <2>4. Front(q) \in DOMAIN drfTree /\ drfTree[Front(q)].kind = "internal"
    BY <2>2, <2>3 DEF Shape, Closed
  <2>5. Front(q) \in DOMAIN ch
    BY <2>4 DEF Listing
  <2>6. ToSet(D!Sortable(ch[Front(q)])) =
          {x \in ChildrenOf(drfTree, Front(q)) : drfTree[x].kind # "inactive"}
    BY <2>5, SortableAre
  <2>7. q \in ChildrenOf(drfTree, Front(q))
    BY <2>1, <2>2 DEF ChildrenOf
  <2> QED BY <2>2, <2>6, <2>7
<1>3. p # Root => p \in Above(p)
  BY <1>1, UpwardsArePrefixes, PrefixOrder
<1>4. drfTree[p].kind # "internal" => p # Root
  BY DEF Shape, Rooted
<1>5. ASSUME IsLeaf(drfTree, p), \A q \in Above(p) : q \in ToSet(D!Sortable(ch[Front(q)]))
      PROVE  drfTree[p].kind = "active"
  BY <1>1, <1>2, <1>3, <1>4, <1>5 DEF IsLeaf
<1>6. ASSUME drfTree[p].kind = "active"
      PROVE  IsLeaf(drfTree, p) /\ \A q \in Above(p) : q \in ToSet(D!Sortable(ch[Front(q)]))
  BY <1>2, <1>6 DEF IsLeaf
<1> QED BY <1>5, <1>6

\* The leaves in the order in which the walk comes to them.
InTurn(ch, L) ==
  CHOOSE l \in SetToSeqs(L) : \A i, j \in DOMAIN l : i < j => D!Visited(ch, l[i], l[j])

\* listClients lists them, by their clients.
LEMMA ListedIs ==
  ASSUME Shape(drfTree), NEW ch, Listing(drfTree, ch),
         NEW L, L = {p \in DOMAIN drfTree : drfTree[p].kind = "active"}
  PROVE  D!Listed(ch) = [i \in DOMAIN InTurn(ch, L) |-> ClientPath(InTurn(ch, L)[i])]
<1> DEFINE leaves == {p \in DOMAIN drfTree :
                        /\ D!IsLeaf(drfTree, p)
                        /\ \A q \in D!Above(p) : q \in D!ToSet(D!Sortable(ch[D!Front(q)]))}
           turn == CHOOSE l \in D!SetToSeqs(leaves) :
                     \A i, j \in DOMAIN l : i < j => D!Visited(ch, l[i], l[j])
<1>1. D!Listed(ch) = [i \in DOMAIN turn |-> D!ClientPath(turn[i])]
  BY DEF D!Listed, D!Walk, D!Arranged
<1>2. leaves = L
  <2>1. \A p \in DOMAIN drfTree :
          D!IsLeaf(drfTree, p) /\ (\A q \in D!Above(p) : q \in D!ToSet(D!Sortable(ch[D!Front(q)])))
            <=> drfTree[p].kind = "active"
    <3> SUFFICES ASSUME NEW p \in DOMAIN drfTree
                 PROVE  D!IsLeaf(drfTree, p)
                          /\ (\A q \in D!Above(p) : q \in D!ToSet(D!Sortable(ch[D!Front(q)])))
                            <=> drfTree[p].kind = "active"
      OBVIOUS
    <3>1. IsLeaf(drfTree, p) /\ (\A q \in Above(p) : q \in ToSet(D!Sortable(ch[Front(q)])))
            <=> drfTree[p].kind = "active"
      BY WalkReaches
    <3>2. /\ D!IsLeaf(drfTree, p) = IsLeaf(drfTree, p) /\ D!Above(p) = Above(p)
          /\ \A q : D!Front(q) = Front(q) /\ D!ToSet(q) = ToSet(q)
      BY DRFNodes
    <3> QED BY <3>1, <3>2
  <2> QED BY <2>1
<1>3. turn = InTurn(ch, L)
  <2>1. D!SetToSeqs(leaves) = SetToSeqs(L)
    BY <1>2, DRFNodes
  <2> HIDE DEF leaves
  <2> QED BY <2>1 DEF InTurn
<1>4. \A p : D!ClientPath(p) = ClientPath(p)
  BY DRFNodes
<1> HIDE DEF turn
<1> QED BY <1>1, <1>3, <1>4

\* That is, the active clients, each once.
LEMMA ListsActive ==
  ASSUME Shape(drfTree), NEW ch, Listing(drfTree, ch)
  PROVE  D!Listed(ch) \in SetToSeqs(ActiveClients(drfTree))
<1> DEFINE L == {p \in DOMAIN drfTree : drfTree[p].kind = "active"}
           A == ActiveClients(drfTree)
           l == InTurn(ch, L)
           Q == {e \in L \X L : Visits(ch, e[1], e[2])}
<1>1. /\ A = {ClientPath(p) : p \in L} /\ \A p \in L : LeafOf(drfTree, ClientPath(p)) = p
  BY LeavesAre DEF ActiveClients
<1>2. IsFiniteSet(A) /\ IsFiniteSet(L)
  <2>1. A \subseteq ClientsOf(drfTree)
    BY DEF ActiveClients, ClientsOf, IsLeaf
  <2>2. IsFiniteSet(A)
    BY <2>1, FS_Subset DEF Shape
  <2> DEFINE f == [c \in A |-> LeafOf(drfTree, c)]
  <2>3. f \in Surjection(A, L)
    BY <1>1 DEF Surjection
  <2> HIDE DEF A, L, f
  <2> QED BY <2>2, <2>3, FS_Surjection
<1>3. TotalOn(Q, L)
  <2>1. L \subseteq {p \in DOMAIN drfTree : drfTree[p].kind # "internal"}
    OBVIOUS
  <2> QED BY <2>1, VisitsOrder
<1>4. D!Listed(ch) = [i \in DOMAIN l |-> ClientPath(l[i])]
  BY ListedIs
<1>5. l \in SetToSeqs(L)
  <2>1. PICK m \in SetToSeqs(L) : Ascends(m, Q)
    BY <1>2, <1>3, OrderedListing
  <2>2. \A i, j \in DOMAIN m : i < j => D!Visited(ch, m[i], m[j])
    BY <2>1, VisitsIs DEF Ascends
  <2> HIDE DEF L
  <2> QED BY <2>1, <2>2 DEF InTurn
<1> HIDE DEF l, L, A, Q
<1>6. /\ l \in Seq(L) /\ ToSet(l) = L
      /\ \A i, j \in DOMAIN l : i # j => l[i] # l[j]
  BY <1>2, <1>5, ListingIs
<1> DEFINE d == [i \in DOMAIN l |-> ClientPath(l[i])]
<1>7. /\ d \in Seq(A) /\ DOMAIN d = DOMAIN l
      /\ \A i \in DOMAIN l : d[i] = ClientPath(l[i]) /\ l[i] \in L
  <2>1. \A i \in DOMAIN l : l[i] \in L /\ ClientPath(l[i]) \in A
    BY <1>1, <1>6
  <2>2. DOMAIN l = 1..Len(l) /\ Len(l) \in Nat
    BY <1>6
  <2> QED BY <2>1, <2>2
<1> HIDE DEF d
<1>8. ASSUME NEW c \in A
      PROVE  \E i \in DOMAIN d : d[i] = c
  <2>1. PICK p \in L : c = ClientPath(p)
    BY <1>1
  <2>2. PICK i \in DOMAIN l : l[i] = p
    BY <1>6 DEF ToSet
  <2> QED BY <1>7, <2>1, <2>2
<1>9. ASSUME NEW i \in DOMAIN d, NEW j \in DOMAIN d, i # j
      PROVE  d[i] # d[j]
  <2>1. l[i] # l[j] /\ l[i] \in L /\ l[j] \in L
    BY <1>6, <1>7, <1>9
  <2> QED BY <1>1, <1>7, <2>1
<1>10. d \in SetToSeqs(A)
  BY <1>2, <1>7, <1>8, <1>9, ListingOf
<1> QED BY <1>4, <1>10 DEF d, A

\* sort() of the DRFSorter is that of Sorter.
LEMMA DRFSortSimulates ==
  ASSUME IInv, IInv', OrderInv, OrderInv', DRFSorts
  PROVE  DRF!Next
<1>1. /\ Sort /\ ClientsIn(drfTree') = ClientsIn(drfTree) /\ UNCHANGED total
      /\ drfSorted' = D!Listed(children')
  BY SortDoes DEF DRFSorts
<1>2. Shape(drfTree) /\ Shape(drfTree')
  BY DEF IInv, Books, Good
<1>3. Listing(drfTree, children')
  <2>1. drfTree' = drfTree \/ \E which : drfTree' = Cached(drfTree, weights, which)
    BY <1>1, SortStep
  <2>2. DOMAIN drfTree = DOMAIN drfTree' /\ \A p \in DOMAIN drfTree' : drfTree[p].kind = drfTree'[p].kind
    <3>1. Good(drfTree) /\ weights \in [Weighted -> Nat \ {0}]
      BY DEF IInv, Books
    <3> QED BY <2>1, <3>1, CachedShares
  <2>3. Listing(drfTree', children')
    BY DEF OrderInv
  <2> QED BY <2>2, <2>3, SameListing
<1>4. drfSorted' \in SetToSeqs(ActiveClients(drfTree))
  BY <1>1, <1>2, <1>3, ListsActive
<1>5. ActiveClients(drfTree) =
        {c \in DOMAIN ClientsIn(drfTree) : ClientsIn(drfTree)[c].active}
  <2>1. /\ DOMAIN ClientsIn(drfTree) = ClientsOf(drfTree)
        /\ \A c \in ClientsOf(drfTree) :
             ClientsIn(drfTree)[c].active = (drfTree[LeafOf(drfTree, c)].kind = "active")
    BY ClientsInIs DEF Entry
  <2> QED BY <1>2, <2>1, ActiveAre
<1>6. \A S : DRF!SetToSeqs(S) = SetToSeqs(S)
  BY DEF DRF!SetToSeqs, SetToSeqs, DRF!Cardinality, Cardinality
<1>7. DRF!Sort
  BY <1>1, <1>4, <1>5, <1>6 DEF DRF!Sort
<1> QED BY <1>7 DEF DRF!Next

\* The DRFSorter implements Sorter (sorter.hpp), for any clients, agents, weights and
\* resources: splitting, collapsing and pruning nodes loses no client and no allocation of
\* one, and the walk of listClients, which turns back at the first inactive leaf of a node,
\* comes to every active client, and once.
THEOREM DRFImplementsSorter ==
  Spec => DRFIsSorter
<1>1. Init => DRF!Init
  <2> SUFFICES ASSUME Init
               PROVE  DRF!Init
    OBVIOUS
  <2>1. drfTree = EmptyTree /\ total = << >> /\ drfSorted = <<>>
    BY DRFTree DEF Init, D!Init
  <2>2. ClientsOf(EmptyTree) = {}
    BY DEF ClientsOf, IsLeaf, EmptyTree
  <2>3. ClientsIn(EmptyTree) = << >>
    BY <2>2, ClientsInIs
  <2> QED BY <2>1, <2>3 DEF DRF!Init
<1>2. IInv /\ IInv' /\ OrderInv /\ OrderInv' /\ [Next]_vars => [DRF!Next]_(DRF!vars)
  BY DRFSimulates, DRFSortSimulates
<1> QED BY <1>1, <1>2, OrderInvariant, Invariant, PTL DEF Spec, DRFIsSorter, DRF!Spec

-----------------------------------------------------------------------------
(* The relative weights of the RandomSorter.                               *)

\* Paths, and with each those above it.
Grove(A) ==
  /\ A \subseteq Paths /\ IsFiniteSet(A) /\ Root \in A
  /\ \A p \in A, q \in Paths : IsPrefix(q, p) => q \in A

\* The children of a path among them.
Brood(A, p) == {q \in A : q # Root /\ Front(q) = p}

\* The paths above a child.
LEMMA AboveChild ==
  ASSUME NEW p \in Paths, p # Root
  PROVE  Above(p) \ {p} = Above(Front(p)) /\ p \in Above(p) /\ Front(p) \in Paths
<1>1. /\ Front(p) \in Paths /\ IsPrefix(Front(p), p) /\ Len(Front(p)) = Len(p) - 1
      /\ Len(p) \in Nat /\ \A q \in Paths : IsPrefix(q, p) /\ q # p => IsPrefix(q, Front(p))
  BY FrontOf
<1>2. /\ IsPrefix(p, p)
      /\ \A q \in Paths : IsPrefix(q, Front(p)) => IsPrefix(q, p)
  BY <1>1, PrefixOrder
<1>3. ~IsPrefix(p, Front(p))
  <2>1. ~(Len(p) <= Len(Front(p)))
    BY <1>1
  <2> QED BY <1>1, <2>1, PrefixIs
<1> QED BY <1>1, <1>2, <1>3, UpwardsArePrefixes

\* A path has finitely many above it.
LEMMA AboveFinite ==
  ASSUME NEW p \in Paths
  PROVE  IsFiniteSet(Upwards(p)) /\ IsFiniteSet(Above(p))
<1>1. /\ Upwards(p) = {q \in Paths : IsPrefix(q, p)} /\ Above(p) \subseteq Upwards(p)
      /\ Len(p) \in Nat
  BY UpwardsArePrefixes DEF Paths
<1> DEFINE f == [q \in Upwards(p) |-> Len(q)]
           n == Len(p)
<1>2. \A q \in Upwards(p) : f[q] \in 0..n
  <2> SUFFICES ASSUME NEW q \in Upwards(p) PROVE Len(q) \in 0..n
    OBVIOUS
  <2>1. q \in Paths /\ IsPrefix(q, p)
    BY <1>1
  <2>2. Len(q) \in Nat /\ Len(q) <= Len(p)
    BY <2>1, PrefixIs DEF Paths
  <2> QED BY <1>1, <2>2
<1>3. \A q, r \in Upwards(p) : f[q] = f[r] => q = r
  <2> SUFFICES ASSUME NEW q \in Upwards(p), NEW r \in Upwards(p), Len(q) = Len(r)
               PROVE  q = r
    OBVIOUS
  <2>1. q \in Paths /\ r \in Paths /\ IsPrefix(q, p) /\ IsPrefix(r, p) /\ Len(q) \in Nat
    BY <1>1 DEF Paths
  <2>2. Len(q) <= Len(r) /\ Len(r) <= Len(q)
    BY <2>1
  <2>3. IsPrefix(q, r) /\ IsPrefix(r, q)
    BY <2>1, <2>2, PrefixOrder
  <2> QED BY <2>1, <2>3, PrefixOrder
<1>4. f \in Injection(Upwards(p), 0..n)
  BY <1>2, <1>3 DEF Injection, IsInjective
<1>5. IsFiniteSet(0..n)
  <2> HIDE DEF n
  <2>1. n \in Int
    BY <1>1 DEF n
  <2> QED BY <2>1, FS_Interval
<1>6. IsFiniteSet(Upwards(p))
  <2> HIDE DEF f
  <2> QED BY <1>4, <1>5, FS_Injection
<1> QED BY <1>1, <1>6, FS_Subset

\* Weights w of paths, the sums of those of siblings, and shares V of K: the products of the
\* weights above a path over those of the sums above it.
Weighs(A, w, sum, m, V, K) ==
  /\ \A p \in A : w[p] \in Nat \ {0}
  /\ \A p \in A \ {Root} : sum[p] = SumFunctionOnSet(w, Brood(A, Front(p)))
  /\ \A p \in A : m[p] \in Nat /\ K = ProductOnSet(sum, Above(p)) * m[p]
  /\ \A p \in A : V[p] = ProductOnSet(w, Above(p)) * m[p]

\* The sums are those of at least one weight.
LEMMA SumsArePositive ==
  ASSUME NEW A, Grove(A), NEW w, NEW sum, \A p \in A : w[p] \in Nat \ {0},
         \A p \in A \ {Root} : sum[p] = SumFunctionOnSet(w, Brood(A, Front(p)))
  PROVE  \A p \in A \ {Root} : sum[p] \in Nat \ {0}
<1> SUFFICES ASSUME NEW p \in A, p # Root PROVE sum[p] \in Nat \ {0}
  OBVIOUS
<1> DEFINE B == Brood(A, Front(p))
<1>1. IsFiniteSet(B) /\ p \in B /\ B \subseteq A
  BY FS_Subset DEF Grove, Brood
<1>2. sum[p] = SumFunctionOnSet(w, B) /\ w[p] \in Nat \ {0} /\ \A x \in B : w[x] \in Nat
  BY <1>1
<1> HIDE DEF B
<1>3. SumFunctionOnSet(w, B) \in Nat /\ w[p] <= SumFunctionOnSet(w, B)
  BY <1>1, <1>2, SumOfNats
<1> QED BY <1>2, <1>3

\* A path has its parent's share, less what its siblings have.
LEMMA ChildWeighs ==
  ASSUME NEW A, Grove(A), NEW w, NEW sum, NEW m, NEW V, NEW K, Weighs(A, w, sum, m, V, K),
         NEW q \in A, q # Root
  PROVE  /\ Front(q) \in A /\ sum[q] \in Nat \ {0} /\ m[q] \in Nat /\ m[Front(q)] \in Nat
         /\ ProductOnSet(w, Above(Front(q))) \in Nat \ {0}
         /\ m[Front(q)] = sum[q] * m[q]
         /\ V[q] = w[q] * (ProductOnSet(w, Above(Front(q))) * m[q])
<1> DEFINE f == Front(q)
<1>1. /\ q \in Paths /\ f \in Paths /\ IsPrefix(f, q) /\ f \in A
  BY FrontOf DEF Grove
<1>3. \A p \in A \ {Root} : sum[p] \in Nat \ {0}
  <2>1. /\ \A p \in A : w[p] \in Nat \ {0}
        /\ \A p \in A \ {Root} : sum[p] = SumFunctionOnSet(w, Brood(A, Front(p)))
    BY DEF Weighs
  <2> QED BY ONLY Grove(A), <2>1, SumsArePositive
<1>4. /\ Above(q) \ {q} = Above(f) /\ q \in Above(q) /\ IsFiniteSet(Above(q))
      /\ IsFiniteSet(Above(f)) /\ Above(q) \subseteq A \ {Root} /\ Above(f) \subseteq A \ {Root}
  <2>1. Above(q) \ {q} = Above(f) /\ q \in Above(q)
    BY <1>1, AboveChild
  <2>2. Above(q) \subseteq A \ {Root}
    BY <1>1, UpwardsArePrefixes DEF Grove
  <2> QED BY <1>1, <2>1, <2>2, AboveFinite
<1> DEFINE W == ProductOnSet(w, Above(f))
           S == ProductOnSet(sum, Above(f))
<1>5. ProductOnSet(w, Above(q)) = w[q] * W /\ W \in Nat \ {0} /\ w[q] \in Nat \ {0}
  <2>1. \A x \in Above(q) : w[x] \in Nat \ {0}
    BY <1>4 DEF Weighs
  <2> QED BY <1>4, <2>1, ProductTakesAny
<1>6. ProductOnSet(sum, Above(q)) = sum[q] * S /\ S \in Nat \ {0}
  <2>1. \A x \in Above(q) : sum[x] \in Nat \ {0}
    BY <1>3, <1>4
  <2> QED BY <1>4, <2>1, ProductTakesAny
<1>7. /\ K = S * m[f] /\ K = (sum[q] * S) * m[q] /\ V[q] = (w[q] * W) * m[q]
      /\ m[q] \in Nat /\ m[f] \in Nat
  <2>1. \A p \in {q, f} : /\ m[p] \in Nat /\ K = ProductOnSet(sum, Above(p)) * m[p]
                          /\ V[p] = ProductOnSet(w, Above(p)) * m[p]
    BY <1>1 DEF Weighs
  <2> QED BY <1>5, <1>6, <2>1
<1>8. sum[q] \in Nat \ {0} /\ W \in Nat /\ S \in Nat \ {0} /\ w[q] \in Nat
  BY <1>3, <1>5, <1>6
<1> HIDE DEF W, S
<1>9. V[q] = w[q] * (W * m[q])
  <2>1. (w[q] * W) * m[q] = w[q] * (W * m[q])
    BY ONLY <1>7, <1>8, TimesCommutes
  <2> QED BY <1>7, <2>1
<1>10. m[f] = sum[q] * m[q]
  <2>1. (sum[q] * S) * m[q] = sum[q] * (S * m[q])
    BY ONLY <1>7, <1>8, TimesCommutes
  <2>2. sum[q] * (S * m[q]) = S * (sum[q] * m[q])
    BY ONLY <1>7, <1>8, TimesCommutes
  <2>3. S * m[f] = S * (sum[q] * m[q]) /\ sum[q] * m[q] \in Nat
    BY ONLY <1>7, <1>8, <2>1, <2>2
  <2> QED BY ONLY <1>7, <1>8, <2>3, Cancels
<1> QED BY <1>1, <1>5, <1>7, <1>8, <1>9, <1>10 DEF W

\* Siblings share what their parent has.
LEMMA BroodWeighs ==
  ASSUME NEW A, Grove(A), NEW w, NEW sum, NEW m, NEW V, NEW K, Weighs(A, w, sum, m, V, K),
         NEW p \in A, Brood(A, p) # {}
  PROVE  SumFunctionOnSet(V, Brood(A, p)) = V[p]
<1> DEFINE B == Brood(A, p)
           s == SumFunctionOnSet(w, B)
           W == ProductOnSet(w, Above(p))
<1>0. IsFiniteSet(B) /\ \A q \in B : q \in A /\ q # Root /\ Front(q) = p
  BY FS_Subset DEF Grove, Brood
<1>1. \A q \in B : /\ sum[q] = s /\ s \in Nat \ {0} /\ m[q] \in Nat /\ m[p] = s * m[q]
                   /\ V[q] = w[q] * (W * m[q]) /\ W \in Nat
  <2> SUFFICES ASSUME NEW q \in B
               PROVE  /\ sum[q] = s /\ s \in Nat \ {0} /\ m[q] \in Nat /\ m[p] = s * m[q]
                      /\ V[q] = w[q] * (W * m[q]) /\ W \in Nat
    OBVIOUS
  <2>1. q \in A /\ q # Root /\ Front(q) = p
    BY <1>0
  <2>2. sum[q] = s
    BY <2>1 DEF Weighs
  <2>3. /\ sum[q] \in Nat \ {0} /\ m[q] \in Nat /\ W \in Nat \ {0} /\ m[p] = sum[q] * m[q]
        /\ V[q] = w[q] * (W * m[q])
    BY <2>1, ChildWeighs
  <2> QED BY <2>2, <2>3
<1>2. PICK z : z \in B
  OBVIOUS
<1>3. (\A q \in B : w[q] \in Int) /\ V[p] = W * m[p]
  BY <1>0 DEF Weighs
<1> HIDE DEF B, s, W
<1> DEFINE k == W * m[z]
<1>4. k \in Int /\ k \in Nat
  BY <1>1, <1>2
<1>5. \A q \in B : w[q] \in Int /\ V[q] = w[q] * k
  <2> SUFFICES ASSUME NEW q \in B PROVE m[q] = m[z]
    BY <1>1, <1>3
  <2>1. s * m[q] = s * m[z] /\ s \in Nat \ {0} /\ m[q] \in Nat /\ m[z] \in Nat
    BY <1>1, <1>2
  <2> QED BY ONLY <2>1, Cancels
<1>6. SumFunctionOnSet(V, B) = s * k
  <2> HIDE DEF k
  <2> QED BY <1>0, <1>4, <1>5, SumScales DEF s
<1>7. s * (W * m[z]) = W * (s * m[z])
  <2>1. s \in Nat /\ W \in Nat /\ m[z] \in Nat
    BY <1>1, <1>2
  <2> QED BY ONLY <2>1, TimesCommutes
<1>8. SumFunctionOnSet(V, B) = V[p]
  BY <1>1, <1>2, <1>3, <1>6, <1>7
<1> QED BY <1>8 DEF B

\* The paths of length n and the shorter ones that have no children.
Frontier(A, n) == {p \in A : Len(p) = n \/ (Len(p) < n /\ Brood(A, p) = {})}

\* Going one name further, the shares still add up to the same.
LEMMA FrontierWeighs ==
  ASSUME NEW A, Grove(A), NEW w, NEW sum, NEW m, NEW V, NEW K, Weighs(A, w, sum, m, V, K),
         NEW n \in Nat
  PROVE  SumFunctionOnSet(V, Frontier(A, n + 1)) = SumFunctionOnSet(V, Frontier(A, n))
<1> DEFINE S == Frontier(A, n + 1)
           B == Frontier(A, n)
           h == [q \in S |-> IF Len(q) = n + 1 THEN Front(q) ELSE q]
           Fibre(b) == {q \in S : h[q] = b}
<1>0. /\ IsFiniteSet(S) /\ IsFiniteSet(B) /\ S \subseteq A /\ B \subseteq A
      /\ \A p \in A : p \in Paths /\ Len(p) \in Nat /\ V[p] \in Int
  <2>1. \A p \in A : p \in Paths /\ Len(p) \in Nat /\ IsFiniteSet(Above(p)) /\ Above(p) \subseteq A
    BY AboveFinite, UpwardsArePrefixes DEF Grove, Paths
  <2>2. \A p \in A : V[p] \in Int
    <3> SUFFICES ASSUME NEW p \in A PROVE V[p] \in Int
      OBVIOUS
    <3>1. \A q \in Above(p) : w[q] \in Nat \ {0}
      BY <2>1 DEF Weighs
    <3>2. ProductOnSet(w, Above(p)) \in Nat \ {0}
      BY <2>1, <3>1, ProductType
    <3> QED BY <3>2 DEF Weighs
  <2>3. S \subseteq A /\ B \subseteq A
    BY DEF Frontier
  <2> QED BY <2>1, <2>2, <2>3, FS_Subset DEF Grove
<1>1. \A q \in A : q # Root =>
        /\ Front(q) \in A /\ Len(Front(q)) = Len(q) - 1 /\ q \in Brood(A, Front(q))
  BY <1>0, FrontOf DEF Grove, Brood
<1>2. \A q \in A : Len(q) = n + 1 => q # Root
  BY <1>0 DEF Root
<1>3. \A b \in A : \A q \in Brood(A, b) : q \in A /\ q # Root /\ Front(q) = b /\ Len(q) = Len(b) + 1
  BY <1>0, <1>1 DEF Brood
<1>4. \A q \in S : h[q] \in B
  <2> SUFFICES ASSUME NEW q \in S PROVE h[q] \in B
    OBVIOUS
  <2>1. q \in A /\ Len(q) \in Nat
    BY <1>0
  <2>2. CASE Len(q) = n + 1
    <3>1. Front(q) \in A /\ Len(Front(q)) = n
      BY <1>1, <1>2, <2>1, <2>2
    <3> QED BY <2>2, <3>1 DEF Frontier
  <2>3. CASE Len(q) # n + 1
    <3>1. Len(q) < n + 1 /\ Brood(A, q) = {}
      BY <2>3 DEF Frontier
    <3>2. Len(q) = n \/ Len(q) < n
      BY <2>1, <3>1
    <3> QED BY <2>1, <2>3, <3>1, <3>2 DEF Frontier
  <2> QED BY <2>2, <2>3
<1>5. ASSUME NEW b \in B
      PROVE  V[b] = SumFunctionOnSet(V, Fibre(b))
  <2>0. b \in A /\ Len(b) \in Nat
    BY <1>0
  <2>1. CASE Len(b) = n /\ Brood(A, b) # {}
    <3>1. \A q \in Brood(A, b) : q \in S /\ Len(q) = n + 1 /\ Front(q) = b
      BY <1>3, <2>0, <2>1 DEF Frontier
    <3>2. ASSUME NEW q \in S, h[q] = b PROVE q \in Brood(A, b)
      <4>1. Len(q) # n + 1 => Brood(A, q) = {}
        BY DEF Frontier
      <4>2. Len(q) = n + 1 => Front(q) = b /\ q # Root /\ q \in A
        BY <1>0, <1>2, <3>2
      <4>3. Len(q) = n + 1
        BY <2>1, <3>2, <4>1
      <4> QED BY <4>2, <4>3 DEF Brood
    <3>3. Fibre(b) = Brood(A, b)
      BY <3>1, <3>2
    <3>4. SumFunctionOnSet(V, Brood(A, b)) = V[b]
      BY ONLY Grove(A), Weighs(A, w, sum, m, V, K), <2>0, <2>1, BroodWeighs
    <3> QED BY <3>3, <3>4
  <2>2. CASE Brood(A, b) = {}
    <3>1. Len(b) < n + 1 /\ b \in S
      BY <2>0, <2>2 DEF Frontier
    <3>2. ASSUME NEW q \in S, h[q] = b PROVE q = b
      <4>1. Len(q) = n + 1 => Front(q) = b /\ q \in Brood(A, Front(q))
        BY <1>0, <1>1, <1>2, <3>2
      <4> QED BY <2>2, <3>2, <4>1
    <3>3. h[b] = b
      BY <2>0, <3>1
    <3>4. Fibre(b) = {b}
      BY <3>1, <3>2, <3>3
    <3> QED BY <1>0, <2>0, <3>4, SumOfSingle
  <2>3. Len(b) = n \/ Brood(A, b) = {}
    BY DEF Frontier
  <2> QED BY <2>1, <2>2, <2>3
<1>6. \A q \in S : V[q] \in Int
  BY <1>0
<1>7. SumFunctionOnSet(V, S) = SumFunctionOnSet(V, B)
  <2>1. AreParts(V, V, S, h, B)
    BY <1>4, <1>5 DEF AreParts
  <2>2. IsFiniteSet(S) /\ IsFiniteSet(B)
    BY <1>0
  <2> HIDE DEF S, B, h
  <2> QED BY ONLY <1>6, <2>1, <2>2, SumOfParts
<1> QED BY <1>7

\* So those without children have all of it.
LEMMA GroveWeighs ==
  ASSUME NEW A, Grove(A), NEW w, NEW sum, NEW m, NEW V, NEW K, Weighs(A, w, sum, m, V, K)
  PROVE  SumFunctionOnSet(V, {p \in A : Brood(A, p) = {}}) = K
<1> DEFINE T == {n \in Nat : SumFunctionOnSet(V, Frontier(A, n)) = K}
<1>0. \A p \in A : p \in Paths /\ Len(p) \in Nat
  BY DEF Grove, Paths
<1>1. 0 \in T
  <2>1. Frontier(A, 0) = {Root}
    <3>1. Root \in A /\ Len(Root) = 0
      BY DEF Grove, Root
    <3>2. \A p \in A : Len(p) = 0 => p = Root
      BY <1>0 DEF Root, Paths
    <3> QED BY <1>0, <3>1, <3>2 DEF Frontier
  <2>2. Above(Root) = {}
    BY DEF Above, Root
  <2>3. m[Root] \in Nat /\ K = 1 * m[Root] /\ V[Root] = 1 * m[Root]
    <3>1. Root \in A
      BY DEF Grove
    <3> QED BY <2>2, <3>1, ProductOfNone DEF Weighs
  <2>4. V[Root] = K /\ V[Root] \in Int
    BY <2>3
  <2> QED BY <2>1, <2>4, SumOfSingle
<1>2. ASSUME NEW n \in Nat, n \in T PROVE n + 1 \in T
  BY <1>2, FrontierWeighs
<1>3. Nat \subseteq T
  <2> HIDE DEF T
  <2> QED BY <1>1, <1>2, NumberInduction
<1>4. \E z \in A : \A p \in A : Len(p) <= Len(z)
  <2> DEFINE L == {x \in A \X A : Len(x[1]) < Len(x[2])}
  <2>1. \A x, y \in A : <<x, y>> \in L <=> Len(x) < Len(y)
    OBVIOUS
  <2> HIDE DEF L
  <2>2. StrictOn(L, A)
    BY <1>0, <2>1 DEF StrictOn
  <2>3. IsFiniteSet(A) /\ A # {}
    BY DEF Grove
  <2>4. \E z \in A : \A y \in A : <<z, y>> \notin L
    BY ONLY <2>2, <2>3, LastElement
  <2>5. PICK z \in A : \A y \in A : <<z, y>> \notin L
    BY <2>4
  <2>6. \A p \in A : Len(p) <= Len(z)
    <3> SUFFICES ASSUME NEW p \in A PROVE Len(p) <= Len(z)
      OBVIOUS
    <3>1. ~(Len(z) < Len(p))
      BY <2>1, <2>5
    <3>2. Len(p) \in Nat /\ Len(z) \in Nat
      BY <1>0
    <3> QED BY ONLY <3>1, <3>2
  <2> QED BY <2>6
<1>5. PICK z \in A : \A p \in A : Len(p) <= Len(z)
  BY <1>4
<1> DEFINE n == Len(z)
<1>6. \A p \in A : Len(p) = n => Brood(A, p) = {}
  <2> SUFFICES ASSUME NEW p \in A, Len(p) = n, NEW q \in Brood(A, p) PROVE FALSE
    OBVIOUS
  <2>1. q \in A /\ Len(p) = Len(q) - 1
    BY <1>0, FrontOf DEF Brood
  <2> QED BY <1>0, <1>5, <2>1
<1>7. Frontier(A, n) = {p \in A : Brood(A, p) = {}}
  <2>1. \A p \in A : Len(p) \in Nat /\ n \in Nat /\ Len(p) <= n
    BY <1>0, <1>5
  <2> QED BY <1>6, <2>1 DEF Frontier
<1>8. n \in T
  BY <1>0, <1>3
<1> QED BY <1>7, <1>8

\* The active leaves of a tree and what is above them, their weights, and the sums of those
\* of active siblings.
ActiveIn(T) == {p \in DOMAIN T : \E q \in DOMAIN T : IsPrefix(p, q) /\ T[q].kind = "active"}

WeightsIn(T, ws) == [p \in DOMAIN T |-> WeightOf(T, ws, p)]

OthersIn(T, p) == {q \in ActiveIn(T) : q # Root /\ Front(q) = Front(p) /\ q # p}

SumsIn(T, ws) ==
  [p \in DOMAIN T |-> WeightsIn(T, ws)[p] + SumFunctionOnSet(WeightsIn(T, ws), OthersIn(T, p))]

\* The relative weights the RandomSorter works out.
LEMMA RelativeIs ==
  ASSUME NEW T, NEW ws
  PROVE  /\ R!Relative(R!Weighed(T, ws)) =
              [c \in ActiveClients(T) |->
                 <<ProductOnSet(WeightsIn(T, ws), Above(LeafOf(T, c))),
                   ProductOnSet(SumsIn(T, ws), Above(LeafOf(T, c)))>>]
         /\ \A f, P : R!Product(f, P) = ProductOnSet(f, P)
<1>1. R!Root = Root /\ R!Unset = Unset /\ R!Default = Default
  BY DEF R!Root, Root, R!Unset, Unset, R!Default, Default
<1>2. \A p : /\ R!Virtual(p) = Virtual(p) /\ R!ClientPath(p) = ClientPath(p)
             /\ R!Above(p) = Above(p) /\ R!Front(p) = Front(p)
  BY DEF R!Virtual, Virtual, R!IsVirtual, IsVirtual, R!ClientPath, ClientPath, R!Above, Above,
         R!Root, Root, R!Front, Front, R!Last, Last
<1>3. \A p, q : R!IsPrefix(p, q) = IsPrefix(p, q)
  BY DEF R!IsPrefix, IsPrefix
<1>4. \A p : R!WeightOf(T, ws, p) = WeightOf(T, ws, p)
  BY <1>1 DEF R!WeightOf, WeightOf, R!Configured, Configured
<1>5. \A f, P : R!Product(f, P) = ProductOnSet(f, P)
  BY DEF R!Product, ProductOnSet, R!FoldFunctionOnSet, FoldFunctionOnSet, R!MapThenFoldSet,
         MapThenFoldSet
<1>6. \A f, P : R!SumFunctionOnSet(f, P) = SumFunctionOnSet(f, P)
  BY DEF R!SumFunctionOnSet, SumFunctionOnSet, R!FoldFunctionOnSet, FoldFunctionOnSet,
         R!MapThenFoldSet, MapThenFoldSet
<1>7. PICK E : E = R!Weighed(T, ws)
  OBVIOUS
<1>8. /\ DOMAIN E = DOMAIN T
      /\ \A p \in DOMAIN T : E[p].kind = T[p].kind /\ E[p].weight = WeightsIn(T, ws)[p]
  BY <1>4, <1>7 DEF R!Weighed, WeightsIn
<1>9. R!ActiveNodes(E) = ActiveIn(T)
  BY <1>3, <1>8 DEF R!ActiveNodes, ActiveIn
<1>10. \A p : R!ActiveSiblings(E, p) = OthersIn(T, p)
  BY <1>1, <1>2, <1>9 DEF R!ActiveSiblings, OthersIn
<1>11. R!ActiveClients(E) = ActiveClients(T) /\ \A c : R!LeafOf(E, c) = LeafOf(T, c)
  BY <1>2, <1>8 DEF R!ActiveClients, ActiveClients, R!LeafOf, LeafOf
<1>12. [p \in DOMAIN E |-> E[p].weight] = WeightsIn(T, ws)
  BY <1>8 DEF WeightsIn
<1>13. [p \in DOMAIN E |-> WeightsIn(T, ws)[p]
                           + R!SumFunctionOnSet(WeightsIn(T, ws), R!ActiveSiblings(E, p))]
         = SumsIn(T, ws)
  BY <1>6, <1>8, <1>10 DEF SumsIn
<1>14. R!Relative(E) =
         [c \in R!ActiveClients(E) |->
            <<R!Product(WeightsIn(T, ws), R!Above(R!LeafOf(E, c))),
              R!Product(SumsIn(T, ws), R!Above(R!LeafOf(E, c)))>>]
  BY <1>12, <1>13 DEF R!Relative
<1> QED BY <1>2, <1>5, <1>7, <1>11, <1>14

\* The active nodes are a grove; those without active children are the active leaves.
LEMMA ActiveGrove ==
  ASSUME NEW T, Shape(T), ActiveClients(T) # {}
  PROVE  /\ Grove(ActiveIn(T)) /\ IsFiniteSet(ActiveClients(T))
         /\ \A c \in ActiveClients(T) : LeafOf(T, c) \in ActiveIn(T) /\ LeafOf(T, c) # Root
         /\ \A p \in ActiveIn(T) : \E c \in ActiveClients(T) : IsPrefix(p, LeafOf(T, c))
         /\ {p \in ActiveIn(T) : Brood(ActiveIn(T), p) = {}} = {LeafOf(T, c) : c \in ActiveClients(T)}
<1> DEFINE A == ActiveIn(T)
           C == ActiveClients(T)
<1>0. DOMAIN T \subseteq Paths /\ A \subseteq DOMAIN T
  BY DEF Shape, Typed, ActiveIn
<1>1. C = {c \in ClientsOf(T) : T[LeafOf(T, c)].kind = "active"} /\ IsFiniteSet(C)
  <2>1. C = {c \in ClientsOf(T) : T[LeafOf(T, c)].kind = "active"}
    BY ActiveAre
  <2> QED BY <2>1, FS_Subset DEF Shape
<1>2. ASSUME NEW c \in C
      PROVE  /\ LeafOf(T, c) \in A /\ LeafOf(T, c) # Root /\ T[LeafOf(T, c)].kind = "active"
             /\ \A q \in DOMAIN T : IsPrefix(LeafOf(T, c), q) => q = LeafOf(T, c)
  <2>1. c \in ClientsOf(T) /\ T[LeafOf(T, c)].kind = "active"
    BY <1>1
  <2>2. LeafOf(T, c) \in DOMAIN T /\ LeafOf(T, c) \in Paths /\ LeafOf(T, c) # Root
    BY <2>1, LeafIs
  <2>3. \A q \in DOMAIN T : IsPrefix(LeafOf(T, c), q) => q = LeafOf(T, c)
    BY <2>1, <2>2, LeavesAre
  <2>4. IsPrefix(LeafOf(T, c), LeafOf(T, c))
    BY <2>2, PrefixOrder
  <2> QED BY <2>1, <2>2, <2>3, <2>4 DEF ActiveIn
<1>3. ASSUME NEW p \in A
      PROVE  \E c \in C : IsPrefix(p, LeafOf(T, c))
  <2>1. PICK q \in DOMAIN T : IsPrefix(p, q) /\ T[q].kind = "active"
    BY DEF ActiveIn
  <2>2. ClientPath(q) \in ClientsOf(T) /\ LeafOf(T, ClientPath(q)) = q
    BY <2>1, LeavesAre
  <2> QED BY <1>1, <2>1, <2>2
<1>4. \A p \in A, q \in Paths : IsPrefix(q, p) => q \in A
  <2> SUFFICES ASSUME NEW p \in A, NEW q \in Paths, IsPrefix(q, p) PROVE q \in A
    OBVIOUS
  <2>1. PICK r \in DOMAIN T : IsPrefix(p, r) /\ T[r].kind = "active"
    BY DEF ActiveIn
  <2>2. p \in Paths /\ r \in Paths /\ p \in DOMAIN T
    BY <1>0
  <2>3. IsPrefix(q, r)
    BY <2>1, <2>2, PrefixOrder
  <2>4. q \in DOMAIN T
    BY <2>2 DEF Shape, Closed
  <2> QED BY <2>1, <2>3, <2>4 DEF ActiveIn
<1>5. IsFiniteSet(A)
  <2> DEFINE Up == [c \in C |-> Upwards(LeafOf(T, c))]
             All == {Up[c] : c \in C}
  <2>1. \A c \in C : IsFiniteSet(Up[c])
    BY <1>0, <1>2, AboveFinite
  <2>2. IsFiniteSet(All)
    <3>1. Up \in Surjection(C, All)
      BY DEF Surjection
    <3> HIDE DEF Up, All
    <3> QED BY <1>1, <3>1, FS_Surjection
  <2>3. IsFiniteSet(UNION All)
    <3>1. \A X \in All : IsFiniteSet(X)
      BY <2>1
    <3> HIDE DEF All
    <3> QED BY <2>2, <3>1, FS_UNION
  <2>4. A \subseteq UNION All
    <3> SUFFICES ASSUME NEW p \in A PROVE \E c \in C : p \in Upwards(LeafOf(T, c))
      OBVIOUS
    <3>1. PICK c \in C : IsPrefix(p, LeafOf(T, c))
      BY <1>3
    <3>2. LeafOf(T, c) \in Paths /\ p \in Paths
      BY <1>0, <1>2
    <3> QED BY <3>1, <3>2, UpwardsArePrefixes
  <2> HIDE DEF All
  <2> QED BY <2>3, <2>4, FS_Subset
<1>6. Root \in A
  <2>1. PICK c \in C : TRUE
    OBVIOUS
  <2>2. LeafOf(T, c) \in A /\ LeafOf(T, c) \in Paths
    BY <1>0, <1>2
  <2>3. Root \in Paths /\ IsPrefix(Root, LeafOf(T, c))
    BY <2>2, PrefixOrder
  <2> QED BY <1>4, <2>2, <2>3
<1>7. ASSUME NEW p \in A
      PROVE  Brood(A, p) = {} <=> \E c \in C : p = LeafOf(T, c)
  <2>0. p \in Paths
    BY <1>0
  <2>1. ASSUME NEW c \in C, p = LeafOf(T, c), NEW q \in Brood(A, p) PROVE FALSE
    <3>1. q \in Paths /\ q # Root /\ q \in DOMAIN T /\ Front(q) = p
      BY <1>0 DEF Brood
    <3>2. IsPrefix(p, q) /\ p # q
      BY <3>1, FrontOf
    <3> QED BY <1>2, <2>1, <3>1, <3>2
  <2>2. ASSUME Brood(A, p) = {} PROVE \E c \in C : p = LeafOf(T, c)
    <3>1. PICK c \in C : IsPrefix(p, LeafOf(T, c))
      BY <1>3
    <3>2. LeafOf(T, c) \in A /\ LeafOf(T, c) \in Paths
      BY <1>0, <1>2
    <3>3. ASSUME p # LeafOf(T, c) PROVE FALSE
      <4>1. PICK a \in Paths : a # Root /\ Front(a) = p /\ IsPrefix(a, LeafOf(T, c))
        BY <2>0, <3>1, <3>2, <3>3, ChildTowards
      <4>2. a \in A
        BY <1>4, <3>2, <4>1
      <4> QED BY <2>2, <4>1, <4>2 DEF Brood
    <3> QED BY <3>3
  <2> QED BY <2>1, <2>2
<1>8. {p \in A : Brood(A, p) = {}} = {LeafOf(T, c) : c \in C}
  BY <1>2, <1>7
<1> QED BY <1>0, <1>1, <1>2, <1>3, <1>4, <1>5, <1>6, <1>8 DEF Grove

\* The relative weights add up to one: their numerators, with a common denominator, to it.
LEMMA RelativeAddUp ==
  ASSUME NEW T, Shape(T), ActiveClients(T) # {}, NEW ws, ws \in [Weighted -> Nat \ {0}],
         NEW rel, rel = [c \in ActiveClients(T) |->
                           <<ProductOnSet(WeightsIn(T, ws), Above(LeafOf(T, c))),
                             ProductOnSet(SumsIn(T, ws), Above(LeafOf(T, c)))>>],
         NEW common, common = ProductOnSet([c \in DOMAIN rel |-> rel[c][2]], DOMAIN rel),
         NEW part, part = [c \in DOMAIN rel |-> rel[c][1] * (common \div rel[c][2])]
  PROVE  SumFunction(part) = common
<1> DEFINE A == ActiveIn(T)
           C == ActiveClients(T)
           w == WeightsIn(T, ws)
           sum == SumsIn(T, ws)
           W(p) == ProductOnSet(w, Above(p))
           S(p) == ProductOnSet(sum, Above(p))
           den == [c \in C |-> rel[c][2]]
           leaves == {LeafOf(T, c) : c \in C}
<1>1. /\ Grove(A) /\ IsFiniteSet(C) /\ A \subseteq DOMAIN T /\ A \subseteq Paths
      /\ \A c \in C : LeafOf(T, c) \in A
      /\ \A p \in A : \E c \in C : IsPrefix(p, LeafOf(T, c))
      /\ {p \in A : Brood(A, p) = {}} = leaves
  BY ActiveGrove DEF ActiveIn, Grove
<1>2. \A p \in A : w[p] \in Nat \ {0}
  <2> SUFFICES ASSUME NEW p \in A PROVE WeightOf(T, ws, p) \in Nat \ {0}
    BY <1>1 DEF WeightsIn
  <2>1. T[p].weight \in Nat
    BY <1>1 DEF Shape, Typed, Nodes
  <2> QED BY <2>1, WeightType
<1>3. \A p \in A \ {Root} : sum[p] = SumFunctionOnSet(w, Brood(A, Front(p)))
  <2> SUFFICES ASSUME NEW p \in A, p # Root
               PROVE  sum[p] = SumFunctionOnSet(w, Brood(A, Front(p)))
    OBVIOUS
  <2> DEFINE B == Brood(A, Front(p))
  <2>1. IsFiniteSet(B) /\ p \in B /\ B \subseteq A /\ OthersIn(T, p) = B \ {p}
    BY <1>1, FS_Subset DEF Grove, Brood, OthersIn
  <2>2. sum[p] = w[p] + SumFunctionOnSet(w, B \ {p})
    BY <1>1, <2>1 DEF SumsIn
  <2>3. \A x \in B : w[x] \in Int
    BY <1>2, <2>1
  <2> HIDE DEF B, w, sum
  <2>4. SumFunctionOnSet(w, B) = w[p] + SumFunctionOnSet(w, B \ {p})
    BY <2>1, <2>3, SumTakesAny
  <2> QED BY <2>2, <2>4 DEF B
<1>4. \A p \in A \ {Root} : sum[p] \in Nat \ {0}
  BY ONLY <1>1, <1>2, <1>3, SumsArePositive
<1>5. \A p \in A : IsFiniteSet(Above(p)) /\ Above(p) \subseteq A \ {Root}
  BY <1>1, AboveFinite, UpwardsArePrefixes DEF Grove
<1>6. \A p \in A : S(p) \in Nat \ {0} /\ W(p) \in Nat \ {0}
  <2> SUFFICES ASSUME NEW p \in A PROVE S(p) \in Nat \ {0} /\ W(p) \in Nat \ {0}
    OBVIOUS
  <2>1. \A q \in Above(p) : sum[q] \in Nat \ {0} /\ w[q] \in Nat \ {0}
    BY <1>2, <1>4, <1>5
  <2> HIDE DEF w, sum
  <2> QED BY <1>5, <2>1, ProductType
<1>7. /\ DOMAIN rel = C /\ common = ProductOnSet(den, C)
      /\ \A c \in C : /\ rel[c][1] = W(LeafOf(T, c)) /\ rel[c][2] = S(LeafOf(T, c))
                      /\ den[c] = S(LeafOf(T, c)) /\ den[c] \in Nat \ {0}
  BY <1>1, <1>6
<1> HIDE DEF w, sum, den
<1>8. \A c \in C : \E k \in Nat : common = S(LeafOf(T, c)) * k
  <2> SUFFICES ASSUME NEW c \in C PROVE \E k \in Nat : common = S(LeafOf(T, c)) * k
    OBVIOUS
  <2>1. /\ ProductOnSet(den, C) = den[c] * ProductOnSet(den, C \ {c})
        /\ ProductOnSet(den, C \ {c}) \in Nat \ {0}
    BY <1>1, <1>7, ProductTakesAny
  <2> QED BY <1>7, <2>1
<1>9. \A p \in A : \E k \in Nat : common = S(p) * k
  <2> SUFFICES ASSUME NEW p \in A PROVE \E k \in Nat : common = S(p) * k
    OBVIOUS
  <2>1. PICK c \in C : IsPrefix(p, LeafOf(T, c))
    BY <1>1
  <2> DEFINE l == LeafOf(T, c)
             r == ProductOnSet(sum, Above(l) \ Above(p))
  <2>2. Above(p) \subseteq Above(l)
    <3>1. p \in Paths /\ l \in Paths
      BY <1>1
    <3>2. \A q \in Paths : IsPrefix(q, p) => IsPrefix(q, l)
      BY <2>1, <3>1, PrefixOrder
    <3> QED BY <3>1, <3>2, UpwardsArePrefixes
  <2>3. S(l) = S(p) * r /\ r \in Nat \ {0}
    <3>1. IsFiniteSet(Above(l)) /\ (\A q \in Above(l) : sum[q] \in Nat \ {0})
      BY <1>1, <1>4, <1>5
    <3> QED BY <2>2, <3>1, ProductSplits
  <2>4. PICK k \in Nat : common = S(l) * k
    BY <1>8
  <2>5. S(p) \in Nat
    BY <1>6
  <2> HIDE DEF S, r
  <2>6. common = S(p) * (r * k) /\ r * k \in Nat
    BY <2>3, <2>4, <2>5, TimesCommutes
  <2> QED BY <2>6
<1> DEFINE m == [p \in A |-> common \div S(p)]
           V == [p \in A |-> W(p) * m[p]]
<1>10. \A p \in A : m[p] \in Nat /\ common = S(p) * m[p]
  <2> SUFFICES ASSUME NEW p \in A
               PROVE  common \div S(p) \in Nat /\ common = S(p) * (common \div S(p))
    OBVIOUS
  <2>1. PICK k \in Nat : common = S(p) * k
    BY <1>9
  <2>2. S(p) \in Nat \ {0}
    BY <1>6
  <2> HIDE DEF S
  <2>3. (S(p) * k) \div S(p) = k
    BY ONLY <2>1, <2>2, Divides
  <2> QED BY <2>1, <2>3
<1>11. Weighs(A, w, sum, m, V, common)
  <2>1. \A p \in A : V[p] = W(p) * m[p]
    OBVIOUS
  <2> HIDE DEF m, V
  <2> QED BY <1>2, <1>3, <1>10, <2>1 DEF Weighs
<1>12. SumFunctionOnSet(V, leaves) = common
  <2> HIDE DEF m, V, leaves
  <2> QED BY <1>1, <1>11, GroveWeighs
<1>13. \A c \in C : part[c] = V[LeafOf(T, c)] /\ V[LeafOf(T, c)] \in Int
  <2> SUFFICES ASSUME NEW c \in C
               PROVE  part[c] = V[LeafOf(T, c)] /\ V[LeafOf(T, c)] \in Int
    OBVIOUS
  <2> DEFINE l == LeafOf(T, c)
  <2>1. l \in A /\ W(l) \in Nat /\ m[l] \in Nat /\ V[l] = W(l) * m[l] /\ m[l] = common \div S(l)
    BY <1>1, <1>6, <1>10
  <2>2. part[c] = W(l) * (common \div S(l))
    BY <1>7
  <2> HIDE DEF V, m, W, S, l
  <2>3. part[c] = V[l] /\ V[l] \in Int
    BY <2>1, <2>2
  <2> QED BY <2>3 DEF l
<1> DEFINE h == [p \in leaves |-> ClientPath(p)]
<1>14. \A c \in C : ClientPath(LeafOf(T, c)) = c
  <2>1. \A c \in C : c \in ClientsOf(T)
    BY ActiveAre
  <2> QED BY <2>1, LeafIs
<1>15. AreParts(part, V, leaves, h, C)
  <2>1. \A p \in leaves : h[p] \in C
    BY <1>14
  <2>2. ASSUME NEW c \in C
        PROVE  part[c] = SumFunctionOnSet(V, {p \in leaves : h[p] = c})
    <3>1. {p \in leaves : h[p] = c} = {LeafOf(T, c)}
      BY <1>14
    <3> HIDE DEF V, h, leaves
    <3>2. V[LeafOf(T, c)] \in Int /\ part[c] = V[LeafOf(T, c)]
      BY <1>13
    <3>3. SumFunctionOnSet(V, {LeafOf(T, c)}) = V[LeafOf(T, c)]
      BY ONLY <3>2, SumOfSingle
    <3> QED BY <3>1, <3>2, <3>3
  <2> HIDE DEF V, h, leaves
  <2> QED BY <2>1, <2>2 DEF AreParts
<1>16. IsFiniteSet(leaves) /\ (\A p \in leaves : V[p] \in Int) /\ DOMAIN part = C
  <2>1. IsFiniteSet(leaves)
    <3>1. leaves \subseteq A
      BY <1>1
    <3> HIDE DEF leaves
    <3> QED BY <1>1, <3>1, FS_Subset DEF Grove
  <2>2. \A p \in leaves : V[p] \in Int
    <3> HIDE DEF V
    <3> QED BY <1>13
  <2> QED BY <1>7, <2>1, <2>2
<1>17. SumFunctionOnSet(V, leaves) = SumFunctionOnSet(part, C)
  <2> HIDE DEF V, h, leaves
  <2> QED BY ONLY <1>1, <1>15, <1>16, SumOfParts
<1> QED BY <1>12, <1>16, <1>17 DEF SumFunction

\* What the RandomSorter keeps, unless it is dirty, is what it would work out now, and is a
\* distribution: the chances of the active clients add up to one, whatever tree they are in
\* and whatever weights their nodes have or believe to have.
THEOREM RelativeWeightsStayCurrent ==
  Spec => []RelativeWeightsAreCurrent
<1>1. ASSUME IInv, RelativeWeightsAreFresh PROVE RelativeWeightsAreCurrent
  <2> SUFFICES ASSUME ~sortInfo.dirty, DOMAIN sortInfo.relative # {}
               PROVE  LET rel == sortInfo.relative
                          common == R!Product([c \in DOMAIN rel |-> rel[c][2]], DOMAIN rel)
                          part == [c \in DOMAIN rel |-> rel[c][1] * (common \div rel[c][2])]
                      IN  SumFunction(part) = common
    BY <1>1 DEF RelativeWeightsAreCurrent
  <2>1. PICK T : T = randomTree
    OBVIOUS
  <2>2. Shape(T) /\ weights \in [Weighted -> Nat \ {0}]
    BY <1>1, <2>1 DEF IInv, Books, Good
  <2>3. PICK ws, rel : ws = weights /\ rel = sortInfo.relative
    OBVIOUS
  <2>4. rel = [c \in ActiveClients(T) |->
                 <<ProductOnSet(WeightsIn(T, ws), Above(LeafOf(T, c))),
                   ProductOnSet(SumsIn(T, ws), Above(LeafOf(T, c)))>>]
    BY <1>1, <2>1, <2>3, RelativeIs DEF RelativeWeightsAreFresh
  <2>5. ActiveClients(T) # {}
    BY <2>3, <2>4
  <2>6. PICK common : common = ProductOnSet([c \in DOMAIN rel |-> rel[c][2]], DOMAIN rel)
    OBVIOUS
  <2>7. PICK part : part = [c \in DOMAIN rel |-> rel[c][1] * (common \div rel[c][2])]
    OBVIOUS
  <2>8. ws \in [Weighted -> Nat \ {0}]
    BY <2>2, <2>3
  <2>9. SumFunction(part) = common
    BY ONLY <2>2, <2>4, <2>5, <2>6, <2>7, <2>8, RelativeAddUp
  <2>10. common = R!Product([c \in DOMAIN rel |-> rel[c][2]], DOMAIN rel)
    BY <2>6, RelativeIs
  <2> QED BY <2>3, <2>7, <2>9, <2>10
<1> QED BY <1>1, Invariant, RelativeWeightsStayFresh, PTL
=============================================================================
