-------------------------------- MODULE Sorters --------------------------------
(***************************************************************************)
(* DRFSorter and RandomSorter, given the same calls: those the allocator   *)
(* makes of its roleSorter and of its framework sorters.  It calls         *)
(* remove(), unallocated() and update() for clients it has added and for   *)
(* what they hold, and gives totals agent by agent.                        *)
(***************************************************************************)
EXTENDS SorterTree

CONSTANTS Client, Slave,
          Quantity,          \* bound: amounts of resources in one call
          Weighted,          \* bound: paths with a weight of their own
          MaxWeight,         \* bound: on the weights, from 1; they are only ever raised
          MaxTotal,          \* bound: what the agents have of each resource
          Served,            \* bound: clients something is allocated to
          MaxCount,          \* bound: calls of allocated()
          Excluded,
          PathOrder

\* Roles and framework ids; "." is the name of virtual leaves only.
ASSUME ClientAssumption ==
  \A c \in Client : c \in Seq(STRING) /\ c # Root /\ \A i \in DOMAIN c : c[i] # "."

\* The allocator makes no call about nothing.
ASSUME QuantityAssumption == Quantity \subseteq [Scalar -> Nat] \ {Zero}

\* Sums are finite.
ASSUME FiniteAssumption == IsFiniteSet(Scalar) /\ IsFiniteSet(Slave)

\* The nodes that clients may have.
NodePaths == UNION {Upwards(Virtual(c)) : c \in Client}

\* No two of their strings are the same, and strings are ordered.
ASSUME PathOrderAssumption ==
  \A p, q \in NodePaths :
    /\ p = q => <<p, q>> \notin PathOrder
    /\ p # q => <<p, q>> \in PathOrder \/ <<q, p>> \in PathOrder
    /\ \A r \in NodePaths : <<p, q>> \in PathOrder /\ <<q, r>> \in PathOrder => <<p, r>> \in PathOrder

VARIABLES
  drfTree, children, share, count, dirty, drfSorted,    \* the DRFSorter
  randomTree, sortInfo, randomSorted,         \* the RandomSorter
  weights, total,                             \* the same in both
  missed      \* history: nodes without a client that had cached a weight and got another

drfVars == <<drfTree, children, share, count, dirty, drfSorted>>
randomVars == <<randomTree, sortInfo, randomSorted>>
vars == <<drfVars, randomVars, weights, total, missed>>

D == INSTANCE DRFSorter WITH tree <- drfTree, sorted <- drfSorted
R == INSTANCE RandomSorter WITH tree <- randomTree, sorted <- randomSorted

Init == D!Init /\ R!Init /\ missed = {}

Clients == ClientsOf(drfTree)

Add(c) == c \notin Clients /\ D!Add(c) /\ R!Add(c) /\ UNCHANGED missed

RemoveC(c) ==
  /\ c \in Clients /\ D!RemoveC(c) /\ R!RemoveC(c)
  /\ missed' = missed \cap DOMAIN drfTree'

SetActive(c) ==
  /\ c \in Clients
  /\ \/ D!Activate(c) /\ R!Activate(c)
     \/ D!Deactivate(c) /\ R!Deactivate(c)
  /\ UNCHANGED missed

\* A weight is cached for the path, by one of the sorters.
CachedAt(path) ==
  {p \in {path} \cap DOMAIN drfTree : drfTree[p].weight # Unset \/ randomTree[p].weight # Unset}

UpdateWeight(path, weight) ==
  /\ D!UpdateWeight(path, weight) /\ R!UpdateWeight(path, weight)
  /\ missed' = IF path \in Clients THEN missed \ {path}
               ELSE missed \cup CachedAt(path)

\* Room for more allocations, and what the client holds of the agent.
Allocated(c, s, x) ==
  /\ c \in Clients \cap Served /\ count[Root] < MaxCount
  /\ D!Allocated(c, s, x) /\ R!Allocated(c, s, x)
  /\ UNCHANGED missed

Holds(c, s, x) == c \in Clients /\ CanSubtract(drfTree[LeafOf(drfTree, c)].held, s, x)

Unallocated(c, s, x) ==
  /\ Holds(c, s, x)
  /\ D!Unallocated(c, s, x) /\ R!Unallocated(c, s, x)
  /\ UNCHANGED missed

\* "A resource conversion must either not change the resource quantities, or completely
\* remove the consumed resources" (hierarchical.cpp:1158).
Update(c, s, x) ==
  /\ Holds(c, s, x)
  /\ \E new \in {x, Zero} : D!Update(c, s, x, new) /\ R!Update(c, s, x, new)
  /\ UNCHANGED missed

ChangeTotal(s, x) ==
  /\ \/ /\ Covers([k \in Scalar |-> MaxTotal], Plus(TotalOf(total), x))
        /\ D!AddTotal(s, x) /\ R!AddTotal(s, x)
     \/ /\ CanSubtract(total, s, x)
        /\ D!RemoveTotal(s, x) /\ R!RemoveTotal(s, x)
  /\ UNCHANGED missed

Sort == D!Sort /\ R!Sort /\ UNCHANGED missed

Next ==
  \/ \E c \in Client : Add(c) \/ RemoveC(c) \/ SetActive(c)
  \/ \E path \in Weighted, weight \in 2..MaxWeight : UpdateWeight(path, weight)
  \/ \E c \in Client, s \in Slave, x \in Quantity :
       Allocated(c, s, x) \/ Unallocated(c, s, x) \/ Update(c, s, x)
  \/ \E s \in Slave, x \in Quantity : ChangeTotal(s, x)
  \/ Sort

Spec == Init /\ [][Next]_vars

-----------------------------------------------------------------------------
(* Properties.                                                             *)

\* The clients of a tree, with the entries that are not empty: update() keeps empty ones,
\* and a later removal of another client may drop them.
ClientsIn(tree) ==
  [c \in ClientsOf(tree) |->
     LET leaf == tree[LeafOf(tree, c)]
     IN  [active |-> leaf.kind = "active",
          held |-> Restrict(leaf.held, {s \in DOMAIN leaf.held : leaf.held[s] # Zero})]]

DRF == INSTANCE Sorter WITH clients <- ClientsIn(drfTree), sorted <- drfSorted
Random == INSTANCE Sorter WITH clients <- ClientsIn(randomTree), sorted <- randomSorted

\* The DRFSorter is a Sorter (sorter.hpp): splitting, collapsing and pruning nodes loses no
\* client and no allocation of one, and sort() lists the active clients, each once.
DRFIsSorter == DRF!Spec

\* So is the RandomSorter, which sorts what it remembers of the last change.
RandomIsSorter == Random!Spec

\* The ordering invariants of Node::children (drf/sorter.hpp:244-256): inactive leaves come
\* last and, unless the tree is dirty, the children before them are in the order of what
\* calculateShare() would now give, although allocated() works with the shares that the
\* siblings were given before.
ChildrenAreOrdered ==
  \A p \in DOMAIN children :
    LET cs == children[p]
        n == Len(D!Sortable(cs))
        fresh == [q \in DOMAIN drfTree |-> D!ShareOf(drfTree, q)]
    IN  /\ ToSet(cs) = ChildrenOf(drfTree, p) /\ Len(cs) = Cardinality(ToSet(cs))
        /\ \A i \in n+1..Len(cs) : drfTree[cs[i]].kind = "inactive"
        /\ ~dirty => \A i \in 1..n-1 : D!Before(cs[i], cs[i+1], fresh, count)

\* What a node or a client holds.
Amount(held, s, k) == IF s \in DOMAIN held THEN held[s][k] ELSE 0
HeldBy(tree, c) == tree[LeafOf(tree, c)].held

\* Every node has been allocated what the clients below it have, on every agent.
NodesSumClients(tree) ==
  \A p \in {q \in DOMAIN tree : ~IsVirtual(q)}, s \in Slave, k \in Scalar :
    Amount(tree[p].held, s, k) =
      SumFunctionOnSet([c \in ClientsOf(tree) |-> Amount(HeldBy(tree, c), s, k)],
                       {c \in ClientsOf(tree) : IsPrefix(p, c)})

\* A client can be removed, whatever it holds: the CHECKs of subtract() hold at every node
\* above, for every agent.  The exception is an entry that update() emptied and kept in the
\* client, where the one above was erased since, as others gave back what they had of the
\* agent; any other entry can be taken away, empty or not, also when there is such a one.
RemoveChecksHold(tree) ==
  \A c \in ClientsOf(tree) : \A p \in Upwards(LeafOf(tree, c)), s \in DOMAIN HeldBy(tree, c) :
    \/ CanSubtract(tree[p].held, s, HeldBy(tree, c)[s])
    \/ HeldBy(tree, c)[s] = Zero /\ s \notin DOMAIN tree[p].held

\* Both, of either sorter: no call for one client, whatever was split, collapsed or pruned
\* before, leaves an allocation above it that its later removal cannot take away again.
AllocationsAddUp ==
  \A tree \in {drfTree, randomTree} : NodesSumClients(tree) /\ RemoveChecksHold(tree)

\* "This changes the sorter's behavior for all clients in the subtree identified by this
\* path" (sorter.hpp:76): a node's cached weight is the configured one, also an inner node's
\* without a client, whatever is split, collapsed and pruned.  The exception are those that
\* had cached a weight already when they were given another.
WeightsAreCurrent ==
  \A tree \in {drfTree, randomTree}, p \in DOMAIN drfTree :
    tree[p].weight \in {Unset, Configured(weights, p)} \/ p \in missed

\* "A dirty bit indicates whether the info is up-to-date" (random/sorter.hpp:146): unless
\* it is dirty, what sortInfo keeps is what it would be if it were worked out now.
RelativeWeightsAreFresh ==
  ~sortInfo.dirty => sortInfo.relative = R!Relative(R!Weighed(randomTree, weights))

\* And "the sum of all relative weights should be one" (random/sorter.hpp:159).
RelativeWeightsAreCurrent ==
  /\ RelativeWeightsAreFresh
  /\ ~sortInfo.dirty =>
       LET rel == sortInfo.relative
           common == R!Product([c \in DOMAIN rel |-> rel[c][2]], DOMAIN rel)
           part == [c \in DOMAIN rel |-> rel[c][1] * (common \div rel[c][2])]
       IN  DOMAIN rel # {} => SumFunction(part) = common
=============================================================================
