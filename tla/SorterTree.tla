------------------------------ MODULE SorterTree ------------------------------
(***************************************************************************)
(* The tree of clients that DRFSorter and RandomSorter (src/src/sorter)    *)
(* both keep, in the same words: its nodes, how a client is added and      *)
(* removed, and the allocation of every node.                              *)
(*                                                                         *)
(* A path is a sequence of names, the root is <<>>.  A client is a leaf;   *)
(* when it has clients below it, it is the virtual leaf "." of an internal *)
(* node.  A tree is a function from the paths of its nodes to              *)
(*   kind    active or inactive leaf, or internal                          *)
(*   held    SlaveID -> quantities, an agent without entry not in it       *)
(*   weight  the cached weight, or Unset                                   *)
(* The order of children matters to DRFSorter only, and is kept there.     *)
(***************************************************************************)
EXTENDS Integers, SequencesExt

CONSTANT Scalar          \* names of scalar resources

Root == <<>>
Unset == 0     \* no weight is cached
Default == 1   \* DEFAULT_WEIGHT
Virtual(p) == Append(p, ".")
IsVirtual(p) == p # Root /\ Last(p) = "."
ClientPath(p) == IF IsVirtual(p) THEN Front(p) ELSE p

\* The nodes above p and p itself, without the root and with it.
Above(p) == {SubSeq(p, 1, i) : i \in 1..Len(p)}
Upwards(p) == Above(p) \cup {Root}

\* Of paths.
Longest(P) == CHOOSE p \in P : \A q \in P : Len(q) <= Len(p)
Shortest(P) == CHOOSE p \in P : \A q \in P : Len(p) <= Len(q)

-----------------------------------------------------------------------------
(* Quantities, and the allocation of a node.                               *)

Zero == [k \in Scalar |-> 0]
Plus(x, y) == [k \in Scalar |-> x[k] + y[k]]
Minus(x, y) == [k \in Scalar |-> x[k] - y[k]]
Covers(x, y) == \A k \in Scalar : y[k] <= x[k]

\* The totals of an allocation.
TotalOf(held) == [k \in Scalar |-> SumFunction([s \in DOMAIN held |-> held[s][k]])]

\* Allocation::add.
AddTo(held, s, x) ==
  [t \in DOMAIN held \cup {s} |->
     IF t # s THEN held[t] ELSE IF s \in DOMAIN held THEN Plus(held[s], x) ELSE x]

\* The CHECKs of Allocation::subtract.
CanSubtract(held, s, x) == s \in DOMAIN held /\ Covers(held[s], x)

\* Allocation::subtract: an entry that becomes empty is erased.
SubtractFrom(held, s, x) ==
  IF held[s] = x THEN Restrict(held, DOMAIN held \ {s})
  ELSE [held EXCEPT ![s] = Minus(@, x)]

\* Allocation::update: the entry stays, even an empty one.
UpdateIn(held, s, old, new) == [held EXCEPT ![s] = Plus(Minus(@, old), new)]

-----------------------------------------------------------------------------
(* Nodes.                                                                  *)

EmptyTree == [p \in {Root} |-> [kind |-> "internal", held |-> << >>, weight |-> Unset]]

IsLeaf(tree, p) == tree[p].kind # "internal"

\* The leaf of a client: the lookup table `clients`.
LeafOf(tree, c) == IF Virtual(c) \in DOMAIN tree THEN Virtual(c) ELSE c

\* The clients of a sorter.
ClientsOf(tree) == {ClientPath(p) : p \in {q \in DOMAIN tree : IsLeaf(tree, q)}}

ActiveClients(tree) == {ClientPath(p) : p \in {q \in DOMAIN tree : tree[q].kind = "active"}}

\* The children of a node.
ChildrenOf(tree, p) == {q \in DOMAIN tree : q # Root /\ Front(q) = p}

-----------------------------------------------------------------------------
(* Clients come and go.                                                    *)

\* Slip: the virtual leaf starts with nothing.
SplitEmpty(tree, p) ==
  [q \in DOMAIN tree \cup {Virtual(p)} |->
     IF q = Virtual(p) THEN [tree[p] EXCEPT !.weight = Unset, !.held = << >>]
     ELSE IF q = p THEN [tree[p] EXCEPT !.kind = "internal"] ELSE tree[q]]

\* Case (b) of add: the leaf p becomes internal, its client the virtual leaf below.
Split(tree, p) ==
  [q \in DOMAIN tree \cup {Virtual(p)} |->
     IF q = Virtual(p) THEN [tree[p] EXCEPT !.weight = Unset]
     ELSE IF q = p THEN [tree[p] EXCEPT !.kind = "internal"] ELSE tree[q]]

\* add: the client is a new, inactive leaf; missing nodes above it are internal.
AddClient(tree, c) ==
  LET p    == Longest(Upwards(c) \cap DOMAIN tree)
      base == IF IsLeaf(tree, p) THEN Split(tree, p) ELSE tree
      leaf == IF p = c THEN Virtual(c) ELSE c
      new  == {q \in Above(leaf) : Len(q) > Len(p)}
  IN  [q \in DOMAIN base \cup new |->
         IF q \in new
         THEN [kind |-> IF q = leaf THEN "inactive" ELSE "internal", held |-> << >>,
               weight |-> Unset]
         ELSE base[q]]

\* The CHECKs of remove: every node above holds what the client holds.
CanRemove(tree, c) ==
  LET leaf == LeafOf(tree, c) IN
  \A p \in Upwards(leaf), s \in DOMAIN tree[leaf].held :
    CanSubtract(tree[p].held, s, tree[leaf].held[s])

\* A node whose only child is its virtual leaf becomes that leaf.
Collapse(tree, p) ==
  IF p # Root /\ ChildrenOf(tree, p) = {Virtual(p)}
  THEN [Restrict(tree, DOMAIN tree \ {Virtual(p)}) EXCEPT ![p].kind = tree[Virtual(p)].kind]
  ELSE tree

\* Take what one node holds, agent by agent, from another.
SubtractAll(held, less) ==
  [s \in {t \in DOMAIN held : t \in DOMAIN less => held[t] # less[t]} |->
     IF s \in DOMAIN less THEN Minus(held[s], less[s]) ELSE held[s]]

\* remove: the leaf goes and with it the nodes above that lead to no other client.
RemoveClient(tree, c) ==
  LET leaf == LeafOf(tree, c)
      held == tree[leaf].held
      dead == {p \in Above(leaf) : \A q \in DOMAIN tree : IsPrefix(p, q) => IsPrefix(q, leaf)}
      left == [p \in DOMAIN tree \ dead |->
                 IF p \in Upwards(leaf)
                 THEN [tree[p] EXCEPT !.held = SubtractAll(@, held)] ELSE tree[p]]
  IN  Collapse(left, Front(Shortest(dead)))

\* activate, deactivate: a no-op for a leaf that is so already.
SetKind(tree, c, kind) == [tree EXCEPT ![LeafOf(tree, c)].kind = kind]

\* The allocation of the client and of every node above it.
OnPath(tree, c, op(_)) ==
  [p \in DOMAIN tree |-> IF p \in Upwards(LeafOf(tree, c))
                         THEN [tree[p] EXCEPT !.held = op(@)] ELSE tree[p]]

-----------------------------------------------------------------------------
(* Weights.                                                                *)

\* The weight configured for a path, or the default one.
Configured(weights, p) == IF p \in DOMAIN weights THEN weights[p] ELSE Default

\* getWeight: the cached weight, else the configured one.
WeightOf(tree, weights, p) ==
  IF tree[p].weight = Unset THEN Configured(weights, p) ELSE tree[p].weight

\* getWeight was called on these nodes: their weight is now cached.
Cached(tree, weights, which) ==
  [p \in DOMAIN tree |-> IF p \in which
                         THEN [tree[p] EXCEPT !.weight = WeightOf(tree, weights, p)]
                         ELSE tree[p]]

\* Slip: the cached weight stays.
ReweightedNever(tree, path, weight) == tree

\* updateWeight finds clients only: the node of a path that is no client is left alone.
Reweighted(tree, path, weight) ==
  IF path \in ClientsOf(tree) THEN [tree EXCEPT ![path].weight = weight] ELSE tree
=============================================================================
