----------------------------- MODULE RandomSorter -----------------------------
(***************************************************************************)
(* RandomSorter (src/src/sorter/random): the active clients in a weighted  *)
(* random order, over the tree of SorterTree.  The clients and their       *)
(* relative weights are kept in sortInfo and worked out by sort() when     *)
(* they are dirty.  Chance is choice here: any order may come out.         *)
(***************************************************************************)
EXTENDS SorterTree

CONSTANT Weighted        \* bound: paths with a weight of their own

VARIABLES
  tree,
  sortInfo,              \* [dirty, relative : client -> its chance of being first], the
                         \* latter of no account while dirty
  weights,               \* path -> configured weight, the default if none is
  total,                 \* SlaveID -> quantities
  sorted                 \* what sort() returned, until the next call

vars == <<tree, sortInfo, weights, total, sorted>>

Init ==
  /\ tree = EmptyTree
  /\ sortInfo = [dirty |-> TRUE, relative |-> << >>]
  /\ weights = [p \in Weighted |-> Default]
  /\ total = << >>
  /\ sorted = <<>>

\* A call that makes sortInfo dirty, and one that does not.
Dirty == sortInfo' = [dirty |-> TRUE, relative |-> << >>] /\ sorted' = <<>>
Clean == UNCHANGED sortInfo /\ sorted' = <<>>

Add(c) ==
  /\ c \notin ClientsOf(tree)
  /\ tree' = AddClient(tree, c)
  /\ Dirty
  /\ UNCHANGED <<weights, total>>

RemoveC(c) ==
  /\ c \in ClientsOf(tree) /\ CanRemove(tree, c)
  /\ tree' = RemoveClient(tree, c)
  /\ Dirty
  /\ UNCHANGED <<weights, total>>

Activate(c) ==
  /\ c \in ClientsOf(tree)
  /\ tree' = SetKind(tree, c, "active")
  /\ Dirty
  /\ UNCHANGED <<weights, total>>

\* Slip: the relative weights are believed to hold without the client.
DeactivateClean(c) ==
  /\ c \in ClientsOf(tree)
  /\ tree' = SetKind(tree, c, "inactive")
  /\ Clean
  /\ UNCHANGED <<weights, total>>

Deactivate(c) ==
  /\ c \in ClientsOf(tree)
  /\ tree' = SetKind(tree, c, "inactive")
  /\ Dirty
  /\ UNCHANGED <<weights, total>>

UpdateWeight(path, weight) ==
  /\ weights' = [weights EXCEPT ![path] = weight]
  /\ tree' = Reweighted(tree, path, weight)
  /\ Dirty
  /\ UNCHANGED total

\* Allocations have no part in the order.
Allocated(c, s, x) ==
  /\ c \in ClientsOf(tree)
  /\ tree' = OnPath(tree, c, LAMBDA held : AddTo(held, s, x))
  /\ Clean
  /\ UNCHANGED <<weights, total>>

Update(c, s, old, new) ==
  /\ c \in ClientsOf(tree) /\ CanSubtract(tree[LeafOf(tree, c)].held, s, old)
  /\ tree' = OnPath(tree, c, LAMBDA held : UpdateIn(held, s, old, new))
  /\ Clean
  /\ UNCHANGED <<weights, total>>

Unallocated(c, s, x) ==
  /\ c \in ClientsOf(tree) /\ CanSubtract(tree[LeafOf(tree, c)].held, s, x)
  /\ tree' = OnPath(tree, c, LAMBDA held : SubtractFrom(held, s, x))
  /\ Clean
  /\ UNCHANGED <<weights, total>>

AddTotal(s, x) ==
  /\ total' = AddTo(total, s, x)
  /\ Clean
  /\ UNCHANGED <<tree, weights>>

RemoveTotal(s, x) ==
  /\ CanSubtract(total, s, x)
  /\ total' = SubtractFrom(total, s, x)
  /\ Clean
  /\ UNCHANGED <<tree, weights>>

-----------------------------------------------------------------------------
(* Relative weights.                                                       *)

\* activeInternalNodes, and the active leaves.
ActiveNodes(t) ==
  {p \in DOMAIN t : \E q \in DOMAIN t : IsPrefix(p, q) /\ t[q].kind = "active"}

ActiveSiblings(t, p) == {q \in ActiveNodes(t) : q # Root /\ Front(q) = Front(p) /\ q # p}

\* A tree as far as weights go: of each node its kind and what getWeight returns.
Weighed(t, ws) == [p \in DOMAIN t |-> [kind |-> t[p].kind, weight |-> WeightOf(t, ws, p)]]

Product(f, P) == FoldFunctionOnSet(LAMBDA x, y : x * y, 1, f, P)

\* Slip: an inactive sibling has a part in the weights.
RelativeToAll(t) ==
  LET w == [p \in DOMAIN t |-> t[p].weight]
      siblings(p) == {q \in DOMAIN t : q # Root /\ Front(q) = Front(p)}
      sum == [p \in DOMAIN t |-> SumFunctionOnSet(w, siblings(p))]
  IN  [c \in ActiveClients(t) |->
         LET path == Above(LeafOf(t, c)) IN <<Product(w, path), Product(sum, path)>>]

\* Of each active client of a weighed tree, the product over the nodes above it of the
\* weight's share in that of the node and its active siblings, as numerator and denominator.
Relative(t) ==
  LET w == [p \in DOMAIN t |-> t[p].weight]
      sum == [p \in DOMAIN t |-> w[p] + SumFunctionOnSet(w, ActiveSiblings(t, p))]
  IN  [c \in ActiveClients(t) |->
         LET path == Above(LeafOf(t, c)) IN <<Product(w, path), Product(sum, path)>>]

\* updateRelativeWeights, then weightedShuffle of the clients it leaves.
Sort ==
  /\ tree' = IF sortInfo.dirty
             THEN Cached(tree, weights, ActiveNodes(tree)) ELSE tree
  /\ sortInfo' = IF sortInfo.dirty
                 THEN [dirty |-> FALSE, relative |-> Relative(Weighed(tree, weights))] ELSE sortInfo
  /\ sorted' \in SetToSeqs(DOMAIN sortInfo'.relative)
  /\ UNCHANGED <<weights, total>>
=============================================================================
