------------------------------- MODULE DRFSorter -------------------------------
(***************************************************************************)
(* DRFSorter (src/src/sorter/drf): clients in the order of their dominant  *)
(* share, over the tree of SorterTree.  The shares are worked out and the  *)
(* children of every node sorted by sort(), if the tree is dirty; a tree   *)
(* that is not dirty is kept in order by allocated(), which moves the      *)
(* nodes above the client, each among its siblings.                        *)
(***************************************************************************)
EXTENDS SorterTree, Queues

CONSTANTS Weighted,      \* bound: paths with a weight of their own
          Excluded,      \* fairnessExcludeResourceNames
          PathOrder      \* the pairs of paths of which the first has the lesser string

VARIABLES
  tree,
  children,              \* internal node -> its children in order
  share,                 \* node -> share, a fraction; of no account while dirty
  count,                 \* node -> number of allocations
  dirty,
  weights,               \* path -> configured weight, the default if none is
  total,                 \* SlaveID -> quantities
  sorted                 \* what sort() returned, until the next call

vars == <<tree, children, share, count, dirty, weights, total, sorted>>

NoShare == <<0, 1>>

Init ==
  /\ tree = EmptyTree
  /\ children = [p \in {Root} |-> <<>>]
  /\ share = [p \in {Root} |-> NoShare]
  /\ count = [p \in {Root} |-> 0]
  /\ dirty = FALSE
  /\ weights = [p \in Weighted |-> Default]
  /\ total = << >>
  /\ sorted = <<>>

-----------------------------------------------------------------------------
(* Shares.                                                                 *)

Less(x, y) == x[1] * y[2] < y[1] * x[2]
Same(x, y) == x[1] * y[2] = y[1] * x[2]
Greatest(X) == CHOOSE x \in X : \A y \in X : ~Less(x, y)

\* calculateShare: the dominant share of a node of tree t, by its weight.
ShareOf(t, p) ==
  LET all == TotalOf(total)
      held == TotalOf(t[p].held)
      parts == {<<held[k], all[k]>> : k \in {l \in Scalar \ Excluded : all[l] > 0}}
      dominant == Greatest(parts \cup {NoShare})
  IN  <<dominant[1], dominant[2] * WeightOf(t, weights, p)>>

PathBefore(p, q) == <<p, q>> \in PathOrder

\* compareDRF, for nodes with these shares and counts.
Before(p, q, sh, cnt) ==
  \/ Less(sh[p], sh[q])
  \/ /\ Same(sh[p], sh[q])
     /\ \/ cnt[p] < cnt[q]
        \/ cnt[p] = cnt[q] /\ PathBefore(p, q)

-----------------------------------------------------------------------------
(* Calls that leave the sorting to sort().                                 *)

\* addChild: inactive leaves go to the end, all others to the front.
AddChild(cs, p, kind) == IF kind = "inactive" THEN Append(cs, p) ELSE <<p>> \o cs

\* A child of tree t is added, if there is one in P.
AddAny(cs, P, t) ==
  IF P = {} THEN cs ELSE LET p == CHOOSE q \in P : TRUE IN AddChild(cs, p, t[p].kind)

\* The children of the nodes of a new tree t.  A node that changed its kind is taken out
\* and added again; of two new ones, which no call exceeds, the virtual leaf comes first.
Rearranged(t) ==
  LET moved == {p \in DOMAIN t : p \notin DOMAIN tree \/ t[p].kind # tree[p].kind}
      kept(p) == IF p \in DOMAIN children THEN Among(children[p], DOMAIN t \ moved) ELSE <<>>
      new(p) == ChildrenOf(t, p) \cap moved
      leaf(p) == {Virtual(p)}
  IN  [p \in {q \in DOMAIN t : ~IsLeaf(t, q)} |->
         AddAny(AddAny(kept(p), new(p) \cap leaf(p), t), new(p) \ leaf(p), t)]

\* Nobody reads a share before sort() has worked out all of them.
MakeDirty ==
  /\ dirty' = TRUE
  /\ share' = [p \in DOMAIN tree' |-> NoShare]
  /\ sorted' = <<>>

\* The counts of a new tree's nodes.  The virtual leaf of a node that was split has the
\* allocation, and so the count, of that node; other new nodes have none.
Counts(t) ==
  [p \in DOMAIN t |->
     IF p \in DOMAIN count THEN count[p]
     ELSE IF IsVirtual(p) /\ Front(p) \in DOMAIN tree /\ IsLeaf(tree, Front(p))
     THEN count[Front(p)] ELSE 0]

Add(c) ==
  /\ c \notin ClientsOf(tree)
  /\ tree' = AddClient(tree, c)
  /\ children' = Rearranged(tree')
  /\ count' = Counts(tree')
  /\ MakeDirty
  /\ UNCHANGED <<weights, total>>

RemoveC(c) ==
  /\ c \in ClientsOf(tree) /\ CanRemove(tree, c)
  /\ tree' = RemoveClient(tree, c)
  /\ children' = Rearranged(tree')
  /\ count' = Counts(tree')
  /\ MakeDirty
  /\ UNCHANGED <<weights, total>>

Activate(c) ==
  /\ c \in ClientsOf(tree)
  /\ tree' = SetKind(tree, c, "active")
  /\ children' = Rearranged(tree')
  /\ IF c \in ActiveClients(tree) THEN sorted' = <<>> /\ UNCHANGED <<share, dirty>>
     ELSE MakeDirty
  /\ UNCHANGED <<count, weights, total>>

\* The others stay in order.
Deactivate(c) ==
  /\ c \in ClientsOf(tree)
  /\ tree' = SetKind(tree, c, "inactive")
  /\ children' = Rearranged(tree')
  /\ sorted' = <<>>
  /\ share' = [share EXCEPT ![LeafOf(tree, c)] = NoShare]
  /\ UNCHANGED <<count, dirty, weights, total>>

UpdateWeight(path, weight) ==
  /\ weights' = [weights EXCEPT ![path] = weight]
  /\ tree' = Reweighted(tree, path, weight)
  /\ MakeDirty
  /\ UNCHANGED <<children, count, total>>

Update(c, s, old, new) ==
  /\ c \in ClientsOf(tree) /\ CanSubtract(tree[LeafOf(tree, c)].held, s, old)
  /\ tree' = OnPath(tree, c, LAMBDA held : UpdateIn(held, s, old, new))
  /\ MakeDirty
  /\ UNCHANGED <<children, count, weights, total>>

Unallocated(c, s, x) ==
  /\ c \in ClientsOf(tree) /\ CanSubtract(tree[LeafOf(tree, c)].held, s, x)
  /\ tree' = OnPath(tree, c, LAMBDA held : SubtractFrom(held, s, x))
  /\ MakeDirty
  /\ UNCHANGED <<children, count, weights, total>>

\* Of an agent; without resources, no-ops.
AddTotal(s, x) ==
  /\ total' = AddTo(total, s, x)
  /\ UNCHANGED <<tree, children, count, weights>>
  /\ MakeDirty

RemoveTotal(s, x) ==
  /\ CanSubtract(total, s, x)
  /\ total' = SubtractFrom(total, s, x)
  /\ UNCHANGED <<tree, children, count, weights>>
  /\ MakeDirty

-----------------------------------------------------------------------------
(* allocated() and sort().                                                 *)

\* Of children cs, those that are sorted: the ones before the first inactive leaf.
Sortable(cs) ==
  LET inactive == {i \in DOMAIN cs : tree[cs[i]].kind = "inactive"}
  IN  SubSeq(cs, 1, IF inactive = {} THEN Len(cs) ELSE Min(inactive) - 1)

\* cs with its element at i moved to place j.
MovedTo(cs, i, j) ==
  [k \in DOMAIN cs |-> CASE k = j -> cs[i]
                         [] i <= k /\ k < j -> cs[k + 1]
                         [] j < k /\ k <= i -> cs[k - 1]
                         [] OTHER -> cs[k]]

\* Slip: a node is moved towards the front only.
ShiftedLeft(cs, n, p, sh, cnt) ==
  LET at == CHOOSE i \in DOMAIN cs : cs[i] = p
      ahead == {i \in 1..at-1 : \A j \in i..at-1 : Before(p, cs[j], sh, cnt)}
  IN  MovedTo(cs, at, IF ahead # {} THEN Min(ahead) ELSE at)

\* p among its siblings cs, of which the first n are sortable: left past those it comes
\* before, or else right past those that come before it.
Shifted(cs, n, p, sh, cnt) ==
  LET at == CHOOSE i \in DOMAIN cs : cs[i] = p
      ahead == {i \in 1..at-1 : \A j \in i..at-1 : Before(p, cs[j], sh, cnt)}
      behind == {i \in at+1..n : \A j \in at+1..i : Before(cs[j], p, sh, cnt)}
  IN  MovedTo(cs, at, IF ahead # {} THEN Min(ahead) ELSE IF behind # {} THEN Max(behind) ELSE at)

\* On the way up each node is given its new share and its place.  Siblings keep the
\* shares they were given before.
Allocated(c, s, x) ==
  LET path == Upwards(LeafOf(tree, c))
      t == OnPath(tree, c, LAMBDA held : AddTo(held, s, x))
      moved == {p \in path \ {Root} : ~dirty /\ t[p].kind # "inactive"}
      sh == [p \in DOMAIN t |-> IF p \in moved THEN ShareOf(t, p) ELSE share[p]]
      cnt == [p \in DOMAIN t |-> IF p \in path THEN count[p] + 1 ELSE count[p]]
      order(cs) == LET p == CHOOSE q \in ToSet(cs) : q \in moved
                   IN  Shifted(cs, Len(Sortable(cs)), p, sh, cnt)
  IN  /\ c \in ClientsOf(tree)
      /\ tree' = Cached(t, weights, moved)
      /\ children' = [p \in DOMAIN children |->
                        IF ToSet(children[p]) \cap moved = {} THEN children[p]
                        ELSE order(children[p])]
      /\ share' = sh
      /\ count' = cnt
      /\ sorted' = <<>>
      /\ UNCHANGED <<dirty, weights, total>>

\* The elements of P in the order in which one comes before another.
Arranged(P, Comes(_, _)) ==
  CHOOSE l \in SetToSeqs(P) : \A i, j \in DOMAIN l : i < j => Comes(l[i], l[j])

\* The walk through children cs visits p before q: it goes into a child that leads to p
\* before it goes into one that leads to q.
Visited(cs, p, q) ==
  \E a \in DOMAIN cs : \E i, j \in DOMAIN cs[a] :
    i < j /\ IsPrefix(cs[a][i], p) /\ IsPrefix(cs[a][j], q)

\* The clients of some leaves, as they are visited.
Walk(cs, leaves) ==
  LET l == Arranged(leaves, LAMBDA p, q : Visited(cs, p, q))
  IN  [i \in DOMAIN l |-> ClientPath(l[i])]

\* Slip: the inactive leaves are listed too.
ListAll(cs) == Walk(cs, {p \in DOMAIN tree : IsLeaf(tree, p)})

\* listClients: the walk goes up to the first inactive leaf of each node.
Listed(cs) ==
  Walk(cs, {p \in DOMAIN tree : IsLeaf(tree, p)
                                  /\ \A q \in Above(p) : q \in ToSet(Sortable(cs[Front(q)]))})

Sort ==
  LET reached == {p \in DOMAIN tree : p # Root /\ tree[p].kind # "inactive"}
      sh == [p \in DOMAIN tree |-> IF p \in reached THEN ShareOf(tree, p) ELSE share[p]]
      order(cs) ==
        LET first == Sortable(cs)
        IN  Arranged(ToSet(first), LAMBDA p, q : Before(p, q, sh, count))
              \o SubSeq(cs, Len(first) + 1, Len(cs))
  IN  /\ IF dirty
         THEN /\ tree' = Cached(tree, weights, reached)
              /\ children' = [p \in DOMAIN children |-> order(children[p])]
              /\ share' = sh
              /\ dirty' = FALSE
         ELSE UNCHANGED <<tree, children, share, dirty>>
      /\ sorted' = Listed(children')
      /\ UNCHANGED <<count, weights, total>>
=============================================================================
