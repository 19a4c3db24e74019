-------------------------------- MODULE RoleTree --------------------------------
(***************************************************************************)
(* RoleTree (src/src/hierarchical.hpp, .cpp): the roles the allocator      *)
(* keeps track of, each with its frameworks, its quota and the units       *)
(* reserved to it and to the roles below it.  A role is there as long as   *)
(* it, or a role below it, has one of the three.  The root is always       *)
(* there.  (Weights, a fourth reason to be there, are left out.)           *)
(***************************************************************************)
EXTENDS Integers, FiniteSetsExt, Functions

CONSTANTS Role,
          Parent,        \* [Role -> Role \cup {Root}]: the tree of roles, of two levels
          Root

ASSUME TreeAssumption ==
  /\ IsFiniteSet(Role) /\ Root \notin Role
  /\ Parent \in [Role -> Role \cup {Root}]
  /\ \A r \in Role : Parent[r] # Root => Parent[Parent[r]] = Root

NoLimit == -1
Quota == [guarantee : Nat, limit : Nat \cup {NoLimit}]
DefaultQuota == [guarantee |-> 0, limit |-> NoLimit]

\* r and the roles above it, without the root and with it.
Lineage(r) == {r, Parent[r]} \ {Root}
Upwards(r) == Lineage(r) \cup {Root}
Subtree(r) == {q \in Role : r \in Lineage(q)}

\* A role that has just been created, and an empty one.
NewRole == [frameworks |-> {}, quota |-> DefaultQuota, reservation |-> 0]

EmptyTree == [r \in {Root} |-> NewRole]

\* operator[]: the role and those above it are created where they are missing.
With(tree, r) ==
  [q \in DOMAIN tree \cup Lineage(r) |-> IF q \in DOMAIN tree THEN tree[q] ELSE NewRole]

\* Slip: a quota does not keep a role there.
TryRemoveUnused(tree, r) ==
  LET unused(p) == tree[p].frameworks = {} /\ tree[p].reservation = 0
      dead == {q \in Lineage(r) : \A p \in DOMAIN tree \cap Subtree(q) : p \in Lineage(r) /\ unused(p)}
  IN  Restrict(tree, DOMAIN tree \ dead)

\* tryRemove: the role goes if it is empty and has no child, then the role above it.
TryRemove(tree, r) ==
  LET dead == {q \in Lineage(r) :
                 \A p \in DOMAIN tree \cap Subtree(q) : p \in Lineage(r) /\ tree[p] = NewRole}
  IN  Restrict(tree, DOMAIN tree \ dead)

\* n units more are reserved to r; nothing is tracked for none.
TrackReservation(tree, r, n) ==
  LET grown == With(tree, r)
  IN  IF n = 0 THEN tree
      ELSE [q \in DOMAIN grown |-> IF q \in Upwards(r)
                                   THEN [grown[q] EXCEPT !.reservation = @ + n] ELSE grown[q]]

UntrackReservation(tree, r, n) ==
  IF n = 0 THEN tree
  ELSE TryRemove([q \in DOMAIN tree |-> IF q \in Upwards(r)
                                        THEN [tree[q] EXCEPT !.reservation = @ - n] ELSE tree[q]], r)

\* Of an agent with these totals.
TrackReservations(tree, total) ==
  FoldSet(LAMBDA r, t : TrackReservation(t, r, total[r]), tree, Role)

UntrackReservations(tree, total) ==
  FoldSet(LAMBDA r, t : UntrackReservation(t, r, total[r]), tree, Role)

TrackFramework(tree, f, r) == [With(tree, r) EXCEPT ![r].frameworks = @ \cup {f}]

UntrackFramework(tree, f, r) == TryRemove([tree EXCEPT ![r].frameworks = @ \ {f}], r)

SetQuota(tree, r, quota) == TryRemove([With(tree, r) EXCEPT ![r].quota = quota], r)

\* getQuota.
QuotaOf(tree, r) == IF r \in DOMAIN tree THEN tree[r].quota ELSE DefaultQuota
=============================================================================
