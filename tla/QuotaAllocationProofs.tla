------------------------ MODULE QuotaAllocationProofs ------------------------
(***************************************************************************)
(* Theorems about QuotaAllocation, for any agents, any roles on two levels *)
(* and any quotas: the role tree is exact, the headroom a run believes in  *)
(* is there and is enough, and no allocation takes what unmet guarantees   *)
(* need.  Where no role has roles below it, what a run has worked out as   *)
(* consumed is exact, and limits are kept.                                 *)
(***************************************************************************)
EXTENDS QuotaAllocation, FoldTheorems

-----------------------------------------------------------------------------
(* What the operations of the role tree do to a tree that is exact: the    *)
(* tree that results is exact again.  A tree is exact when it is worked    *)
(* out from `own`, what each role has of its own: a function from the      *)
(* roles to records like those of the tree.                                *)

Used(own) == {r \in Role : own[r] # NewRole}

ReservationOf(own) == [r \in Role |-> own[r].reservation]

\* What the tree says of q if it has q.
Entry(own, q) ==
  IF q = Root THEN [NewRole EXCEPT !.reservation = SumFunction(ReservationOf(own))]
  ELSE [frameworks |-> own[q].frameworks, quota |-> own[q].quota,
        reservation |-> SumFunctionOnSet(ReservationOf(own), Subtree(q))]

InTree(own) == {Root} \cup UNION {Lineage(r) : r \in Used(own)}

\* The tree with the roles of D.
TreeOn(D, own) == [q \in D |-> Entry(own, q)]

ExactTree(own) == TreeOn(InTree(own), own)

\* Frameworks may be anything.
Owns(F) == [Role -> [frameworks : F, quota : Quota, reservation : Nat]]

-----------------------------------------------------------------------------
(* The roles.                                                              *)

\* A role is in its lineage, and the lineage of a role there is part of it.
LEMMA Lineages ==
  ASSUME NEW r \in Role
  PROVE  /\ r \in Lineage(r) /\ Lineage(r) \subseteq Role
         /\ \A q \in Lineage(r) : Lineage(q) \subseteq Lineage(r)
         /\ r \in Subtree(r) /\ Subtree(r) \subseteq Role /\ IsFiniteSet(Subtree(r))
         /\ \A q \in Subtree(r) : Subtree(q) \subseteq Subtree(r)
<1>1. r \in Lineage(r) /\ Lineage(r) \subseteq Role
  BY TreeAssumption DEF Lineage
<1>2. \A p \in Role : \A q \in Lineage(p) : Lineage(q) \subseteq Lineage(p)
  BY TreeAssumption DEF Lineage
<1>3. r \in Subtree(r) /\ Subtree(r) \subseteq Role
  BY <1>1 DEF Subtree
<1>4. IsFiniteSet(Subtree(r))
  BY <1>3, TreeAssumption, FS_Subset
<1>5. \A q \in Subtree(r) : Subtree(q) \subseteq Subtree(r)
  BY <1>2 DEF Subtree
<1> QED BY <1>1, <1>2, <1>3, <1>4, <1>5

\* Reservations of a subtree are numbers, none only where no role there has any.
LEMMA SubtreeReservation ==
  ASSUME NEW F, NEW own \in Owns(F), NEW q \in Role
  PROVE  /\ ReservationOf(own) \in [Role -> Nat]
         /\ SumFunctionOnSet(ReservationOf(own), Subtree(q)) \in Nat
         /\ SumFunctionOnSet(ReservationOf(own), Subtree(q)) = 0
              <=> \A p \in Subtree(q) : own[p].reservation = 0
<1> DEFINE res == ReservationOf(own)
<1>1. res \in [Role -> Nat]
  BY DEF ReservationOf, Owns
<1>2. IsFiniteSet(Subtree(q)) /\ Subtree(q) \subseteq Role
  BY Lineages
<1>3. \A p \in Subtree(q) : res[p] \in Nat /\ res[p] = own[p].reservation
  BY <1>1, <1>2 DEF ReservationOf
<1> HIDE DEF res
<1>4. /\ SumFunctionOnSet(res, Subtree(q)) \in Nat
      /\ \A p \in Subtree(q) : res[p] <= SumFunctionOnSet(res, Subtree(q))
  BY <1>2, <1>3, SumOfNats
<1>5. (\A p \in Subtree(q) : res[p] = 0) => SumFunctionOnSet(res, Subtree(q)) = 0
  BY <1>2, SumOfZeros
<1>6. SumFunctionOnSet(res, Subtree(q)) = 0 => \A p \in Subtree(q) : res[p] = 0
  BY <1>3, <1>4
<1>7. SumFunctionOnSet(res, Subtree(q)) = 0 <=> \A p \in Subtree(q) : own[p].reservation = 0
  BY <1>3, <1>5, <1>6
<1> QED BY <1>1, <1>4, <1>7 DEF res

\* A role is in the exact tree if and only if one of its subtree has something of its own.
LEMMA WhoIsInTree ==
  ASSUME NEW own, NEW q \in Role
  PROVE  /\ q \in InTree(own) <=> \E p \in Subtree(q) : own[p] # NewRole
         /\ q \in InTree(own) => Lineage(q) \subseteq InTree(own)
<1>1. q \in InTree(own) <=> \E p \in Subtree(q) : own[p] # NewRole
  BY TreeAssumption DEF InTree, Used, Subtree
<1>2. q \in InTree(own) => Lineage(q) \subseteq InTree(own)
  <2> SUFFICES ASSUME NEW p \in Used(own), q \in Lineage(p) PROVE Lineage(q) \subseteq InTree(own)
    BY TreeAssumption DEF InTree
  <2>1. Lineage(q) \subseteq Lineage(p)
    BY Lineages DEF Used
  <2> QED BY <2>1 DEF InTree
<1> QED BY <1>1, <1>2

\* A role outside of the exact tree would be a new one there.
LEMMA OutsideIsNew ==
  ASSUME NEW F, NEW own \in Owns(F), NEW q \in Role, q \notin InTree(own)
  PROVE  Entry(own, q) = NewRole
<1>1. \A p \in Subtree(q) : own[p] = NewRole
  BY WhoIsInTree
<1>2. q \in Subtree(q) /\ q # Root
  BY Lineages, TreeAssumption
<1>3. SumFunctionOnSet(ReservationOf(own), Subtree(q)) = 0
  BY <1>1, SubtreeReservation DEF NewRole
<1> QED BY <1>1, <1>2, <1>3 DEF Entry, NewRole

\* What a role has in the exact tree tells whether it has something of its own.
LEMMA NewHasNothing ==
  ASSUME NEW F, NEW own \in Owns(F), NEW q \in Role
  PROVE  /\ own[q] # NewRole => Entry(own, q) # NewRole
         /\ Entry(own, q) # NewRole => q \in InTree(own)
<1>1. Entry(own, q) = [frameworks |-> own[q].frameworks, quota |-> own[q].quota,
                       reservation |-> SumFunctionOnSet(ReservationOf(own), Subtree(q))]
  BY TreeAssumption DEF Entry
<1>2. ASSUME Entry(own, q) = NewRole PROVE own[q] = NewRole
  <2>1. /\ own[q].frameworks = {} /\ own[q].quota = DefaultQuota
        /\ SumFunctionOnSet(ReservationOf(own), Subtree(q)) = 0
    BY <1>1, <1>2 DEF NewRole
  <2>2. own[q].reservation = 0
    BY <2>1, SubtreeReservation, Lineages
  <2>3. own[q] = [frameworks |-> own[q].frameworks, quota |-> own[q].quota,
                  reservation |-> own[q].reservation]
    BY DEF Owns
  <2> QED BY <2>1, <2>2, <2>3 DEF NewRole
<1> QED BY <1>2, OutsideIsNew

-----------------------------------------------------------------------------
(* Pruning.                                                                *)

\* operator[] adds to an exact tree what the exact tree would say.
LEMMA WithIsExact ==
  ASSUME NEW F, NEW own \in Owns(F), NEW r \in Role
  PROVE  With(ExactTree(own), r) = TreeOn(InTree(own) \cup Lineage(r), own)
<1>1. DOMAIN ExactTree(own) = InTree(own)
  BY DEF ExactTree, TreeOn
<1>2. ASSUME NEW q \in InTree(own) \cup Lineage(r)
      PROVE  (IF q \in InTree(own) THEN ExactTree(own)[q] ELSE NewRole) = Entry(own, q)
  <2>1. CASE q \in InTree(own)
    BY <2>1 DEF ExactTree, TreeOn
  <2>2. CASE q \notin InTree(own)
    BY <1>2, <2>2, Lineages, OutsideIsNew
  <2> QED BY <2>1, <2>2
<1> QED BY <1>1, <1>2 DEF With, TreeOn

\* tryRemove leaves the exact tree when all that was too much is in the lineage of the role.
LEMMA TryRemoveIsExact ==
  ASSUME NEW F, NEW own \in Owns(F), NEW r \in Role, NEW D,
         InTree(own) \subseteq D, D \subseteq InTree(own) \cup Lineage(r)
  PROVE  TryRemove(TreeOn(D, own), r) = ExactTree(own)
<1> DEFINE tree == TreeOn(D, own)
           dead == {q \in Lineage(r) :
                      \A p \in DOMAIN tree \cap Subtree(q) : p \in Lineage(r) /\ tree[p] = NewRole}
<1>1. DOMAIN tree = D /\ \A q \in D : tree[q] = Entry(own, q)
  BY DEF TreeOn
<1>2. Lineage(r) \subseteq Role /\ Root \notin Role
  BY Lineages, TreeAssumption
<1>3. ASSUME NEW q \in InTree(own) PROVE q \notin dead
  <2> SUFFICES ASSUME q \in Role PROVE \E p \in D \cap Subtree(q) : tree[p] # NewRole
    BY <1>1, <1>2
  <2>1. PICK p \in Subtree(q) : own[p] # NewRole
    BY <1>3, WhoIsInTree
  <2>2. p \in Role /\ p \in InTree(own)
    BY <2>1, Lineages, WhoIsInTree
  <2> QED BY <1>1, <2>1, <2>2, NewHasNothing
<1>4. ASSUME NEW q \in D, q \notin InTree(own) PROVE q \in dead
  <2>1. q \in Lineage(r) /\ q \in Role
    BY <1>2, <1>4
  <2>2. ASSUME NEW p \in D \cap Subtree(q) PROVE p \in Lineage(r) /\ tree[p] = NewRole
    <3>1. p \in Role /\ q \in Lineage(p)
      BY <2>1 DEF Subtree
    <3>2. p \notin InTree(own)
      BY <1>4, <3>1, WhoIsInTree
    <3> QED BY <1>1, <3>1, <3>2, OutsideIsNew
  <2> QED BY <1>1, <2>1, <2>2
<1>5. D \ dead = InTree(own)
  BY <1>3, <1>4
<1>6. TryRemove(tree, r) = [q \in D \ dead |-> tree[q]]
  BY <1>1 DEF TryRemove, Restrict
<1> HIDE DEF dead
<1> QED BY <1>1, <1>5, <1>6 DEF ExactTree, TreeOn

\* When one role has something else of its own, nothing outside of its lineage comes or goes.
LEMMA OneRoleChanges ==
  ASSUME NEW own, NEW new, NEW r \in Role, \A q \in Role \ {r} : new[q] = own[q]
  PROVE  /\ InTree(new) \subseteq InTree(own) \cup Lineage(r)
         /\ InTree(own) \subseteq InTree(new) \cup Lineage(r)
         /\ new[r] # NewRole => InTree(new) = InTree(own) \cup Lineage(r)
         /\ Lineage(r) \subseteq InTree(new) \cup Lineage(r)
  BY DEF InTree, Used
-----------------------------------------------------------------------------
(* The operations.                                                         *)

\* The reservation of an entry is a number.
LEMMA EntryType ==
  ASSUME NEW F, NEW own \in Owns(F), NEW q \in Role \cup {Root}
  PROVE  /\ Entry(own, q).reservation \in Nat
         /\ Entry(own, q) = [frameworks |-> Entry(own, q).frameworks,
                             quota |-> Entry(own, q).quota,
                             reservation |-> Entry(own, q).reservation]
<1>1. CASE q = Root
  <2>1. SumFunction(ReservationOf(own)) \in Nat
    <3>1. ReservationOf(own) \in [Role -> Nat]
      BY DEF ReservationOf, Owns
    <3> QED BY <3>1, TreeAssumption, SumFunctionType
  <2> QED BY <1>1, <2>1 DEF Entry, NewRole
<1>2. CASE q # Root
  BY <1>2, SubtreeReservation DEF Entry
<1> QED BY <1>1, <1>2

\* d units more (or less) reserved to r count in its lineage and at the root.
LEMMA EntryChanges ==
  ASSUME NEW F, NEW own \in Owns(F), NEW new \in Owns(F), NEW r \in Role, NEW d \in Int,
         \A p \in Role \ {r} : new[p] = own[p],
         new[r].frameworks = own[r].frameworks, new[r].quota = own[r].quota,
         new[r].reservation = own[r].reservation + d,
         NEW q \in Role \cup {Root}
  PROVE  /\ Entry(new, q).frameworks = Entry(own, q).frameworks
         /\ Entry(new, q).quota = Entry(own, q).quota
         /\ q \in Upwards(r) => Entry(new, q).reservation = Entry(own, q).reservation + d
         /\ q \notin Upwards(r) => Entry(new, q).reservation = Entry(own, q).reservation
<1>0. PICK g \in [Role -> Nat], h \in [Role -> Nat] :
        g = ReservationOf(own) /\ h = ReservationOf(new)
  BY SubtreeReservation
<1>2. \A p \in Role : new[p].frameworks = own[p].frameworks /\ new[p].quota = own[p].quota
  OBVIOUS
<1>3. (\A p \in Role \ {r} : h[p] = g[p]) /\ h[r] = g[r] + d
  BY <1>0 DEF ReservationOf
<1>4. IsFiniteSet(Role) /\ g[r] \in Int /\ h[r] \in Int
  BY TreeAssumption
<1>5. CASE q = Root
  <2>1. SumFunction(h) = SumFunction(g) - g[r] + h[r] /\ SumFunction(g) \in Nat
    BY <1>3, <1>4, SumFunctionChangesAt, SumFunctionType
  <2>2. SumFunction(h) = SumFunction(g) + d
    BY <1>3, <1>4, <2>1
  <2>3. q \in Upwards(r)
    BY <1>5 DEF Upwards
  <2> QED BY <1>0, <1>5, <2>2, <2>3 DEF Entry, NewRole
<1>6. CASE q # Root
  <2>1. q \in Role /\ IsFiniteSet(Subtree(q)) /\ Subtree(q) \subseteq Role
    BY <1>6, Lineages
  <2>2. q \in Upwards(r) <=> r \in Subtree(q)
    BY <1>6, <2>1 DEF Subtree, Upwards
  <2>3. SumFunctionOnSet(g, Subtree(q)) \in Nat
    BY <1>0, <2>1, SubtreeReservation
  <2>4. /\ Entry(own, q) = [frameworks |-> own[q].frameworks, quota |-> own[q].quota,
                            reservation |-> SumFunctionOnSet(g, Subtree(q))]
        /\ Entry(new, q) = [frameworks |-> own[q].frameworks, quota |-> own[q].quota,
                            reservation |-> SumFunctionOnSet(h, Subtree(q))]
    BY <1>0, <1>2, <1>6, <2>1 DEF Entry
  <2>5. CASE r \in Subtree(q)
    <3>1. /\ \A x \in Subtree(q) : g[x] \in Int
          /\ \A x \in Subtree(q) \ {r} : h[x] = g[x]
      BY <1>3, <2>1
    <3>2. SumFunctionOnSet(h, Subtree(q)) = SumFunctionOnSet(g, Subtree(q)) - g[r] + h[r]
      BY <1>4, <2>1, <2>5, <3>1, SumChangesAt
    <3>3. SumFunctionOnSet(h, Subtree(q)) = SumFunctionOnSet(g, Subtree(q)) + d
      BY <1>3, <1>4, <2>3, <3>2
    <3> QED BY <2>2, <2>4, <2>5, <3>3
  <2>6. CASE r \notin Subtree(q)
    <3>1. \A x \in Subtree(q) : g[x] \in Int /\ h[x] = g[x]
      BY <1>3, <2>1, <2>6
    <3>2. SumFunctionOnSet(h, Subtree(q)) = SumFunctionOnSet(g, Subtree(q))
      BY <2>1, <3>1, SumsEqual
    <3> QED BY <2>2, <2>4, <2>6, <3>2
  <2> QED BY <2>5, <2>6
<1> QED BY <1>5, <1>6

\* All roles of a tree are roles, or the root.
LEMMA TreeRoles ==
  ASSUME NEW own, NEW r \in Role
  PROVE  InTree(own) \cup Lineage(r) \subseteq Role \cup {Root}
  BY Lineages DEF InTree, Used

\* n units more are reserved to r, whether r was in the tree or not.
LEMMA TrackReservationIsExact ==
  ASSUME NEW F, NEW own \in Owns(F), NEW new \in Owns(F), NEW r \in Role, NEW n \in Nat,
         \A q \in Role \ {r} : new[q] = own[q],
         new[r].frameworks = own[r].frameworks, new[r].quota = own[r].quota,
         new[r].reservation = own[r].reservation + n
  PROVE  TrackReservation(ExactTree(own), r, n) = ExactTree(new)
<1>1. /\ own[r] \in [frameworks : F, quota : Quota, reservation : Nat]
      /\ own[r].reservation \in Nat
      /\ \A q \in Role \ {r} : new[q] = own[q]
      /\ new[r].frameworks = own[r].frameworks /\ new[r].quota = own[r].quota
      /\ new[r].reservation = own[r].reservation + n
  BY DEF Owns
<1>2. CASE n = 0
  <2>1. new = own
    <3>1. /\ own[r] = [frameworks |-> own[r].frameworks, quota |-> own[r].quota,
                       reservation |-> own[r].reservation]
          /\ new[r] = [frameworks |-> new[r].frameworks, quota |-> new[r].quota,
                       reservation |-> new[r].reservation]
      BY DEF Owns
    <3>2. new[r] = own[r]
      BY <1>1, <1>2, <3>1
    <3> QED BY <1>1, <3>2 DEF Owns
  <2> QED BY <1>2, <2>1 DEF TrackReservation
<1>3. CASE n # 0
  <2> DEFINE D == InTree(own) \cup Lineage(r)
             grown == TreeOn(D, own)
             more == [q \in DOMAIN grown |-> IF q \in Upwards(r)
                        THEN [grown[q] EXCEPT !.reservation = @ + n] ELSE grown[q]]
  <2>1. new[r] # NewRole
    <3>1. new[r].reservation = own[r].reservation + n /\ own[r].reservation \in Nat
      BY <1>1
    <3> QED BY <1>3, <3>1 DEF NewRole
  <2>2. InTree(new) = D
    BY <1>1, <2>1, OneRoleChanges
  <2>3. TrackReservation(ExactTree(own), r, n) = more
    BY <1>3, WithIsExact DEF TrackReservation
  <2>4. DOMAIN grown = D /\ \A q \in D : grown[q] = Entry(own, q)
    BY DEF TreeOn
  <2>5. ASSUME NEW q \in D PROVE more[q] = Entry(new, q)
    <3>1. D \subseteq Role \cup {Root} /\ n \in Int
      BY TreeRoles
    <3>2. grown[q] = Entry(own, q) /\ q \in DOMAIN grown
      BY <2>4
    <3> HIDE DEF D, grown
    <3> q \in Role \cup {Root}
      BY <3>1
    <3>3. PICK old : old = Entry(own, q) /\ old.reservation \in Nat
                     /\ old = [frameworks |-> old.frameworks, quota |-> old.quota,
                               reservation |-> old.reservation]
      BY EntryType
    <3>4. PICK now : now = Entry(new, q)
                     /\ now = [frameworks |-> now.frameworks, quota |-> now.quota,
                               reservation |-> now.reservation]
      BY EntryType
    <3>5. /\ now.frameworks = old.frameworks /\ now.quota = old.quota
          /\ q \in Upwards(r) => now.reservation = old.reservation + n
          /\ q \notin Upwards(r) => now.reservation = old.reservation
      BY <1>1, <3>1, <3>3, <3>4, EntryChanges
    <3>6. more[q] = IF q \in Upwards(r) THEN [old EXCEPT !.reservation = @ + n] ELSE old
      BY <3>2, <3>3
    <3> QED BY <3>3, <3>4, <3>5, <3>6
  <2>6. more = TreeOn(D, new)
    <3>1. DOMAIN more = D /\ more = [q \in DOMAIN more |-> more[q]]
      BY <2>4
    <3> HIDE DEF D, grown, more
    <3> QED BY <2>5, <3>1 DEF TreeOn
  <2> QED BY <2>2, <2>3, <2>6 DEF ExactTree
<1> QED BY <1>2, <1>3

\* Units that are no longer reserved to r leave the tree, and r when it has nothing else.
LEMMA UntrackReservationIsExact ==
  ASSUME NEW F, NEW own \in Owns(F), NEW new \in Owns(F), NEW r \in Role, NEW n \in Nat,
         n <= own[r].reservation, \A q \in Role \ {r} : new[q] = own[q],
         new[r].frameworks = own[r].frameworks, new[r].quota = own[r].quota,
         new[r].reservation = own[r].reservation - n
  PROVE  UntrackReservation(ExactTree(own), r, n) = ExactTree(new)
<1>1. /\ own[r] \in [frameworks : F, quota : Quota, reservation : Nat]
      /\ own[r].reservation \in Nat
      /\ \A q \in Role \ {r} : new[q] = own[q]
      /\ new[r].frameworks = own[r].frameworks /\ new[r].quota = own[r].quota
      /\ new[r].reservation = own[r].reservation - n
  BY DEF Owns
<1>2. CASE n = 0
  <2>1. new = own
    <3>1. /\ own[r] = [frameworks |-> own[r].frameworks, quota |-> own[r].quota,
                       reservation |-> own[r].reservation]
          /\ new[r] = [frameworks |-> new[r].frameworks, quota |-> new[r].quota,
                       reservation |-> new[r].reservation]
      BY DEF Owns
    <3>2. new[r] = own[r]
      BY <1>1, <1>2, <3>1
    <3> QED BY <1>1, <3>2 DEF Owns
  <2> QED BY <1>2, <2>1 DEF UntrackReservation
<1>3. CASE n # 0
  <2> DEFINE D == InTree(own)
             tree == ExactTree(own)
             less == [q \in DOMAIN tree |-> IF q \in Upwards(r)
                        THEN [tree[q] EXCEPT !.reservation = @ - n] ELSE tree[q]]
  <2>1. own[r] # NewRole
    <3>1. own[r].reservation # 0
      BY <1>1, <1>3
    <3> QED BY <3>1 DEF NewRole
  <2>2. Lineage(r) \subseteq D
    <3>1. r \in D
      BY <2>1, Lineages, WhoIsInTree
    <3> QED BY <3>1, WhoIsInTree
  <2>3. InTree(new) \subseteq D /\ D \subseteq InTree(new) \cup Lineage(r)
    BY <1>1, <2>2, OneRoleChanges
  <2>4. DOMAIN tree = D /\ \A q \in D : tree[q] = Entry(own, q)
    BY DEF TreeOn, ExactTree
  <2>5. ASSUME NEW q \in D PROVE less[q] = Entry(new, q)
    <3>1. D \subseteq Role \cup {Root}
      BY TreeRoles
    <3>2. tree[q] = Entry(own, q) /\ q \in DOMAIN tree
      BY <2>4
    <3> HIDE DEF D, tree
    <3> q \in Role \cup {Root}
      BY <3>1
    <3>3. PICK old : old = Entry(own, q) /\ old.reservation \in Nat
                     /\ old = [frameworks |-> old.frameworks, quota |-> old.quota,
                               reservation |-> old.reservation]
      BY EntryType
    <3>4. PICK now : now = Entry(new, q)
                     /\ now = [frameworks |-> now.frameworks, quota |-> now.quota,
                               reservation |-> now.reservation]
      BY EntryType
    <3>5. PICK d \in Int : d = -n
      OBVIOUS
    <3>6. new[r].reservation = own[r].reservation + d
      BY <1>1, <3>5
    <3>7. /\ now.frameworks = old.frameworks /\ now.quota = old.quota
          /\ q \in Upwards(r) => now.reservation = old.reservation + d
          /\ q \notin Upwards(r) => now.reservation = old.reservation
      BY <1>1, <3>3, <3>4, <3>6, EntryChanges
    <3>8. less[q] = IF q \in Upwards(r) THEN [old EXCEPT !.reservation = @ - n] ELSE old
      BY <3>2, <3>3
    <3> QED BY <3>3, <3>4, <3>5, <3>7, <3>8
  <2>6. UntrackReservation(ExactTree(own), r, n) = TryRemove(less, r)
    BY <1>3 DEF UntrackReservation
  <2>7. less = TreeOn(D, new)
    <3>1. DOMAIN less = D /\ less = [q \in DOMAIN less |-> less[q]]
      BY <2>4
    <3> HIDE DEF D, tree, less
    <3> QED BY <2>5, <3>1 DEF TreeOn
  <2> HIDE DEF D, less
  <2> QED BY <2>3, <2>6, <2>7, TryRemoveIsExact
<1> QED BY <1>2, <1>3
\* Only what is of its own changes, and no reservation: the entries of the other roles stay.
LEMMA EntryStays ==
  ASSUME NEW F, NEW own \in Owns(F), NEW new \in Owns(F), NEW r \in Role,
         \A q \in Role \ {r} : new[q] = own[q],
         new[r].reservation = own[r].reservation, NEW q \in Role \cup {Root}
  PROVE  /\ q # r => Entry(new, q) = Entry(own, q)
         /\ q = r => Entry(new, q) = [frameworks |-> new[r].frameworks, quota |-> new[r].quota,
                                      reservation |-> Entry(own, r).reservation]
<1>1. ReservationOf(new) = ReservationOf(own)
  BY DEF ReservationOf
<1>2. CASE q = Root
  BY <1>1, <1>2, TreeAssumption DEF Entry
<1>3. CASE q # Root
  BY <1>1, <1>3, TreeAssumption DEF Entry
<1> QED BY <1>2, <1>3

\* A framework more keeps r in the tree.
LEMMA TrackFrameworkIsExact ==
  ASSUME NEW F, NEW own \in Owns(F), NEW new \in Owns(F), NEW r \in Role, NEW f,
         \A q \in Role \ {r} : new[q] = own[q],
         new[r].frameworks = own[r].frameworks \cup {f}, new[r].quota = own[r].quota,
         new[r].reservation = own[r].reservation
  PROVE  TrackFramework(ExactTree(own), f, r) = ExactTree(new)
<1> DEFINE D == InTree(own) \cup Lineage(r)
           more == [TreeOn(D, own) EXCEPT ![r].frameworks = @ \cup {f}]
<1>1. TrackFramework(ExactTree(own), f, r) = more
  BY WithIsExact DEF TrackFramework
<1>2. InTree(new) = D
  <2>1. new[r] # NewRole
    BY DEF NewRole
  <2> QED BY <2>1, OneRoleChanges
<1>3. r \in D /\ D \subseteq Role \cup {Root} /\ r # Root
  BY TreeRoles, Lineages, TreeAssumption
<1>4. DOMAIN more = D /\ more = [q \in DOMAIN more |-> more[q]]
  BY DEF TreeOn
<1>5. \A q \in D : more[q] = IF q = r THEN [Entry(own, r) EXCEPT !.frameworks = @ \cup {f}]
                             ELSE Entry(own, q)
  BY DEF TreeOn
<1>6. /\ Entry(own, r) = [frameworks |-> own[r].frameworks, quota |-> own[r].quota,
                          reservation |-> Entry(own, r).reservation]
  BY <1>3 DEF Entry
<1>7. [Entry(own, r) EXCEPT !.frameworks = @ \cup {f}]
        = [frameworks |-> new[r].frameworks, quota |-> new[r].quota,
           reservation |-> Entry(own, r).reservation]
  <2>1. PICK old : old = Entry(own, r)
    OBVIOUS
  <2>2. /\ old = [frameworks |-> own[r].frameworks, quota |-> new[r].quota,
                  reservation |-> old.reservation]
        /\ new[r].frameworks = own[r].frameworks \cup {f}
    BY <1>6, <2>1
  <2> QED BY ONLY <2>1, <2>2
<1> HIDE DEF D, more
<1>8. \A q \in D : more[q] = Entry(new, q)
  <2>1. \A q \in Role \cup {Root} :
          /\ q # r => Entry(new, q) = Entry(own, q)
          /\ q = r => Entry(new, q) = [frameworks |-> new[r].frameworks, quota |-> new[r].quota,
                                       reservation |-> Entry(own, r).reservation]
    BY EntryStays
  <2> QED BY ONLY <1>3, <1>5, <1>7, <2>1
<1> QED BY <1>1, <1>2, <1>4, <1>8 DEF ExactTree, TreeOn

\* A framework less, and r leaves the tree when it has nothing else.
LEMMA UntrackFrameworkIsExact ==
  ASSUME NEW F, NEW own \in Owns(F), NEW new \in Owns(F), NEW r \in Role, NEW f,
         f \in own[r].frameworks,
         \A q \in Role \ {r} : new[q] = own[q],
         new[r].frameworks = own[r].frameworks \ {f}, new[r].quota = own[r].quota,
         new[r].reservation = own[r].reservation
  PROVE  UntrackFramework(ExactTree(own), f, r) = ExactTree(new)
<1> DEFINE D == InTree(own)
           less == [ExactTree(own) EXCEPT ![r].frameworks = @ \ {f}]
<1>1. UntrackFramework(ExactTree(own), f, r) = TryRemove(less, r)
  BY DEF UntrackFramework
<1>2. r \in D /\ D \subseteq Role \cup {Root} /\ r # Root
  <2>1. own[r] # NewRole
    BY DEF NewRole
  <2> QED BY <2>1, TreeRoles, Lineages, WhoIsInTree, TreeAssumption
<1>3. InTree(new) \subseteq D /\ D \subseteq InTree(new) \cup Lineage(r)
  <2>1. Lineage(r) \subseteq D
    BY <1>2, WhoIsInTree
  <2> QED BY <2>1, OneRoleChanges
<1>4. DOMAIN less = D /\ less = [q \in DOMAIN less |-> less[q]]
  BY DEF TreeOn, ExactTree
<1>5. \A q \in D : less[q] = IF q = r THEN [Entry(own, r) EXCEPT !.frameworks = @ \ {f}]
                             ELSE Entry(own, q)
  BY DEF TreeOn, ExactTree
<1>6. /\ Entry(own, r) = [frameworks |-> own[r].frameworks, quota |-> own[r].quota,
                          reservation |-> Entry(own, r).reservation]
  BY <1>2 DEF Entry
<1>7. [Entry(own, r) EXCEPT !.frameworks = @ \ {f}]
        = [frameworks |-> new[r].frameworks, quota |-> new[r].quota,
           reservation |-> Entry(own, r).reservation]
  <2>1. PICK old : old = Entry(own, r)
    OBVIOUS
  <2>2. /\ old = [frameworks |-> own[r].frameworks, quota |-> new[r].quota,
                  reservation |-> old.reservation]
        /\ new[r].frameworks = own[r].frameworks \ {f}
    BY <1>6, <2>1
  <2> QED BY ONLY <2>1, <2>2
<1> HIDE DEF D, less
<1>8. \A q \in D : less[q] = Entry(new, q)
  <2>1. \A q \in Role \cup {Root} :
          /\ q # r => Entry(new, q) = Entry(own, q)
          /\ q = r => Entry(new, q) = [frameworks |-> new[r].frameworks, quota |-> new[r].quota,
                                       reservation |-> Entry(own, r).reservation]
    BY EntryStays
  <2> QED BY ONLY <1>2, <1>5, <1>7, <2>1
<1>9. less = TreeOn(D, new)
  BY <1>4, <1>8 DEF TreeOn
<1> QED BY <1>1, <1>3, <1>9, TryRemoveIsExact

\* A role gets a quota, or loses it.
LEMMA SetQuotaIsExact ==
  ASSUME NEW F, NEW own \in Owns(F), NEW new \in Owns(F), NEW r \in Role, NEW q \in Quota,
         \A p \in Role \ {r} : new[p] = own[p],
         new[r].frameworks = own[r].frameworks, new[r].quota = q,
         new[r].reservation = own[r].reservation
  PROVE  SetQuota(ExactTree(own), r, q) = ExactTree(new)
<1> DEFINE D == InTree(own) \cup Lineage(r)
           set == [TreeOn(D, own) EXCEPT ![r].quota = q]
<1>1. SetQuota(ExactTree(own), r, q) = TryRemove(set, r)
  BY WithIsExact DEF SetQuota
<1>2. r \in D /\ D \subseteq Role \cup {Root} /\ r # Root
  BY TreeRoles, Lineages, TreeAssumption
<1>3. InTree(new) \subseteq D /\ D \subseteq InTree(new) \cup Lineage(r)
  BY OneRoleChanges
<1>4. DOMAIN set = D /\ set = [p \in DOMAIN set |-> set[p]]
  BY DEF TreeOn
<1>5. \A p \in D : set[p] = IF p = r THEN [Entry(own, r) EXCEPT !.quota = q] ELSE Entry(own, p)
  BY DEF TreeOn
<1>6. /\ Entry(own, r) = [frameworks |-> own[r].frameworks, quota |-> own[r].quota,
                          reservation |-> Entry(own, r).reservation]
  BY <1>2 DEF Entry
<1>7. [Entry(own, r) EXCEPT !.quota = q]
        = [frameworks |-> new[r].frameworks, quota |-> new[r].quota,
           reservation |-> Entry(own, r).reservation]
  BY <1>6
<1> HIDE DEF D, set
<1>8. \A p \in D : set[p] = Entry(new, p)
  BY <1>2, <1>5, <1>7, EntryStays
<1>9. set = TreeOn(D, new)
  BY <1>4, <1>8 DEF TreeOn
<1> QED BY <1>1, <1>3, <1>9, TryRemoveIsExact

-----------------------------------------------------------------------------
(* The reservations of an agent, role by role.                             *)

\* Whatever the order in which the roles are gone through.
LEMMA TrackReservationsIsExact ==
  ASSUME NEW F, NEW own \in Owns(F), NEW new \in Owns(F), NEW total,
         \A r \in Role : /\ total[r] \in Nat
                         /\ new[r].frameworks = own[r].frameworks
                         /\ new[r].quota = own[r].quota
                         /\ new[r].reservation = own[r].reservation + total[r]
  PROVE  TrackReservations(ExactTree(own), total) = ExactTree(new)
<1> DEFINE After(A) == [r \in Role |-> IF r \in A THEN new[r] ELSE own[r]]
           exact == [A \in SUBSET Role |-> ExactTree(After(A))]
           Tracks(it) ==
             it = [A \in SUBSET Role |->
                     IF A = {} THEN ExactTree(own)
                     ELSE LET r == CHOOSE x \in A : TRUE
                          IN  TrackReservation(it[A \ {r}], r, total[r])]
<1>1. TrackReservations(ExactTree(own), total) = (CHOOSE it : Tracks(it))[Role]
  BY DEF TrackReservations, FoldSet, MapThenFoldSet
<1>2. \A A \in SUBSET Role : After(A) \in Owns(F)
  BY DEF Owns
<1>3. After({}) = own /\ After(Role) = new
  BY DEF Owns
<1>4. ASSUME NEW A \in SUBSET Role, NEW r \in A
      PROVE  TrackReservation(exact[A \ {r}], r, total[r]) = exact[A]
  <2>1. PICK before \in Owns(F), after \in Owns(F) :
          before = After(A \ {r}) /\ after = After(A)
    BY <1>2
  <2>2. /\ \A q \in Role \ {r} : after[q] = before[q]
        /\ before[r] = own[r] /\ after[r] = new[r]
    BY <2>1
  <2>3. TrackReservation(ExactTree(before), r, total[r]) = ExactTree(after)
    BY <2>2, TrackReservationIsExact
  <2> QED BY <2>1, <2>3
<1>5. \A A \in SUBSET Role : A # {} => (CHOOSE x \in A : TRUE) \in A
  OBVIOUS
<1>6. exact[{}] = ExactTree(own) /\ exact[Role] = ExactTree(new)
  BY <1>3
<1>7. Tracks(exact)
  <2>1. ASSUME NEW A \in SUBSET Role
        PROVE  exact[A] = IF A = {} THEN ExactTree(own)
                          ELSE LET r == CHOOSE x \in A : TRUE
                               IN  TrackReservation(exact[A \ {r}], r, total[r])
    <3> HIDE DEF exact
    <3> QED BY <1>4, <1>5, <1>6
  <2>2. exact = [A \in SUBSET Role |-> exact[A]]
    OBVIOUS
  <2> HIDE DEF exact
  <2> QED BY <2>1, <2>2
<1>8. PICK it : it = CHOOSE jt : Tracks(jt)
  OBVIOUS
<1>9. Tracks(it)
  <2> HIDE DEF Tracks, exact
  <2> QED BY <1>7, <1>8
<1>10. it[{}] = exact[{}]
  BY <1>6, <1>9
<1>11. \A A \in SUBSET Role : A # {} =>
         \E r \in A : it[A \ {r}] = exact[A \ {r}] => it[A] = exact[A]
  <2> SUFFICES ASSUME NEW A \in SUBSET Role, A # {}
               PROVE  \E r \in A : it[A \ {r}] = exact[A \ {r}] => it[A] = exact[A]
    OBVIOUS
  <2>1. PICK r \in A : r = CHOOSE x \in A : TRUE
    BY <1>5
  <2>2. it[A] = TrackReservation(it[A \ {r}], r, total[r])
    BY <1>9, <2>1
  <2> HIDE DEF exact
  <2> QED BY <1>4, <2>2
<1>12. it[Role] = exact[Role]
  <2> HIDE DEF exact, Tracks
  <2> QED BY <1>10, <1>11, TreeAssumption, AgreeByRemoving
<1> HIDE DEF exact, Tracks
<1> QED BY <1>1, <1>6, <1>8, <1>12

\* The same of an agent whose reservations go.
LEMMA UntrackReservationsIsExact ==
  ASSUME NEW F, NEW own \in Owns(F), NEW new \in Owns(F), NEW total,
         \A r \in Role : /\ total[r] \in Nat /\ total[r] <= own[r].reservation
                         /\ new[r].frameworks = own[r].frameworks
                         /\ new[r].quota = own[r].quota
                         /\ new[r].reservation = own[r].reservation - total[r]
  PROVE  UntrackReservations(ExactTree(own), total) = ExactTree(new)
<1> DEFINE After(A) == [r \in Role |-> IF r \in A THEN new[r] ELSE own[r]]
           exact == [A \in SUBSET Role |-> ExactTree(After(A))]
           Untracks(it) ==
             it = [A \in SUBSET Role |->
                     IF A = {} THEN ExactTree(own)
                     ELSE LET r == CHOOSE x \in A : TRUE
                          IN  UntrackReservation(it[A \ {r}], r, total[r])]
<1>1. UntrackReservations(ExactTree(own), total) = (CHOOSE it : Untracks(it))[Role]
  BY DEF UntrackReservations, FoldSet, MapThenFoldSet
<1>2. \A A \in SUBSET Role : After(A) \in Owns(F)
  BY DEF Owns
<1>3. After({}) = own /\ After(Role) = new
  BY DEF Owns
<1>4. ASSUME NEW A \in SUBSET Role, NEW r \in A
      PROVE  UntrackReservation(exact[A \ {r}], r, total[r]) = exact[A]
  <2>1. PICK before \in Owns(F), after \in Owns(F) :
          before = After(A \ {r}) /\ after = After(A)
    BY <1>2
  <2>2. /\ \A q \in Role \ {r} : after[q] = before[q]
        /\ before[r] = own[r] /\ after[r] = new[r]
    BY <2>1
  <2>3. UntrackReservation(ExactTree(before), r, total[r]) = ExactTree(after)
    BY <2>2, UntrackReservationIsExact
  <2> QED BY <2>1, <2>3
<1>5. \A A \in SUBSET Role : A # {} => (CHOOSE x \in A : TRUE) \in A
  OBVIOUS
<1>6. exact[{}] = ExactTree(own) /\ exact[Role] = ExactTree(new)
  BY <1>3
<1>7. Untracks(exact)
  <2>1. ASSUME NEW A \in SUBSET Role
        PROVE  exact[A] = IF A = {} THEN ExactTree(own)
                          ELSE LET r == CHOOSE x \in A : TRUE
                               IN  UntrackReservation(exact[A \ {r}], r, total[r])
    <3> HIDE DEF exact
    <3> QED BY <1>4, <1>5, <1>6
  <2>2. exact = [A \in SUBSET Role |-> exact[A]]
    OBVIOUS
  <2> HIDE DEF exact
  <2> QED BY <2>1, <2>2
<1>8. PICK it : it = CHOOSE jt : Untracks(jt)
  OBVIOUS
<1>9. Untracks(it)
  <2> HIDE DEF Untracks, exact
  <2> QED BY <1>7, <1>8
<1>10. it[{}] = exact[{}]
  BY <1>6, <1>9
<1>11. \A A \in SUBSET Role : A # {} =>
         \E r \in A : it[A \ {r}] = exact[A \ {r}] => it[A] = exact[A]
  <2> SUFFICES ASSUME NEW A \in SUBSET Role, A # {}
               PROVE  \E r \in A : it[A \ {r}] = exact[A \ {r}] => it[A] = exact[A]
    OBVIOUS
  <2>1. PICK r \in A : r = CHOOSE x \in A : TRUE
    BY <1>5
  <2>2. it[A] = UntrackReservation(it[A \ {r}], r, total[r])
    BY <1>9, <2>1
  <2> HIDE DEF exact
  <2> QED BY <1>4, <2>2
<1>12. it[Role] = exact[Role]
  <2> HIDE DEF exact, Untracks
  <2> QED BY <1>10, <1>11, TreeAssumption, AgreeByRemoving
<1> HIDE DEF exact, Untracks
<1> QED BY <1>1, <1>6, <1>8, <1>12

-----------------------------------------------------------------------------
(* The inductive invariant.                                                *)

ClusterTypes ==
  /\ DOMAIN slaves \subseteq Slave
  /\ \A s \in DOMAIN slaves : slaves[s] \in Resources
  /\ held \in [Role -> [Slave -> Resources]]
  /\ quota \in [Role -> Quota]
  /\ subscribed \in [Role -> SUBSET Framework]

RunTypes ==
  /\ stage \in {"idle", "first", "second"}
  /\ slaveIds \subseteq DOMAIN slaves
  /\ todo \subseteq slaveIds \X Role
  /\ stage = "idle" => slaveIds = {}
  /\ rolesConsumedQuota \in [Role -> Nat]
  /\ requiredHeadroom \in Nat
  /\ availableHeadroom \in Nat

\* What each role has of its own.
Own ==
  [r \in Role |-> [frameworks |-> subscribed[r], quota |-> quota[r],
                   reservation |-> ReservedUnits[r]]]

TreeInv == roleTree = ExactTree(Own)

\* Only top-level roles have quotas, and their guarantees are within their limits.
QuotaInv ==
  \A r \in Role : quota[r] # DefaultQuota =>
    /\ r \in TopLevel
    /\ quota[r].limit # NoLimit => quota[r].guarantee <= quota[r].limit

\* A role without frameworks holds nothing.
HolderInv ==
  \A r \in Role : subscribed[r] = {} => \A s \in Slave : held[r][s] = Nothing

IInv == ClusterTypes /\ RunTypes /\ TreeInv /\ QuotaInv /\ HolderInv

-----------------------------------------------------------------------------
(* What is reserved.                                                       *)

\* The reservations of the agents that are there are numbers; none of one agent is more.
LEMMA ReservedTypes ==
  ClusterTypes =>
    /\ IsFiniteSet(Agents) /\ Agents \subseteq Slave
    /\ \A r \in Role : /\ [s \in Agents |-> slaves[s][r]] \in [Agents -> Nat]
                       /\ ReservedUnits[r] = SumFunction([s \in Agents |-> slaves[s][r]])
                       /\ \A s \in Agents : slaves[s][r] <= ReservedUnits[r]
    /\ ReservedUnits \in [Role -> Nat]
    /\ Own \in Owns(SUBSET Framework)
<1> SUFFICES ASSUME ClusterTypes
             PROVE  /\ IsFiniteSet(Agents) /\ Agents \subseteq Slave
                    /\ \A r \in Role :
                         /\ [s \in Agents |-> slaves[s][r]] \in [Agents -> Nat]
                         /\ ReservedUnits[r] = SumFunction([s \in Agents |-> slaves[s][r]])
                         /\ \A s \in Agents : slaves[s][r] <= ReservedUnits[r]
                    /\ ReservedUnits \in [Role -> Nat]
                    /\ Own \in Owns(SUBSET Framework)
  OBVIOUS
<1>1. IsFiniteSet(Agents) /\ Agents \subseteq Slave
  BY ResourcesAssumption, FS_Subset DEF ClusterTypes, Agents
<1>2. \A s \in Agents, r \in Role : slaves[s][r] \in Nat
  BY DEF ClusterTypes, Agents, Resources, Kind
<1>3. ASSUME NEW r \in Role
      PROVE  /\ [s \in Agents |-> slaves[s][r]] \in [Agents -> Nat]
             /\ ReservedUnits[r] = SumFunction([s \in Agents |-> slaves[s][r]])
             /\ ReservedUnits[r] \in Nat
             /\ \A s \in Agents : slaves[s][r] <= ReservedUnits[r]
  <2>1. PICK g \in [Agents -> Nat] : g = [s \in Agents |-> slaves[s][r]]
    BY <1>2
  <2>2. ReservedUnits[r] = SumFunction(g)
    BY <2>1 DEF ReservedUnits
  <2>3. SumFunction(g) \in Nat /\ \A s \in Agents : g[s] <= SumFunction(g)
    BY <1>1, SumFunctionType
  <2>4. \A s \in Agents : g[s] = slaves[s][r]
    BY <2>1
  <2> QED BY <2>1, <2>2, <2>3, <2>4
<1>4. ReservedUnits \in [Role -> Nat]
  <2>1. ReservedUnits = [r \in Role |-> ReservedUnits[r]]
    BY DEF ReservedUnits
  <2> QED BY <1>3, <2>1
<1>5. Own \in Owns(SUBSET Framework)
  BY <1>4 DEF Own, Owns, ClusterTypes
<1> QED BY <1>1, <1>3, <1>4, <1>5

\* The same of the next state.
LEMMA ReservedTypesNext ==
  ClusterTypes' =>
    /\ (IsFiniteSet(Agents) /\ Agents \subseteq Slave)'
    /\ (\A r \in Role : /\ [s \in Agents |-> slaves[s][r]] \in [Agents -> Nat]
                        /\ ReservedUnits[r] = SumFunction([s \in Agents |-> slaves[s][r]])
                        /\ \A s \in Agents : slaves[s][r] <= ReservedUnits[r])'
    /\ (ReservedUnits \in [Role -> Nat])'
    /\ (Own \in Owns(SUBSET Framework))'
  BY ReservedTypes, PTL

\* An agent comes, goes, or has another total.
LEMMA ReservedOfNewAgent ==
  ASSUME ClusterTypes, NEW s \in Slave, s \notin Agents, NEW total \in Resources,
         slaves' = [t \in Agents \cup {s} |-> IF t = s THEN total ELSE slaves[t]]
  PROVE  \A r \in Role : ReservedUnits'[r] = ReservedUnits[r] + total[r]
<1> SUFFICES ASSUME NEW r \in Role PROVE ReservedUnits'[r] = ReservedUnits[r] + total[r]
  OBVIOUS
<1>1. IsFiniteSet(Agents) /\ total[r] \in Nat
  BY ReservedTypes DEF Resources, Kind
<1>2. PICK g \in [Agents -> Nat] : g = [t \in Agents |-> slaves[t][r]]
  BY ReservedTypes
<1>3. PICK h : h = [t \in Agents' |-> slaves'[t][r]]
  OBVIOUS
<1>4. /\ h \in [Agents \cup {s} -> Nat] /\ h[s] = total[r] /\ \A t \in Agents : h[t] = g[t]
  <2>1. Agents' = Agents \cup {s}
    BY DEF Agents
  <2>2. \A t \in Agents : g[t] = slaves[t][r]
    BY <1>2
  <2> QED BY <1>1, <1>2, <1>3, <2>1, <2>2
<1>5. SumFunction(h) = SumFunction(g) + h[s]
  BY <1>1, <1>4, SumFunctionGains
<1> QED BY <1>2, <1>3, <1>4, <1>5 DEF ReservedUnits

\* An agent that goes takes what is reserved on it out of the sums.
LEMMA ReservedWithoutAgent ==
  ASSUME ClusterTypes, NEW s \in Agents, slaves' = [t \in Agents \ {s} |-> slaves[t]]
  PROVE  \A r \in Role : ReservedUnits'[r] = ReservedUnits[r] - slaves[s][r]
<1> SUFFICES ASSUME NEW r \in Role PROVE ReservedUnits'[r] = ReservedUnits[r] - slaves[s][r]
  OBVIOUS
<1>1. IsFiniteSet(Agents \ {s}) /\ (Agents \ {s}) \cup {s} = Agents
  BY ReservedTypes, FS_RemoveElement
<1>2. PICK g \in [Agents -> Nat] : g = [t \in Agents |-> slaves[t][r]]
  BY ReservedTypes
<1>3. PICK h : h = [t \in Agents' |-> slaves'[t][r]]
  OBVIOUS
<1>4. h \in [Agents \ {s} -> Nat] /\ (\A t \in Agents \ {s} : g[t] = h[t]) /\ g[s] = slaves[s][r]
  <2>1. Agents' = Agents \ {s}
    BY DEF Agents
  <2>2. \A t \in Agents : g[t] = slaves[t][r]
    BY <1>2
  <2> QED BY <1>2, <1>3, <2>1, <2>2
<1>5. g \in [(Agents \ {s}) \cup {s} -> Nat]
  BY <1>1
<1>6. SumFunction(g) = SumFunction(h) + g[s]
  <2>1. PICK S : /\ IsFiniteSet(S) /\ s \notin S
                 /\ h \in [S -> Nat] /\ g \in [S \cup {s} -> Nat] /\ \A t \in S : g[t] = h[t]
    BY <1>1, <1>4, <1>5
  <2> QED BY ONLY <2>1, SumFunctionGains
<1>7. SumFunction(h) \in Nat /\ g[s] \in Nat
  BY <1>1, <1>4, SumFunctionType
<1> QED BY <1>2, <1>3, <1>4, <1>6, <1>7 DEF ReservedUnits

\* An agent that changes moves the sums by what is reserved on it.
LEMMA ReservedOfChangedAgent ==
  ASSUME ClusterTypes, NEW s \in Agents, NEW total \in Resources,
         slaves' = [slaves EXCEPT ![s] = total]
  PROVE  \A r \in Role : ReservedUnits'[r] = ReservedUnits[r] - slaves[s][r] + total[r]
<1> SUFFICES ASSUME NEW r \in Role
             PROVE  ReservedUnits'[r] = ReservedUnits[r] - slaves[s][r] + total[r]
  OBVIOUS
<1>1. IsFiniteSet(Agents) /\ total[r] \in Nat
  BY ReservedTypes DEF Resources, Kind
<1>2. PICK g \in [Agents -> Nat] : g = [t \in Agents |-> slaves[t][r]]
  BY ReservedTypes
<1>3. PICK h : h = [t \in Agents' |-> slaves'[t][r]]
  OBVIOUS
<1>4. /\ h \in [Agents -> Nat] /\ h[s] = total[r] /\ g[s] = slaves[s][r]
      /\ \A t \in Agents \ {s} : h[t] = g[t]
  <2>1. Agents' = Agents
    BY DEF Agents
  <2>2. \A t \in Agents : g[t] = slaves[t][r] /\ h[t] = slaves'[t][r]
    BY <1>2, <1>3, <2>1
  <2>3. \A t \in Agents : slaves'[t] = IF t = s THEN total ELSE slaves[t]
    BY DEF Agents
  <2> QED BY <1>1, <1>2, <1>3, <2>1, <2>2, <2>3
<1>5. SumFunction(h) = SumFunction(g) - g[s] + h[s]
  BY <1>1, <1>4, SumFunctionChangesAt
<1> QED BY <1>2, <1>3, <1>4, <1>5 DEF ReservedUnits
-----------------------------------------------------------------------------
(* The role tree is exact.                                                 *)

\* The role tree keeps its types.
LEMMA TreeTypes ==
  ASSUME ClusterTypes, TreeInv
  PROVE  /\ Root \in DOMAIN roleTree
         /\ roleTree[Root].reservation = SumFunction(ReservedUnits)
         /\ \A r \in DOMAIN roleTree :
              roleTree[r] \in [frameworks : SUBSET Framework, quota : Quota, reservation : Nat]
         /\ \A r \in Role \cap DOMAIN roleTree :
              roleTree[r] = [frameworks |-> subscribed[r], quota |-> quota[r],
                             reservation |-> SumFunctionOnSet(ReservedUnits, Subtree(r))]
         /\ \A r \in Role : /\ quota[r] # DefaultQuota => r \in DOMAIN roleTree
                            /\ ReservedUnits[r] > 0 => r \in DOMAIN roleTree
                            /\ subscribed[r] # {} => r \in DOMAIN roleTree
         /\ \A r \in Role : QuotaOf(roleTree, r) = quota[r]
<1>1. Own \in Owns(SUBSET Framework) /\ ReservedUnits \in [Role -> Nat]
  BY ReservedTypes
<1>2. ReservationOf(Own) = ReservedUnits
  BY <1>1 DEF ReservationOf, Own
<1>3. /\ DOMAIN roleTree = InTree(Own)
      /\ \A r \in InTree(Own) : roleTree[r] = Entry(Own, r)
  BY DEF TreeInv, ExactTree, TreeOn
<1>4. InTree(Own) \subseteq Role \cup {Root} /\ Root \in InTree(Own)
  BY Lineages DEF InTree, Used
<1>5. roleTree[Root] = [NewRole EXCEPT !.reservation = SumFunction(ReservedUnits)]
  BY <1>2, <1>3, <1>4 DEF Entry
<1>6. ASSUME NEW r \in Role, r \in DOMAIN roleTree
      PROVE  roleTree[r] = [frameworks |-> subscribed[r], quota |-> quota[r],
                            reservation |-> SumFunctionOnSet(ReservedUnits, Subtree(r))]
  BY <1>2, <1>3, <1>6, TreeAssumption DEF Entry, Own
<1>7. DefaultQuota \in Quota
  BY DEF DefaultQuota, Quota, NoLimit
<1>8. ASSUME NEW r \in DOMAIN roleTree
      PROVE  roleTree[r] \in [frameworks : SUBSET Framework, quota : Quota, reservation : Nat]
  <2>1. CASE r = Root
    <3>1. SumFunction(ReservedUnits) \in Nat
      BY <1>1, TreeAssumption, SumFunctionType
    <3> QED BY <1>5, <1>7, <2>1, <3>1 DEF NewRole
  <2>2. CASE r # Root
    <3>1. r \in Role
      BY <1>3, <1>4, <2>2
    <3>2. SumFunctionOnSet(ReservedUnits, Subtree(r)) \in Nat
      BY <1>1, <1>2, <3>1, SubtreeReservation
    <3> QED BY <1>6, <3>1, <3>2 DEF ClusterTypes
  <2> QED BY <2>1, <2>2
<1>9. ASSUME NEW r \in Role
      PROVE  /\ quota[r] # DefaultQuota => r \in DOMAIN roleTree
             /\ ReservedUnits[r] > 0 => r \in DOMAIN roleTree
             /\ subscribed[r] # {} => r \in DOMAIN roleTree
  <2>1. Own[r] # NewRole => r \in DOMAIN roleTree
    BY <1>3, Lineages, WhoIsInTree
  <2> QED BY <2>1 DEF Own, NewRole
<1>10. ASSUME NEW r \in Role PROVE QuotaOf(roleTree, r) = quota[r]
  <2>1. CASE r \in DOMAIN roleTree
    BY <1>6, <2>1 DEF QuotaOf
  <2>2. CASE r \notin DOMAIN roleTree
    BY <1>9, <2>2 DEF QuotaOf
  <2> QED BY <2>1, <2>2
<1> QED BY <1>3, <1>4, <1>5, <1>6, <1>8, <1>9, <1>10 DEF NewRole

\* The tree without the reservations of an agent.
Without(s) ==
  [r \in Role |-> [frameworks |-> subscribed[r], quota |-> quota[r],
                   reservation |-> ReservedUnits[r] - slaves[s][r]]]

\* Untracking the reservations of an agent leaves the exact tree of the other agents.
LEMMA UntrackedAgent ==
  ASSUME ClusterTypes, TreeInv, NEW s \in Agents
  PROVE  /\ UntrackReservations(roleTree, slaves[s]) = ExactTree(Without(s))
         /\ Without(s) \in Owns(SUBSET Framework)
<1>1. /\ Own \in Owns(SUBSET Framework)
      /\ \A r \in Role : /\ ReservedUnits[r] \in Nat /\ slaves[s][r] \in Nat
                         /\ slaves[s][r] <= ReservedUnits[r]
  BY ReservedTypes DEF ClusterTypes, Agents, Resources, Kind
<1>2. \A r \in Role : /\ Own[r].frameworks = subscribed[r] /\ Own[r].quota = quota[r]
                      /\ Own[r].reservation = ReservedUnits[r]
                      /\ Without(s)[r].frameworks = subscribed[r]
                      /\ Without(s)[r].quota = quota[r]
                      /\ Without(s)[r].reservation = ReservedUnits[r] - slaves[s][r]
  BY DEF Own, Without
<1>3. Without(s) \in Owns(SUBSET Framework)
  BY <1>1 DEF Without, Owns, ClusterTypes
<1>4. UntrackReservations(ExactTree(Own), slaves[s]) = ExactTree(Without(s))
  <2>1. PICK own \in Owns(SUBSET Framework), new \in Owns(SUBSET Framework) :
          own = Own /\ new = Without(s)
    BY <1>1, <1>3
  <2> DEFINE total == slaves[s]
  <2>2. \A r \in Role : /\ total[r] \in Nat /\ total[r] <= own[r].reservation
                        /\ new[r].frameworks = own[r].frameworks
                        /\ new[r].quota = own[r].quota
                        /\ new[r].reservation = own[r].reservation - total[r]
    BY <1>1, <1>2, <2>1
  <2>3. UntrackReservations(ExactTree(own), total) = ExactTree(new)
    BY <2>2, UntrackReservationsIsExact
  <2> QED BY <2>1, <2>3
<1> QED BY <1>3, <1>4 DEF TreeInv

\* addSlave() keeps the tree exact.
LEMMA AddedAgentTree ==
  ASSUME ClusterTypes, ClusterTypes', TreeInv, NEW s \in Slave, s \notin Agents,
         NEW total \in Resources,
         slaves' = [t \in Agents \cup {s} |-> IF t = s THEN total ELSE slaves[t]],
         roleTree' = TrackReservations(roleTree, total), UNCHANGED <<quota, subscribed>>
  PROVE  TreeInv'
<1>1. PICK own \in Owns(SUBSET Framework), new \in Owns(SUBSET Framework) :
        own = Own /\ new = Own'
  BY ReservedTypes, ReservedTypesNext
<1>2. \A r \in Role : ReservedUnits'[r] = ReservedUnits[r] + total[r]
  BY ReservedOfNewAgent
<1>3. \A r \in Role : /\ total[r] \in Nat
                      /\ new[r].frameworks = own[r].frameworks
                      /\ new[r].quota = own[r].quota
                      /\ new[r].reservation = own[r].reservation + total[r]
  BY <1>1, <1>2 DEF Own, Resources, Kind
<1>4. TrackReservations(ExactTree(own), total) = ExactTree(new)
  BY <1>3, TrackReservationsIsExact
<1> QED BY <1>1, <1>4 DEF TreeInv

\* removeSlave() keeps the tree exact.
LEMMA RemovedAgentTree ==
  ASSUME ClusterTypes, ClusterTypes', TreeInv, NEW s \in Agents,
         slaves' = [t \in Agents \ {s} |-> slaves[t]],
         roleTree' = UntrackReservations(roleTree, slaves[s]), UNCHANGED <<quota, subscribed>>
  PROVE  TreeInv'
<1>1. roleTree' = ExactTree(Without(s))
  BY UntrackedAgent
<1>2. \A r \in Role : ReservedUnits'[r] = ReservedUnits[r] - slaves[s][r]
  BY ReservedWithoutAgent
<1>3. Own' = Without(s)
  BY <1>2 DEF Own, Without
<1> QED BY <1>1, <1>3 DEF TreeInv

\* updateSlaveTotal(), which untracks the old reservations and tracks the new, keeps the tree
\* exact although roles may be pruned and created again in between.
LEMMA UpdatedAgentTree ==
  ASSUME ClusterTypes, ClusterTypes', TreeInv, NEW s \in Agents, NEW total \in Resources,
         UpdateTotal(s, total), UNCHANGED <<quota, subscribed>>
  PROVE  TreeInv'
<1>1. /\ slaves' = [slaves EXCEPT ![s] = total]
      /\ roleTree' = TrackReservations(UntrackReservations(roleTree, slaves[s]), total)
  BY DEF UpdateTotal
<1>2. PICK mid \in Owns(SUBSET Framework), new \in Owns(SUBSET Framework) :
        mid = Without(s) /\ new = Own'
  BY UntrackedAgent, ReservedTypesNext
<1>3. \A r \in Role : ReservedUnits'[r] = ReservedUnits[r] - slaves[s][r] + total[r]
  BY <1>1, ReservedOfChangedAgent
<1>4. \A r \in Role : /\ total[r] \in Nat
                      /\ new[r].frameworks = mid[r].frameworks
                      /\ new[r].quota = mid[r].quota
                      /\ new[r].reservation = mid[r].reservation + total[r]
  BY <1>2, <1>3 DEF Own, Without, Resources, Kind
<1>5. TrackReservations(ExactTree(mid), total) = ExactTree(new)
  BY <1>4, TrackReservationsIsExact
<1> QED BY <1>1, <1>2, <1>5, UntrackedAgent DEF TreeInv
-----------------------------------------------------------------------------
(* What is held.                                                           *)

\* What the roles hold of an agent, and what is free of it, are numbers.
LEMMA HeldTypes ==
  ASSUME ClusterTypes
  PROVE  /\ \A s \in Slave, k \in Kind :
              /\ [r \in Role |-> held[r][s][k]] \in [Role -> Nat]
              /\ HeldOn(s, k) \in Nat
              /\ \A r \in Role : held[r][s][k] <= HeldOn(s, k)
         /\ \A s \in Agents, k \in Kind :
              slaves[s][k] \in Nat /\ Free(s, k) \in Nat /\ Free(s, k) <= slaves[s][k]
         /\ \A r \in Role : /\ [s \in Slave |-> held[r][s][Unreserved]] \in [Slave -> Nat]
                            /\ HeldUnreserved[r] = SumFunction([s \in Slave |-> held[r][s][Unreserved]])
         /\ HeldUnreserved \in [Role -> Nat]
<1>1. \A r \in Role, s \in Slave, k \in Kind : held[r][s][k] \in Nat
  BY DEF ClusterTypes, Resources
<1>2. ASSUME NEW s \in Slave, NEW k \in Kind
      PROVE  /\ [r \in Role |-> held[r][s][k]] \in [Role -> Nat]
             /\ HeldOn(s, k) \in Nat
             /\ \A r \in Role : held[r][s][k] <= HeldOn(s, k)
  <2>1. PICK g \in [Role -> Nat] : g = [r \in Role |-> held[r][s][k]]
    BY <1>1
  <2>2. SumFunction(g) \in Nat /\ \A r \in Role : g[r] <= SumFunction(g)
    BY TreeAssumption, SumFunctionType
  <2>3. \A r \in Role : g[r] = held[r][s][k]
    BY <2>1
  <2> QED BY <2>1, <2>2, <2>3 DEF HeldOn
<1>3. ASSUME NEW s \in Agents, NEW k \in Kind
      PROVE  slaves[s][k] \in Nat /\ Free(s, k) \in Nat /\ Free(s, k) <= slaves[s][k]
  <2>1. s \in Slave /\ slaves[s][k] \in Nat
    BY DEF ClusterTypes, Agents, Resources
  <2>2. HeldOn(s, k) \in Nat
    BY <1>2, <2>1
  <2> QED BY <2>1, <2>2 DEF Free, Saturate
<1>4. ASSUME NEW r \in Role
      PROVE  /\ [s \in Slave |-> held[r][s][Unreserved]] \in [Slave -> Nat]
             /\ HeldUnreserved[r] = SumFunction([s \in Slave |-> held[r][s][Unreserved]])
             /\ HeldUnreserved[r] \in Nat
  <2>1. PICK g \in [Slave -> Nat] : g = [s \in Slave |-> held[r][s][Unreserved]]
    BY <1>1 DEF Kind
  <2>2. SumFunction(g) \in Nat
    BY ResourcesAssumption, SumFunctionType
  <2>3. HeldUnreserved[r] = SumFunction(g)
    BY <2>1 DEF HeldUnreserved
  <2> QED BY <2>1, <2>2, <2>3
<1>5. HeldUnreserved \in [Role -> Nat]
  <2>1. HeldUnreserved = [r \in Role |-> HeldUnreserved[r]]
    BY DEF HeldUnreserved
  <2> QED BY <1>4, <2>1
<1> QED BY <1>2, <1>3, <1>4, <1>5

\* A role consumes a number of units.
LEMMA ConsumedType ==
  ASSUME ClusterTypes, NEW r \in Role
  PROVE  /\ SumFunctionOnSet(ReservedUnits, Subtree(r)) \in Nat
         /\ SumFunctionOnSet(HeldUnreserved, Subtree(r)) \in Nat
         /\ Consumed(r) \in Nat
<1>1. IsFiniteSet(Subtree(r)) /\ Subtree(r) \subseteq Role
  BY Lineages
<1>2. PICK g \in [Role -> Nat], h \in [Role -> Nat] : g = ReservedUnits /\ h = HeldUnreserved
  BY ReservedTypes, HeldTypes
<1>3. \A q \in Subtree(r) : g[q] \in Nat /\ h[q] \in Nat
  BY <1>1
<1>4. SumFunctionOnSet(g, Subtree(r)) \in Nat /\ SumFunctionOnSet(h, Subtree(r)) \in Nat
  BY <1>1, <1>3, SumOfNats
<1> QED BY <1>2, <1>4 DEF Consumed

-----------------------------------------------------------------------------
(* Between the runs.                                                       *)

\* The units of an agent, one of them of another kind.
LEMMA OneConverted ==
  ASSUME NEW resources \in Resources, NEW from \in Kind, NEW to \in Kind, from # to,
         resources[from] > 0
  PROVE  [resources EXCEPT ![from] = @ - 1, ![to] = @ + 1] \in Resources
BY DEF Resources

\* The invariant holds when the allocator starts.
LEMMA InitIInv == Init => IInv
<1> SUFFICES ASSUME Init PROVE IInv
  OBVIOUS
<1>1. Nothing \in Resources
  BY DEF Nothing, Resources
<1>2. DefaultQuota \in Quota
  BY DEF DefaultQuota, Quota, NoLimit
<1>3. ClusterTypes
  BY <1>1, <1>2 DEF Init, ClusterTypes
<1>4. RunTypes
  BY DEF Init, RunTypes
<1>5. \A r \in Role : Own[r] = NewRole
  <2> SUFFICES ASSUME NEW r \in Role PROVE Own[r] = NewRole
    OBVIOUS
  <2>1. Agents = {}
    BY DEF Init, Agents
  <2>2. PICK g \in [{} -> Nat] : g = [s \in Agents |-> slaves[s][r]]
    BY <2>1
  <2>3. SumFunction(g) = 0
    BY FS_EmptySet, SumFunctionOfZeros
  <2>4. ReservedUnits[r] = 0
    BY <2>2, <2>3 DEF ReservedUnits
  <2> QED BY <2>4 DEF Own, NewRole, Init
<1>6. SumFunction(ReservedUnits) = 0
  <2>1. PICK g \in [Role -> Nat] : g = ReservedUnits
    BY <1>3, ReservedTypes
  <2>2. \A r \in Role : g[r] = 0
    BY <1>5, <2>1 DEF Own, NewRole
  <2> QED BY <2>1, <2>2, TreeAssumption, SumFunctionOfZeros
<1>7. TreeInv
  <2>1. InTree(Own) = {Root}
    BY <1>5 DEF InTree, Used
  <2>2. ReservationOf(Own) = ReservedUnits
    BY DEF ReservationOf, Own, ReservedUnits
  <2>3. Entry(Own, Root) = NewRole
    BY <1>6, <2>2 DEF Entry, NewRole
  <2> QED BY <2>1, <2>3 DEF TreeInv, ExactTree, TreeOn, Init, EmptyTree
<1>8. QuotaInv /\ HolderInv
  BY DEF Init, QuotaInv, HolderInv
<1> QED BY <1>3, <1>4, <1>7, <1>8 DEF IInv

\* Between runs the run has nothing.
LEMMA IdleRun ==
  ASSUME IInv, Idle
  PROVE  RunTypes'
BY DEF IInv, RunTypes, Idle, run

\* An agent that comes keeps the invariant.
LEMMA AddSlaveKeeps ==
  ASSUME IInv, NEW s \in Slave, NEW total \in Totals(s), AddSlave(s, total)
  PROVE  IInv'
<1>1. total \in Resources
  BY ResourcesAssumption DEF Totals, Resources
<1>2. ClusterTypes'
  BY <1>1 DEF IInv, ClusterTypes, AddSlave, Agents
<1>3. RunTypes'
  BY IdleRun DEF AddSlave
<1>4. TreeInv'
  BY <1>1, <1>2, AddedAgentTree DEF IInv, AddSlave
<1>5. QuotaInv' /\ HolderInv'
  BY DEF IInv, QuotaInv, HolderInv, AddSlave
<1> QED BY <1>2, <1>3, <1>4, <1>5 DEF IInv

\* So does one that goes, with what is allocated on it still in the sorters.
LEMMA RemoveSlaveKeeps ==
  ASSUME IInv, NEW s \in Slave, RemoveSlave(s)
  PROVE  IInv'
<1>1. ClusterTypes'
  BY DEF IInv, ClusterTypes, RemoveSlave, Agents
<1>2. RunTypes'
  BY IdleRun DEF RemoveSlave
<1>3. TreeInv'
  BY <1>1, RemovedAgentTree DEF IInv, RemoveSlave
<1>4. QuotaInv' /\ HolderInv'
  BY DEF IInv, QuotaInv, HolderInv, RemoveSlave
<1> QED BY <1>1, <1>2, <1>3, <1>4 DEF IInv

\* So does one that grows or shrinks, also below what is allocated on it.
LEMMA UpdateSlaveKeeps ==
  ASSUME IInv, NEW s \in Slave, NEW total \in Totals(s), UpdateSlave(s, total)
  PROVE  IInv'
<1>1. total \in Resources /\ s \in Agents
  BY ResourcesAssumption DEF Totals, Resources, UpdateSlave
<1>2. ClusterTypes'
  BY <1>1 DEF IInv, ClusterTypes, UpdateSlave, UpdateTotal, Agents
<1>3. RunTypes'
  BY IdleRun DEF UpdateSlave
<1>4. TreeInv'
  BY <1>1, <1>2, UpdatedAgentTree DEF IInv, UpdateSlave
<1>5. QuotaInv' /\ HolderInv'
  BY DEF IInv, QuotaInv, HolderInv, UpdateSlave
<1> QED BY <1>2, <1>3, <1>4, <1>5 DEF IInv

\* So do operations on what is not allocated.
LEMMA UpdateAvailableKeeps ==
  ASSUME IInv, NEW r \in Role, NEW s \in Slave, NEW from \in Kind, NEW to \in Kind,
         UpdateAvailable(r, s, from, to)
  PROVE  IInv'
<1> DEFINE total == [slaves[s] EXCEPT ![from] = @ - 1, ![to] = @ + 1]
<1>1. s \in Agents /\ slaves[s] \in Resources /\ from # to
  BY ResourcesAssumption DEF IInv, ClusterTypes, UpdateAvailable, Agents
<1>2. slaves[s][from] > 0
  BY <1>1, HeldTypes DEF IInv, UpdateAvailable
<1>3. total \in Resources
  BY <1>1, <1>2, OneConverted
<1>4. UpdateTotal(s, total) /\ UNCHANGED <<held, quota, subscribed>>
  BY DEF UpdateAvailable
<1> HIDE DEF total
<1>5. ClusterTypes'
  BY <1>1, <1>3, <1>4 DEF IInv, ClusterTypes, UpdateTotal, Agents
<1>6. RunTypes'
  BY IdleRun DEF UpdateAvailable
<1>7. TreeInv'
  BY <1>1, <1>3, <1>4, <1>5, UpdatedAgentTree DEF IInv
<1>8. QuotaInv' /\ HolderInv'
  BY <1>4 DEF IInv, QuotaInv, HolderInv
<1> QED BY <1>5, <1>6, <1>7, <1>8 DEF IInv

\* So do operations on allocated resources.
LEMMA UpdateAllocationKeeps ==
  ASSUME IInv, NEW r \in Role, NEW s \in Slave, NEW from \in Kind, NEW to \in Kind,
         UpdateAllocation(r, s, from, to)
  PROVE  IInv'
<1> DEFINE total == [slaves[s] EXCEPT ![from] = @ - 1, ![to] = @ + 1]
           rest == [held[r][s] EXCEPT ![from] = @ - 1, ![to] = @ + 1]
<1>1. s \in Agents /\ slaves[s] \in Resources /\ held[r][s] \in Resources /\ from # to
  BY ResourcesAssumption DEF IInv, ClusterTypes, UpdateAllocation, Agents
<1>2. slaves[s][from] > 0 /\ held[r][s][from] > 0
  BY DEF UpdateAllocation
<1>3. total \in Resources /\ rest \in Resources
  BY <1>1, <1>2, OneConverted
<1>4. /\ UpdateTotal(s, total) /\ UNCHANGED <<quota, subscribed>>
      /\ held' = [held EXCEPT ![r][s] = rest]
  BY DEF UpdateAllocation
<1>5. held[r][s] # Nothing
  BY <1>2 DEF Nothing
<1> HIDE DEF total, rest
<1>6. ClusterTypes'
  <2>1. held' \in [Role -> [Slave -> Resources]]
    BY <1>3, <1>4 DEF IInv, ClusterTypes
  <2> QED BY <1>1, <1>3, <1>4, <2>1 DEF IInv, ClusterTypes, UpdateTotal, Agents
<1>7. RunTypes'
  BY IdleRun DEF UpdateAllocation
<1>8. TreeInv'
  BY <1>1, <1>3, <1>4, <1>6, UpdatedAgentTree DEF IInv
<1>9. HolderInv'
  <2>1. subscribed[r] # {}
    BY <1>5 DEF IInv, HolderInv
  <2>2. \A q \in Role \ {r} : held'[q] = held[q]
    BY <1>4 DEF IInv, ClusterTypes
  <2> QED BY <1>4, <2>1, <2>2 DEF IInv, HolderInv
<1>10. QuotaInv'
  BY <1>4 DEF IInv, QuotaInv
<1> QED BY <1>6, <1>7, <1>8, <1>9, <1>10 DEF IInv

\* So does an allocation that comes back, also from an agent that is gone.
LEMMA RecoverResourcesKeeps ==
  ASSUME IInv, NEW r \in Role, NEW s \in Slave, NEW k \in Kind, RecoverResources(r, s, k)
  PROVE  IInv'
<1> DEFINE rest == [held[r][s] EXCEPT ![k] = @ - 1]
<1>1. held[r][s] \in Resources /\ held[r][s][k] > 0
  BY DEF IInv, ClusterTypes, RecoverResources
<1>2. rest \in Resources /\ held[r][s] # Nothing
  BY <1>1 DEF Resources, Nothing
<1>3. /\ held' = [held EXCEPT ![r][s] = rest]
      /\ UNCHANGED <<slaves, roleTree, quota, subscribed>>
  BY DEF RecoverResources
<1> HIDE DEF rest
<1>4. ClusterTypes'
  <2>1. held' \in [Role -> [Slave -> Resources]]
    BY <1>2, <1>3 DEF IInv, ClusterTypes
  <2> QED BY <1>3, <2>1 DEF IInv, ClusterTypes
<1>5. RunTypes'
  BY IdleRun DEF RecoverResources
<1>6. TreeInv'
  BY <1>3 DEF IInv, TreeInv, Own, ReservedUnits, Agents
<1>7. HolderInv'
  <2>1. subscribed[r] # {}
    BY <1>2 DEF IInv, HolderInv
  <2>2. \A q \in Role \ {r} : held'[q] = held[q]
    BY <1>3 DEF IInv, ClusterTypes
  <2> QED BY <1>3, <2>1, <2>2 DEF IInv, HolderInv
<1>8. QuotaInv'
  BY <1>3 DEF IInv, QuotaInv
<1> QED BY <1>4, <1>5, <1>6, <1>7, <1>8 DEF IInv

\* So does a change of quota, which may create or prune the role.
LEMMA UpdateQuotaKeeps ==
  ASSUME IInv, NEW r \in Role, NEW q \in Quotas, UpdateQuota(r, q)
  PROVE  IInv'
<1>1. /\ quota' = [quota EXCEPT ![r] = q]
      /\ roleTree' = SetQuota(roleTree, r, q)
      /\ UNCHANGED <<slaves, held, subscribed>> /\ r \in TopLevel /\ q \in Quota
  BY QuotasAssumption DEF UpdateQuota
<1>2. ClusterTypes'
  BY <1>1 DEF IInv, ClusterTypes
<1>3. RunTypes'
  BY IdleRun DEF UpdateQuota
<1>4. TreeInv'
  <2>1. PICK own \in Owns(SUBSET Framework), new \in Owns(SUBSET Framework) :
          own = Own /\ new = Own'
    BY <1>2, ReservedTypes, ReservedTypesNext DEF IInv
  <2>2. ReservedUnits' = ReservedUnits
    BY <1>1 DEF ReservedUnits, Agents
  <2>3. /\ \A p \in Role \ {r} : new[p] = own[p]
        /\ new[r].frameworks = own[r].frameworks /\ new[r].quota = q
        /\ new[r].reservation = own[r].reservation
    BY <1>1, <2>1, <2>2 DEF Own, IInv, ClusterTypes
  <2>4. SetQuota(ExactTree(own), r, q) = ExactTree(new)
    BY <1>1, <2>3, SetQuotaIsExact
  <2> QED BY <1>1, <2>1, <2>4 DEF IInv, TreeInv
<1>5. QuotaInv'
  BY <1>1, QuotasAssumption DEF IInv, QuotaInv, ClusterTypes, TopLevel
<1>6. HolderInv'
  BY <1>1 DEF IInv, HolderInv
<1> QED BY <1>2, <1>3, <1>4, <1>5, <1>6 DEF IInv

\* So does a framework that is tracked under a role.
LEMMA SubscribeKeeps ==
  ASSUME IInv, NEW r \in Role, NEW f \in Framework, Subscribe(f, r)
  PROVE  IInv'
<1>1. /\ subscribed' = [subscribed EXCEPT ![r] = @ \cup {f}]
      /\ roleTree' = TrackFramework(roleTree, f, r)
      /\ UNCHANGED <<slaves, held, quota>>
  BY DEF Subscribe
<1>2. ClusterTypes'
  BY <1>1 DEF IInv, ClusterTypes
<1>3. RunTypes'
  BY IdleRun DEF Subscribe
<1>4. TreeInv'
  <2>1. PICK own \in Owns(SUBSET Framework), new \in Owns(SUBSET Framework) :
          own = Own /\ new = Own'
    BY <1>2, ReservedTypes, ReservedTypesNext DEF IInv
  <2>2. ReservedUnits' = ReservedUnits
    BY <1>1 DEF ReservedUnits, Agents
  <2>3. /\ \A p \in Role \ {r} : new[p] = own[p]
        /\ new[r].frameworks = own[r].frameworks \cup {f} /\ new[r].quota = own[r].quota
        /\ new[r].reservation = own[r].reservation
    BY <1>1, <2>1, <2>2 DEF Own, IInv, ClusterTypes
  <2>4. TrackFramework(ExactTree(own), f, r) = ExactTree(new)
    BY <2>3, TrackFrameworkIsExact
  <2> QED BY <1>1, <2>1, <2>4 DEF IInv, TreeInv
<1>5. QuotaInv'
  BY <1>1 DEF IInv, QuotaInv
<1>6. HolderInv'
  BY <1>1 DEF IInv, HolderInv, ClusterTypes
<1> QED BY <1>2, <1>3, <1>4, <1>5, <1>6 DEF IInv

\* So does one that is untracked, as long as it holds nothing in the role.
LEMMA UnsubscribeKeeps ==
  ASSUME IInv, NEW r \in Role, NEW f \in Framework, Unsubscribe(f, r)
  PROVE  IInv'
<1>1. /\ subscribed' = [subscribed EXCEPT ![r] = @ \ {f}]
      /\ roleTree' = UntrackFramework(roleTree, f, r) /\ f \in subscribed[r]
      /\ UNCHANGED <<slaves, held, quota>> /\ \A s \in Slave : held[r][s] = Nothing
  BY DEF Unsubscribe
<1>2. ClusterTypes'
  BY <1>1 DEF IInv, ClusterTypes
<1>3. RunTypes'
  BY IdleRun DEF Unsubscribe
<1>4. TreeInv'
  <2>1. PICK own \in Owns(SUBSET Framework), new \in Owns(SUBSET Framework) :
          own = Own /\ new = Own'
    BY <1>2, ReservedTypes, ReservedTypesNext DEF IInv
  <2>2. ReservedUnits' = ReservedUnits
    BY <1>1 DEF ReservedUnits, Agents
  <2>3. /\ \A p \in Role \ {r} : new[p] = own[p]
        /\ new[r].frameworks = own[r].frameworks \ {f} /\ new[r].quota = own[r].quota
        /\ new[r].reservation = own[r].reservation /\ f \in own[r].frameworks
    BY <1>1, <2>1, <2>2 DEF Own, IInv, ClusterTypes
  <2>4. UntrackFramework(ExactTree(own), f, r) = ExactTree(new)
    BY <2>3, UntrackFrameworkIsExact
  <2> QED BY <1>1, <2>1, <2>4 DEF IInv, TreeInv
<1>5. QuotaInv'
  BY <1>1 DEF IInv, QuotaInv
<1>6. HolderInv'
  BY <1>1 DEF IInv, HolderInv, ClusterTypes
<1> QED BY <1>2, <1>3, <1>4, <1>5, <1>6 DEF IInv
-----------------------------------------------------------------------------
(* What a run works out when it begins.                                    *)

\* Kinds of resources are the roles, reserved to which they are, and unreserved.
LEMMA KindsAreFinite == IsFiniteSet(Kind) /\ Unreserved \notin Role
  BY ResourcesAssumption, TreeAssumption, FS_AddElement DEF Kind

\* The agents have unreserved units and the ones reserved.
LEMMA TotalSplits ==
  ASSUME ClusterTypes
  PROVE  /\ [s \in Agents |-> slaves[s][Unreserved]] \in [Agents -> Nat]
         /\ TotalUnits = SumFunction(ReservedUnits)
                           + SumFunction([s \in Agents |-> slaves[s][Unreserved]])
<1> DEFINE of(k) == SumFunction([s \in Agents |-> slaves[s][k]])
           h == [k \in Kind |-> of(k)]
<1>1. IsFiniteSet(Agents) /\ IsFiniteSet(Kind) /\ Unreserved \notin Role
  BY ReservedTypes, KindsAreFinite
<1>2. \A s \in Agents : slaves[s] \in [Kind -> Nat]
  BY DEF ClusterTypes, Agents, Resources
<1>3. ASSUME NEW k \in Kind
      PROVE  [s \in Agents |-> slaves[s][k]] \in [Agents -> Nat] /\ of(k) \in Nat
  <2>1. PICK g \in [Agents -> Nat] : g = [s \in Agents |-> slaves[s][k]]
    BY <1>2
  <2>2. SumFunction(g) \in Nat
    BY <1>1, SumFunctionType
  <2> QED BY <2>1, <2>2
<1>4. TotalUnits = SumFunction(h)
  <2>1. PICK u \in [Kind -> [Agents -> Nat]] : u = [k \in Kind |-> [s \in Agents |-> slaves[s][k]]]
    BY <1>3
  <2>2. \A k \in Kind : u[k] = [s \in Agents |-> slaves[s][k]]
    BY <2>1
  <2>3. PICK rows \in [Agents -> Nat] : rows = [s \in Agents |-> Units(slaves[s])]
    <3>1. \A s \in Agents : Units(slaves[s]) \in Nat
      BY <1>1, <1>2, SumFunctionType DEF Units
    <3> QED BY <3>1
  <2>4. PICK columns \in [Kind -> Nat] : columns = h
    BY <1>3
  <2>5. \A k \in Kind : columns[k] = SumFunction(u[k])
    BY <2>2, <2>4
  <2>6. \A k \in Kind : u[k] \in [Agents -> Nat] /\ \A s \in Agents : u[k][s] = slaves[s][k]
    BY <2>2
  <2>7. \A s \in Agents : rows[s] = SumFunction(slaves[s])
    BY <2>3 DEF Units
  <2>8. Transposed(slaves, u, Agents, Kind)
    BY <1>2, <2>6 DEF Transposed
  <2>9. RowSums(rows, slaves, Agents) /\ RowSums(columns, u, Kind)
    BY <2>5, <2>7 DEF RowSums
  <2>10. SumFunction(rows) = SumFunction(columns)
    BY <1>1, <2>8, <2>9, SumsSwap
  <2> QED BY <2>3, <2>4, <2>10 DEF TotalUnits
<1>5. PICK g \in [Role -> Nat] : g = ReservedUnits
  BY ReservedTypes
<1>6. \A r \in Role : g[r] = of(r)
  BY <1>5 DEF ReservedUnits
<1> HIDE DEF of
<1>7. h \in [Role \cup {Unreserved} -> Nat] /\ (\A r \in Role : h[r] = g[r])
      /\ h[Unreserved] = of(Unreserved)
  BY <1>3, <1>6 DEF Kind
<1> HIDE DEF h
<1>8. SumFunction(h) = SumFunction(g) + h[Unreserved]
  BY <1>1, <1>7, TreeAssumption, SumFunctionGains
<1>9. TotalUnits = SumFunction(ReservedUnits) + of(Unreserved)
  BY <1>4, <1>5, <1>7, <1>8
<1>10. [s \in Agents |-> slaves[s][Unreserved]] \in [Agents -> Nat]
  BY <1>3 DEF Kind
<1> QED BY <1>9, <1>10 DEF of

\* What is free is not less than what the agents have beyond what is held, wherever.
LEMMA FreeCovers ==
  ASSUME ClusterTypes
  PROVE  /\ FreeUnits \in Nat /\ HeldUnits(Unreserved) \in Nat
         /\ SumFunction([s \in Agents |-> slaves[s][Unreserved]]) \in Nat
         /\ SumFunction([s \in Agents |-> slaves[s][Unreserved]])
              <= FreeUnits + HeldUnits(Unreserved)
<1>1. IsFiniteSet(Agents) /\ IsFiniteSet(Slave) /\ Agents \subseteq Slave
  BY ReservedTypes, ResourcesAssumption
<1>2. Unreserved \in Kind
  BY DEF Kind
<1>3. \A s \in Agents : /\ slaves[s][Unreserved] \in Nat /\ Free(s, Unreserved) \in Nat
                        /\ slaves[s][Unreserved] <= Free(s, Unreserved) + HeldOn(s, Unreserved)
  <2> SUFFICES ASSUME NEW s \in Agents
               PROVE  /\ slaves[s][Unreserved] \in Nat /\ Free(s, Unreserved) \in Nat
                      /\ slaves[s][Unreserved] <= Free(s, Unreserved) + HeldOn(s, Unreserved)
    OBVIOUS
  <2>1. slaves[s][Unreserved] \in Nat /\ HeldOn(s, Unreserved) \in Nat
    BY <1>1, <1>2, HeldTypes
  <2> QED BY <2>1 DEF Free, Saturate
<1>4. \A s \in Slave : HeldOn(s, Unreserved) \in Nat
  BY <1>2, HeldTypes
<1>5. PICK total \in [Agents -> Nat] : total = [s \in Agents |-> slaves[s][Unreserved]]
  BY <1>3
<1>6. PICK free \in [Agents -> Nat] : free = [s \in Agents |-> Free(s, Unreserved)]
  BY <1>3
<1>7. PICK all \in [Slave -> Nat] : all = [s \in Slave |-> HeldOn(s, Unreserved)]
  BY <1>4
<1>8. PICK here \in [Agents -> Nat] : here = [s \in Agents |-> all[s]]
  BY <1>1
<1>9. PICK both \in [Agents -> Nat] : both = [s \in Agents |-> free[s] + here[s]]
  <2>1. \A s \in Agents : free[s] + here[s] \in Nat
    OBVIOUS
  <2> QED BY <2>1
<1>10. SumFunction(both) = SumFunction(free) + SumFunction(here)
  BY <1>1, <1>9, SumFunctionAdds
<1>11. SumFunction(total) <= SumFunction(both)
  <2>1. \A s \in Agents : total[s] <= both[s]
    BY <1>1, <1>3, <1>5, <1>6, <1>7, <1>8, <1>9
  <2> QED BY <1>1, <2>1, SumFunctionAtMost
<1>12. SumFunction(here) <= SumFunction(all)
  <2>1. \A s \in Agents : here[s] \in Int /\ all[s] = here[s]
    BY <1>1, <1>8
  <2>2. SumFunctionOnSet(all, Agents) = SumFunctionOnSet(here, Agents)
    BY <1>1, <2>1, SumsEqual
  <2>3. SumFunctionOnSet(all, Slave)
          = SumFunctionOnSet(all, Agents) + SumFunctionOnSet(all, Slave \ Agents)
    BY <1>1, SumSplits
  <2>4. PICK rest : rest = Slave \ Agents
    OBVIOUS
  <2>5. SumFunctionOnSet(all, rest) \in Nat
    <3>1. IsFiniteSet(rest) /\ \A s \in rest : all[s] \in Nat
      BY <1>1, <2>4, FS_Subset
    <3> QED BY <3>1, SumOfNats
  <2>6. SumFunctionOnSet(all, Slave) = SumFunction(all) /\ SumFunctionOnSet(here, Agents) = SumFunction(here)
    BY DEF SumFunction
  <2>7. SumFunction(here) \in Nat
    BY <1>1, SumFunctionType
  <2> QED BY <2>2, <2>3, <2>4, <2>5, <2>6, <2>7
<1>13. /\ SumFunction(total) \in Nat /\ SumFunction(free) \in Nat /\ SumFunction(all) \in Nat
       /\ SumFunction(here) \in Nat
  BY <1>1, SumFunctionType
<1>14. FreeUnits = SumFunction(free) /\ HeldUnits(Unreserved) = SumFunction(all)
  BY <1>6, <1>7 DEF FreeUnits, HeldUnits
<1> QED BY <1>5, <1>10, <1>11, <1>12, <1>13, <1>14

\* What is held of reservations is a number of units.
LEMMA HeldReservedType ==
  ASSUME ClusterTypes
  PROVE  HeldReserved \in Nat
<1>1. ASSUME NEW r \in Role PROVE HeldUnits(r) \in Nat
  <2>1. \A s \in Slave : HeldOn(s, r) \in Nat
    BY HeldTypes DEF Kind
  <2>2. PICK g \in [Slave -> Nat] : g = [s \in Slave |-> HeldOn(s, r)]
    BY <2>1
  <2>3. SumFunction(g) \in Nat
    BY ResourcesAssumption, SumFunctionType
  <2> QED BY <2>2, <2>3 DEF HeldUnits
<1>2. PICK g \in [Role -> Nat] : g = [r \in Role |-> HeldUnits(r)]
  BY <1>1
<1>3. SumFunction(g) \in Nat
  BY TreeAssumption, SumFunctionType
<1> QED BY <1>2, <1>3 DEF HeldReserved

\* The headroom worked out when a run begins is there.
LEMMA HeadroomBegins ==
  ASSUME ClusterTypes, TreeInv
  PROVE  AvailableHeadroom \in Nat /\ AvailableHeadroom <= FreeUnits
<1>1. PICK g \in [Role -> Nat] : g = ReservedUnits
  BY ReservedTypes
<1>2. SumFunction(ReservedUnits) \in Nat
  BY <1>1, TreeAssumption, SumFunctionType
<1>3. AllReserved = SumFunction(ReservedUnits)
  BY TreeTypes DEF AllReserved
<1> DEFINE unreserved == SumFunction([s \in Agents |-> slaves[s][Unreserved]])
<1>4. TotalUnits = AllReserved + unreserved
  BY <1>3, TotalSplits
<1>5. /\ FreeUnits \in Nat /\ HeldUnits(Unreserved) \in Nat /\ unreserved \in Nat
      /\ unreserved <= FreeUnits + HeldUnits(Unreserved)
  BY FreeCovers
<1>6. HeldReserved \in Nat
  BY HeldReservedType
<1> HIDE DEF unreserved
<1> QED BY <1>2, <1>3, <1>4, <1>5, <1>6 DEF AvailableHeadroom, Saturate

\* What a run works out as consumed, for a role with a quota, is what it consumes.
LEMMA ConsumedBegins ==
  ASSUME ClusterTypes, TreeInv, HolderInv, NEW r \in Role, quota[r] # DefaultQuota
  PROVE  ConsumedQuota(r) = Consumed(r)
<1> DEFINE A == {q \in Subtree(r) \cap DOMAIN roleTree : roleTree[q].frameworks # {}}
<1>1. IsFiniteSet(Subtree(r)) /\ Subtree(r) \subseteq Role /\ A \subseteq Subtree(r)
  BY Lineages
<1>2. PICK h \in [Role -> Nat] : h = HeldUnreserved
  BY HeldTypes
<1>3. ASSUME NEW q \in Subtree(r) \ A
      PROVE  h[q] = 0
  <2>1. q \in Role /\ subscribed[q] = {}
    BY <1>1, <1>3, TreeTypes
  <2>2. PICK g \in [Slave -> Nat] : /\ g = [s \in Slave |-> held[q][s][Unreserved]]
                                    /\ HeldUnreserved[q] = SumFunction(g)
    BY <2>1, HeldTypes
  <2>3. \A s \in Slave : g[s] = 0
    BY <2>1, <2>2 DEF HolderInv, Nothing, Kind
  <2> QED BY <1>2, <2>2, <2>3, ResourcesAssumption, SumFunctionOfZeros
<1>4. roleTree[r].reservation = SumFunctionOnSet(ReservedUnits, Subtree(r))
  BY TreeTypes
<1> HIDE DEF A
<1>5. SumFunctionOnSet(h, Subtree(r)) = SumFunctionOnSet(h, A)
  <2>1. PICK rest : rest = Subtree(r) \ A
    OBVIOUS
  <2>2. IsFiniteSet(rest) /\ \A q \in rest : h[q] = 0
    BY <1>1, <1>3, <2>1, FS_Subset
  <2>3. SumFunctionOnSet(h, rest) = 0
    BY <2>2, SumOfZeros
  <2>4. SumFunctionOnSet(h, Subtree(r)) = SumFunctionOnSet(h, A) + SumFunctionOnSet(h, rest)
    BY <1>1, <2>1, SumSplits
  <2>5. SumFunctionOnSet(h, A) \in Nat
    BY <1>1, SumOfNats, FS_Subset
  <2> QED BY <2>3, <2>4, <2>5
<1> QED BY <1>2, <1>4, <1>5 DEF ConsumedQuota, Consumed, A
-----------------------------------------------------------------------------
(* What an allocation of a run changes.                                    *)

\* Role r holds n more unreserved units of s, and nobody more of anything else that is
\* unreserved.
LEMMA HoldChanges ==
  ASSUME ClusterTypes, NEW r \in Role, NEW s \in Agents, NEW n \in Nat, NEW kinds,
         Hold(r, s, n, kinds)
  PROVE  /\ held' \in [Role -> [Slave -> Resources]]
         /\ held'[r][s][Unreserved] = held[r][s][Unreserved] + n
         /\ \A q \in Role \ {r} : held'[q] = held[q]
         /\ \A t \in Slave \ {s} : held'[r][t] = held[r][t]
<1> DEFINE more == [k \in Kind |-> held[r][s][k] + (IF k = Unreserved THEN n
                                   ELSE IF k \in kinds THEN Free(s, k) ELSE 0)]
<1>1. s \in Slave /\ Unreserved \in Kind /\ held \in [Role -> [Slave -> Resources]]
  BY DEF ClusterTypes, Agents, Kind
<1>2. more \in Resources
  <2>1. \A k \in Kind : held[r][s][k] \in Nat /\ Free(s, k) \in Nat
    BY <1>1, HeldTypes DEF Resources
  <2> QED BY <2>1 DEF Resources
<1>3. held' = [held EXCEPT ![r][s] = more]
  BY DEF Hold
<1>4. more[Unreserved] = held[r][s][Unreserved] + n
  BY <1>1
<1> HIDE DEF more
<1> QED BY <1>1, <1>2, <1>3, <1>4

\* What role r holds unreserved grows by n.
LEMMA HoldTakes ==
  ASSUME ClusterTypes, NEW r \in Role, NEW s \in Agents, NEW n \in Nat, NEW kinds,
         Hold(r, s, n, kinds)
  PROVE  /\ HeldUnreserved \in [Role -> Nat] /\ HeldUnreserved' \in [Role -> Nat]
         /\ HeldUnreserved'[r] = HeldUnreserved[r] + n
         /\ \A q \in Role \ {r} : HeldUnreserved'[q] = HeldUnreserved[q]
<1>1. /\ held \in [Role -> [Slave -> Resources]] /\ held' \in [Role -> [Slave -> Resources]]
      /\ held'[r][s][Unreserved] = held[r][s][Unreserved] + n
      /\ \A q \in Role \ {r} : held'[q] = held[q]
      /\ \A t \in Slave \ {s} : held'[r][t] = held[r][t]
  BY HoldChanges DEF ClusterTypes
<1>2. s \in Slave /\ Unreserved \in Kind
  BY DEF ClusterTypes, Agents, Kind
<1>3. HeldUnreserved \in [Role -> Nat]
  BY HeldTypes
<1>4. \A q \in Role : HeldUnreserved'[q] = SumFunction([t \in Slave |-> held'[q][t][Unreserved]])
  BY DEF HeldUnreserved
<1>5. \A q \in Role : HeldUnreserved[q] = SumFunction([t \in Slave |-> held[q][t][Unreserved]])
  BY DEF HeldUnreserved
<1>6. ASSUME NEW q \in Role \ {r} PROVE HeldUnreserved'[q] = HeldUnreserved[q]
  BY <1>1, <1>4, <1>5
<1>7. HeldUnreserved'[r] = HeldUnreserved[r] + n
  <2>1. \A t \in Slave : held[r][t][Unreserved] \in Nat /\ held'[r][t][Unreserved] \in Nat
    BY <1>1, <1>2 DEF Resources
  <2>2. PICK g \in [Slave -> Nat] : g = [t \in Slave |-> held[r][t][Unreserved]]
    BY <2>1
  <2>3. PICK h \in [Slave -> Nat] : h = [t \in Slave |-> held'[r][t][Unreserved]]
    BY <2>1
  <2>4. h[s] = g[s] + n /\ \A t \in Slave \ {s} : h[t] = g[t]
    BY <1>1, <1>2, <2>2, <2>3
  <2>5. SumFunction(h) = SumFunction(g) - g[s] + h[s]
    BY <1>2, <2>4, ResourcesAssumption, SumFunctionChangesAt
  <2>6. SumFunction(g) \in Nat
    BY ResourcesAssumption, SumFunctionType
  <2>7. HeldUnreserved[r] = SumFunction(g) /\ HeldUnreserved'[r] = SumFunction(h)
    BY <1>4, <1>5, <2>2, <2>3
  <2>8. g[s] \in Nat
    BY <1>2
  <2> QED BY <2>4, <2>5, <2>6, <2>7, <2>8
<1>8. HeldUnreserved' \in [Role -> Nat]
  <2>1. \A q \in Role : HeldUnreserved'[q] \in Nat
    BY <1>3, <1>6, <1>7
  <2>2. HeldUnreserved' = [q \in Role |-> HeldUnreserved'[q]]
    BY DEF HeldUnreserved
  <2> QED BY <2>1, <2>2
<1> QED BY <1>3, <1>6, <1>7, <1>8

\* The roles that r counts for consume n units more.
LEMMA HoldConsumes ==
  ASSUME ClusterTypes, NEW r \in Role, NEW s \in Agents, NEW n \in Nat, NEW kinds,
         Hold(r, s, n, kinds), slaves' = slaves
  PROVE  \A q \in Role : /\ Consumed(q) \in Nat /\ Consumed(q)' \in Nat
                         /\ q \in Lineage(r) => Consumed(q)' = Consumed(q) + n
                         /\ q \notin Lineage(r) => Consumed(q)' = Consumed(q)
<1> SUFFICES ASSUME NEW q \in Role
             PROVE  /\ Consumed(q) \in Nat /\ Consumed(q)' \in Nat
                    /\ q \in Lineage(r) => Consumed(q)' = Consumed(q) + n
                    /\ q \notin Lineage(r) => Consumed(q)' = Consumed(q)
  OBVIOUS
<1>1. PICK g \in [Role -> Nat], h \in [Role -> Nat] : g = HeldUnreserved /\ h = HeldUnreserved'
  BY HoldTakes
<1>2. h[r] = g[r] + n /\ \A p \in Role \ {r} : h[p] = g[p]
  BY <1>1, HoldTakes
<1>3. ReservedUnits' = ReservedUnits
  BY DEF ReservedUnits, Agents
<1>4. IsFiniteSet(Subtree(q)) /\ Subtree(q) \subseteq Role
  BY Lineages
<1>5. /\ SumFunctionOnSet(ReservedUnits, Subtree(q)) \in Nat
      /\ SumFunctionOnSet(g, Subtree(q)) \in Nat
      /\ Consumed(q) \in Nat
  BY <1>1, ConsumedType
<1>6. /\ Consumed(q) = SumFunctionOnSet(ReservedUnits, Subtree(q)) + SumFunctionOnSet(g, Subtree(q))
      /\ Consumed(q)' = SumFunctionOnSet(ReservedUnits, Subtree(q)) + SumFunctionOnSet(h, Subtree(q))
  BY <1>1, <1>3 DEF Consumed
<1>7. \A p \in Subtree(q) : g[p] \in Int /\ h[p] \in Int
  BY <1>4
<1>8. CASE r \in Subtree(q)
  <2>1. \A p \in Subtree(q) \ {r} : h[p] = g[p]
    BY <1>2, <1>4
  <2>2. SumFunctionOnSet(h, Subtree(q)) = SumFunctionOnSet(g, Subtree(q)) - g[r] + h[r]
    BY <1>4, <1>7, <1>8, <2>1, SumChangesAt
  <2>3. q \in Lineage(r)
    BY <1>8 DEF Subtree
  <2> QED BY <1>2, <1>5, <1>6, <2>2, <2>3
<1>9. CASE r \notin Subtree(q)
  <2>1. \A p \in Subtree(q) : h[p] = g[p]
    BY <1>2, <1>4, <1>9
  <2>2. SumFunctionOnSet(h, Subtree(q)) = SumFunctionOnSet(g, Subtree(q))
    BY <1>4, <1>7, <2>1, SumsEqual
  <2>3. q \notin Lineage(r)
    BY <1>9 DEF Subtree
  <2> QED BY <1>5, <1>6, <2>2, <2>3
<1> QED BY <1>8, <1>9

\* There are n units less free.
LEMMA HoldFrees ==
  ASSUME ClusterTypes, NEW r \in Role, NEW s \in Agents, NEW n \in Nat, NEW kinds,
         Hold(r, s, n, kinds), slaves' = slaves, n <= Free(s, Unreserved)
  PROVE  FreeUnits \in Nat /\ FreeUnits' = FreeUnits - n
<1>1. /\ held \in [Role -> [Slave -> Resources]] /\ held' \in [Role -> [Slave -> Resources]]
      /\ held'[r][s][Unreserved] = held[r][s][Unreserved] + n
      /\ \A q \in Role \ {r} : held'[q] = held[q]
      /\ \A t \in Slave \ {s} : held'[r][t] = held[r][t]
  BY HoldChanges DEF ClusterTypes
<1>2. /\ s \in Slave /\ Unreserved \in Kind /\ Agents \subseteq Slave /\ Agents' = Agents
      /\ IsFiniteSet(Agents)
  BY ReservedTypes DEF ClusterTypes, Agents, Kind
<1>3. ASSUME NEW t \in Slave
      PROVE  /\ t = s => HeldOn(t, Unreserved)' = HeldOn(t, Unreserved) + n
             /\ t # s => HeldOn(t, Unreserved)' = HeldOn(t, Unreserved)
  <2>1. \A q \in Role : held[q][t][Unreserved] \in Nat /\ held'[q][t][Unreserved] \in Nat
    BY <1>1, <1>2 DEF Resources
  <2>2. PICK g \in [Role -> Nat] : g = [q \in Role |-> held[q][t][Unreserved]]
    BY <2>1
  <2>3. PICK h \in [Role -> Nat] : h = [q \in Role |-> held'[q][t][Unreserved]]
    BY <2>1
  <2>4. \A q \in Role \ {r} : h[q] = g[q]
    BY <1>1, <2>2, <2>3
  <2>5. SumFunction(h) = SumFunction(g) - g[r] + h[r] /\ SumFunction(g) \in Nat
    BY <2>4, TreeAssumption, SumFunctionChangesAt, SumFunctionType
  <2>6. /\ t = s => h[r] = g[r] + n
        /\ t # s => h[r] = g[r]
    BY <1>1, <2>2, <2>3
  <2>7. HeldOn(t, Unreserved) = SumFunction(g) /\ HeldOn(t, Unreserved)' = SumFunction(h)
    BY <2>2, <2>3 DEF HeldOn
  <2> QED BY <2>5, <2>6, <2>7
<1>4. \A t \in Agents : HeldOn(t, Unreserved) \in Nat /\ slaves[t][Unreserved] \in Nat
  BY <1>2, HeldTypes
<1>5. Free(s, Unreserved)' = Free(s, Unreserved) - n /\ Free(s, Unreserved)' \in Nat
  BY <1>2, <1>3, <1>4 DEF Free, Saturate
<1>6. \A t \in Agents \ {s} : Free(t, Unreserved)' = Free(t, Unreserved)
  BY <1>2, <1>3 DEF Free
<1>7. \A t \in Agents : Free(t, Unreserved) \in Nat /\ Free(t, Unreserved)' \in Nat
  BY <1>2, <1>5, <1>6, HeldTypes
<1>8. PICK g \in [Agents -> Nat] : g = [t \in Agents |-> Free(t, Unreserved)]
  BY <1>7
<1>9. PICK h \in [Agents -> Nat] : h = [t \in Agents |-> Free(t, Unreserved)']
  BY <1>7
<1>10. h[s] = g[s] - n /\ \A t \in Agents \ {s} : h[t] = g[t]
  BY <1>5, <1>6, <1>8, <1>9
<1>11. SumFunction(h) = SumFunction(g) - g[s] + h[s] /\ SumFunction(g) \in Nat
  BY <1>2, <1>10, SumFunctionChangesAt, SumFunctionType
<1>12. FreeUnits = SumFunction(g) /\ FreeUnits' = SumFunction(h)
  BY <1>2, <1>8, <1>9 DEF FreeUnits
<1> QED BY <1>10, <1>11, <1>12
-----------------------------------------------------------------------------
(* The steps of a run.                                                     *)

\* Role r is allocated n units of s, m of them for its guarantee: those within what it
\* has not consumed of it, the others within the surplus headroom.
Allocation(r, s, n, m) ==
  /\ s \in Agents /\ n \in Nat /\ m \in Nat /\ m <= n /\ n <= Free(s, Unreserved)
  /\ m > 0 => m <= quota[r].guarantee - rolesConsumedQuota[r]
  /\ n > m => requiredHeadroom = 0 \/ n - m <= availableHeadroom - requiredHeadroom
  /\ n > 0 /\ quota[r].limit # NoLimit => n <= quota[r].limit - rolesConsumedQuota[r]
  /\ subscribed[r] # {}
  /\ \E kinds \in SUBSET Kind : Hold(r, s, n, kinds)
  /\ requiredHeadroom' = Saturate(requiredHeadroom - m)
  /\ availableHeadroom' = Saturate(availableHeadroom - n)
  /\ UNCHANGED <<slaves, roleTree, quota, subscribed>>

\* What limit and headroom leave of n units.
LEMMA Chopped ==
  ASSUME IInv, NEW r \in Role, NEW n \in Nat, NEW g \in Nat
  PROVE  \E a \in Nat :
           /\ a = WithinHeadroom(WithinLimit(n, r, g)) /\ a <= n
           /\ a > 0 => requiredHeadroom = 0 \/ a <= availableHeadroom - requiredHeadroom
           /\ a > 0 /\ quota[r].limit # NoLimit => a <= quota[r].limit - rolesConsumedQuota[r] - g
<1>1. QuotaOf(roleTree, r) = quota[r]
  BY TreeTypes DEF IInv
<1>2. /\ quota[r].limit = NoLimit \/ quota[r].limit \in Nat
      /\ rolesConsumedQuota[r] \in Nat /\ requiredHeadroom \in Nat /\ availableHeadroom \in Nat
  BY DEF IInv, ClusterTypes, RunTypes, Quota
<1>3. PICK l : l = WithinLimit(n, r, g)
  OBVIOUS
<1>4. /\ l \in Nat /\ l <= n
      /\ l > 0 /\ quota[r].limit # NoLimit => l <= quota[r].limit - rolesConsumedQuota[r] - g
  BY <1>1, <1>2, <1>3 DEF WithinLimit, Smaller, Saturate
<1>5. PICK a : a = WithinHeadroom(l)
  OBVIOUS
<1>6. /\ a \in Nat /\ a <= l
      /\ a > 0 => requiredHeadroom = 0 \/ a <= availableHeadroom - requiredHeadroom
  BY <1>2, <1>4, <1>5 DEF WithinHeadroom, Smaller, Saturate
<1>7. a > 0 /\ quota[r].limit # NoLimit => a <= quota[r].limit - rolesConsumedQuota[r] - g
  BY <1>2, <1>4, <1>6
<1>8. a = WithinHeadroom(WithinLimit(n, r, g)) /\ a <= n
  BY <1>3, <1>4, <1>5, <1>6
<1> QED BY <1>6, <1>7, <1>8

\* The agent and the role that have the turn are there.
LEMMA TurnIsThere ==
  ASSUME IInv, NEW s \in Slave, NEW r \in Role, NEW accepted \in BOOLEAN, Turn(s, r, accepted)
  PROVE  /\ s \in slaveIds /\ s \in Agents
         /\ accepted => subscribed[r] # {}
         /\ todo' \subseteq slaveIds \X Role
<1>1. <<s, r>> \in slaveIds \X Role /\ slaveIds \subseteq Agents
  BY DEF IInv, RunTypes, Turn, Agents
<1>2. accepted => subscribed[r] # {}
  <2>1. accepted => r \in DOMAIN roleTree /\ roleTree[r].frameworks # {}
    BY DEF Turn
  <2> QED BY <2>1, TreeTypes DEF IInv
<1> QED BY <1>1, <1>2 DEF IInv, RunTypes, Turn

\* A turn of the first stage allocates nothing, or meets part of a guarantee.
LEMMA FirstStageAllocates ==
  ASSUME IInv, NEW s \in Slave, NEW r \in Role, NEW accepted \in BOOLEAN,
         FirstStage(s, r, accepted)
  PROVE  \/ UNCHANGED <<cluster, rolesConsumedQuota, requiredHeadroom, availableHeadroom>>
         \/ /\ quota[r] # DefaultQuota
            /\ \E n, m \in Nat : Allocation(r, s, n, m) /\ rolesConsumedQuota' = ConsumedMore(r, n)
<1> DEFINE unmet      == Saturate(QuotaOf(roleTree, r).guarantee - rolesConsumedQuota[r])
           guaranteed == Smaller(Free(s, Unreserved), unmet)
           additional == WithinHeadroom(WithinLimit(Free(s, Unreserved) - guaranteed, r, guaranteed))
           increased  == guaranteed + additional
<1>1. s \in Agents /\ Turn(s, r, accepted) /\ (accepted => subscribed[r] # {})
  BY TurnIsThere DEF FirstStage
<1>2. CASE ~(guaranteed > 0 /\ accepted)
  BY <1>2 DEF FirstStage, cluster
<1>3. CASE guaranteed > 0 /\ accepted
  <2>1. /\ Hold(r, s, increased, {r})
        /\ rolesConsumedQuota' = ConsumedMore(r, increased)
        /\ requiredHeadroom' = Saturate(requiredHeadroom - guaranteed)
        /\ availableHeadroom' = Saturate(availableHeadroom - increased)
        /\ UNCHANGED <<slaves, roleTree, quota, subscribed>>
    BY <1>3 DEF FirstStage
  <2>2. Free(s, Unreserved) \in Nat
    BY <1>1, HeldTypes DEF IInv, Kind
  <2>3. QuotaOf(roleTree, r) = quota[r]
    BY TreeTypes DEF IInv
  <2>4. /\ quota[r].guarantee \in Nat /\ rolesConsumedQuota[r] \in Nat
        /\ quota[r].limit = NoLimit \/ quota[r].limit \in Nat
    BY DEF IInv, ClusterTypes, RunTypes, Quota
  <2>5. /\ guaranteed \in Nat /\ guaranteed > 0 /\ guaranteed <= Free(s, Unreserved)
        /\ guaranteed <= quota[r].guarantee - rolesConsumedQuota[r]
    BY <1>3, <2>2, <2>3, <2>4 DEF Saturate, Smaller
  <2>6. quota[r] # DefaultQuota
    BY <2>4, <2>5 DEF DefaultQuota
  <2>7. quota[r].limit # NoLimit => quota[r].guarantee <= quota[r].limit
    BY <2>6 DEF IInv, QuotaInv
  <2> HIDE DEF guaranteed
  <2>8. PICK a \in Nat :
          /\ a = additional /\ a <= Free(s, Unreserved) - guaranteed
          /\ a > 0 => requiredHeadroom = 0 \/ a <= availableHeadroom - requiredHeadroom
          /\ a > 0 /\ quota[r].limit # NoLimit
               => a <= quota[r].limit - rolesConsumedQuota[r] - guaranteed
    <3>1. Free(s, Unreserved) - guaranteed \in Nat
      BY <2>2, <2>5
    <3> QED BY <2>5, <3>1, Chopped
  <2> HIDE DEF additional
  <2>9. PICK n \in Nat, m \in Nat : m = guaranteed /\ n = increased /\ n = m + a
    BY <2>5, <2>8
  <2>10. n > 0 /\ quota[r].limit # NoLimit => n <= quota[r].limit - rolesConsumedQuota[r]
    BY <2>4, <2>5, <2>7, <2>8, <2>9
  <2>11. n > m => requiredHeadroom = 0 \/ n - m <= availableHeadroom - requiredHeadroom
    BY <2>8, <2>9
  <2>12. m <= n /\ n <= Free(s, Unreserved) /\ m <= quota[r].guarantee - rolesConsumedQuota[r]
    BY <2>2, <2>5, <2>8, <2>9
  <2>13. \E kinds \in SUBSET Kind : Hold(r, s, n, kinds)
    BY <2>1, <2>9 DEF Kind
  <2>14. Allocation(r, s, n, m)
    BY <1>1, <1>3, <2>1, <2>9, <2>10, <2>11, <2>12, <2>13 DEF Allocation
  <2> QED BY <2>1, <2>6, <2>9, <2>14
<1> QED BY <1>2, <1>3

\* A turn of the second stage allocates nothing for guarantees.
LEMMA SecondStageAllocates ==
  ASSUME IInv, NEW s \in Slave, NEW r \in Role, NEW accepted \in BOOLEAN,
         SecondStage(s, r, accepted)
  PROVE  \/ UNCHANGED <<cluster, rolesConsumedQuota, requiredHeadroom, availableHeadroom>>
         \/ \E n \in Nat :
              /\ Allocation(r, s, n, 0)
              /\ quota[r] # DefaultQuota => rolesConsumedQuota' = ConsumedMore(r, n)
              /\ quota[r] = DefaultQuota => rolesConsumedQuota' = rolesConsumedQuota
<1> DEFINE allocated == WithinHeadroom(WithinLimit(Free(s, Unreserved), r, 0))
<1>1. s \in Agents /\ Turn(s, r, accepted) /\ (accepted => subscribed[r] # {})
  BY TurnIsThere DEF SecondStage
<1>2. CASE ~accepted
  BY <1>2 DEF SecondStage, cluster
<1>3. CASE accepted
  <2>1. QuotaOf(roleTree, r) = quota[r]
    BY TreeTypes DEF IInv
  <2>2. /\ Hold(r, s, allocated, Lineage(r))
        /\ quota[r] # DefaultQuota => rolesConsumedQuota' = ConsumedMore(r, allocated)
        /\ quota[r] = DefaultQuota => rolesConsumedQuota' = rolesConsumedQuota
        /\ availableHeadroom' = Saturate(availableHeadroom - allocated)
        /\ UNCHANGED <<slaves, roleTree, quota, subscribed, requiredHeadroom>>
    BY <1>3, <2>1 DEF SecondStage
  <2>3. Free(s, Unreserved) \in Nat
    BY <1>1, HeldTypes DEF IInv, Kind
  <2>4. PICK n \in Nat :
          /\ n = allocated /\ n <= Free(s, Unreserved)
          /\ n > 0 => requiredHeadroom = 0 \/ n <= availableHeadroom - requiredHeadroom
          /\ n > 0 /\ quota[r].limit # NoLimit
               => n <= quota[r].limit - rolesConsumedQuota[r] - 0
    BY <2>3, Chopped
  <2> HIDE DEF allocated
  <2>5. /\ quota[r].limit = NoLimit \/ quota[r].limit \in Nat
        /\ rolesConsumedQuota[r] \in Nat /\ requiredHeadroom \in Nat
    BY DEF IInv, ClusterTypes, RunTypes, Quota
  <2>6. requiredHeadroom' = Saturate(requiredHeadroom - 0)
    BY <2>2, <2>5 DEF Saturate
  <2>7. /\ n > 0 /\ quota[r].limit # NoLimit => n <= quota[r].limit - rolesConsumedQuota[r]
        /\ n > 0 => requiredHeadroom = 0 \/ n - 0 <= availableHeadroom - requiredHeadroom
    BY <2>4, <2>5
  <2>8. \E kinds \in SUBSET Kind : Hold(r, s, n, kinds)
    <3>1. Lineage(r) \subseteq Kind
      BY Lineages DEF Kind
    <3> QED BY <2>2, <2>4, <3>1
  <2>9. Allocation(r, s, n, 0)
    BY <1>1, <1>3, <2>2, <2>4, <2>6, <2>7, <2>8 DEF Allocation
  <2> QED BY <2>2, <2>4, <2>9
<1> QED BY <1>2, <1>3

\* What an allocation leaves as it is or keeps within its types.
LEMMA AllocationKeeps ==
  ASSUME IInv, NEW r \in Role, NEW s \in Slave, NEW n \in Nat, NEW m \in Nat,
         Allocation(r, s, n, m)
  PROVE  /\ ClusterTypes' /\ TreeInv' /\ QuotaInv' /\ HolderInv'
         /\ requiredHeadroom' \in Nat /\ availableHeadroom' \in Nat
<1>1. /\ s \in Agents /\ subscribed[r] # {}
      /\ UNCHANGED <<slaves, roleTree, quota, subscribed>>
  BY DEF Allocation
<1>2. PICK kinds : Hold(r, s, n, kinds)
  BY DEF Allocation
<1>3. /\ held' \in [Role -> [Slave -> Resources]]
      /\ \A q \in Role \ {r} : held'[q] = held[q]
  BY <1>1, <1>2, HoldChanges DEF IInv
<1>4. ClusterTypes'
  BY <1>1, <1>3 DEF IInv, ClusterTypes
<1>5. TreeInv' /\ QuotaInv'
  BY <1>1 DEF IInv, TreeInv, Own, ReservedUnits, Agents, QuotaInv
<1>6. HolderInv'
  BY <1>1, <1>3 DEF IInv, HolderInv
<1>7. requiredHeadroom' \in Nat /\ availableHeadroom' \in Nat
  BY DEF IInv, RunTypes, Allocation, Saturate
<1> QED BY <1>4, <1>5, <1>6, <1>7

\* A top-level role counts for itself alone.
LEMMA TopLevelLineage ==
  ASSUME NEW r \in TopLevel
  PROVE  r \in Role /\ Lineage(r) = {r}
BY TreeAssumption DEF TopLevel, Lineage

\* The charged roles are charged a number.
LEMMA ChargedType ==
  ASSUME IInv, NEW r \in Role, NEW n \in Nat
  PROVE  ConsumedMore(r, n) \in [Role -> Nat]
<1>1. rolesConsumedQuota \in [Role -> Nat]
  BY DEF IInv, RunTypes
<1> QED BY <1>1 DEF ConsumedMore

\* The start of a run works out consumed quota and headroom from the sorters' sums.
LEMMA BeginRunKeeps ==
  ASSUME IInv, NEW candidates \in SUBSET Slave, BeginRun(candidates)
  PROVE  /\ IInv'
         /\ \A r \in Role : quota[r] # DefaultQuota => rolesConsumedQuota'[r] = Consumed(r)
         /\ \A r \in Role : quota[r] = DefaultQuota => rolesConsumedQuota'[r] = 0
         /\ requiredHeadroom' = Required(rolesConsumedQuota')
         /\ availableHeadroom' = AvailableHeadroom
<1>1. \A r \in Role : QuotaOf(roleTree, r) = quota[r]
  BY TreeTypes DEF IInv
<1>2. /\ stage' = "first" /\ slaveIds' = candidates /\ candidates \subseteq Agents
      /\ todo' = candidates \X Role
      /\ rolesConsumedQuota' =
           [r \in Role |-> IF r \in TopLevel /\ QuotaOf(roleTree, r) # DefaultQuota
                           THEN ConsumedQuota(r) ELSE 0]
      /\ requiredHeadroom' = Required(rolesConsumedQuota')
      /\ availableHeadroom' = AvailableHeadroom
      /\ UNCHANGED cluster
  BY DEF BeginRun
<1>3. \A r \in Role : quota[r] # DefaultQuota => r \in TopLevel
  BY DEF IInv, QuotaInv
<1>4. \A r \in Role : quota[r] # DefaultQuota => ConsumedQuota(r) = Consumed(r)
  BY ConsumedBegins DEF IInv
<1>5. \A r \in Role : /\ quota[r] # DefaultQuota => rolesConsumedQuota'[r] = Consumed(r)
                      /\ quota[r] = DefaultQuota => rolesConsumedQuota'[r] = 0
  BY <1>1, <1>2, <1>3, <1>4
<1>6. rolesConsumedQuota' \in [Role -> Nat]
  <2>1. \A r \in Role : Consumed(r) \in Nat
    BY ConsumedType DEF IInv
  <2>2. \A r \in Role : rolesConsumedQuota'[r] \in Nat
    BY <1>5, <2>1
  <2> QED BY <1>2, <2>2
<1>7. requiredHeadroom' \in Nat
  <2>1. \A r \in TopLevel :
          Saturate(QuotaOf(roleTree, r).guarantee - rolesConsumedQuota'[r]) \in Nat
    BY <1>1, <1>6 DEF IInv, ClusterTypes, Quota, Saturate, TopLevel
  <2>2. PICK g \in [TopLevel -> Nat] :
          g = [r \in TopLevel |-> Saturate(QuotaOf(roleTree, r).guarantee - rolesConsumedQuota'[r])]
    BY <2>1
  <2>3. IsFiniteSet(TopLevel)
    BY TreeAssumption, FS_Subset DEF TopLevel
  <2>4. SumFunction(g) \in Nat
    BY <2>3, SumFunctionType
  <2> QED BY <1>2, <2>2, <2>4 DEF Required
<1>8. availableHeadroom' \in Nat
  BY <1>2, HeadroomBegins DEF IInv
<1>9. ClusterTypes' /\ TreeInv' /\ QuotaInv' /\ HolderInv'
  BY <1>2 DEF IInv, cluster, ClusterTypes, TreeInv, Own, ReservedUnits, Agents, QuotaInv, HolderInv
<1>10. RunTypes'
  BY <1>2, <1>6, <1>7, <1>8 DEF RunTypes, cluster, Agents
<1> QED BY <1>2, <1>5, <1>9, <1>10 DEF IInv

\* A turn of the first stage keeps the invariant.
LEMMA FirstStageKeeps ==
  ASSUME IInv, NEW s \in Slave, NEW r \in Role, NEW accepted \in BOOLEAN,
         FirstStage(s, r, accepted)
  PROVE  IInv'
<1>1. /\ todo' \subseteq slaveIds \X Role /\ stage = "first"
      /\ UNCHANGED <<slaves, stage, slaveIds>>
  BY TurnIsThere DEF FirstStage
<1>2. CASE UNCHANGED <<cluster, rolesConsumedQuota, requiredHeadroom, availableHeadroom>>
  BY <1>1, <1>2 DEF IInv, cluster, ClusterTypes, RunTypes, TreeInv, Own, ReservedUnits, Agents,
                    QuotaInv, HolderInv
<1>3. ASSUME NEW n \in Nat, NEW m \in Nat, Allocation(r, s, n, m),
             rolesConsumedQuota' = ConsumedMore(r, n)
      PROVE  IInv'
  BY <1>1, <1>3, AllocationKeeps, ChargedType DEF IInv, RunTypes
<1> QED BY <1>2, <1>3, FirstStageAllocates

\* A turn of the second stage keeps it.
LEMMA SecondStageKeeps ==
  ASSUME IInv, NEW s \in Slave, NEW r \in Role, NEW accepted \in BOOLEAN,
         SecondStage(s, r, accepted)
  PROVE  IInv'
<1>1. /\ todo' \subseteq slaveIds \X Role /\ stage = "second"
      /\ UNCHANGED <<slaves, stage, slaveIds>>
  BY TurnIsThere DEF SecondStage
<1>2. CASE UNCHANGED <<cluster, rolesConsumedQuota, requiredHeadroom, availableHeadroom>>
  BY <1>1, <1>2 DEF IInv, cluster, ClusterTypes, RunTypes, TreeInv, Own, ReservedUnits, Agents,
                    QuotaInv, HolderInv
<1>3. ASSUME NEW n \in Nat, Allocation(r, s, n, 0),
             \/ rolesConsumedQuota' = ConsumedMore(r, n)
             \/ rolesConsumedQuota' = rolesConsumedQuota
      PROVE  IInv'
  BY <1>1, <1>3, AllocationKeeps, ChargedType DEF IInv, RunTypes
<1> QED BY <1>2, <1>3, SecondStageAllocates

\* The step from the first stage to the second keeps it.
LEMMA BeginSecondStageKeeps ==
  ASSUME IInv, BeginSecondStage
  PROVE  IInv'
BY DEF IInv, BeginSecondStage, cluster, ClusterTypes, RunTypes, TreeInv, Own, ReservedUnits, Agents,
       QuotaInv, HolderInv

\* The end of a run keeps it.
LEMMA EndRunKeeps ==
  ASSUME IInv, EndRun
  PROVE  IInv'
BY DEF IInv, EndRun, cluster, ClusterTypes, RunTypes, TreeInv, Own, ReservedUnits, Agents,
       QuotaInv, HolderInv

\* So does a step in which nothing changes.
LEMMA StutterKeeps ==
  ASSUME IInv, UNCHANGED vars
  PROVE  IInv'
BY DEF IInv, vars, ClusterTypes, RunTypes, TreeInv, Own, ReservedUnits, Agents, QuotaInv, HolderInv

-----------------------------------------------------------------------------
(* The types and the tree, in every state.                                 *)

\* No step breaks the invariant.
LEMMA NextKeepsIInv == IInv /\ [Next]_vars => IInv'
<1> SUFFICES ASSUME IInv, [Next]_vars PROVE IInv'
  OBVIOUS
<1>1. CASE Between
  BY <1>1, AddSlaveKeeps, RemoveSlaveKeeps, UpdateSlaveKeeps, UpdateAvailableKeeps,
     UpdateAllocationKeeps, RecoverResourcesKeeps, UpdateQuotaKeeps, SubscribeKeeps,
     UnsubscribeKeeps DEF Between
<1>2. CASE Run
  BY <1>2, BeginRunKeeps, FirstStageKeeps, SecondStageKeeps, BeginSecondStageKeeps, EndRunKeeps
     DEF Run
<1>3. CASE UNCHANGED vars
  BY <1>3, StutterKeeps
<1> QED BY <1>1, <1>2, <1>3 DEF Next

\* The invariant holds in every state.
LEMMA SpecKeepsIInv == Spec => []IInv
<1> QED BY InitIInv, NextKeepsIInv, PTL DEF Spec

\* Whatever happens, between runs and in them, the variables keep their types: headroom and
\* consumed quota, of which the run subtracts, do not become negative.
THEOREM TypeCorrect == Spec => []TypeOK
<1>1. IInv => TypeOK
  BY TreeTypes DEF IInv, ClusterTypes, RunTypes, TypeOK
<1> QED BY <1>1, SpecKeepsIInv, PTL

\* However reservations are tracked and untracked, role by role and agent by agent, and
\* roles pruned and created again: the tree has the roles in use and those above them, and
\* says of each what a sum over the agents would.
THEOREM TreeIsExact == Spec => []RoleTreeIsExact
<1>1. ASSUME IInv PROVE RoleTreeIsExact
  <2> DEFINE used == {r \in Role : subscribed[r] # {} \/ quota[r] # DefaultQuota \/ ReservedUnits[r] > 0}
  <2>1. Own \in Owns(SUBSET Framework) /\ ReservedUnits \in [Role -> Nat]
    BY <1>1, ReservedTypes DEF IInv
  <2>2. ReservationOf(Own) = ReservedUnits
    BY <2>1 DEF ReservationOf, Own
  <2>3. \A r \in Role : /\ ReservedUnits[r] \in Nat
                        /\ Own[r] = [frameworks |-> subscribed[r], quota |-> quota[r],
                                     reservation |-> ReservedUnits[r]]
    BY <2>1 DEF Own
  <2>4. Used(Own) = used
    <3>1. \A r \in Role : Own[r] # NewRole
            <=> subscribed[r] # {} \/ quota[r] # DefaultQuota \/ ReservedUnits[r] > 0
      <4> SUFFICES ASSUME NEW r \in Role
                   PROVE  Own[r] # NewRole
                            <=> subscribed[r] # {} \/ quota[r] # DefaultQuota \/ ReservedUnits[r] > 0
        OBVIOUS
      <4>1. /\ ReservedUnits[r] \in Nat
            /\ Own[r] = [frameworks |-> subscribed[r], quota |-> quota[r],
                         reservation |-> ReservedUnits[r]]
        BY <2>3
      <4>2. /\ Own[r].frameworks = subscribed[r] /\ Own[r].quota = quota[r]
            /\ Own[r].reservation = ReservedUnits[r]
        BY <4>1
      <4>3. /\ NewRole.frameworks = {} /\ NewRole.quota = DefaultQuota
            /\ NewRole.reservation = 0
        BY DEF NewRole
      <4>4. Own[r] = NewRole
              => subscribed[r] = {} /\ quota[r] = DefaultQuota /\ ReservedUnits[r] = 0
        BY <4>2, <4>3
      <4>5. subscribed[r] = {} /\ quota[r] = DefaultQuota /\ ReservedUnits[r] = 0
              => Own[r] = NewRole
        BY <4>1 DEF NewRole
      <4> QED BY <4>1, <4>4, <4>5
    <3> QED BY <3>1 DEF Used
  <2>5. DOMAIN roleTree = {Root} \cup UNION {Lineage(r) : r \in used}
    BY <1>1, <2>4 DEF IInv, TreeInv, ExactTree, TreeOn, InTree
  <2>6. \A r \in DOMAIN roleTree : roleTree[r] = Entry(Own, r)
    BY <1>1 DEF IInv, TreeInv, ExactTree, TreeOn
  <2>7. roleTree[Root] = [NewRole EXCEPT !.reservation = SumFunction(ReservedUnits)]
    BY <2>2, <2>5, <2>6 DEF Entry
  <2>8. ASSUME NEW r \in DOMAIN roleTree \ {Root}
        PROVE  roleTree[r] = [frameworks |-> subscribed[r], quota |-> quota[r],
                              reservation |-> SumFunctionOnSet(ReservedUnits, Subtree(r))]
    <3>1. r \in Role
      BY <2>5, Lineages
    <3> QED BY <1>1, <3>1, TreeTypes DEF IInv
  <2> HIDE DEF used
  <2>9. used = {r \in Role : subscribed[r] # {} \/ quota[r] # DefaultQuota \/ ReservedUnits[r] > 0}
    BY DEF used
  <2> QED BY <2>5, <2>7, <2>8, <2>9 DEF RoleTreeIsExact
<1> QED BY <1>1, SpecKeepsIInv, PTL
-----------------------------------------------------------------------------
(* The headroom.                                                           *)

\* No role is below another.
SideBySide == \A r \in Role : Parent[r] = Root

\* What a role with a quota has consumed is what the run thinks.
Charged == \A r \in Role : quota[r] # DefaultQuota => rolesConsumedQuota[r] = Consumed(r)

\* The second stage charges a role above another for it only where that has a quota itself.
ChargedInv == stage = "first" \/ (Running /\ SideBySide) => Charged

RunInv == IInv /\ HeadroomIsThere /\ HeadroomIsEnough /\ ChargedInv

\* What r lacks of its guarantee.
Short(r) == Saturate(quota[r].guarantee - Consumed(r))

\* What guarantees lack is a sum of natural numbers over the top-level roles.
LEMMA UnmetTypes ==
  ASSUME ClusterTypes
  PROVE  /\ IsFiniteSet(TopLevel) /\ TopLevel \subseteq Role
         /\ [r \in TopLevel |-> Short(r)] \in [TopLevel -> Nat]
         /\ Unmet = SumFunction([r \in TopLevel |-> Short(r)])
         /\ Unmet \in Nat
<1>1. IsFiniteSet(TopLevel) /\ TopLevel \subseteq Role
  BY TreeAssumption, FS_Subset DEF TopLevel
<1>2. \A r \in Role : Short(r) \in Nat
  BY ConsumedType DEF ClusterTypes, Quota, Short, Saturate
<1>3. PICK g \in [TopLevel -> Nat] : g = [r \in TopLevel |-> Short(r)]
  BY <1>1, <1>2
<1>4. SumFunction(g) \in Nat
  BY <1>1, SumFunctionType
<1>5. Unmet = SumFunction(g)
  BY <1>3 DEF Unmet, Short
<1> QED BY <1>1, <1>3, <1>4, <1>5

\* The same of the next state.
LEMMA UnmetTypesNext ==
  ClusterTypes' => /\ ([r \in TopLevel |-> Short(r)] \in [TopLevel -> Nat])'
                   /\ (Unmet = SumFunction([r \in TopLevel |-> Short(r)]))'
                   /\ (Unmet \in Nat)'
<1>1. ClusterTypes => /\ [r \in TopLevel |-> Short(r)] \in [TopLevel -> Nat]
                      /\ Unmet = SumFunction([r \in TopLevel |-> Short(r)])
                      /\ Unmet \in Nat
  BY UnmetTypes
<1> QED BY <1>1, PTL

\* Free units are a natural number in the next state as well.
LEMMA FreeTypeNext == ClusterTypes' => (FreeUnits \in Nat)'
<1>1. ClusterTypes => FreeUnits \in Nat
  BY FreeCovers
<1> QED BY <1>1, PTL

\* An allocation that has m units for a guarantee lessens what is unmet by m or more.
LEMMA UnmetFalls ==
  ASSUME IInv, NEW r \in Role, NEW s \in Slave, NEW n \in Nat, NEW m \in Nat,
         Allocation(r, s, n, m),
         m > 0 => r \in TopLevel /\ rolesConsumedQuota[r] = Consumed(r)
  PROVE  Unmet' + m <= Unmet
<1>1. PICK kinds : Hold(r, s, n, kinds)
  BY DEF Allocation
<1>2. s \in Agents /\ slaves' = slaves /\ quota' = quota /\ m <= n
      /\ (m > 0 => m <= quota[r].guarantee - rolesConsumedQuota[r])
  BY DEF Allocation
<1>3. \A q \in Role : /\ Consumed(q) \in Nat /\ Consumed(q)' \in Nat
                      /\ q \in Lineage(r) => Consumed(q)' = Consumed(q) + n
                      /\ q \notin Lineage(r) => Consumed(q)' = Consumed(q)
  BY <1>1, <1>2, HoldConsumes DEF IInv
<1>4. \A q \in Role : quota[q].guarantee \in Nat
  BY DEF IInv, ClusterTypes, Quota
<1>5. IsFiniteSet(TopLevel) /\ TopLevel \subseteq Role
  BY UnmetTypes DEF IInv
<1>6. PICK g \in [TopLevel -> Nat] : g = [q \in TopLevel |-> Short(q)] /\ Unmet = SumFunction(g)
  BY UnmetTypes DEF IInv
<1>7. PICK h \in [TopLevel -> Nat] : h = [q \in TopLevel |-> Short(q)'] /\ Unmet' = SumFunction(h)
  BY AllocationKeeps, UnmetTypesNext
<1>8. ASSUME NEW q \in TopLevel PROVE h[q] <= g[q]
  <2>1. /\ Consumed(q) \in Nat /\ Consumed(q)' \in Nat /\ Consumed(q) <= Consumed(q)'
        /\ quota[q].guarantee \in Nat
    BY <1>3, <1>4, <1>5
  <2>2. g[q] = Saturate(quota[q].guarantee - Consumed(q))
    BY <1>6 DEF Short
  <2>3. h[q] = Saturate(quota[q].guarantee - Consumed(q)')
    BY <1>2, <1>7 DEF Short
  <2> QED BY <2>1, <2>2, <2>3 DEF Saturate
<1>9. CASE m = 0
  <2>1. SumFunction(h) <= SumFunction(g)
    BY <1>5, <1>8, SumFunctionAtMost
  <2> QED BY <1>6, <1>7, <1>9, <2>1, <1>5, SumFunctionType
<1>10. CASE m > 0
  <2>1. r \in TopLevel /\ r \in Lineage(r) /\ rolesConsumedQuota[r] = Consumed(r)
    BY <1>10, Lineages
  <2>2. h[r] + m <= g[r]
    <3>1. g[r] = Saturate(quota[r].guarantee - Consumed(r))
      BY <1>6, <2>1 DEF Short
    <3>2. h[r] = Saturate(quota[r].guarantee - Consumed(r)')
      BY <1>2, <1>7, <2>1 DEF Short
    <3>3. Consumed(r) \in Nat /\ Consumed(r)' = Consumed(r) + n /\ quota[r].guarantee \in Nat
      BY <1>3, <1>4, <2>1
    <3> QED BY <1>2, <1>10, <2>1, <3>1, <3>2, <3>3 DEF Saturate
  <2>3. PICK k \in [TopLevel -> Nat] : k = [q \in TopLevel |-> IF q = r THEN h[r] ELSE g[q]]
    BY <2>1
  <2>4. k[r] = h[r] /\ \A q \in TopLevel \ {r} : k[q] = g[q]
    BY <2>1, <2>3
  <2>5. SumFunction(k) = SumFunction(g) - g[r] + k[r]
    BY <1>5, <2>1, <2>4, SumFunctionChangesAt
  <2>6. \A q \in TopLevel : h[q] <= k[q]
    BY <1>8, <2>3
  <2>7. SumFunction(h) <= SumFunction(k)
    BY <1>5, <2>6, SumFunctionAtMost
  <2>8. SumFunction(g) \in Nat /\ SumFunction(h) \in Nat /\ g[r] \in Nat /\ h[r] \in Nat
    BY <1>5, <2>1, SumFunctionType
  <2> QED BY <1>6, <1>7, <2>2, <2>4, <2>5, <2>7, <2>8
<1> QED BY <1>9, <1>10

\* What is free beyond what is unmet, and the headroom, after an allocation.
LEMMA AllocationLeavesHeadroom ==
  ASSUME IInv, NEW r \in Role, NEW s \in Slave, NEW n \in Nat, NEW m \in Nat,
         Allocation(r, s, n, m),
         m > 0 => r \in TopLevel /\ rolesConsumedQuota[r] = Consumed(r),
         availableHeadroom <= FreeUnits, requiredHeadroom >= Unmet
  PROVE  /\ availableHeadroom' <= FreeUnits' /\ requiredHeadroom' >= Unmet'
         /\ Saturate(Unmet' - FreeUnits') <= Saturate(Unmet - FreeUnits)
<1>1. PICK kinds : Hold(r, s, n, kinds)
  BY DEF Allocation
<1>2. /\ s \in Agents /\ slaves' = slaves /\ m <= n /\ n <= Free(s, Unreserved)
      /\ n > m => requiredHeadroom = 0 \/ n - m <= availableHeadroom - requiredHeadroom
      /\ requiredHeadroom' = Saturate(requiredHeadroom - m)
      /\ availableHeadroom' = Saturate(availableHeadroom - n)
  BY DEF Allocation
<1>3. FreeUnits \in Nat /\ FreeUnits' = FreeUnits - n
  BY <1>1, <1>2, HoldFrees DEF IInv
<1>4. FreeUnits' \in Nat
  BY FreeTypeNext, AllocationKeeps
<1>5. Unmet' + m <= Unmet
  BY UnmetFalls
<1>6. Unmet \in Nat /\ Unmet' \in Nat
  BY AllocationKeeps, UnmetTypes, UnmetTypesNext DEF IInv
<1>7. requiredHeadroom \in Nat /\ availableHeadroom \in Nat
  BY DEF IInv, RunTypes
<1>8. PICK u \in Nat, v \in Nat, f \in Nat, w \in Nat :
        u = Unmet /\ v = Unmet' /\ f = FreeUnits /\ w = FreeUnits'
  BY <1>3, <1>4, <1>6
<1>9. v + m <= u /\ w = f - n /\ availableHeadroom <= f /\ u <= requiredHeadroom
  BY <1>3, <1>5, <1>7, <1>8
<1>10. availableHeadroom' <= w /\ requiredHeadroom' >= v
  BY ONLY n \in Nat, m \in Nat, <1>2, <1>7, <1>9, u \in Nat, v \in Nat, f \in Nat, w \in Nat
     DEF Saturate
<1>11. Saturate(v - w) <= Saturate(u - f)
  <2>1. CASE n = m
    BY ONLY n \in Nat, m \in Nat, <1>9, <2>1, u \in Nat, v \in Nat, f \in Nat, w \in Nat
       DEF Saturate
  <2>2. CASE n > m
    BY ONLY n \in Nat, m \in Nat, <1>2, <1>7, <1>9, <2>2, u \in Nat, v \in Nat, f \in Nat, w \in Nat
       DEF Saturate
  <2> QED BY <1>2, <2>1, <2>2
<1> QED BY <1>8, <1>10, <1>11

\* What is consumed, unmet and free is a matter of the cluster, not of the run.
LEMMA SameCluster ==
  ASSUME UNCHANGED cluster
  PROVE  Unmet' = Unmet /\ FreeUnits' = FreeUnits /\ \A q \in Role : Consumed(q)' = Consumed(q)
<1>1. /\ ReservedUnits' = ReservedUnits /\ HeldUnreserved' = HeldUnreserved
      /\ quota' = quota
  BY DEF cluster, ReservedUnits, HeldUnreserved, Agents
<1>2. \A q \in Role : Consumed(q)' = Consumed(q)
  BY <1>1 DEF Consumed
<1>3. Unmet' = Unmet
  BY <1>1 DEF Unmet, Consumed
<1>4. FreeUnits' = FreeUnits
  BY DEF cluster, FreeUnits, Free, HeldOn, Agents
<1> QED BY <1>2, <1>3, <1>4

\* A turn of either stage.
LEMMA TurnAllocates ==
  ASSUME RunInv, NEW s \in Slave, NEW r \in Role, NEW accepted \in BOOLEAN,
         FirstStage(s, r, accepted) \/ SecondStage(s, r, accepted)
  PROVE  \/ UNCHANGED <<cluster, rolesConsumedQuota, requiredHeadroom, availableHeadroom>>
         \/ \E n, m \in Nat :
              /\ Allocation(r, s, n, m)
              /\ m > 0 => r \in TopLevel /\ rolesConsumedQuota[r] = Consumed(r)
              /\ \/ rolesConsumedQuota' = ConsumedMore(r, n)
                 \/ stage = "second" /\ quota[r] = DefaultQuota
                    /\ rolesConsumedQuota' = rolesConsumedQuota
<1>1. CASE FirstStage(s, r, accepted)
  <2>1. Charged
    BY <1>1 DEF FirstStage, RunInv, ChargedInv
  <2>2. quota[r] # DefaultQuota => r \in TopLevel /\ rolesConsumedQuota[r] = Consumed(r)
    BY <2>1 DEF Charged, RunInv, IInv, QuotaInv
  <2> QED BY <1>1, <2>2, FirstStageAllocates DEF RunInv
<1>2. CASE SecondStage(s, r, accepted)
  <2>1. stage = "second"
    BY <1>2 DEF SecondStage
  <2>2. CASE UNCHANGED <<cluster, rolesConsumedQuota, requiredHeadroom, availableHeadroom>>
    BY <2>2
  <2>3. ASSUME NEW n \in Nat, Allocation(r, s, n, 0),
               quota[r] # DefaultQuota => rolesConsumedQuota' = ConsumedMore(r, n),
               quota[r] = DefaultQuota => rolesConsumedQuota' = rolesConsumedQuota
        PROVE  \E k, m \in Nat :
                 /\ Allocation(r, s, k, m)
                 /\ m > 0 => r \in TopLevel /\ rolesConsumedQuota[r] = Consumed(r)
                 /\ \/ rolesConsumedQuota' = ConsumedMore(r, k)
                    \/ stage = "second" /\ quota[r] = DefaultQuota
                       /\ rolesConsumedQuota' = rolesConsumedQuota
    BY <2>1, <2>3
  <2> QED BY <1>2, <2>2, <2>3, SecondStageAllocates DEF RunInv
<1> QED BY <1>1, <1>2

\* After a turn the headroom is there and enough, and nothing is lost for the guarantees.
LEMMA TurnLeavesHeadroom ==
  ASSUME RunInv, NEW s \in Slave, NEW r \in Role, NEW accepted \in BOOLEAN,
         FirstStage(s, r, accepted) \/ SecondStage(s, r, accepted)
  PROVE  /\ HeadroomIsThere' /\ HeadroomIsEnough'
         /\ Saturate(Unmet' - FreeUnits') <= Saturate(Unmet - FreeUnits)
<1>1. Running
  BY DEF FirstStage, SecondStage, Running
<1>2. availableHeadroom <= FreeUnits /\ requiredHeadroom >= Unmet
  BY <1>1 DEF RunInv, HeadroomIsThere, HeadroomIsEnough
<1>3. Unmet \in Nat /\ FreeUnits \in Nat
  BY UnmetTypes, FreeCovers DEF RunInv, IInv
<1>4. CASE UNCHANGED <<cluster, rolesConsumedQuota, requiredHeadroom, availableHeadroom>>
  BY <1>2, <1>3, <1>4, SameCluster DEF HeadroomIsThere, HeadroomIsEnough, Saturate
<1>5. ASSUME NEW n \in Nat, NEW m \in Nat, Allocation(r, s, n, m),
             m > 0 => r \in TopLevel /\ rolesConsumedQuota[r] = Consumed(r)
      PROVE  /\ HeadroomIsThere' /\ HeadroomIsEnough'
             /\ Saturate(Unmet' - FreeUnits') <= Saturate(Unmet - FreeUnits)
  BY <1>2, <1>5, AllocationLeavesHeadroom DEF RunInv, HeadroomIsThere, HeadroomIsEnough
<1> QED BY <1>4, <1>5, TurnAllocates

\* A turn charges what is consumed: in a tree the second stage may leave out the role above.
LEMMA TurnCharges ==
  ASSUME RunInv, NEW s \in Slave, NEW r \in Role, NEW accepted \in BOOLEAN,
         FirstStage(s, r, accepted) \/ SecondStage(s, r, accepted),
         Charged, stage = "first" \/ SideBySide
  PROVE  Charged'
<1>1. CASE UNCHANGED <<cluster, rolesConsumedQuota, requiredHeadroom, availableHeadroom>>
  BY <1>1, SameCluster DEF Charged, cluster
<1>2. ASSUME NEW n \in Nat, NEW m \in Nat, Allocation(r, s, n, m),
             \/ rolesConsumedQuota' = ConsumedMore(r, n)
             \/ stage = "second" /\ quota[r] = DefaultQuota
                /\ rolesConsumedQuota' = rolesConsumedQuota
      PROVE  Charged'
  <2> SUFFICES ASSUME NEW q \in Role, quota'[q] # DefaultQuota
               PROVE  rolesConsumedQuota'[q] = Consumed(q)'
    BY DEF Charged
  <2>1. PICK kinds : Hold(r, s, n, kinds)
    BY <1>2 DEF Allocation
  <2>2. s \in Agents /\ slaves' = slaves /\ quota' = quota
    BY <1>2 DEF Allocation
  <2>3. /\ Consumed(q) \in Nat
        /\ q \in Lineage(r) => Consumed(q)' = Consumed(q) + n
        /\ q \notin Lineage(r) => Consumed(q)' = Consumed(q)
    BY <2>1, <2>2, HoldConsumes DEF RunInv, IInv
  <2>4. rolesConsumedQuota[q] = Consumed(q)
    BY <2>2 DEF Charged
  <2>5. CASE rolesConsumedQuota' = ConsumedMore(r, n)
    BY <2>3, <2>4, <2>5 DEF ConsumedMore
  <2>6. CASE stage = "second" /\ quota[r] = DefaultQuota
             /\ rolesConsumedQuota' = rolesConsumedQuota
    <3>1. q # r /\ r \in TopLevel
      BY <2>2, <2>6 DEF SideBySide, TopLevel
    <3>2. q \notin Lineage(r)
      BY <3>1, TopLevelLineage
    <3> QED BY <2>3, <2>4, <2>6, <3>2
  <2> QED BY <1>2, <2>5, <2>6
<1> QED BY <1>1, <1>2, TurnAllocates

-----------------------------------------------------------------------------
(* The headroom, in every state and step.                                  *)

\* Before the first run there is nothing to hold.
LEMMA InitRunInv == Init => RunInv
BY InitIInv DEF Init, RunInv, HeadroomIsThere, HeadroomIsEnough, ChargedInv, Running

\* What a run begins with is right.
LEMMA BeginRunHasHeadroom ==
  ASSUME IInv, NEW candidates \in SUBSET Slave, BeginRun(candidates)
  PROVE  RunInv'
<1>1. UNCHANGED cluster
  BY DEF BeginRun
<1>2. Unmet' = Unmet /\ FreeUnits' = FreeUnits /\ \A q \in Role : Consumed(q)' = Consumed(q)
  BY <1>1, SameCluster
<1>3. HeadroomIsThere'
  BY <1>2, BeginRunKeeps, HeadroomBegins DEF IInv, HeadroomIsThere
<1>4. Charged'
  BY <1>1, <1>2, BeginRunKeeps DEF Charged, cluster
<1>5. HeadroomIsEnough'
  <2>1. ASSUME NEW r \in TopLevel
        PROVE  Saturate(QuotaOf(roleTree, r).guarantee - rolesConsumedQuota'[r]) = Short(r)
    <3>1. r \in Role /\ QuotaOf(roleTree, r) = quota[r] /\ Consumed(r) \in Nat
      BY TreeTypes, ConsumedType DEF IInv, TopLevel
    <3>2. CASE quota[r] # DefaultQuota
      BY <3>1, <3>2, BeginRunKeeps DEF Short
    <3>3. CASE quota[r] = DefaultQuota
      BY <3>1, <3>3, BeginRunKeeps DEF Short, Saturate, DefaultQuota
    <3> QED BY <3>2, <3>3
  <2>2. Required(rolesConsumedQuota') = SumFunction([r \in TopLevel |-> Short(r)])
    BY <2>1 DEF Required
  <2>3. requiredHeadroom' = Unmet /\ Unmet \in Nat
    BY <2>2, BeginRunKeeps, UnmetTypes DEF IInv
  <2> QED BY <1>2, <2>3 DEF HeadroomIsEnough
<1> QED BY <1>3, <1>4, <1>5, BeginRunKeeps DEF RunInv, ChargedInv

\* The cluster changes between runs.
LEMMA BetweenIsIdle == Between => Idle
<1>1. ASSUME NEW s \in Slave, NEW total \in Totals(s), AddSlave(s, total) \/ UpdateSlave(s, total)
      PROVE  Idle
  BY <1>1 DEF AddSlave, UpdateSlave
<1>2. ASSUME NEW s \in Slave, RemoveSlave(s) PROVE Idle
  BY <1>2 DEF RemoveSlave
<1>3. ASSUME NEW r \in Role, NEW s \in Slave, NEW from \in Kind, NEW to \in Kind,
             UpdateAvailable(r, s, from, to) \/ UpdateAllocation(r, s, from, to)
      PROVE  Idle
  BY <1>3 DEF UpdateAvailable, UpdateAllocation
<1>4. ASSUME NEW r \in Role, NEW s \in Slave, NEW k \in Kind, RecoverResources(r, s, k)
      PROVE  Idle
  BY <1>4 DEF RecoverResources
<1>5. ASSUME NEW r \in Role, NEW q \in Quotas, UpdateQuota(r, q) PROVE Idle
  BY <1>5 DEF UpdateQuota
<1>6. ASSUME NEW r \in Role, NEW f \in Framework, Subscribe(f, r) \/ Unsubscribe(f, r)
      PROVE  Idle
  BY <1>6 DEF Subscribe, Unsubscribe
<1> QED BY <1>1, <1>2, <1>3, <1>4, <1>5, <1>6 DEF Between

\* The inductive step.
LEMMA NextKeepsRunInv == RunInv /\ [Next]_vars => RunInv'
<1> SUFFICES ASSUME RunInv, [Next]_vars PROVE RunInv'
  OBVIOUS
<1>0. IInv /\ IInv'
  BY NextKeepsIInv DEF RunInv
<1>1. CASE stage' = "idle"
  BY <1>0, <1>1 DEF RunInv, HeadroomIsThere, HeadroomIsEnough, ChargedInv, Running
<1>2. ASSUME NEW candidates \in SUBSET Slave, BeginRun(candidates)
      PROVE  RunInv'
  BY <1>0, <1>2, BeginRunHasHeadroom
<1>3. ASSUME NEW s \in Slave, NEW r \in Role, NEW accepted \in BOOLEAN,
             FirstStage(s, r, accepted) \/ SecondStage(s, r, accepted)
      PROVE  RunInv'
  <2>1. HeadroomIsThere' /\ HeadroomIsEnough'
    BY <1>3, TurnLeavesHeadroom
  <2>2. stage' = stage /\ stage \in {"first", "second"}
    BY <1>3 DEF FirstStage, SecondStage
  <2>3. ChargedInv'
    <3>1. CASE Charged /\ (stage = "first" \/ SideBySide)
      BY <1>3, <3>1, TurnCharges DEF ChargedInv
    <3>2. CASE ~(stage = "first" \/ SideBySide)
      BY <2>2, <3>2 DEF ChargedInv
    <3> QED BY <2>2, <3>1, <3>2 DEF RunInv, ChargedInv, Running
  <2> QED BY <1>0, <2>1, <2>3 DEF RunInv
<1>4. CASE BeginSecondStage
  <2>1. /\ UNCHANGED <<cluster, rolesConsumedQuota, requiredHeadroom, availableHeadroom>>
        /\ stage = "first" /\ stage' = "second"
    BY <1>4 DEF BeginSecondStage
  <2>2. Charged /\ Running
    BY <2>1 DEF RunInv, ChargedInv, Running
  <2>3. Charged'
    BY <2>1, <2>2, SameCluster DEF Charged, cluster
  <2>4. HeadroomIsThere' /\ HeadroomIsEnough'
    BY <2>1, <2>2, SameCluster DEF RunInv, HeadroomIsThere, HeadroomIsEnough
  <2> QED BY <1>0, <2>3, <2>4 DEF RunInv, ChargedInv
<1>5. CASE UNCHANGED vars
  <2>1. UNCHANGED <<cluster, stage, rolesConsumedQuota, requiredHeadroom, availableHeadroom>>
    BY <1>5 DEF vars, cluster
  <2>2. Charged => Charged'
    BY <2>1, SameCluster DEF Charged, cluster
  <2> QED BY <1>0, <2>1, <2>2, SameCluster
             DEF RunInv, HeadroomIsThere, HeadroomIsEnough, ChargedInv, Running
<1>6. Between => stage' = "idle"
  BY BetweenIsIdle DEF Idle, run
<1>7. EndRun => stage' = "idle"
  BY DEF EndRun
<1> QED BY <1>1, <1>2, <1>3, <1>4, <1>5, <1>6, <1>7 DEF Next, Run

\* What the invariant says of headroom holds in every state of a run.
LEMMA SpecKeepsRunInv == Spec => []RunInv
<1> QED BY InitRunInv, NextKeepsRunInv, PTL DEF Spec

\* In every state of a run the headroom it believes in is there, whatever has been removed,
\* shrunk, reserved or recovered before.
THEOREM HeadroomThere == Spec => []HeadroomIsThere
<1>1. RunInv => HeadroomIsThere
  BY DEF RunInv
<1> QED BY <1>1, SpecKeepsRunInv, PTL

\* In every state of a run the headroom it holds back is enough for the unmet guarantees,
\* also where roles are below others.
THEOREM HeadroomEnough == Spec => []HeadroomIsEnough
<1>1. RunInv => HeadroomIsEnough
  BY DEF RunInv
<1> QED BY <1>1, SpecKeepsRunInv, PTL

\* No step of a run takes free units that unmet guarantees need: first-stage bursts and
\* roles without quota included.
THEOREM NoDeficit == Spec => DeficitNeverGrows
<1>1. RunInv /\ [Next]_vars
        => [Running => Saturate(Unmet' - FreeUnits') <= Saturate(Unmet - FreeUnits)]_vars
  <2> SUFFICES ASSUME RunInv, [Next]_vars, Running
               PROVE  Saturate(Unmet' - FreeUnits') <= Saturate(Unmet - FreeUnits)
    OBVIOUS
  <2>1. Unmet \in Nat /\ FreeUnits \in Nat
    BY UnmetTypes, FreeCovers DEF RunInv, IInv
  <2>2. CASE UNCHANGED cluster
    BY <2>1, <2>2, SameCluster DEF Saturate
  <2>3. ASSUME NEW s \in Slave, NEW r \in Role, NEW accepted \in BOOLEAN,
               FirstStage(s, r, accepted) \/ SecondStage(s, r, accepted)
        PROVE  Saturate(Unmet' - FreeUnits') <= Saturate(Unmet - FreeUnits)
    BY <2>3, TurnLeavesHeadroom
  <2>4. ~Between
    BY BetweenIsIdle DEF Idle, Running
  <2>5. UNCHANGED vars => UNCHANGED cluster
    BY DEF vars, cluster
  <2> QED BY <2>2, <2>3, <2>4, <2>5 DEF Next, Run, BeginSecondStage, EndRun, BeginRun
<1> QED BY <1>1, SpecKeepsRunInv, PTL DEF Spec, DeficitNeverGrows

\* Where no role is below another, what a run has charged a role is what it consumes, from
\* the first allocation to the last.
THEOREM ConsumedExact == ASSUME SideBySide PROVE Spec => []ConsumedIsExact
<1>1. RunInv => ConsumedIsExact
  BY DEF RunInv, ChargedInv, Charged, ConsumedIsExact, TopLevel
<1> QED BY <1>1, SpecKeepsRunInv, PTL

\* And no allocation lifts a role above its limit.
THEOREM LimitsKept == ASSUME SideBySide PROVE Spec => LimitsAreKept
<1>1. RunInv /\ [Next]_vars
        => [Running => \A r \in TopLevel :
              quota[r].limit # NoLimit /\ Consumed(r)' > Consumed(r) =>
                Consumed(r)' <= quota[r].limit]_vars
  <2> SUFFICES ASSUME RunInv, [Next]_vars, Running, NEW q \in TopLevel,
                      quota[q].limit # NoLimit, Consumed(q)' > Consumed(q)
               PROVE  Consumed(q)' <= quota[q].limit
    OBVIOUS
  <2>1. q \in Role /\ Consumed(q) \in Nat /\ quota[q].limit \in Nat
    BY ConsumedType DEF RunInv, IInv, ClusterTypes, Quota, TopLevel
  <2>2. ~UNCHANGED cluster
    BY <2>1, SameCluster
  <2>3. PICK s \in Slave, r \in Role, accepted \in BOOLEAN :
          FirstStage(s, r, accepted) \/ SecondStage(s, r, accepted)
    <3>1. ~Between
      BY BetweenIsIdle DEF Idle, Running
    <3> QED BY <2>2, <3>1 DEF Next, Run, BeginRun, BeginSecondStage, EndRun, vars, cluster
  <2>4. PICK n \in Nat, m \in Nat : Allocation(r, s, n, m)
    BY <2>2, <2>3, TurnAllocates
  <2>5. PICK kinds : Hold(r, s, n, kinds)
    BY <2>4 DEF Allocation
  <2>6. s \in Agents /\ slaves' = slaves
        /\ (n > 0 /\ quota[r].limit # NoLimit => n <= quota[r].limit - rolesConsumedQuota[r])
    BY <2>4 DEF Allocation
  <2>7. /\ q \in Lineage(r) => Consumed(q)' = Consumed(q) + n
        /\ q \notin Lineage(r) => Consumed(q)' = Consumed(q)
    BY <2>1, <2>5, <2>6, HoldConsumes DEF RunInv, IInv
  <2>8. q = r /\ n > 0 /\ Consumed(r)' = Consumed(r) + n
    <3>1. r \in TopLevel
      BY DEF SideBySide, TopLevel
    <3> QED BY <2>1, <2>7, <3>1, TopLevelLineage
  <2>9. rolesConsumedQuota[r] = Consumed(r)
    <3>1. quota[r] # DefaultQuota
      BY <2>8 DEF DefaultQuota
    <3> QED BY <3>1 DEF RunInv, ChargedInv, Charged
  <2> QED BY <2>1, <2>6, <2>8, <2>9
<1> QED BY <1>1, SpecKeepsRunInv, PTL DEF Spec, LimitsAreKept
=============================================================================
