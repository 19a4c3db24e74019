--------------------- MODULE HierarchicalAllocatorProofs ---------------------
(***************************************************************************)
(* The safety of HierarchicalAllocator, for any frameworks, roles, agents  *)
(* and sizes.  No property is inductive alone: that a recovery trips no    *)
(* CHECK rests on what the sorters hold being what the master has, which   *)
(* rests on a new client holding nothing, which rests on a framework not   *)
(* yet added being no client and having no offer on its way.  IInv joins   *)
(* them: Global is what is said of frameworks, agents and books, RoleInv   *)
(* what is said of one role.                                               *)
(***************************************************************************)
EXTENDS HierarchicalAllocator, FoldTheorems

-----------------------------------------------------------------------------
(* The helpers of RoleTracking: each keeps the state of one role well      *)
(* typed and its structures consistent, under the condition the code       *)
(* CHECKs before it, and changes nothing but what it is for.               *)

\* The empty allocation and an allocation on one agent are allocations.
LEMMA ResourceTypes ==
  /\ NoResources \in [Slave -> Nat]
  /\ \A s \in Slave, n \in Nat : On(s, n) \in [Slave -> Nat]
  /\ \A s \in Slave, n \in Nat, t \in Slave : On(s, n)[t] = IF t = s THEN n ELSE 0
BY DEF NoResources, On

\* A role nobody is tracked under is well typed and consistent.
LEMMA UntrackedGood == Untracked \in RoleState /\ RoleConsistent(Untracked)
<1>1. Untracked \in RoleState
  BY ResourceTypes DEF Untracked, RoleState
<1>2. RoleConsistent(Untracked)
  <2>1. \A f \in Framework : /\ Untracked.held[f] = NoResources
                             /\ Untracked.entries[f] = {}
    BY DEF Untracked
  <2>2. {s \in Slave : NoResources[s] > 0} = {}
    BY DEF NoResources
  <2>3. QED BY <2>1, <2>2 DEF Untracked, RoleConsistent
<1>3. QED BY <1>1, <1>2

\* Tracking keeps a role good: the framework becomes an inactive client that
\* holds nothing, the others keep what they have.
LEMMA TrackGood ==
  ASSUME NEW R \in RoleState, RoleConsistent(R), NEW f \in Framework,
         NEW totals \in [Slave -> Nat], f \notin R.frameworks
  PROVE  /\ Track(R, f, totals) \in RoleState
         /\ RoleConsistent(Track(R, f, totals))
         /\ Track(R, f, totals).clients = R.clients \cup {f}
         /\ Track(R, f, totals).active = R.active
         /\ Track(R, f, totals).held = R.held
         /\ Track(R, f, totals).entries = R.entries
         /\ (R.hasSorter => R.totals = totals) => Track(R, f, totals).totals = totals
<1> DEFINE T == Track(R, f, totals)
           first == R.frameworks = {}
<1>1. R.held[f] = NoResources /\ R.entries[f] = {}
  BY DEF RoleConsistent
<1>2. R.held = [R.held EXCEPT ![f] = NoResources] /\ R.entries = [R.entries EXCEPT ![f] = {}]
  BY <1>1 DEF RoleState
<1>3. T = [frameworks |-> R.frameworks \cup {f},
           isClient   |-> R.isClient \/ first,
           allocation |-> IF first THEN NoResources ELSE R.allocation,
           hasSorter  |-> R.hasSorter \/ first,
           clients    |-> R.clients \cup {f},
           active     |-> R.active \ {f},
           held       |-> R.held,
           entries    |-> R.entries,
           totals     |-> IF first THEN totals ELSE R.totals]
  BY <1>2 DEF Track
<1>4. T \in RoleState
  BY <1>3, ResourceTypes DEF RoleState
<1>5. f \notin R.active
  BY DEF RoleConsistent
<1>6. RoleConsistent(T)
  BY <1>3, <1>5 DEF RoleConsistent, RoleState
<1>7. QED BY <1>3, <1>4, <1>5, <1>6 DEF RoleConsistent

\* Untracking keeps a role good: the framework is gone and holds nothing, the
\* others keep what they have, and a sorter that remains keeps its totals.
LEMMA UntrackGood ==
  ASSUME NEW R \in RoleState, RoleConsistent(R), NEW f \in R.frameworks
  PROVE  /\ Untrack(R, f) \in RoleState
         /\ RoleConsistent(Untrack(R, f))
         /\ Untrack(R, f).clients = R.clients \ {f}
         /\ Untrack(R, f).active = R.active \ {f}
         /\ Untrack(R, f).held = [R.held EXCEPT ![f] = NoResources]
         /\ Untrack(R, f).hasSorter => R.hasSorter /\ Untrack(R, f).totals = R.totals
<1> DEFINE U == Untrack(R, f)
           last == R.frameworks \ {f} = {}
<1>1. f \in Framework
  BY DEF RoleState
<1>2. U = [frameworks |-> R.frameworks \ {f},
           isClient   |-> R.isClient /\ ~last,
           allocation |-> IF last THEN NoResources ELSE R.allocation,
           hasSorter  |-> R.hasSorter /\ ~last,
           clients    |-> R.clients \ {f},
           active     |-> R.active \ {f},
           held       |-> [R.held EXCEPT ![f] = NoResources],
           entries    |-> [R.entries EXCEPT ![f] = {}],
           totals     |-> IF last THEN NoResources ELSE R.totals]
  BY DEF Untrack
<1>3. U \in RoleState
  BY <1>1, <1>2, ResourceTypes DEF RoleState
<1>4. RoleConsistent(U)
  <2>1. \A g \in Framework : {s \in Slave : U.held[g][s] > 0} \subseteq U.entries[g]
    <3>1. SUFFICES ASSUME NEW g \in Framework
                   PROVE  {s \in Slave : U.held[g][s] > 0} \subseteq U.entries[g]
      OBVIOUS
    <3>2. CASE g = f
      <4>1. U.held[g] = NoResources
        BY <1>1, <1>2, <3>2 DEF RoleState
      <4>2. QED BY <4>1 DEF NoResources
    <3>3. CASE g # f
      BY <1>2, <3>3 DEF RoleConsistent, RoleState
    <3>4. QED BY <3>2, <3>3
  <2>2. \A g \in Framework \ U.clients : U.held[g] = NoResources /\ U.entries[g] = {}
    BY <1>1, <1>2 DEF RoleConsistent, RoleState
  <2>3. U.isClient = (U.frameworks # {}) /\ U.hasSorter = (U.frameworks # {})
    <3>1. R.isClient = TRUE /\ R.hasSorter = TRUE
      BY DEF RoleConsistent
    <3>2. U.isClient = ~last /\ U.hasSorter = ~last /\ U.frameworks = R.frameworks \ {f}
      BY <1>2, <3>1
    <3>3. QED BY <3>2
  <2>4. U.clients = U.frameworks /\ U.active \subseteq U.clients
    BY <1>2 DEF RoleConsistent
  <2> HIDE DEF U
  <2>5. QED BY <2>1, <2>2, <2>3, <2>4 DEF RoleConsistent
<1>5. /\ U.clients = R.clients \ {f} /\ U.active = R.active \ {f}
      /\ U.held = [R.held EXCEPT ![f] = NoResources]
  BY <1>2
<1>6. U.hasSorter => R.hasSorter /\ U.totals = R.totals
  <2>1. U.hasSorter = (R.hasSorter /\ ~last)
    BY <1>2
  <2>2. U.totals = IF last THEN NoResources ELSE R.totals
    BY <1>2
  <2>3. R.hasSorter \in BOOLEAN
    BY DEF RoleState
  <2> HIDE DEF U, last
  <2>4. QED BY <2>1, <2>2, <2>3
<1>7. QED BY <1>3, <1>4, <1>5, <1>6

\* Activating a client changes only the set of active clients.
LEMMA ActivateGood ==
  ASSUME NEW R \in RoleState, RoleConsistent(R), NEW f \in R.clients
  PROVE  /\ Activate(R, f) \in RoleState
         /\ RoleConsistent(Activate(R, f))
         /\ Activate(R, f).active = R.active \cup {f}
         /\ Activate(R, f).frameworks = R.frameworks
         /\ Activate(R, f).clients = R.clients
         /\ Activate(R, f).held = R.held
         /\ Activate(R, f).hasSorter = R.hasSorter
         /\ Activate(R, f).totals = R.totals
<1> f \in Framework
  BY DEF RoleState
<1>1. Activate(R, f) \in RoleState
  BY DEF Activate, RoleState
<1>2. /\ Activate(R, f).active = R.active \cup {f}
      /\ Activate(R, f).frameworks = R.frameworks
      /\ Activate(R, f).isClient = R.isClient
      /\ Activate(R, f).clients = R.clients
      /\ Activate(R, f).held = R.held
      /\ Activate(R, f).entries = R.entries
      /\ Activate(R, f).hasSorter = R.hasSorter
      /\ Activate(R, f).totals = R.totals
  BY DEF Activate, RoleState
<1>3. QED BY <1>1, <1>2 DEF RoleConsistent

\* Deactivating a client changes only the set of active clients.
LEMMA DeactivateGood ==
  ASSUME NEW R \in RoleState, RoleConsistent(R), NEW f \in Framework
  PROVE  /\ Deactivate(R, f) \in RoleState
         /\ RoleConsistent(Deactivate(R, f))
         /\ Deactivate(R, f).active = R.active \ {f}
         /\ Deactivate(R, f).frameworks = R.frameworks
         /\ Deactivate(R, f).clients = R.clients
         /\ Deactivate(R, f).held = R.held
         /\ Deactivate(R, f).entries = R.entries
         /\ Deactivate(R, f).hasSorter = R.hasSorter
         /\ Deactivate(R, f).totals = R.totals
<1>1. Deactivate(R, f) \in RoleState
  BY DEF Deactivate, RoleState
<1>2. /\ Deactivate(R, f).active = R.active \ {f}
      /\ Deactivate(R, f).frameworks = R.frameworks
      /\ Deactivate(R, f).isClient = R.isClient
      /\ Deactivate(R, f).clients = R.clients
      /\ Deactivate(R, f).held = R.held
      /\ Deactivate(R, f).entries = R.entries
      /\ Deactivate(R, f).hasSorter = R.hasSorter
      /\ Deactivate(R, f).totals = R.totals
  BY DEF Deactivate, RoleState
<1>3. QED BY <1>1, <1>2 DEF RoleConsistent

\* Adding to and taking from an allocation, agent by agent.
LEMMA PlusMinusTypes ==
  /\ \A a, b \in [Slave -> Nat] : Plus(a, b) \in [Slave -> Nat]
  /\ \A a, b \in [Slave -> Nat] :
       (\A s \in Slave : b[s] <= a[s]) => Minus(a, b) \in [Slave -> Nat]
BY DEF Plus, Minus

\* Allocating to a client adds to what it holds and to nothing else of interest.
LEMMA AllocatedGood ==
  ASSUME NEW R \in RoleState, RoleConsistent(R), NEW f \in R.clients,
         NEW more \in [Slave -> Nat]
  PROVE  /\ Allocated(R, f, more) \in RoleState
         /\ RoleConsistent(Allocated(R, f, more))
         /\ Allocated(R, f, more).frameworks = R.frameworks
         /\ Allocated(R, f, more).clients = R.clients
         /\ Allocated(R, f, more).active = R.active
         /\ Allocated(R, f, more).held = [R.held EXCEPT ![f] = Plus(R.held[f], more)]
         /\ Allocated(R, f, more).hasSorter = R.hasSorter
         /\ Allocated(R, f, more).totals = R.totals
<1> DEFINE A == Allocated(R, f, more)
           plus == {s \in Slave : more[s] > 0}
<1>1. f \in Framework
  BY DEF RoleState
<1>2. Plus(R.allocation, more) \in [Slave -> Nat] /\ Plus(R.held[f], more) \in [Slave -> Nat]
  BY <1>1, PlusMinusTypes DEF RoleState
<1>3. /\ A.held = [R.held EXCEPT ![f] = Plus(R.held[f], more)]
      /\ A.entries = [R.entries EXCEPT ![f] = R.entries[f] \cup plus]
      /\ A.frameworks = R.frameworks /\ A.isClient = R.isClient
      /\ A.hasSorter = R.hasSorter /\ A.totals = R.totals
      /\ A.clients = R.clients /\ A.active = R.active
  BY <1>1 DEF Allocated, RoleState
<1>4. A \in RoleState
  BY <1>1, <1>2 DEF Allocated, RoleState
<1>5. RoleConsistent(A)
  <2>1. \A g \in Framework : {s \in Slave : A.held[g][s] > 0} \subseteq A.entries[g]
    <3>1. SUFFICES ASSUME NEW g \in Framework, NEW s \in Slave, A.held[g][s] > 0
                   PROVE  s \in A.entries[g]
      OBVIOUS
    <3>2. CASE g # f
      BY <1>1, <1>3, <3>1, <3>2 DEF RoleConsistent, RoleState
    <3>3. CASE g = f
      <4>1. R.held[f][s] + more[s] > 0
        BY <1>1, <1>3, <3>1, <3>3 DEF Plus, RoleState
      <4>2. R.held[f][s] \in Nat /\ more[s] \in Nat
        BY <1>1 DEF RoleState
      <4>3. R.held[f][s] > 0 => s \in R.entries[f]
        BY <1>1 DEF RoleConsistent
      <4>4. s \in R.entries[f] \cup plus
        BY <4>1, <4>2, <4>3
      <4>5. QED BY <1>1, <1>3, <3>3, <4>4 DEF RoleState
    <3>4. QED BY <3>2, <3>3
  <2>2. \A g \in Framework \ A.clients : A.held[g] = NoResources /\ A.entries[g] = {}
    BY <1>3 DEF RoleConsistent, RoleState
  <2>3. QED BY <1>3, <2>1, <2>2 DEF RoleConsistent
<1>6. QED BY <1>3, <1>4, <1>5

\* Taking from a client what both sorters hold: the entries that go are those of
\* agents on which nothing is left.
LEMMA UnallocatedGood ==
  ASSUME NEW R \in RoleState, RoleConsistent(R), NEW f \in R.clients,
         NEW less \in [Slave -> Nat], Holds(R, f, less)
  PROVE  /\ Unallocated(R, f, less) \in RoleState
         /\ RoleConsistent(Unallocated(R, f, less))
         /\ Unallocated(R, f, less).frameworks = R.frameworks
         /\ Unallocated(R, f, less).clients = R.clients
         /\ Unallocated(R, f, less).active = R.active
         /\ Unallocated(R, f, less).held = [R.held EXCEPT ![f] = Minus(R.held[f], less)]
         /\ Unallocated(R, f, less).hasSorter = R.hasSorter
         /\ Unallocated(R, f, less).totals = R.totals
<1> DEFINE U == Unallocated(R, f, less)
           gone == {s \in Slave : less[s] > 0 /\ R.held[f][s] = less[s]}
<1>1. f \in Framework
  BY DEF RoleState
<1>2. Minus(R.allocation, less) \in [Slave -> Nat] /\ Minus(R.held[f], less) \in [Slave -> Nat]
  BY <1>1, PlusMinusTypes DEF RoleState, Holds
<1>3. /\ U.held = [R.held EXCEPT ![f] = Minus(R.held[f], less)]
      /\ U.entries = [R.entries EXCEPT ![f] = R.entries[f] \ gone]
      /\ U.frameworks = R.frameworks /\ U.isClient = R.isClient
      /\ U.hasSorter = R.hasSorter /\ U.totals = R.totals
      /\ U.clients = R.clients /\ U.active = R.active
  BY <1>1 DEF Unallocated, RoleState
<1>4. U \in RoleState
  BY <1>1, <1>2 DEF Unallocated, RoleState
<1>5. RoleConsistent(U)
  <2>1. \A g \in Framework : {s \in Slave : U.held[g][s] > 0} \subseteq U.entries[g]
    <3>1. SUFFICES ASSUME NEW g \in Framework, NEW s \in Slave, U.held[g][s] > 0
                   PROVE  s \in U.entries[g]
      OBVIOUS
    <3>2. CASE g # f
      BY <1>1, <1>3, <3>1, <3>2 DEF RoleConsistent, RoleState
    <3>3. CASE g = f
      <4>1. R.held[f][s] - less[s] > 0
        BY <1>1, <1>3, <3>1, <3>3 DEF Minus, RoleState
      <4>2. R.held[f][s] \in Nat /\ less[s] \in Nat
        BY <1>1 DEF RoleState
      <4>3. R.held[f][s] > 0 => s \in R.entries[f]
        BY <1>1 DEF RoleConsistent
      <4>4. s \in R.entries[f] \ gone
        BY <4>1, <4>2, <4>3
      <4>5. QED BY <1>1, <1>3, <3>3, <4>4 DEF RoleState
    <3>4. QED BY <3>2, <3>3
  <2>2. \A g \in Framework \ U.clients : U.held[g] = NoResources /\ U.entries[g] = {}
    BY <1>3 DEF RoleConsistent, RoleState
  <2>3. QED BY <1>3, <2>1, <2>2 DEF RoleConsistent
<1>6. QED BY <1>3, <1>4, <1>5

\* Removing resources a client holds leaves all its entries.
LEMMA RemovedGood ==
  ASSUME NEW R \in RoleState, RoleConsistent(R), NEW f \in R.clients,
         NEW less \in [Slave -> Nat], Holds(R, f, less)
  PROVE  /\ Removed(R, f, less) \in RoleState
         /\ RoleConsistent(Removed(R, f, less))
         /\ Removed(R, f, less).frameworks = R.frameworks
         /\ Removed(R, f, less).clients = R.clients
         /\ Removed(R, f, less).active = R.active
         /\ Removed(R, f, less).held = [R.held EXCEPT ![f] = Minus(R.held[f], less)]
         /\ Removed(R, f, less).hasSorter = R.hasSorter
         /\ Removed(R, f, less).totals = R.totals
<1> DEFINE U == Removed(R, f, less)
<1>1. f \in Framework
  BY DEF RoleState
<1>2. Minus(R.allocation, less) \in [Slave -> Nat] /\ Minus(R.held[f], less) \in [Slave -> Nat]
  BY <1>1, PlusMinusTypes DEF RoleState, Holds
<1>3. /\ U.held = [R.held EXCEPT ![f] = Minus(R.held[f], less)]
      /\ U.entries = R.entries
      /\ U.frameworks = R.frameworks /\ U.isClient = R.isClient
      /\ U.hasSorter = R.hasSorter /\ U.totals = R.totals
      /\ U.clients = R.clients /\ U.active = R.active
  BY <1>1 DEF Removed, RoleState
<1>4. U \in RoleState
  BY <1>1, <1>2 DEF Removed, RoleState
<1>5. RoleConsistent(U)
  <2>1. \A g \in Framework, s \in Slave : U.held[g][s] > 0 => R.held[g][s] > 0
    <3>1. SUFFICES ASSUME NEW s \in Slave, U.held[f][s] > 0
                   PROVE  R.held[f][s] > 0
      BY <1>1, <1>3 DEF RoleState
    <3>2. R.held[f][s] - less[s] > 0 /\ R.held[f][s] \in Nat /\ less[s] \in Nat
      BY <1>1, <1>3, <3>1 DEF Minus, RoleState
    <3>3. QED BY <3>2
  <2>2. \A g \in Framework \ U.clients : U.held[g] = NoResources /\ U.entries[g] = {}
    BY <1>3 DEF RoleConsistent, RoleState
  <2>3. QED BY <1>3, <2>1, <2>2 DEF RoleConsistent
<1>6. QED BY <1>3, <1>4, <1>5

\* A framework that gets resources in a role ends up tracked under it.
LEMMA TrackAllocatedGood ==
  ASSUME NEW R \in RoleState, RoleConsistent(R), NEW f \in Framework,
         NEW more \in [Slave -> Nat], NEW totals \in [Slave -> Nat],
         R.hasSorter => R.totals = totals
  PROVE  LET T == TrackAllocated(R, f, more, totals) IN
         /\ T \in RoleState
         /\ RoleConsistent(T)
         /\ R.clients \subseteq T.clients /\ T.clients \subseteq R.clients \cup {f}
         /\ T.active = R.active
         /\ T.held = [R.held EXCEPT ![f] = Plus(R.held[f], more)]
         /\ T.hasSorter => T.totals = totals
<1>1. CASE more = NoResources
  <2>1. Plus(R.held[f], more) = R.held[f]
    BY <1>1 DEF Plus, NoResources, RoleState
  <2>2. R.held = [R.held EXCEPT ![f] = Plus(R.held[f], more)]
    BY <2>1 DEF RoleState
  <2>3. TrackAllocated(R, f, more, totals) = R
    BY <1>1 DEF TrackAllocated
  <2>4. QED BY <2>2, <2>3
<1>2. CASE more # NoResources /\ f \in R.frameworks
  <2>1. f \in R.clients
    BY <1>2 DEF RoleConsistent
  <2>2. TrackAllocated(R, f, more, totals) = Allocated(R, f, more)
    BY <1>2 DEF TrackAllocated
  <2>3. QED BY <2>1, <2>2, AllocatedGood
<1>3. CASE more # NoResources /\ f \notin R.frameworks
  <2> DEFINE T == Track(R, f, totals)
  <2>1. /\ T \in RoleState /\ RoleConsistent(T)
        /\ T.clients = R.clients \cup {f} /\ T.active = R.active /\ T.held = R.held
        /\ T.totals = totals
    BY <1>3, TrackGood
  <2>2. TrackAllocated(R, f, more, totals) = Allocated(T, f, more)
    BY <1>3 DEF TrackAllocated
  <2> HIDE DEF T
  <2>3. f \in T.clients
    BY <2>1
  <2>4. QED BY <2>1, <2>2, <2>3, AllocatedGood
<1>4. QED BY <1>1, <1>2, <1>3

\* An agent's total changes in the totals and nowhere else.
LEMMA ChangeTotalGood ==
  ASSUME NEW R \in RoleState, RoleConsistent(R), NEW s \in Slave,
         NEW old \in Nat, NEW new \in Nat, R.hasSorter => R.totals[s] = old
  PROVE  LET C == ChangeTotal(R, s, old, new) IN
         /\ C \in RoleState
         /\ RoleConsistent(C)
         /\ C.frameworks = R.frameworks
         /\ C.clients = R.clients
         /\ C.active = R.active
         /\ C.held = R.held
         /\ C.hasSorter = R.hasSorter
         /\ C.hasSorter => C.totals = [R.totals EXCEPT ![s] = new]
<1>1. CASE ~R.hasSorter
  BY <1>1 DEF ChangeTotal
<1>2. CASE R.hasSorter
  <2> DEFINE C == [R EXCEPT !.totals[s] = R.totals[s] - old + new]
  <2>1. R.totals[s] - old + new = new
    BY <1>2
  <2>2. C \in RoleState
    BY <2>1 DEF RoleState
  <2>3. /\ C.totals = [R.totals EXCEPT ![s] = new]
        /\ C.held = R.held /\ C.entries = R.entries
        /\ C.frameworks = R.frameworks /\ C.isClient = R.isClient
        /\ C.hasSorter = R.hasSorter
        /\ C.clients = R.clients /\ C.active = R.active
    BY <2>1 DEF RoleState
  <2>4. RoleConsistent(C)
    BY <2>3 DEF RoleConsistent
  <2>5. ChangeTotal(R, s, old, new) = C
    BY <1>2 DEF ChangeTotal
  <2>6. QED BY <2>2, <2>3, <2>4, <2>5
<1>3. QED BY <1>1, <1>2

-----------------------------------------------------------------------------
(* The roleSorter's allocation of a role is what its clients hold together. *)

SumsClients(R) ==
  \A s \in Slave : R.allocation[s] = SumFunction([f \in Framework |-> R.held[f][s]])

\* What each framework holds on agent s.
LEMMA HeldOnType ==
  ASSUME NEW R \in RoleState, NEW s \in Slave
  PROVE  [f \in Framework |-> R.held[f][s]] \in [Framework -> Nat]
BY DEF RoleState

\* The sum follows when, on each agent, one framework's share changes and the role's
\* allocation by as much.
LEMMA SumFollows ==
  ASSUME IsFiniteSet(Framework), NEW R \in RoleState, NEW Q \in RoleState, SumsClients(R),
         \A s \in Slave :
           \/ Q.allocation[s] = R.allocation[s] /\ \A g \in Framework : Q.held[g][s] = R.held[g][s]
           \/ \E f \in Framework :
                /\ Q.allocation[s] = R.allocation[s] - R.held[f][s] + Q.held[f][s]
                /\ \A g \in Framework \ {f} : Q.held[g][s] = R.held[g][s]
  PROVE  SumsClients(Q)
<1> SUFFICES ASSUME NEW s \in Slave
             PROVE  Q.allocation[s] = SumFunction([f \in Framework |-> Q.held[f][s]])
  BY DEF SumsClients
<1>1. R.allocation[s] = SumFunction([f \in Framework |-> R.held[f][s]])
  BY DEF SumsClients
<1>2. CASE Q.allocation[s] = R.allocation[s] /\ \A g \in Framework : Q.held[g][s] = R.held[g][s]
  <2>1. [f \in Framework |-> Q.held[f][s]] = [f \in Framework |-> R.held[f][s]]
    BY <1>2
  <2> QED BY <1>1, <1>2, <2>1
<1>3. ASSUME NEW f \in Framework,
             Q.allocation[s] = R.allocation[s] - R.held[f][s] + Q.held[f][s],
             \A g \in Framework \ {f} : Q.held[g][s] = R.held[g][s]
      PROVE  Q.allocation[s] = SumFunction([h \in Framework |-> Q.held[h][s]])
  <2>1. PICK a \in [Framework -> Nat] : a = [h \in Framework |-> R.held[h][s]]
    BY HeldOnType
  <2>2. PICK b \in [Framework -> Nat] : b = [h \in Framework |-> Q.held[h][s]]
    BY HeldOnType
  <2>3. \A g \in Framework \ {f} : b[g] = a[g]
    BY <1>3, <2>1, <2>2
  <2>4. SumFunction(b) = SumFunction(a) - a[f] + b[f]
    BY ONLY <2>3, SumFunctionChangesAt, a \in [Framework -> Nat], b \in [Framework -> Nat],
            f \in Framework, IsFiniteSet(Framework)
  <2>5. a[f] = R.held[f][s] /\ b[f] = Q.held[f][s]
    BY <2>1, <2>2
  <2>6. R.allocation[s] = SumFunction(a)
    BY <1>1, <2>1
  <2>7. Q.allocation[s] = SumFunction(b)
    BY <1>3, <2>4, <2>5, <2>6
  <2> QED BY <2>2, <2>7
<1> QED BY <1>2, <1>3

\* Nobody holds anything: there is nothing to sum.
LEMMA SumOfNobody ==
  ASSUME IsFiniteSet(Framework), NEW R \in RoleState, R.allocation = NoResources,
         \A f \in Framework : R.held[f] = NoResources
  PROVE  SumsClients(R)
<1> SUFFICES ASSUME NEW s \in Slave
             PROVE  R.allocation[s] = SumFunction([f \in Framework |-> R.held[f][s]])
  BY DEF SumsClients
<1>1. PICK a \in [Framework -> Nat] : a = [h \in Framework |-> R.held[h][s]]
  BY HeldOnType
<1>2. \A f \in Framework : a[f] = 0
  BY <1>1 DEF NoResources
<1>3. SumFunction(a) = 0
  BY <1>2, SumFunctionOfZeros
<1> QED BY <1>1, <1>3 DEF NoResources

\* No client holds more than its role: what the CHECKs of the roleSorter need.
LEMMA ClientWithinRole ==
  ASSUME IsFiniteSet(Framework), NEW R \in RoleState, SumsClients(R)
  PROVE  \A f \in Framework, s \in Slave : R.held[f][s] <= R.allocation[s]
<1> TAKE f \in Framework, s \in Slave
<1>1. PICK a \in [Framework -> Nat] : a = [h \in Framework |-> R.held[h][s]]
  BY HeldOnType
<1>2. a[f] <= SumFunction(a)
  BY SumFunctionType
<1>3. a[f] = R.held[f][s]
  BY <1>1
<1>4. R.allocation[s] = SumFunction(a)
  BY <1>1 DEF SumsClients
<1> QED BY <1>2, <1>3, <1>4

\* A framework that joins holds nothing, and the first one finds an empty role.
LEMMA TrackSums ==
  ASSUME IsFiniteSet(Framework), NEW R \in RoleState, RoleConsistent(R), SumsClients(R),
         NEW f \in Framework, NEW totals \in [Slave -> Nat], f \notin R.frameworks
  PROVE  SumsClients(Track(R, f, totals))
<1>1. Track(R, f, totals) \in RoleState /\ Track(R, f, totals).held = R.held
  BY TrackGood
<1>2. CASE R.frameworks = {}
  <2>1. Track(R, f, totals).allocation = NoResources
    BY <1>2 DEF Track
  <2>2. \A g \in Framework : R.held[g] = NoResources
    BY <1>2 DEF RoleConsistent
  <2> QED BY <1>1, <2>1, <2>2, SumOfNobody
<1>3. CASE R.frameworks # {}
  <2>1. Track(R, f, totals).allocation = R.allocation
    BY <1>3 DEF Track
  <2> QED BY <1>1, <2>1 DEF SumsClients
<1> QED BY <1>2, <1>3

\* A framework leaves with nothing held, so the others' sum is the role's still.
LEMMA UntrackSums ==
  ASSUME IsFiniteSet(Framework), NEW R \in RoleState, RoleConsistent(R), SumsClients(R),
         NEW f \in R.frameworks, R.held[f] = NoResources
  PROVE  SumsClients(Untrack(R, f))
<1> DEFINE U == Untrack(R, f)
<1>1. U \in RoleState /\ U.held = [R.held EXCEPT ![f] = NoResources]
  BY UntrackGood
<1>2. U.held = R.held
  BY <1>1 DEF RoleState
<1>3. CASE R.frameworks \ {f} = {}
  <2>1. U.allocation = NoResources
    BY <1>3 DEF Untrack
  <2>2. \A g \in Framework : R.held[g] = NoResources
    BY <1>3 DEF RoleConsistent
  <2> QED BY <1>1, <1>2, <2>1, <2>2, SumOfNobody
<1>4. CASE R.frameworks \ {f} # {}
  <2>1. U.allocation = R.allocation
    BY <1>4 DEF Untrack
  <2> QED BY <1>2, <2>1 DEF SumsClients
<1> QED BY <1>3, <1>4

\* What is allocated to a client, or taken from it, is added to its role or taken from it.
LEMMA AllocationSums ==
  ASSUME IsFiniteSet(Framework), NEW R \in RoleState, RoleConsistent(R), SumsClients(R),
         NEW f \in R.clients, NEW more \in [Slave -> Nat]
  PROVE  /\ SumsClients(Allocated(R, f, more))
         /\ Holds(R, f, more) => /\ SumsClients(Unallocated(R, f, more))
                                 /\ SumsClients(Removed(R, f, more))
<1>0. /\ f \in Framework
      /\ R.allocation \in [Slave -> Nat] /\ R.held \in [Framework -> [Slave -> Nat]]
  BY DEF RoleState
<1>1. SumsClients(Allocated(R, f, more))
  <2> DEFINE A == Allocated(R, f, more)
  <2>1. A \in RoleState /\ A.held = [R.held EXCEPT ![f] = Plus(R.held[f], more)]
    BY AllocatedGood
  <2>2. A.allocation = Plus(R.allocation, more)
    BY DEF Allocated
  <2>3. ASSUME NEW s \in Slave
        PROVE  /\ A.allocation[s] = R.allocation[s] - R.held[f][s] + A.held[f][s]
               /\ \A g \in Framework \ {f} : A.held[g][s] = R.held[g][s]
    BY <1>0, <2>1, <2>2 DEF Plus
  <2>4. ASSUME NEW B, B = A PROVE SumsClients(B)
    <3> HIDE DEF A
    <3> QED BY <1>0, <2>1, <2>3, <2>4, SumFollows
  <2> QED BY <2>4
<1>2. ASSUME NEW A \in RoleState, Holds(R, f, more),
             A.held = [R.held EXCEPT ![f] = Minus(R.held[f], more)],
             A.allocation = Minus(R.allocation, more)
      PROVE  SumsClients(A)
  <2>1. ASSUME NEW s \in Slave
        PROVE  /\ A.allocation[s] = R.allocation[s] - R.held[f][s] + A.held[f][s]
               /\ \A g \in Framework \ {f} : A.held[g][s] = R.held[g][s]
    BY <1>0, <1>2 DEF Minus
  <2> QED BY <1>0, <2>1, SumFollows
<1>3. ASSUME Holds(R, f, more) PROVE SumsClients(Unallocated(R, f, more))
  <2>1. Unallocated(R, f, more).allocation = Minus(R.allocation, more)
    BY DEF Unallocated
  <2> QED BY <1>2, <1>3, <2>1, UnallocatedGood
<1>4. ASSUME Holds(R, f, more) PROVE SumsClients(Removed(R, f, more))
  <2>1. Removed(R, f, more).allocation = Minus(R.allocation, more)
    BY DEF Removed
  <2> QED BY <1>2, <1>3, <2>1, RemovedGood, <1>4
<1> QED BY <1>1, <1>3, <1>4

\* Tracking a framework with what it has allocated keeps the role sorter the sum of the clients.
LEMMA TrackAllocatedSums ==
  ASSUME IsFiniteSet(Framework), NEW R \in RoleState, RoleConsistent(R), SumsClients(R),
         NEW f \in Framework, NEW more \in [Slave -> Nat], NEW totals \in [Slave -> Nat]
  PROVE  SumsClients(TrackAllocated(R, f, more, totals))
<1>1. CASE more = NoResources
  BY <1>1 DEF TrackAllocated
<1>2. CASE more # NoResources /\ f \in R.frameworks
  <2>1. f \in R.clients
    BY <1>2 DEF RoleConsistent
  <2> QED BY <1>2, <2>1, AllocationSums DEF TrackAllocated
<1>3. CASE more # NoResources /\ f \notin R.frameworks
  <2>1. PICK T : T = Track(R, f, totals)
    OBVIOUS
  <2>2. T \in RoleState /\ RoleConsistent(T) /\ f \in T.clients
    BY <1>3, <2>1, TrackGood
  <2>3. SumsClients(T)
    BY <1>3, <2>1, TrackSums
  <2> QED BY <1>3, <2>1, <2>2, <2>3, AllocationSums DEF TrackAllocated
<1> QED BY <1>1, <1>2, <1>3

\* Whatever leaves allocations alone.
LEMMA SameAllocationsSums ==
  ASSUME NEW R, SumsClients(R), NEW Q, Q.allocation = R.allocation, Q.held = R.held
  PROVE  SumsClients(Q)
BY DEF SumsClients

-----------------------------------------------------------------------------
(* The invariant.                                                          *)

Known == Added \cup completedFrameworks

Global ==
  /\ Added \subseteq Framework
  /\ \A f \in Added : /\ frameworks[f] \in FrameworkState
                      /\ frameworks[f].suppressedRoles \subseteq frameworks[f].roles
  /\ completedFrameworks \subseteq Framework \ Added
  /\ DOMAIN slaves \subseteq Slave
  /\ \A s \in DOMAIN slaves : slaves[s] \in SlaveState
  /\ roleSorterTotal = Totals
  /\ allocationCandidates \subseteq DOMAIN slaves
  /\ allocation \in BOOLEAN
  /\ offers \in Books
  /\ used \in Books
  /\ \A f \in Framework \ Known, r \in Role, s \in Slave : offers[f][r][s] = 0

RoleInv(r) ==
  /\ roles[r] \in RoleState
  /\ RoleConsistent(roles[r])
  /\ roles[r].clients \subseteq Known
  /\ \A f \in Added : r \in frameworks[f].roles => f \in roles[r].clients
  /\ \A f \in roles[r].active :
       f \in Added /\ r \in frameworks[f].roles \ frameworks[f].suppressedRoles
  /\ \A f \in Added :
       frameworks[f].active /\ r \in frameworks[f].roles \ frameworks[f].suppressedRoles
         => f \in roles[r].active
  /\ \A f \in Added, s \in Slave : roles[r].held[f][s] = Outstanding(f, r, s)
  /\ roles[r].hasSorter => roles[r].totals = Totals

IInv ==
  /\ Global
  /\ roles = [r \in Role |-> roles[r]]
  /\ \A r \in Role : RoleInv(r)

-----------------------------------------------------------------------------
(* Facts used throughout.                                                  *)

\* The agents' totals, as a sorter is told them, are numbers.
LEMMA TotalsType ==
  ASSUME DOMAIN slaves \subseteq Slave, \A s \in DOMAIN slaves : slaves[s] \in SlaveState
  PROVE  Totals \in [Slave -> Nat]
BY DEF Totals, SlaveState

\* The books at one entry are a number.
LEMMA BooksType ==
  \A b \in Books, f \in Framework, r \in Role :
    /\ b[f][r] \in [Slave -> Nat]
    /\ \A s \in Slave : b[f][r][s] \in Nat
BY DEF Books

\* The allocator starts with the invariant.
LEMMA InitIInv == Init => IInv
<1> SUFFICES ASSUME Init PROVE IInv
  OBVIOUS
<1>1. Added = {} /\ DOMAIN slaves = {}
  BY DEF Init, Added
<1>2. Totals = NoResources
  BY <1>1 DEF Totals, NoResources
<1>3. Nothing \in Books /\ \A f \in Framework, r \in Role, s \in Slave : Nothing[f][r][s] = 0
  BY ResourceTypes DEF Nothing, Books, NoResources
<1>4. Global
  BY <1>1, <1>2, <1>3 DEF Init, Global
<1>5. ASSUME NEW r \in Role PROVE RoleInv(r)
  <2>1. roles[r] = Untracked
    BY DEF Init
  <2>2. roles[r].clients = {} /\ roles[r].active = {} /\ roles[r].hasSorter = FALSE
    BY <2>1 DEF Untracked
  <2>3. QED BY <1>1, <2>1, <2>2, UntrackedGood DEF RoleInv
<1>6. roles = [r \in Role |-> roles[r]]
  BY DEF Init
<1>7. QED BY <1>4, <1>5, <1>6 DEF IInv

-----------------------------------------------------------------------------
(* Calls about frameworks.                                                 *)

\* Activating a framework: it joins the sorts of the roles it has not suppressed.
LEMMA ActivateFrameworkKeeps ==
  ASSUME IInv, NEW f \in Framework, ActivateFramework(f)
  PROVE  IInv'
<1> USE DEF IInv
<1>1. /\ f \in Added
      /\ Added' = Added /\ Totals' = Totals /\ Known' = Known
      /\ \A g \in Added : /\ frameworks'[g].roles = frameworks[g].roles
                          /\ frameworks'[g].suppressedRoles = frameworks[g].suppressedRoles
                          /\ frameworks'[g] \in FrameworkState
                          /\ g # f => frameworks'[g] = frameworks[g]
  BY DEF ActivateFramework, Added, Known, Totals, Global, FrameworkState
<1>2. Global'
  BY <1>1 DEF ActivateFramework, Global, Allocate
<1>3. ASSUME NEW r \in Role PROVE RoleInv(r)'
  <2>1. CASE r \in frameworks[f].roles \ frameworks[f].suppressedRoles
    <3>1. f \in roles[r].clients
      BY <1>1, <2>1 DEF RoleInv
    <3>2. roles'[r] = Activate(roles[r], f)
      BY <2>1 DEF ActivateFramework
    <3>3. QED BY <1>1, <2>1, <3>1, <3>2, ActivateGood DEF RoleInv, ActivateFramework, Outstanding
  <2>2. CASE r \notin frameworks[f].roles \ frameworks[f].suppressedRoles
    <3>1. roles'[r] = roles[r]
      BY <2>2 DEF ActivateFramework
    <3>2. QED BY <1>1, <2>2, <3>1 DEF RoleInv, ActivateFramework, Outstanding
  <2>3. QED BY <2>1, <2>2
<1>4. QED BY <1>2, <1>3 DEF ActivateFramework

\* Deactivating a framework: it leaves every sort.
LEMMA DeactivateFrameworkKeeps ==
  ASSUME IInv, NEW f \in Framework, DeactivateFramework(f)
  PROVE  IInv'
<1> USE DEF IInv
<1>1. /\ f \in Added
      /\ Added' = Added /\ Totals' = Totals /\ Known' = Known
      /\ \A g \in Added : /\ frameworks'[g].roles = frameworks[g].roles
                          /\ frameworks'[g].suppressedRoles = frameworks[g].suppressedRoles
                          /\ frameworks'[g] \in FrameworkState
                          /\ g # f => frameworks'[g] = frameworks[g]
      /\ frameworks'[f].active = FALSE
  BY DEF DeactivateFramework, Added, Known, Totals, Global, FrameworkState
<1>2. Global'
  BY <1>1 DEF DeactivateFramework, Global, NoAllocate
<1>3. ASSUME NEW r \in Role PROVE RoleInv(r)'
  <2>1. CASE r \in frameworks[f].roles
    <3>1. roles'[r] = Deactivate(roles[r], f)
      BY <2>1 DEF DeactivateFramework
    <3>2. QED BY <1>1, <2>1, <3>1, DeactivateGood DEF RoleInv, DeactivateFramework, Outstanding
  <2>2. CASE r \notin frameworks[f].roles
    <3>1. roles'[r] = roles[r]
      BY <2>2 DEF DeactivateFramework
    <3>2. QED BY <1>1, <2>2, <3>1 DEF RoleInv, DeactivateFramework, Outstanding
  <2>3. QED BY <2>1, <2>2
<1>4. QED BY <1>2, <1>3 DEF DeactivateFramework

\* Suppressing roles: the framework leaves their sorts, active or not.
LEMMA SuppressOffersKeeps ==
  ASSUME IInv, NEW f \in Framework, NEW rs \in SUBSET Role, SuppressOffers(f, rs)
  PROVE  IInv'
<1> USE DEF IInv
<1> DEFINE which == IF rs = {} THEN frameworks[f].roles ELSE rs
<1>1. f \in Added /\ which \subseteq frameworks[f].roles
  BY DEF SuppressOffers
<1>2. /\ Added' = Added /\ Totals' = Totals /\ Known' = Known
      /\ \A g \in Added : /\ frameworks'[g].roles = frameworks[g].roles
                          /\ frameworks'[g].active = frameworks[g].active
                          /\ frameworks'[g] \in FrameworkState
                          /\ g # f => frameworks'[g] = frameworks[g]
      /\ frameworks'[f].suppressedRoles = frameworks[f].suppressedRoles \cup which
  BY <1>1 DEF SuppressOffers, Added, Known, Totals, Global, FrameworkState
<1>3. Global'
  BY <1>1, <1>2 DEF SuppressOffers, Global, NoAllocate
<1>4. ASSUME NEW r \in Role PROVE RoleInv(r)'
  <2>1. CASE r \in which
    <3>1. roles'[r] = Deactivate(roles[r], f)
      BY <2>1 DEF SuppressOffers
    <3>2. QED BY <1>1, <1>2, <2>1, <3>1, DeactivateGood DEF RoleInv, SuppressOffers, Outstanding
  <2>2. CASE r \notin which
    <3>1. roles'[r] = roles[r]
      BY <2>2 DEF SuppressOffers
    <3>2. QED BY <1>1, <1>2, <2>2, <3>1 DEF RoleInv, SuppressOffers, Outstanding
  <2>3. QED BY <2>1, <2>2
<1>5. QED BY <1>3, <1>4 DEF SuppressOffers

\* Reviving roles: the framework, a client of each, joins their sorts.
LEMMA ReviveOffersKeeps ==
  ASSUME IInv, NEW f \in Framework, NEW rs \in SUBSET Role, ReviveOffers(f, rs)
  PROVE  IInv'
<1> USE DEF IInv
<1> DEFINE which == IF rs = {} THEN frameworks[f].roles ELSE rs
<1>1. f \in Added /\ which \subseteq frameworks[f].roles
  BY DEF ReviveOffers
<1>2. /\ Added' = Added /\ Totals' = Totals /\ Known' = Known
      /\ \A g \in Added : /\ frameworks'[g].roles = frameworks[g].roles
                          /\ frameworks'[g].active = frameworks[g].active
                          /\ frameworks'[g] \in FrameworkState
                          /\ g # f => frameworks'[g] = frameworks[g]
      /\ frameworks'[f].suppressedRoles = frameworks[f].suppressedRoles \ which
  BY <1>1 DEF ReviveOffers, Added, Known, Totals, Global, FrameworkState
<1>3. Global'
  BY <1>1, <1>2 DEF ReviveOffers, Global, Allocate
<1>4. ASSUME NEW r \in Role PROVE RoleInv(r)'
  <2>1. CASE r \in which
    <3>1. f \in roles[r].clients
      BY <1>1, <2>1 DEF RoleInv
    <3>2. roles'[r] = Activate(roles[r], f)
      BY <2>1 DEF ReviveOffers
    <3>3. QED BY <1>1, <1>2, <2>1, <3>1, <3>2, ActivateGood DEF RoleInv, ReviveOffers, Outstanding
  <2>2. CASE r \notin which
    <3>1. roles'[r] = roles[r]
      BY <2>2 DEF ReviveOffers
    <3>2. QED BY <1>1, <1>2, <2>2, <3>1 DEF RoleInv, ReviveOffers, Outstanding
  <2>3. QED BY <2>1, <2>2
<1>5. QED BY <1>3, <1>4 DEF ReviveOffers

\* Adding a framework: it is not a client anywhere before, and ends up holding what
\* the master knows it uses.
LEMMA AddFrameworkKeeps ==
  ASSUME IInv, NEW f \in Framework, NEW rs \in SUBSET Role, NEW suppressed \in SUBSET Role,
         NEW active \in BOOLEAN, AddFramework(f, rs, suppressed, active)
  PROVE  IInv'
<1> USE DEF IInv
<1>1. /\ f \notin Known
      /\ Added' = Added \cup {f} /\ Totals' = Totals /\ Known' = Known \cup {f}
      /\ \A g \in Added : frameworks'[g] = frameworks[g]
      /\ frameworks'[f] = [roles |-> rs, suppressedRoles |-> suppressed, active |-> active]
      /\ UNCHANGED <<slaves, completedFrameworks, roleSorterTotal, offers, used>>
      /\ suppressed \subseteq rs
  BY DEF AddFramework, Added, Known, Totals, Global
<1>2. Global'
  <2>1. \A g \in Added' : /\ frameworks'[g] \in FrameworkState
                           /\ frameworks'[g].suppressedRoles \subseteq frameworks'[g].roles
    BY <1>1 DEF Global, FrameworkState
  <2>2. /\ Added' \subseteq Framework
        /\ completedFrameworks' \subseteq Framework \ Added'
    BY <1>1 DEF Global, Known
  <2>3. allocationCandidates' \subseteq DOMAIN slaves' /\ allocation' \in BOOLEAN
    BY <1>1 DEF AddFramework, Global, Allocate, NoAllocate
  <2>4. QED BY <1>1, <2>1, <2>2, <2>3 DEF Global
<1>3. Totals \in [Slave -> Nat]
  BY TotalsType DEF Global
<1>4. ASSUME NEW r \in Role PROVE RoleInv(r)'
  <2> DEFINE R == IF r \in rs THEN Track(roles[r], f, Totals) ELSE roles[r]
             S == IF r \in rs \ suppressed /\ active THEN Activate(R, f) ELSE R
             more == used[f][r]
  <2>1. roles'[r] = TrackAllocated(S, f, more, Totals)
    BY DEF AddFramework
  <2>2. /\ f \notin roles[r].clients /\ f \notin roles[r].frameworks
        /\ roles[r].held[f] = NoResources /\ f \notin roles[r].active
    BY <1>1 DEF RoleInv, RoleConsistent
  <2>3. /\ R \in RoleState /\ RoleConsistent(R)
        /\ R.clients = IF r \in rs THEN roles[r].clients \cup {f} ELSE roles[r].clients
        /\ R.active = roles[r].active
        /\ R.held = roles[r].held
        /\ R.hasSorter => R.totals = Totals
    <3>1. CASE r \in rs
      BY <3>1, <2>2, <1>3, TrackGood DEF RoleInv
    <3>2. CASE r \notin rs
      BY <3>2 DEF RoleInv
    <3>3. QED BY <3>1, <3>2
  <2> HIDE DEF R
  <2>4. /\ S \in RoleState /\ RoleConsistent(S)
        /\ S.clients = R.clients
        /\ S.active = IF r \in rs \ suppressed /\ active THEN R.active \cup {f} ELSE R.active
        /\ S.held = R.held
        /\ S.hasSorter => S.totals = Totals
    <3>1. CASE r \in rs \ suppressed /\ active
      <4>1. f \in R.clients
        BY <2>3, <3>1
      <4>2. QED BY <2>3, <3>1, <4>1, ActivateGood
    <3>2. CASE ~(r \in rs \ suppressed /\ active)
      BY <2>3, <3>2
    <3>3. QED BY <3>1, <3>2
  <2> HIDE DEF S
  <2>5. more \in [Slave -> Nat]
    BY BooksType DEF Global
  <2> DEFINE T == TrackAllocated(S, f, more, Totals)
  <2>6. /\ T \in RoleState
        /\ RoleConsistent(T)
        /\ S.clients \subseteq T.clients /\ T.clients \subseteq S.clients \cup {f}
        /\ T.active = S.active
        /\ T.held = [S.held EXCEPT ![f] = Plus(S.held[f], more)]
        /\ T.hasSorter => T.totals = Totals
    BY <1>3, <2>4, <2>5, TrackAllocatedGood
  <2> HIDE DEF T
  <2>7. \A s \in Slave : T.held[f][s] = Outstanding(f, r, s)'
    <3>1. ASSUME NEW s \in Slave PROVE T.held[f][s] = Outstanding(f, r, s)'
      <4>1. T.held[f][s] = 0 + more[s]
        BY <2>2, <2>3, <2>4, <2>6 DEF Plus, NoResources, RoleState
      <4>2. offers[f][r][s] = 0
        BY <1>1 DEF Global
      <4>3. Outstanding(f, r, s)' = offers[f][r][s] + used[f][r][s]
        BY <1>1 DEF Outstanding
      <4>4. QED BY <4>1, <4>2, <4>3
    <3>2. QED BY <3>1
  <2>8. \A g \in Added, s \in Slave : T.held[g][s] = Outstanding(g, r, s)'
    BY <1>1, <2>3, <2>4, <2>6 DEF Outstanding, RoleInv, RoleState, Known, Global
  <2>9. T.clients \subseteq Known'
    BY <1>1, <2>3, <2>4, <2>6 DEF RoleInv
  <2>10. \A g \in Added' : r \in frameworks'[g].roles => g \in T.clients
    BY <1>1, <2>3, <2>4, <2>6 DEF RoleInv
  <2>11. \A g \in T.active :
            g \in Added' /\ r \in frameworks'[g].roles \ frameworks'[g].suppressedRoles
    BY <1>1, <2>3, <2>4, <2>6 DEF RoleInv
  <2>12. \A g \in Added' :
           frameworks'[g].active /\ r \in frameworks'[g].roles \ frameworks'[g].suppressedRoles
             => g \in T.active
    BY <1>1, <2>3, <2>4, <2>6 DEF RoleInv
  <2>13. \A g \in Added', s \in Slave : T.held[g][s] = Outstanding(g, r, s)'
    BY <1>1, <2>7, <2>8
  <2>14. roles'[r] = T
    BY <2>1 DEF T
  <2>15. roles'[r].hasSorter => roles'[r].totals = Totals'
    BY <1>1, <2>6, <2>14
  <2>16. /\ roles'[r] \in RoleState /\ RoleConsistent(roles'[r])
         /\ roles'[r].clients \subseteq Known'
    BY <2>6, <2>9, <2>14
  <2>17. QED BY <2>10, <2>11, <2>12, <2>13, <2>14, <2>15, <2>16 DEF RoleInv
<1>5. QED BY <1>2, <1>4 DEF AddFramework

\* Removing a framework: roles it is not subscribed to may keep it as an inactive
\* client, so the invariant speaks of added frameworks only.
LEMMA RemoveFrameworkKeeps ==
  ASSUME IInv, NEW f \in Framework, RemoveFramework(f)
  PROVE  IInv'
<1> USE DEF IInv
<1>1. /\ f \in Added
      /\ Added' = Added \ {f} /\ Totals' = Totals /\ Known' = Known
      /\ \A g \in Added' : frameworks'[g] = frameworks[g]
      /\ UNCHANGED <<slaves, roleSorterTotal, offers, used, allocationCandidates, allocation>>
  BY DEF RemoveFramework, Added, Known, Totals, NoAllocate
<1>2. Global'
  <2>1. completedFrameworks' \subseteq Framework \ Added'
    BY <1>1 DEF RemoveFramework, Global
  <2>2. QED BY <1>1, <2>1 DEF Global
<1>3. ASSUME NEW r \in Role PROVE RoleInv(r)'
  <2>1. CASE r \in frameworks[f].roles
    <3> DEFINE less == roles[r].held[f]
               U == Unallocated(roles[r], f, less)
    <3>1. /\ f \in roles[r].clients /\ roles[r].hasSorter /\ less \in [Slave -> Nat]
          /\ Holds(roles[r], f, less)
      <4>1. f \in roles[r].clients
        BY <1>1, <2>1 DEF RoleInv
      <4>2. roles[r].hasSorter = (roles[r].frameworks # {}) /\ roles[r].clients = roles[r].frameworks
        BY DEF RoleInv, RoleConsistent
      <4>3. less \in [Slave -> Nat]
        BY DEF RoleInv, RoleState
      <4>4. Holds(roles[r], f, less)
        BY <2>1 DEF RemoveFramework
      <4>5. QED BY <4>1, <4>2, <4>3, <4>4
    <3>2. roles'[r] = Untrack(U, f)
      BY <2>1, <3>1 DEF RemoveFramework
    <3>3. /\ U \in RoleState /\ RoleConsistent(U)
          /\ U.frameworks = roles[r].frameworks
          /\ U.clients = roles[r].clients
          /\ U.active = roles[r].active
          /\ U.held = [roles[r].held EXCEPT ![f] = Minus(roles[r].held[f], less)]
          /\ U.hasSorter = roles[r].hasSorter
          /\ U.totals = roles[r].totals
      BY <3>1, UnallocatedGood DEF RoleInv
    <3> HIDE DEF U
    <3>4. f \in U.frameworks
      BY <3>1, <3>3 DEF RoleConsistent
    <3> DEFINE T == Untrack(U, f)
    <3>5. /\ T \in RoleState /\ RoleConsistent(T)
          /\ T.clients = U.clients \ {f}
          /\ T.active = U.active \ {f}
          /\ T.held = [U.held EXCEPT ![f] = NoResources]
          /\ T.hasSorter => U.hasSorter /\ T.totals = U.totals
      BY <3>3, <3>4, UntrackGood
    <3> HIDE DEF T
    <3>6. \A g \in Added' : T.held[g] = roles[r].held[g]
      BY <1>1, <3>3, <3>5 DEF RoleInv, RoleState, Global
    <3>7. \A g \in Added', s \in Slave : T.held[g][s] = Outstanding(g, r, s)'
      BY <1>1, <3>6 DEF RoleInv, Outstanding
    <3>8. T.hasSorter => T.totals = Totals'
      BY <1>1, <3>3, <3>5 DEF RoleInv
    <3>9. T.clients \subseteq Known'
      BY <1>1, <3>3, <3>5 DEF RoleInv
    <3>10. \A g \in Added' : r \in frameworks'[g].roles => g \in T.clients
      BY <1>1, <3>3, <3>5 DEF RoleInv
    <3>11. \A g \in T.active :
             g \in Added' /\ r \in frameworks'[g].roles \ frameworks'[g].suppressedRoles
      BY <1>1, <3>3, <3>5 DEF RoleInv
    <3>12. \A g \in Added' :
             frameworks'[g].active /\ r \in frameworks'[g].roles \ frameworks'[g].suppressedRoles
               => g \in T.active
      BY <1>1, <3>3, <3>5 DEF RoleInv
    <3>13. roles'[r] = T
      BY <3>2 DEF T
    <3>14. /\ roles'[r] \in RoleState /\ RoleConsistent(roles'[r])
           /\ roles'[r].clients \subseteq Known'
           /\ roles'[r].hasSorter => roles'[r].totals = Totals'
      BY <3>5, <3>8, <3>9, <3>13
    <3>15. QED BY <3>7, <3>10, <3>11, <3>12, <3>13, <3>14 DEF RoleInv
  <2>2. CASE r \notin frameworks[f].roles
    <3>1. roles'[r] = roles[r]
      BY <2>2 DEF RemoveFramework
    <3>2. f \notin roles[r].active
      BY <2>2 DEF RoleInv
    <3>3. \A g \in roles[r].active :
            g \in Added' /\ r \in frameworks'[g].roles \ frameworks'[g].suppressedRoles
      BY <1>1, <3>2 DEF RoleInv
    <3>4. \A g \in Added' :
            /\ r \in frameworks'[g].roles => g \in roles[r].clients
            /\ frameworks'[g].active /\ r \in frameworks'[g].roles \ frameworks'[g].suppressedRoles
                 => g \in roles[r].active
      BY <1>1 DEF RoleInv
    <3>5. \A g \in Added', s \in Slave : roles[r].held[g][s] = Outstanding(g, r, s)'
      BY <1>1 DEF RoleInv, Outstanding
    <3>6. roles[r].hasSorter => roles[r].totals = Totals'
      BY <1>1 DEF RoleInv
    <3>7. roles[r] \in RoleState /\ RoleConsistent(roles[r]) /\ roles[r].clients \subseteq Known'
      BY <1>1 DEF RoleInv
    <3>8. QED BY <3>1, <3>3, <3>4, <3>5, <3>6, <3>7 DEF RoleInv
  <2>3. QED BY <2>1, <2>2
<1>4. QED BY <1>2, <1>3 DEF RemoveFramework

\* The suppressed roles are, as updateFramework CHECKs, those it was given.
LEMMA UpdatedSuppressedCorrect ==
  ASSUME NEW old \in FrameworkState, old.suppressedRoles \subseteq old.roles,
         NEW rs \in SUBSET Role, NEW suppressed \in SUBSET Role, suppressed \subseteq rs
  PROVE  UpdatedSuppressed(old, rs, suppressed) = suppressed
BY DEF UpdatedSuppressed, FrameworkState

\* Updating a framework: role by role it subscribes, leaves, suppresses, revives.
LEMMA UpdateFrameworkKeeps ==
  ASSUME IInv, NEW f \in Framework, NEW rs \in SUBSET Role, NEW suppressed \in SUBSET Role,
         UpdateFramework(f, rs, suppressed)
  PROVE  IInv'
<1> USE DEF IInv
<1> DEFINE old == frameworks[f]
<1>1. f \in Added /\ suppressed \subseteq rs
  BY DEF UpdateFramework
<1>2. UpdatedSuppressed(old, rs, suppressed) = suppressed
  BY <1>1, UpdatedSuppressedCorrect DEF Global
<1>3. /\ Added' = Added /\ Totals' = Totals /\ Known' = Known
      /\ \A g \in Added : g # f => frameworks'[g] = frameworks[g]
      /\ frameworks'[f] \in FrameworkState
      /\ frameworks'[f].roles = rs
      /\ frameworks'[f].suppressedRoles = suppressed
      /\ frameworks'[f].active = old.active
      /\ UNCHANGED <<completedFrameworks, slaves, roleSorterTotal, offers, used,
                     allocationCandidates, allocation>>
  BY <1>1, <1>2 DEF UpdateFramework, Added, Known, Totals, Global, FrameworkState, NoAllocate
<1>4. Global'
  BY <1>1, <1>3 DEF Global
<1>5. Totals \in [Slave -> Nat]
  BY TotalsType DEF Global
<1>6. ASSUME NEW r \in Role PROVE RoleInv(r)'
  <2> DEFINE R == roles[r]
             sub == IF r \in rs \ old.roles THEN Subscribe(R, f) ELSE R
             left == Deactivate(sub, f)
             uns == IF r \notin old.roles \ rs THEN sub
                    ELSE IF left.entries[f] = {} THEN Untrack(left, f) ELSE left
             sup == IF r \in suppressed \ old.suppressedRoles THEN Deactivate(uns, f) ELSE uns
             T == IF r \in (old.suppressedRoles \ suppressed) \cap rs
                  THEN Activate(sup, f) ELSE sup
  <2>1. roles'[r] = T
    BY DEF UpdateFramework, UpdatedRole
  <2>2. /\ R \in RoleState /\ RoleConsistent(R) /\ (R.hasSorter => R.totals = Totals)
        /\ R.held[f] = NoResources \/ f \in R.clients
    BY DEF RoleInv, RoleConsistent
  <2>3. /\ sub \in RoleState /\ RoleConsistent(sub)
        /\ sub.clients = IF r \in rs \ old.roles THEN R.clients \cup {f} ELSE R.clients
        /\ sub.active = IF r \in rs \ old.roles THEN R.active \cup {f} ELSE R.active
        /\ sub.held = R.held
        /\ sub.hasSorter => sub.totals = Totals
    <3>1. CASE r \in rs \ old.roles
      <4> DEFINE K == IF f \in R.frameworks THEN R ELSE Track(R, f, Totals)
      <4>1. /\ K \in RoleState /\ RoleConsistent(K) /\ K.clients = R.clients \cup {f}
            /\ K.active = R.active /\ K.held = R.held
            /\ K.hasSorter => K.totals = Totals
        <5>1. CASE f \in R.frameworks
          BY <2>2, <5>1 DEF RoleConsistent
        <5>2. CASE f \notin R.frameworks
          BY <1>5, <2>2, <5>2, TrackGood
        <5>3. QED BY <5>1, <5>2
      <4>2. sub = Activate(K, f)
        BY <3>1 DEF Subscribe
      <4> HIDE DEF K
      <4>3. f \in K.clients
        BY <4>1
      <4>4. QED BY <3>1, <4>1, <4>2, <4>3, ActivateGood
    <3>2. CASE r \notin rs \ old.roles
      BY <2>2, <3>2
    <3>3. QED BY <3>1, <3>2
  <2> HIDE DEF sub
  <2>4. /\ left \in RoleState /\ RoleConsistent(left)
        /\ left.clients = sub.clients /\ left.active = sub.active \ {f}
        /\ left.held = sub.held
        /\ left.hasSorter => left.totals = Totals
    BY <2>3, DeactivateGood
  <2> HIDE DEF left
  <2>5. r \in old.roles \ rs /\ left.entries[f] = {} =>
          f \in left.frameworks /\ left.held[f] = NoResources
    <3>1. SUFFICES ASSUME r \in old.roles \ rs, left.entries[f] = {}
                   PROVE  f \in left.frameworks /\ left.held[f] = NoResources
      OBVIOUS
    <3>2. f \in R.clients
      BY <1>1, <3>1 DEF RoleInv
    <3>3. f \in left.frameworks
      BY <2>3, <2>4, <3>1, <3>2 DEF RoleConsistent
    <3>4. \A s \in Slave : left.held[f][s] = 0
      <4>1. \A s \in Slave : left.held[f][s] \in Nat
        BY <2>4 DEF RoleState
      <4>2. \A s \in Slave : ~(left.held[f][s] > 0)
        BY <2>4, <3>1 DEF RoleConsistent
      <4>3. QED BY <4>1, <4>2
    <3>5. left.held[f] \in [Slave -> Nat]
      BY <2>4 DEF RoleState
    <3>6. left.held[f] = NoResources
      BY <3>4, <3>5 DEF NoResources
    <3>7. QED BY <3>3, <3>6
  <2>6. /\ uns \in RoleState /\ RoleConsistent(uns)
        /\ uns.active = IF r \in old.roles \ rs THEN sub.active \ {f} ELSE sub.active
        /\ uns.held = sub.held
        /\ uns.hasSorter => uns.totals = Totals
        /\ uns.clients \subseteq sub.clients
        /\ \A g \in sub.clients : g # f => g \in uns.clients
        /\ r \notin old.roles \ rs => uns.clients = sub.clients
    <3>1. CASE r \notin old.roles \ rs
      BY <2>3, <3>1
    <3>2. CASE r \in old.roles \ rs /\ left.entries[f] # {}
      BY <2>4, <3>2
    <3>3. CASE r \in old.roles \ rs /\ left.entries[f] = {}
      <4>1. uns = Untrack(left, f) /\ f \in left.frameworks /\ left.held[f] = NoResources
        BY <2>5, <3>3
      <4>2. [left.held EXCEPT ![f] = NoResources] = left.held
        BY <2>4, <4>1 DEF RoleState
      <4>3. QED BY <2>4, <3>3, <4>1, <4>2, UntrackGood
    <3>4. QED BY <3>1, <3>2, <3>3
  <2> HIDE DEF uns
  <2>7. /\ sup \in RoleState /\ RoleConsistent(sup)
        /\ sup.active = IF r \in suppressed \ old.suppressedRoles
                        THEN uns.active \ {f} ELSE uns.active
        /\ sup.held = uns.held /\ sup.clients = uns.clients
        /\ sup.hasSorter => sup.totals = Totals
    <3>1. CASE r \in suppressed \ old.suppressedRoles
      <4>1. sup = Deactivate(uns, f)
        BY <3>1
      <4>2. QED BY <2>6, <3>1, <4>1, DeactivateGood
    <3>2. CASE r \notin suppressed \ old.suppressedRoles
      <4>1. sup = uns
        BY <3>2
      <4>2. QED BY <2>6, <3>2, <4>1
    <3>3. QED BY <3>1, <3>2
  <2> HIDE DEF sup
  <2>8. r \in rs => f \in sup.clients
    <3>1. r \in old.roles => f \in R.clients
      BY <1>1 DEF RoleInv
    <3>2. QED BY <2>3, <2>6, <2>7, <3>1
  <2>9. /\ T \in RoleState /\ RoleConsistent(T)
        /\ T.active = IF r \in (old.suppressedRoles \ suppressed) \cap rs
                      THEN sup.active \cup {f} ELSE sup.active
        /\ T.held = sup.held /\ T.clients = sup.clients
        /\ T.hasSorter => T.totals = Totals
    <3>1. CASE r \in (old.suppressedRoles \ suppressed) \cap rs
      <4>1. T = Activate(sup, f) /\ f \in sup.clients
        BY <2>8, <3>1
      <4>2. QED BY <2>7, <3>1, <4>1, ActivateGood
    <3>2. CASE r \notin (old.suppressedRoles \ suppressed) \cap rs
      <4>1. T = sup
        BY <3>2
      <4>2. QED BY <2>7, <3>2, <4>1
    <3>3. QED BY <3>1, <3>2
  <2> HIDE DEF T
  <2>10. \A g \in Added', s \in Slave : T.held[g][s] = Outstanding(g, r, s)'
    <3>1. T.held = R.held
      BY <2>3, <2>6, <2>7, <2>9
    <3>2. \A g \in Added, s \in Slave : R.held[g][s] = Outstanding(g, r, s)
      BY DEF RoleInv
    <3>3. \A g \in Added, s \in Slave : Outstanding(g, r, s)' = Outstanding(g, r, s)
      BY <1>3 DEF Outstanding
    <3>4. QED BY <1>3, <3>1, <3>2, <3>3
  <2>11. T.clients \subseteq Known'
    BY <1>1, <1>3, <2>3, <2>6, <2>7, <2>9 DEF RoleInv, Known
  <2>12. \A g \in Added' : r \in frameworks'[g].roles => g \in T.clients
    BY <1>1, <1>3, <2>3, <2>6, <2>7, <2>8, <2>9 DEF RoleInv
  <2>13. \A g \in T.active :
           g \in Added' /\ r \in frameworks'[g].roles \ frameworks'[g].suppressedRoles
    <3>1. \A g \in T.active : g # f => g \in R.active
      BY <2>3, <2>6, <2>7, <2>9
    <3>2. f \in T.active => r \in rs \ suppressed
      <4>1. /\ f \in R.active => r \in old.roles \ old.suppressedRoles
            /\ old.suppressedRoles \subseteq old.roles
        BY <1>1 DEF RoleInv, Global
      <4>2. QED BY <1>1, <2>3, <2>6, <2>7, <2>9, <4>1
    <3>3. QED BY <1>1, <1>3, <3>1, <3>2 DEF RoleInv
  <2>14. \A g \in Added' :
           frameworks'[g].active /\ r \in frameworks'[g].roles \ frameworks'[g].suppressedRoles
             => g \in T.active
    <3>1. \A g \in R.active : g # f => g \in T.active
      BY <2>3, <2>6, <2>7, <2>9
    <3>2. old.active /\ r \in rs \ suppressed => f \in T.active
      <4>1. old.active /\ r \in old.roles \ old.suppressedRoles => f \in R.active
        BY <1>1 DEF RoleInv
      <4>2. QED BY <1>1, <2>3, <2>6, <2>7, <2>9, <4>1
    <3>3. QED BY <1>1, <1>3, <3>1, <3>2 DEF RoleInv
  <2>15. roles'[r].hasSorter => roles'[r].totals = Totals'
    BY <1>3, <2>1, <2>9
  <2>16. /\ roles'[r] \in RoleState /\ RoleConsistent(roles'[r])
         /\ roles'[r].clients \subseteq Known'
    BY <2>1, <2>9, <2>11
  <2>17. roles'[r] = T
    BY <2>1
  <2>18. QED BY <2>10, <2>12, <2>13, <2>14, <2>15, <2>16, <2>17 DEF RoleInv
<1>7. QED BY <1>4, <1>6 DEF UpdateFramework
-----------------------------------------------------------------------------
(* Calls that leave the frameworks alone.                                  *)

\* What is left to show of a role when no framework changes.
LEMMA RoleKept ==
  ASSUME IInv, NEW r \in Role, UNCHANGED <<frameworks, completedFrameworks>>,
         roles'[r] \in RoleState, RoleConsistent(roles'[r]),
         roles'[r].clients \subseteq Known,
         \A g \in Added : r \in frameworks[g].roles => g \in roles'[r].clients,
         roles'[r].active = roles[r].active,
         \A g \in Added, s \in Slave : roles'[r].held[g][s] = Outstanding(g, r, s)',
         roles'[r].hasSorter => roles'[r].totals = Totals'
  PROVE  RoleInv(r)'
<1>1. Added' = Added /\ Known' = Known
  BY DEF Added, Known
<1>2. RoleInv(r)
  BY DEF IInv
<1>3. \A g \in roles'[r].active :
         g \in Added' /\ r \in frameworks'[g].roles \ frameworks'[g].suppressedRoles
  BY <1>1, <1>2 DEF RoleInv
<1>4. \A g \in Added' :
         frameworks'[g].active /\ r \in frameworks'[g].roles \ frameworks'[g].suppressedRoles
           => g \in roles'[r].active
  BY <1>1, <1>2 DEF RoleInv
<1>5. \A g \in Added' : r \in frameworks'[g].roles => g \in roles'[r].clients
  BY <1>1
<1>6. \A g \in Added', s \in Slave : roles'[r].held[g][s] = Outstanding(g, r, s)'
  BY <1>1
<1>7. roles'[r].clients \subseteq Known'
  BY <1>1
<1>8. QED BY <1>3, <1>4, <1>5, <1>6, <1>7 DEF RoleInv

\* The same when the role does not change either, nor the agents' totals or the books.
LEMMA RoleUntouched ==
  ASSUME IInv, NEW r \in Role, UNCHANGED <<frameworks, completedFrameworks>>,
         roles'[r] = roles[r], Totals' = Totals,
         \A g \in Added, s \in Slave : Outstanding(g, r, s)' = Outstanding(g, r, s)
  PROVE  RoleInv(r)'
<1>1. RoleInv(r)
  BY DEF IInv
<1>2. QED BY <1>1, RoleKept DEF RoleInv

\* The frameworks' part of Global survives a call that changes none of them.
LEMMA GlobalKept ==
  ASSUME Global, UNCHANGED <<frameworks, completedFrameworks>>,
         DOMAIN slaves' \subseteq Slave,
         \A s \in DOMAIN slaves' : slaves'[s] \in SlaveState,
         roleSorterTotal' = Totals',
         allocationCandidates' \subseteq DOMAIN slaves', allocation' \in BOOLEAN,
         offers' \in Books, used' \in Books,
         \A f \in Framework \ Known, r \in Role, s \in Slave : offers'[f][r][s] = 0
  PROVE  Global'
<1>1. Added' = Added /\ Known' = Known
  BY DEF Added, Known
<1>2. QED BY <1>1 DEF Global

\* The books after an agent or provider came with tasks of f.
LEMMA UsedOnGood ==
  ASSUME used \in Books, NEW s \in Slave, NEW f \in Framework, NEW tasks \in [Role -> Nat]
  PROVE  /\ UsedOn(s, f, tasks) \in Books
         /\ \A g \in Framework, r \in Role, t \in Slave :
              UsedOn(s, f, tasks)[g][r][t] =
                used[g][r][t] + IF g = f /\ t = s THEN tasks[r] ELSE 0
<1>1. \A r \in Role : /\ Plus(used[f][r], On(s, tasks[r])) \in [Slave -> Nat]
                      /\ \A t \in Slave : Plus(used[f][r], On(s, tasks[r]))[t] =
                           used[f][r][t] + IF t = s THEN tasks[r] ELSE 0
  <2>1. TAKE r \in Role
  <2>2. used[f][r] \in [Slave -> Nat] /\ On(s, tasks[r]) \in [Slave -> Nat]
    BY BooksType, ResourceTypes
  <2>3. \A t \in Slave : On(s, tasks[r])[t] = IF t = s THEN tasks[r] ELSE 0
    BY ResourceTypes
  <2>4. Plus(used[f][r], On(s, tasks[r])) \in [Slave -> Nat]
    BY <2>2, PlusMinusTypes
  <2>5. QED BY <2>3, <2>4 DEF Plus
<1>2. UsedOn(s, f, tasks) =
        [used EXCEPT ![f] = [r \in Role |-> Plus(used[f][r], On(s, tasks[r]))]]
  BY DEF UsedOn
<1>3. [r \in Role |-> Plus(used[f][r], On(s, tasks[r]))] \in [Role -> [Slave -> Nat]]
  BY <1>1
<1>4. UsedOn(s, f, tasks) \in Books
  BY <1>2, <1>3 DEF Books
<1>5. ASSUME NEW g \in Framework, NEW r \in Role, NEW t \in Slave
      PROVE  UsedOn(s, f, tasks)[g][r][t] =
               used[g][r][t] + IF g = f /\ t = s THEN tasks[r] ELSE 0
  <2>1. CASE g = f
    <3>1. UsedOn(s, f, tasks)[g][r] = Plus(used[f][r], On(s, tasks[r]))
      BY <1>2, <2>1 DEF Books
    <3>2. QED BY <1>1, <2>1, <3>1
  <2>2. CASE g # f
    <3>1. UsedOn(s, f, tasks)[g] = used[g]
      BY <1>2, <2>2 DEF Books
    <3>2. QED BY <2>2, <3>1, BooksType
  <2>3. QED BY <2>1, <2>2
<1>6. QED BY <1>4, <1>5

\* The role after an agent or provider came with tasks of f: known frameworks only.
LEMMA TrackTasksGood ==
  ASSUME NEW R \in RoleState, RoleConsistent(R), NEW s \in Slave, NEW f \in Framework,
         NEW n \in Nat, NEW totals \in [Slave -> Nat], R.hasSorter => R.totals = totals
  PROVE  LET T == TrackTasks(R, s, f, n, totals) IN
         /\ T \in RoleState /\ RoleConsistent(T)
         /\ R.clients \subseteq T.clients /\ T.clients \subseteq R.clients \cup Added
         /\ T.active = R.active
         /\ \A g \in Framework, t \in Slave :
              T.held[g][t] = R.held[g][t] + IF f \in Added /\ g = f /\ t = s THEN n ELSE 0
         /\ T.hasSorter => T.totals = totals
<1> DEFINE T == TrackTasks(R, s, f, n, totals)
<1>1. R.held \in [Framework -> [Slave -> Nat]]
  BY DEF RoleState
<1>2. CASE f \in Added
  <2>1. On(s, n) \in [Slave -> Nat] /\ \A t \in Slave : On(s, n)[t] = IF t = s THEN n ELSE 0
    BY ResourceTypes
  <2>2. T = TrackAllocated(R, f, On(s, n), totals)
    BY <1>2 DEF TrackTasks
  <2>3. /\ T \in RoleState /\ RoleConsistent(T)
        /\ R.clients \subseteq T.clients /\ T.clients \subseteq R.clients \cup {f}
        /\ T.active = R.active
        /\ T.held = [R.held EXCEPT ![f] = Plus(R.held[f], On(s, n))]
        /\ T.hasSorter => T.totals = totals
    BY <2>1, <2>2, TrackAllocatedGood
  <2> HIDE DEF T
  <2>4. ASSUME NEW g \in Framework, NEW t \in Slave
        PROVE  T.held[g][t] = R.held[g][t] + IF g = f /\ t = s THEN n ELSE 0
    <3>1. CASE g = f
      BY <1>1, <2>1, <2>3, <3>1 DEF Plus
    <3>2. CASE g # f
      BY <1>1, <2>3, <3>2
    <3>3. QED BY <3>1, <3>2
  <2>5. QED BY <1>2, <2>3, <2>4 DEF T
<1>3. CASE f \notin Added
  <2>1. T = R
    BY <1>3 DEF TrackTasks
  <2>2. QED BY <1>1, <1>3, <2>1
<1>4. QED BY <1>2, <1>3

-----------------------------------------------------------------------------
(* Calls about agents.                                                     *)

\* What one agent's record is worth to the totals.
LEMMA TotalsOf ==
  ASSUME Global, NEW s \in DOMAIN slaves
  PROVE  /\ s \in Slave /\ Totals[s] = slaves[s].total
         /\ slaves[s].total \in Nat /\ slaves[s].allocated \in Nat
         /\ slaves[s] \in SlaveState
BY DEF Global, Totals, SlaveState

\* A new agent: the sorters learn its total before its tasks are tracked, and the
\* sorters made for those tasks learn all totals at once.
LEMMA AddSlaveKeeps ==
  ASSUME IInv, NEW s \in Slave, NEW total \in Nat, NEW f \in Framework,
         NEW tasks \in [Role -> Nat], AddSlave(s, total, f, tasks)
  PROVE  IInv'
<1> USE DEF IInv
<1> DEFINE new == [Totals EXCEPT ![s] = total]
<1>1. /\ s \notin DOMAIN slaves
      /\ DOMAIN slaves' = DOMAIN slaves \cup {s}
      /\ \A t \in DOMAIN slaves : slaves'[t] = slaves[t]
      /\ slaves'[s] = [total |-> total, allocated |-> TotalOf(tasks), activated |-> TRUE]
      /\ TotalOf(tasks) \in 0..total
      /\ UNCHANGED <<frameworks, completedFrameworks, offers>>
      /\ used' = UsedOn(s, f, tasks)
      /\ roleSorterTotal' = [roleSorterTotal EXCEPT ![s] = @ + total]
  BY DEF AddSlave, Global
<1>2. Totals \in [Slave -> Nat] /\ new \in [Slave -> Nat] /\ Totals[s] = 0
  <2>1. Totals \in [Slave -> Nat]
    BY TotalsType DEF Global
  <2>2. Totals[s] = 0
    BY <1>1 DEF Totals
  <2>3. QED BY <2>1, <2>2
<1>3. Totals' = new
  <2>1. ASSUME NEW t \in Slave PROVE Totals'[t] = IF t = s THEN total ELSE Totals[t]
    BY <1>1 DEF Totals
  <2>2. Totals' = [t \in Slave |-> Totals'[t]] /\ new = [t \in Slave |-> new[t]]
    BY <1>2 DEF Totals
  <2>3. \A t \in Slave : Totals'[t] = new[t]
    BY <1>2, <2>1
  <2> HIDE DEF new
  <2>4. QED BY <2>2, <2>3
<1>4. Global'
  <2>1. \A t \in DOMAIN slaves' : slaves'[t] \in SlaveState
    <3>1. slaves'[s] \in SlaveState
      <4>1. TotalOf(tasks) \in Nat
        BY <1>1
      <4>2. QED BY <1>1, <4>1 DEF SlaveState
    <3>2. QED BY <1>1, <3>1 DEF Global
  <2>2. roleSorterTotal' = Totals'
    <3>1. roleSorterTotal = Totals
      BY DEF Global
    <3>2. roleSorterTotal' = [Totals EXCEPT ![s] = Totals[s] + total]
      BY <1>1, <3>1
    <3>3. Totals[s] + total = total
      BY <1>2
    <3>4. QED BY <1>3, <3>2, <3>3
  <2>3. allocationCandidates' \subseteq DOMAIN slaves' /\ allocation' \in BOOLEAN
    BY <1>1 DEF AddSlave, Allocate, Global
  <2>4. used' \in Books
    BY <1>1, UsedOnGood DEF Global
  <2>5. DOMAIN slaves' \subseteq Slave
    BY <1>1 DEF Global
  <2>6. QED BY <1>1, <2>1, <2>2, <2>3, <2>4, <2>5, GlobalKept DEF Global
<1>5. ASSUME NEW r \in Role PROVE RoleInv(r)'
  <2> DEFINE R == roles[r]
             C == ChangeTotal(R, s, 0, total)
             T == TrackTasks(C, s, f, tasks[r], new)
  <2>1. roles'[r] = T
    BY DEF AddSlave
  <2>2. /\ R \in RoleState /\ RoleConsistent(R) /\ R.clients \subseteq Known
        /\ R.hasSorter => R.totals = Totals
    BY DEF RoleInv
  <2>3. /\ C \in RoleState /\ RoleConsistent(C)
        /\ C.clients = R.clients /\ C.active = R.active /\ C.held = R.held
        /\ C.hasSorter = R.hasSorter
        /\ C.hasSorter => C.totals = [R.totals EXCEPT ![s] = total]
    BY <1>2, <2>2, ChangeTotalGood
  <2>4. C.hasSorter => C.totals = new
    BY <2>2, <2>3
  <2> HIDE DEF C
  <2>5. /\ T \in RoleState /\ RoleConsistent(T)
        /\ C.clients \subseteq T.clients /\ T.clients \subseteq C.clients \cup Added
        /\ T.active = C.active
        /\ \A g \in Framework, t \in Slave :
             T.held[g][t] = C.held[g][t] + IF f \in Added /\ g = f /\ t = s THEN tasks[r] ELSE 0
        /\ T.hasSorter => T.totals = new
    <3> HIDE DEF new
    <3>1. QED BY <1>2, <2>3, <2>4, TrackTasksGood
  <2> HIDE DEF T
  <2>6. ASSUME NEW g \in Added, NEW t \in Slave
        PROVE  T.held[g][t] = Outstanding(g, r, t)'
    <3>1. g \in Framework
      BY DEF Global
    <3>2. R.held[g][t] = offers[g][r][t] + used[g][r][t]
      BY DEF RoleInv, Outstanding
    <3>3. used'[g][r][t] = used[g][r][t] + IF g = f /\ t = s THEN tasks[r] ELSE 0
      BY <1>1, <3>1, UsedOnGood DEF Global
    <3>4. offers[g][r][t] \in Nat /\ used[g][r][t] \in Nat
      BY <3>1, BooksType DEF Global
    <3>5. T.held[g][t] = R.held[g][t] + IF g = f /\ t = s THEN tasks[r] ELSE 0
      BY <2>3, <2>5, <3>1
    <3>6. QED BY <1>1, <3>2, <3>3, <3>4, <3>5 DEF Outstanding
  <2>7. T.clients \subseteq Known
    BY <2>2, <2>3, <2>5 DEF Known
  <2>8. \A g \in Added : r \in frameworks[g].roles => g \in T.clients
    BY <2>3, <2>5 DEF RoleInv
  <2>9. QED BY <1>1, <1>3, <2>1, <2>3, <2>5, <2>6, <2>7, <2>8, RoleKept
<1>6. QED BY <1>4, <1>5 DEF AddSlave

\* The totals of a role follow one agent's total, which is all that changes.
LEMMA RoleTotalKept ==
  ASSUME IInv, NEW r \in Role, NEW s \in DOMAIN slaves, NEW new \in Nat,
         UNCHANGED <<frameworks, completedFrameworks, offers, used>>,
         roles'[r] = ChangeTotal(roles[r], s, slaves[s].total, new),
         Totals' = [Totals EXCEPT ![s] = new]
  PROVE  RoleInv(r)'
<1> DEFINE R == roles[r]
           C == ChangeTotal(R, s, slaves[s].total, new)
<1>1. RoleInv(r) /\ Global
  BY DEF IInv
<1>2. s \in Slave /\ Totals[s] = slaves[s].total /\ slaves[s].total \in Nat
  BY <1>1, TotalsOf
<1>3. /\ C \in RoleState /\ RoleConsistent(C)
      /\ C.clients = R.clients /\ C.active = R.active /\ C.held = R.held
      /\ C.hasSorter = R.hasSorter
      /\ C.hasSorter => C.totals = [R.totals EXCEPT ![s] = new]
  <2>1. R \in RoleState /\ RoleConsistent(R) /\ (R.hasSorter => R.totals[s] = slaves[s].total)
    BY <1>1, <1>2 DEF RoleInv
  <2>2. QED BY <1>2, <2>1, ChangeTotalGood
<1> HIDE DEF C
<1>4. C.hasSorter => C.totals = Totals'
  BY <1>1, <1>3 DEF RoleInv
<1>5. \A g \in Added, t \in Slave : C.held[g][t] = Outstanding(g, r, t)'
  BY <1>1, <1>3 DEF RoleInv, Outstanding
<1>6. C.clients \subseteq Known /\ \A g \in Added : r \in frameworks[g].roles => g \in C.clients
  BY <1>1, <1>3 DEF RoleInv
<1>7. roles'[r] = C
  BY DEF C
<1>8. QED BY <1>3, <1>4, <1>5, <1>6, <1>7, RoleKept

\* An agent goes: its allocations stay in the sorters and in the master's books.
LEMMA RemoveSlaveKeeps ==
  ASSUME IInv, NEW s \in Slave, RemoveSlave(s)
  PROVE  IInv'
<1> USE DEF IInv
<1>1. /\ s \in DOMAIN slaves
      /\ DOMAIN slaves' = DOMAIN slaves \ {s}
      /\ \A t \in DOMAIN slaves' : slaves'[t] = slaves[t]
      /\ roleSorterTotal' = [roleSorterTotal EXCEPT ![s] = @ - slaves[s].total]
      /\ UNCHANGED <<frameworks, completedFrameworks, allocation, offers, used>>
      /\ allocationCandidates' = allocationCandidates \ {s}
  BY DEF RemoveSlave
<1>2. Totals \in [Slave -> Nat] /\ Totals[s] = slaves[s].total /\ slaves[s].total \in Nat
  BY <1>1, TotalsType, TotalsOf DEF Global
<1>3. Totals' = [Totals EXCEPT ![s] = 0]
  BY <1>1 DEF Totals
<1>4. Global'
  <2>1. roleSorterTotal' = Totals'
    <3>1. roleSorterTotal' = [Totals EXCEPT ![s] = Totals[s] - slaves[s].total]
      BY <1>1 DEF Global
    <3>2. Totals[s] - slaves[s].total = 0
      BY <1>2
    <3>3. QED BY <1>3, <3>1, <3>2
  <2>2. DOMAIN slaves' \subseteq Slave /\ \A t \in DOMAIN slaves' : slaves'[t] \in SlaveState
    BY <1>1 DEF Global
  <2>3. allocationCandidates' \subseteq DOMAIN slaves' /\ allocation' \in BOOLEAN
    BY <1>1 DEF Global
  <2>4. QED BY <1>1, <2>1, <2>2, <2>3, GlobalKept DEF Global
<1>5. ASSUME NEW r \in Role PROVE RoleInv(r)'
  <2>1. roles'[r] = ChangeTotal(roles[r], s, slaves[s].total, 0)
    BY DEF RemoveSlave
  <2>2. QED BY <1>1, <1>3, <2>1, RoleTotalKept
<1>6. QED BY <1>4, <1>5 DEF RemoveSlave

\* An agent's total changes.
LEMMA UpdateSlaveKeeps ==
  ASSUME IInv, NEW s \in Slave, NEW total \in Nat, NEW infoChanged \in BOOLEAN,
         UpdateSlave(s, total, infoChanged)
  PROVE  IInv'
<1> USE DEF IInv
<1>1. /\ s \in DOMAIN slaves
      /\ slaves' = [slaves EXCEPT ![s].total = total]
      /\ roleSorterTotal' = [roleSorterTotal EXCEPT ![s] = @ - slaves[s].total + total]
      /\ UNCHANGED <<frameworks, completedFrameworks, offers, used>>
  BY DEF UpdateSlave, UpdateSlaveTotal
<1>2. Totals \in [Slave -> Nat] /\ Totals[s] = slaves[s].total /\ slaves[s].total \in Nat
  BY <1>1, TotalsType, TotalsOf DEF Global
<1>3. /\ DOMAIN slaves' = DOMAIN slaves
      /\ \A t \in DOMAIN slaves : slaves'[t] \in SlaveState /\ (t # s => slaves'[t] = slaves[t])
      /\ slaves'[s].total = total
  BY <1>1 DEF Global, SlaveState
<1>4. Totals' = [Totals EXCEPT ![s] = total]
  BY <1>1, <1>3 DEF Totals
<1>5. Global'
  <2>1. roleSorterTotal' = Totals'
    <3>1. roleSorterTotal' = [Totals EXCEPT ![s] = Totals[s] - slaves[s].total + total]
      BY <1>1 DEF Global
    <3>2. Totals[s] - slaves[s].total + total = total
      BY <1>2
    <3>3. QED BY <1>4, <3>1, <3>2
  <2>2. allocationCandidates' \subseteq DOMAIN slaves' /\ allocation' \in BOOLEAN
    BY <1>1, <1>3 DEF UpdateSlave, Allocate, NoAllocate, Global
  <2>3. QED BY <1>1, <1>3, <2>1, <2>2, GlobalKept DEF Global
<1>6. ASSUME NEW r \in Role PROVE RoleInv(r)'
  <2>1. roles'[r] = ChangeTotal(roles[r], s, slaves[s].total, total)
    BY DEF UpdateSlave, UpdateSlaveTotal
  <2>2. QED BY <1>1, <1>4, <2>1, RoleTotalKept
<1>7. QED BY <1>5, <1>6 DEF UpdateSlave, UpdateSlaveTotal

\* A resource provider comes: its tasks are tracked before the total grows, so a
\* sorter made for them starts from the old totals and follows with the rest.
LEMMA AddResourceProviderKeeps ==
  ASSUME IInv, NEW s \in Slave, NEW more \in Nat, NEW f \in Framework,
         NEW tasks \in [Role -> Nat], AddResourceProvider(s, more, f, tasks)
  PROVE  IInv'
<1> USE DEF IInv
<1> DEFINE total == slaves[s].total + more
<1>1. /\ s \in DOMAIN slaves
      /\ slaves' = [slaves EXCEPT ![s].total = @ + more, ![s].allocated = @ + TotalOf(tasks)]
      /\ TotalOf(tasks) \in 0..more
      /\ UNCHANGED <<frameworks, completedFrameworks, offers, allocationCandidates, allocation>>
      /\ used' = UsedOn(s, f, tasks)
      /\ roleSorterTotal' = [roleSorterTotal EXCEPT ![s] = @ + more]
  BY DEF AddResourceProvider, NoAllocate
<1>2. /\ Totals \in [Slave -> Nat] /\ Totals[s] = slaves[s].total
      /\ slaves[s].total \in Nat /\ slaves[s].allocated \in Nat /\ total \in Nat
  BY <1>1, TotalsType, TotalsOf DEF Global
<1>3. /\ DOMAIN slaves' = DOMAIN slaves
      /\ \A t \in DOMAIN slaves : t # s => slaves'[t] = slaves[t]
      /\ slaves'[s].total = total /\ slaves'[s] \in SlaveState
  <2>1. slaves[s] \in SlaveState
    BY <1>1, TotalsOf
  <2>2. slaves'[s] = [slaves[s] EXCEPT !.total = total,
                                       !.allocated = slaves[s].allocated + TotalOf(tasks)]
    BY <1>1
  <2>3. slaves[s].allocated + TotalOf(tasks) \in Nat
    <3>1. TotalOf(tasks) \in Nat
      BY <1>1
    <3>2. QED BY <1>2, <3>1
  <2>4. slaves'[s].total = total /\ slaves'[s] \in SlaveState
    BY <1>2, <2>1, <2>2, <2>3 DEF SlaveState
  <2>5. QED BY <1>1, <2>4
<1>4. Totals' = [Totals EXCEPT ![s] = total]
  BY <1>1, <1>3 DEF Totals
<1> HIDE DEF total
<1>5. Global'
  <2>1. roleSorterTotal' = Totals'
    BY <1>1, <1>2, <1>4 DEF Global, total
  <2>2. used' \in Books
    BY <1>1, UsedOnGood DEF Global
  <2>3. \A t \in DOMAIN slaves' : slaves'[t] \in SlaveState
    BY <1>3 DEF Global
  <2>4. QED BY <1>1, <1>3, <2>1, <2>2, <2>3, GlobalKept DEF Global
<1>6. ASSUME NEW r \in Role PROVE RoleInv(r)'
  <2> DEFINE R == roles[r]
             T == TrackTasks(R, s, f, tasks[r], Totals)
             C == ChangeTotal(T, s, slaves[s].total, total)
  <2>1. roles'[r] = C
    BY DEF AddResourceProvider, total
  <2>2. /\ R \in RoleState /\ RoleConsistent(R) /\ R.clients \subseteq Known
        /\ R.hasSorter => R.totals = Totals
    BY DEF RoleInv
  <2>3. /\ T \in RoleState /\ RoleConsistent(T)
        /\ R.clients \subseteq T.clients /\ T.clients \subseteq R.clients \cup Added
        /\ T.active = R.active
        /\ \A g \in Framework, t \in Slave :
             T.held[g][t] = R.held[g][t] + IF f \in Added /\ g = f /\ t = s THEN tasks[r] ELSE 0
        /\ T.hasSorter => T.totals = Totals
    BY <1>2, <2>2, TrackTasksGood
  <2> HIDE DEF T
  <2>4. /\ C \in RoleState /\ RoleConsistent(C)
        /\ C.clients = T.clients /\ C.active = T.active /\ C.held = T.held
        /\ C.hasSorter = T.hasSorter
        /\ C.hasSorter => C.totals = [T.totals EXCEPT ![s] = total]
    BY <1>2, <2>3, ChangeTotalGood
  <2> HIDE DEF C
  <2>5. C.hasSorter => C.totals = Totals'
    BY <1>4, <2>3, <2>4
  <2>6. ASSUME NEW g \in Added, NEW t \in Slave
        PROVE  C.held[g][t] = Outstanding(g, r, t)'
    <3>1. g \in Framework
      BY DEF Global
    <3>2. R.held[g][t] = offers[g][r][t] + used[g][r][t]
      BY DEF RoleInv, Outstanding
    <3>3. used'[g][r][t] = used[g][r][t] + IF g = f /\ t = s THEN tasks[r] ELSE 0
      BY <1>1, <3>1, UsedOnGood DEF Global
    <3>4. offers[g][r][t] \in Nat /\ used[g][r][t] \in Nat
      BY <3>1, BooksType DEF Global
    <3>5. C.held[g][t] = R.held[g][t] + IF g = f /\ t = s THEN tasks[r] ELSE 0
      BY <2>3, <2>4, <3>1
    <3>6. QED BY <1>1, <3>2, <3>3, <3>4, <3>5 DEF Outstanding
  <2>7. C.clients \subseteq Known /\ \A g \in Added : r \in frameworks[g].roles => g \in C.clients
    BY <2>2, <2>3, <2>4 DEF RoleInv, Known
  <2>8. QED BY <1>1, <2>1, <2>3, <2>4, <2>5, <2>6, <2>7, RoleKept
<1>7. QED BY <1>5, <1>6 DEF AddResourceProvider

\* (De)activating an agent concerns nobody's books.
LEMMA SetActivatedKeeps ==
  ASSUME IInv, NEW s \in Slave, NEW activated \in BOOLEAN, SetActivated(s, activated)
  PROVE  IInv'
<1> USE DEF IInv
<1>1. /\ UNCHANGED <<frameworks, completedFrameworks, roles, roleSorterTotal, offers, used,
                     allocationCandidates, allocation>>
      /\ DOMAIN slaves' = DOMAIN slaves
      /\ \A t \in DOMAIN slaves : slaves'[t] \in SlaveState /\ slaves'[t].total = slaves[t].total
  BY DEF SetActivated, NoAllocate, Global, SlaveState
<1>2. Totals' = Totals
  BY <1>1 DEF Totals
<1>3. Global'
  BY <1>1, <1>2, GlobalKept DEF Global
<1>4. ASSUME NEW r \in Role PROVE RoleInv(r)'
  BY <1>1, <1>2, RoleUntouched DEF Outstanding
<1>5. QED BY <1>1, <1>3, <1>4

-----------------------------------------------------------------------------
(* Allocations.                                                            *)

\* The master applies an operation that removes resources: the same amount leaves
\* the agent, both sorters, the totals and the master's books.
LEMMA UpdateAllocationKeeps ==
  ASSUME IInv, NEW f \in Framework, NEW r \in Role, NEW s \in Slave, NEW n \in Nat \ {0},
         UpdateAllocation(f, r, s, n)
  PROVE  IInv'
<1> USE DEF IInv
<1> DEFINE total == slaves[s].total - n
<1>1. /\ f \in Added /\ s \in DOMAIN slaves
      /\ n <= used[f][r][s] /\ n <= slaves[s].total /\ n <= slaves[s].allocated
      /\ Holds(roles[r], f, On(s, n))
      /\ slaves' = [slaves EXCEPT ![s].total = @ - n, ![s].allocated = @ - n]
      /\ UNCHANGED <<frameworks, completedFrameworks, offers, allocationCandidates, allocation>>
      /\ used' = [used EXCEPT ![f][r][s] = @ - n]
      /\ roleSorterTotal' = [roleSorterTotal EXCEPT ![s] = @ - n]
  BY DEF UpdateAllocation, NoAllocate
<1>2. /\ Totals \in [Slave -> Nat] /\ Totals[s] = slaves[s].total
      /\ slaves[s] \in SlaveState
      /\ slaves[s].total \in Nat /\ slaves[s].allocated \in Nat /\ total \in Nat
  BY <1>1, TotalsType, TotalsOf DEF Global
<1>3. /\ DOMAIN slaves' = DOMAIN slaves
      /\ \A t \in DOMAIN slaves : t # s => slaves'[t] = slaves[t]
      /\ slaves'[s].total = total /\ slaves'[s] \in SlaveState
  <2>1. slaves'[s] = [slaves[s] EXCEPT !.total = total, !.allocated = slaves[s].allocated - n]
    BY <1>1
  <2>2. slaves[s].allocated - n \in Nat
    BY <1>1, <1>2
  <2>3. slaves'[s].total = total /\ slaves'[s] \in SlaveState
    BY <1>2, <2>1, <2>2 DEF SlaveState
  <2>4. QED BY <1>1, <2>3
<1>4. Totals' = [Totals EXCEPT ![s] = total]
  BY <1>1, <1>3 DEF Totals
<1>5. /\ used' \in Books
      /\ \A g \in Framework, q \in Role, t \in Slave :
           used'[g][q][t] = used[g][q][t] - IF g = f /\ q = r /\ t = s THEN n ELSE 0
  <2>1. used \in Books
    BY DEF Global
  <2>2. used[f][r][s] - n \in Nat
    BY <1>1, <2>1, BooksType
  <2>3. used' \in Books
    BY <1>1, <2>1, <2>2 DEF Books
  <2>4. QED BY <1>1, <2>1, <2>3, BooksType DEF Books
<1>6. Global'
  <2>1. roleSorterTotal' = Totals'
    <3>1. roleSorterTotal' = [Totals EXCEPT ![s] = Totals[s] - n]
      BY <1>1 DEF Global
    <3>2. QED BY <1>2, <1>4, <3>1
  <2>2. \A t \in DOMAIN slaves' : slaves'[t] \in SlaveState
    BY <1>3 DEF Global
  <2>3. QED BY <1>1, <1>3, <1>5, <2>1, <2>2, GlobalKept DEF Global
<1> HIDE DEF total
<1>7. ASSUME NEW q \in Role PROVE RoleInv(q)'
  <2>1. CASE q # r
    <3>1. roles'[q] = ChangeTotal(roles[q], s, slaves[s].total, total)
      BY <2>1 DEF UpdateAllocation, total
    <3> DEFINE C == ChangeTotal(roles[q], s, slaves[s].total, total)
    <3>2. /\ roles[q] \in RoleState /\ RoleConsistent(roles[q])
          /\ roles[q].hasSorter => roles[q].totals = Totals
      BY DEF RoleInv
    <3>3. /\ C \in RoleState /\ RoleConsistent(C)
          /\ C.clients = roles[q].clients /\ C.active = roles[q].active
          /\ C.held = roles[q].held /\ C.hasSorter = roles[q].hasSorter
          /\ C.hasSorter => C.totals = [roles[q].totals EXCEPT ![s] = total]
      BY <1>2, <3>2, ChangeTotalGood
    <3> HIDE DEF C
    <3>4. \A g \in Added, t \in Slave : C.held[g][t] = Outstanding(g, q, t)'
      <4>1. TAKE g \in Added, t \in Slave
      <4>2. g \in Framework /\ used[g][q][t] \in Nat
        BY BooksType DEF Global
      <4>3. used'[g][q][t] = used[g][q][t]
        BY <1>5, <2>1, <4>2
      <4>4. roles[q].held[g][t] = Outstanding(g, q, t)
        BY DEF RoleInv
      <4>5. QED BY <1>1, <3>3, <4>3, <4>4 DEF Outstanding
    <3>5. C.hasSorter => C.totals = Totals'
      BY <1>4, <3>2, <3>3
    <3>6. C.clients \subseteq Known /\ \A g \in Added : q \in frameworks[g].roles => g \in C.clients
      BY <3>3 DEF RoleInv
    <3>7. roles'[q] = C
      BY <3>1 DEF C
    <3>8. QED BY <1>1, <3>3, <3>4, <3>5, <3>6, <3>7, RoleKept
  <2>2. CASE q = r
    <3> DEFINE R == roles[r]
               D == Removed(R, f, On(s, n))
               C == ChangeTotal(D, s, slaves[s].total, total)
    <3>1. roles'[r] = C
      BY DEF UpdateAllocation, total
    <3>2. /\ R \in RoleState /\ RoleConsistent(R)
          /\ R.hasSorter => R.totals = Totals
      BY DEF RoleInv
    <3>3. /\ On(s, n) \in [Slave -> Nat] /\ On(s, n)[s] = n
          /\ \A t \in Slave : On(s, n)[t] = IF t = s THEN n ELSE 0
      BY ResourceTypes
    <3>4. f \in R.clients
      <4>1. R.held[f][s] >= n
        BY <1>1, <3>3 DEF Holds
      <4>2. R.held[f][s] # 0
        BY <3>2, <4>1 DEF RoleState
      <4>3. R.held[f] # NoResources
        BY <4>2 DEF NoResources
      <4>4. QED BY <3>2, <4>3 DEF RoleConsistent
    <3>5. /\ D \in RoleState /\ RoleConsistent(D)
          /\ D.clients = R.clients /\ D.active = R.active
          /\ D.held = [R.held EXCEPT ![f] = Minus(R.held[f], On(s, n))]
          /\ D.hasSorter = R.hasSorter /\ D.totals = R.totals
      BY <1>1, <3>2, <3>3, <3>4, RemovedGood
    <3> HIDE DEF D
    <3>6. /\ C \in RoleState /\ RoleConsistent(C)
          /\ C.clients = D.clients /\ C.active = D.active /\ C.held = D.held
          /\ C.hasSorter = D.hasSorter
          /\ C.hasSorter => C.totals = [D.totals EXCEPT ![s] = total]
      BY <1>2, <3>2, <3>5, ChangeTotalGood
    <3> HIDE DEF C
    <3>7. ASSUME NEW g \in Added, NEW t \in Slave
          PROVE  C.held[g][t] = Outstanding(g, r, t)'
      <4>1. g \in Framework /\ used[g][r][t] \in Nat /\ offers[g][r][t] \in Nat
        BY BooksType DEF Global
      <4>2. R.held[g][t] = offers[g][r][t] + used[g][r][t]
        BY DEF RoleInv, Outstanding
      <4>3. C.held[g][t] = R.held[g][t] - IF g = f /\ t = s THEN n ELSE 0
        <5>1. R.held \in [Framework -> [Slave -> Nat]]
          BY <3>2 DEF RoleState
        <5>2. CASE g = f
          <6>1. C.held[g] = Minus(R.held[f], On(s, n))
            BY <3>5, <3>6, <4>1, <5>1, <5>2
          <6>2. QED BY <3>3, <5>2, <6>1 DEF Minus
        <5>3. CASE g # f
          <6>1. C.held[g] = R.held[g]
            BY <3>5, <3>6, <4>1, <5>1, <5>3
          <6>2. R.held[g][t] \in Nat
            BY <4>1, <5>1
          <6>3. QED BY <5>3, <6>1, <6>2
        <5>4. QED BY <5>2, <5>3
      <4>4. used'[g][r][t] = used[g][r][t] - IF g = f /\ t = s THEN n ELSE 0
        BY <1>5, <4>1
      <4>5. QED BY <1>1, <4>1, <4>2, <4>3, <4>4 DEF Outstanding
    <3>8. C.hasSorter => C.totals = Totals'
      BY <1>4, <3>2, <3>5, <3>6
    <3>9. C.clients \subseteq Known /\ \A g \in Added : r \in frameworks[g].roles => g \in C.clients
      BY <3>5, <3>6 DEF RoleInv
    <3>10. C.active = R.active
      BY <3>5, <3>6
    <3>11. RoleInv(r)'
      BY <1>1, <3>1, <3>6, <3>7, <3>8, <3>9, <3>10, RoleKept
    <3>12. QED BY <2>2, <3>11
  <2>3. QED BY <2>1, <2>2
<1>8. QED BY <1>6, <1>7 DEF UpdateAllocation

\* A client that gives back all it held of a role it left is untracked: it holds
\* nothing any more, so nothing is lost with it.
LEMMA RecoveredRoleGood ==
  ASSUME IInv, NEW f \in Framework, NEW r \in Role, NEW s \in Slave, NEW n \in Nat \ {0},
         f \in Added, f \in roles[r].clients, Holds(roles[r], f, On(s, n))
  PROVE  LET R == roles[r]
             T == RecoveredRole(R, f, r, s, n) IN
         /\ T \in RoleState /\ RoleConsistent(T)
         /\ T.clients \subseteq R.clients
         /\ \A g \in R.clients : g # f \/ r \in frameworks[f].roles => g \in T.clients
         /\ T.active = R.active
         /\ \A g \in Framework, t \in Slave :
              T.held[g][t] = R.held[g][t] - IF g = f /\ t = s THEN n ELSE 0
         /\ T.hasSorter => T.totals = Totals
<1> DEFINE R == roles[r]
           left == Unallocated(R, f, On(s, n))
           T == RecoveredRole(R, f, r, s, n)
<1>1. RoleInv(r)
  BY DEF IInv
<1>2. /\ On(s, n) \in [Slave -> Nat]
      /\ \A t \in Slave : On(s, n)[t] = IF t = s THEN n ELSE 0
  BY ResourceTypes
<1>3. R \in RoleState /\ RoleConsistent(R) /\ R.held \in [Framework -> [Slave -> Nat]]
  BY <1>1 DEF RoleInv, RoleState
<1>4. /\ left \in RoleState /\ RoleConsistent(left)
      /\ left.frameworks = R.frameworks
      /\ left.clients = R.clients /\ left.active = R.active
      /\ left.held = [R.held EXCEPT ![f] = Minus(R.held[f], On(s, n))]
      /\ left.hasSorter = R.hasSorter /\ left.totals = R.totals
  BY <1>2, <1>3, UnallocatedGood
<1>5. T = IF r \notin frameworks[f].roles /\ left.entries[f] = {} THEN Untrack(left, f) ELSE left
  BY DEF RecoveredRole
<1> HIDE DEF T, left
<1>6. \A g \in Framework, t \in Slave :
        left.held[g][t] = R.held[g][t] - IF g = f /\ t = s THEN n ELSE 0
  <2>1. TAKE g \in Framework, t \in Slave
  <2>2. CASE g = f
    <3>1. left.held[g] = Minus(R.held[f], On(s, n))
      BY <1>3, <1>4, <2>2
    <3>2. QED BY <1>2, <2>2, <3>1 DEF Minus
  <2>3. CASE g # f
    <3>1. left.held[g] = R.held[g] /\ R.held[g][t] \in Nat
      BY <1>3, <1>4, <2>3
    <3>2. QED BY <2>3, <3>1
  <2>4. QED BY <2>2, <2>3
<1>7. left.hasSorter => left.totals = Totals
  BY <1>1, <1>4 DEF RoleInv
<1>8. CASE r \notin frameworks[f].roles /\ left.entries[f] = {}
  <2>1. left.held \in [Framework -> [Slave -> Nat]]
    BY <1>4 DEF RoleState
  <2>2. left.held[f] = NoResources
    <3>1. \A t \in Slave : ~(left.held[f][t] > 0)
      BY <1>4, <1>8 DEF RoleConsistent
    <3>2. \A t \in Slave : left.held[f][t] = 0
      BY <2>1, <3>1
    <3>3. QED BY <2>1, <3>2 DEF NoResources
  <2>3. f \in left.frameworks
    BY <1>3, <1>4 DEF RoleConsistent
  <2>4. T = Untrack(left, f)
    BY <1>5, <1>8
  <2>5. /\ T \in RoleState /\ RoleConsistent(T)
        /\ T.clients = left.clients \ {f} /\ T.active = left.active \ {f}
        /\ T.held = [left.held EXCEPT ![f] = NoResources]
        /\ T.hasSorter => left.hasSorter /\ T.totals = left.totals
    BY <1>4, <2>3, <2>4, UntrackGood
  <2>6. T.held = left.held
    BY <2>1, <2>2, <2>5
  <2>7. f \notin R.active
    BY <1>1, <1>8 DEF RoleInv
  <2>8. T.active = R.active
    BY <1>4, <2>5, <2>7
  <2>9. /\ T.clients \subseteq R.clients
        /\ \A g \in R.clients : g # f \/ r \in frameworks[f].roles => g \in T.clients
    BY <1>4, <1>8, <2>5
  <2>10. \A g \in Framework, t \in Slave :
           T.held[g][t] = R.held[g][t] - IF g = f /\ t = s THEN n ELSE 0
    BY <1>6, <2>6
  <2>11. T.hasSorter => T.totals = Totals
    BY <1>7, <2>5
  <2>12. QED BY <2>5, <2>8, <2>9, <2>10, <2>11 DEF T
<1>9. CASE ~(r \notin frameworks[f].roles /\ left.entries[f] = {})
  <2>1. T = left
    BY <1>5, <1>9
  <2>2. QED BY <1>4, <1>6, <1>7, <2>1 DEF T
<1>10. QED BY <1>8, <1>9

\* recoverResources, given that the caller takes the same amount off its own books.
LEMMA RecoverResourcesKeeps ==
  ASSUME IInv, NEW f \in Framework, NEW r \in Role, NEW s \in Slave, NEW n \in Nat \ {0},
         RecoverResources(f, r, s, n), n <= Outstanding(f, r, s),
         offers' \in Books, used' \in Books,
         \A g \in Framework \ Known, q \in Role, t \in Slave : offers'[g][q][t] = 0,
         \A g \in Framework, q \in Role, t \in Slave :
           Outstanding(g, q, t)' =
             Outstanding(g, q, t) - IF g = f /\ q = r /\ t = s THEN n ELSE 0
  PROVE  IInv'
<1> USE DEF IInv
<1>1. /\ UNCHANGED <<frameworks, completedFrameworks, roleSorterTotal,
                     allocationCandidates, allocation>>
      /\ DOMAIN slaves' = DOMAIN slaves
      /\ \A t \in DOMAIN slaves : slaves'[t] \in SlaveState /\ slaves'[t].total = slaves[t].total
  <2>1. CASE s \in DOMAIN slaves
    <3>1. slaves[s] \in SlaveState /\ slaves[s].allocated \in Nat
      BY <2>1, TotalsOf
    <3>2. n <= slaves[s].allocated /\ slaves' = [slaves EXCEPT ![s].allocated = @ - n]
      BY <2>1 DEF RecoverResources
    <3>3. slaves[s].allocated - n \in Nat
      BY <3>1, <3>2
    <3>4. slaves'[s] \in SlaveState /\ slaves'[s].total = slaves[s].total
      <4>1. slaves'[s] = [slaves[s] EXCEPT !.allocated = slaves[s].allocated - n]
        BY <2>1, <3>2
      <4>2. QED BY <3>1, <3>3, <4>1 DEF SlaveState
    <3>5. QED BY <3>2, <3>4 DEF RecoverResources, NoAllocate, Global
  <2>2. CASE s \notin DOMAIN slaves
    BY <2>2 DEF RecoverResources, NoAllocate, Global
  <2>3. QED BY <2>1, <2>2
<1>2. Totals' = Totals
  BY <1>1 DEF Totals
<1>3. Global'
  BY <1>1, <1>2, GlobalKept DEF Global
<1>4. \A g \in Framework, q \in Role, t \in Slave : Outstanding(g, q, t) \in Nat
  BY BooksType DEF Outstanding, Global
<1>5. ASSUME NEW q \in Role PROVE RoleInv(q)'
  <2>1. CASE q # r \/ f \notin Added
    <3>1. roles'[q] = roles[q]
      BY <2>1 DEF RecoverResources, RecoveredRole
    <3>2. ASSUME NEW g \in Added, NEW t \in Slave
          PROVE  Outstanding(g, q, t)' = Outstanding(g, q, t)
      BY <1>4, <2>1 DEF Global
    <3>3. QED BY <1>1, <1>2, <3>1, <3>2, RoleUntouched
  <2>2. CASE q = r /\ f \in Added
    <3> DEFINE R == roles[r]
               T == RecoveredRole(R, f, r, s, n)
    <3>1. roles'[r] = T
      BY DEF RecoverResources
    <3>2. f \in R.clients
      <4>1. R.held[f][s] = Outstanding(f, r, s)
        BY <2>2 DEF RoleInv
      <4>2. R.held[f][s] # 0
        BY <1>4, <4>1
      <4>3. R.held[f] # NoResources
        BY <4>2 DEF NoResources
      <4>4. RoleConsistent(R)
        BY DEF RoleInv
      <4>5. QED BY <4>3, <4>4 DEF RoleConsistent
    <3>3. Holds(R, f, On(s, n))
      BY <2>2, <3>2 DEF RecoverResources
    <3>4. /\ T \in RoleState /\ RoleConsistent(T)
          /\ T.clients \subseteq R.clients
          /\ \A g \in R.clients : g # f \/ r \in frameworks[f].roles => g \in T.clients
          /\ T.active = R.active
          /\ \A g \in Framework, t \in Slave :
               T.held[g][t] = R.held[g][t] - IF g = f /\ t = s THEN n ELSE 0
          /\ T.hasSorter => T.totals = Totals
      BY <2>2, <3>2, <3>3, RecoveredRoleGood
    <3> HIDE DEF T
    <3>5. ASSUME NEW g \in Added, NEW t \in Slave
          PROVE  T.held[g][t] = Outstanding(g, r, t)'
      <4>1. g \in Framework
        BY DEF Global
      <4>2. R.held[g][t] = Outstanding(g, r, t)
        BY DEF RoleInv
      <4>3. QED BY <3>4, <4>1, <4>2
    <3>6. T.clients \subseteq Known
      BY <3>4 DEF RoleInv
    <3>7. \A g \in Added : r \in frameworks[g].roles => g \in T.clients
      BY <3>4 DEF RoleInv
    <3>8. T.hasSorter => T.totals = Totals'
      BY <1>2, <3>4
    <3>9. RoleInv(r)'
      BY <1>1, <3>1, <3>4, <3>5, <3>6, <3>7, <3>8, RoleKept
    <3>10. QED BY <2>2, <3>9
  <2>3. QED BY <2>1, <2>2
<1>6. roles' = [q \in Role |-> roles'[q]]
  BY DEF RecoverResources
<1>7. QED BY <1>3, <1>5, <1>6

\* The master recovers resources it has on its books.
LEMMA RecoverKeeps ==
  ASSUME IInv, NEW f \in Framework, NEW r \in Role, NEW s \in Slave, NEW n \in Nat \ {0},
         Recover(f, r, s, n)
  PROVE  IInv'
<1>1. used \in Books /\ offers \in Books
  BY DEF IInv, Global
<1>2. /\ n <= used[f][r][s]
      /\ used' = [used EXCEPT ![f][r][s] = used[f][r][s] - n]
      /\ offers' = offers /\ RecoverResources(f, r, s, n)
  BY <1>1, BooksType DEF Recover
<1>3. used[f][r][s] - n \in Nat
  BY <1>1, <1>2, BooksType
<1>4. /\ used' \in Books
      /\ \A g \in Framework, q \in Role, t \in Slave :
           used'[g][q][t] = IF g = f /\ q = r /\ t = s THEN used[f][r][s] - n ELSE used[g][q][t]
  <2>1. used' \in Books
    BY <1>1, <1>2, <1>3 DEF Books
  <2>2. QED BY <1>1, <1>2, <1>3, <2>1, BooksType DEF Books
<1>5. ASSUME NEW g \in Framework, NEW q \in Role, NEW t \in Slave
      PROVE  Outstanding(g, q, t)' =
               Outstanding(g, q, t) - IF g = f /\ q = r /\ t = s THEN n ELSE 0
  <2>1. used[g][q][t] \in Nat /\ offers[g][q][t] \in Nat
    BY <1>1, BooksType
  <2>2. QED BY <1>2, <1>4, <2>1 DEF Outstanding
<1>6. n <= Outstanding(f, r, s)
  BY <1>1, <1>2, BooksType DEF Outstanding
<1>7. \A g \in Framework \ Known, q \in Role, t \in Slave : offers'[g][q][t] = 0
  BY <1>2 DEF IInv, Global
<1>8. QED BY <1>1, <1>2, <1>4, <1>5, <1>6, <1>7, RecoverResourcesKeeps

\* An offer on its way is given back because the framework or the agent went.
LEMMA OfferReturnsKeeps ==
  ASSUME IInv, NEW f \in Framework, NEW r \in Role, NEW s \in Slave, OfferReturns(f, r, s)
  PROVE  IInv'
<1> DEFINE n == offers[f][r][s]
<1>1. used \in Books /\ offers \in Books
  BY DEF IInv, Global
<1>2. n \in Nat \ {0}
  BY <1>1, BooksType DEF OfferReturns
<1>3. /\ offers' = [offers EXCEPT ![f][r][s] = 0]
      /\ used' = used /\ RecoverResources(f, r, s, n)
  BY DEF OfferReturns
<1>4. /\ offers' \in Books
      /\ \A g \in Framework, q \in Role, t \in Slave :
           offers'[g][q][t] = IF g = f /\ q = r /\ t = s THEN 0 ELSE offers[g][q][t]
  <2>1. offers' \in Books
    BY <1>1, <1>3 DEF Books
  <2>2. QED BY <1>1, <1>3, <2>1, BooksType DEF Books
<1>5. ASSUME NEW g \in Framework, NEW q \in Role, NEW t \in Slave
      PROVE  Outstanding(g, q, t)' =
               Outstanding(g, q, t) - IF g = f /\ q = r /\ t = s THEN n ELSE 0
  <2>1. used[g][q][t] \in Nat /\ offers[g][q][t] \in Nat
    BY <1>1, BooksType
  <2>2. QED BY <1>3, <1>4, <2>1 DEF Outstanding
<1>6. n <= Outstanding(f, r, s)
  BY <1>1, BooksType DEF Outstanding
<1>7. \A g \in Framework \ Known, q \in Role, t \in Slave : offers'[g][q][t] = 0
  BY <1>4 DEF IInv, Global
<1> HIDE DEF n
<1>8. QED BY <1>1, <1>2, <1>3, <1>4, <1>5, <1>6, <1>7, RecoverResourcesKeeps

\* The master takes an offer up: it moves from one of its books to the other.
LEMMA OfferArrivesKeeps ==
  ASSUME IInv, NEW f \in Framework, NEW r \in Role, NEW s \in Slave, OfferArrives(f, r, s)
  PROVE  IInv'
<1> DEFINE n == offers[f][r][s]
<1>1. used \in Books /\ offers \in Books
  BY DEF IInv, Global
<1>2. n \in Nat /\ used[f][r][s] \in Nat /\ used[f][r][s] + n \in Nat
  <2>1. n \in Nat /\ used[f][r][s] \in Nat
    BY <1>1, BooksType
  <2>2. QED BY <2>1
<1>3. /\ offers' = [offers EXCEPT ![f][r][s] = 0]
      /\ used' = [used EXCEPT ![f][r][s] = used[f][r][s] + n]
      /\ UNCHANGED <<frameworks, completedFrameworks, slaves, roles, roleSorterTotal,
                     allocationCandidates, allocation>>
  BY <1>1 DEF OfferArrives
<1>4. /\ offers' \in Books
      /\ \A g \in Framework, q \in Role, t \in Slave :
           offers'[g][q][t] = IF g = f /\ q = r /\ t = s THEN 0 ELSE offers[g][q][t]
  <2>1. offers' \in Books
    BY <1>1, <1>3 DEF Books
  <2>2. QED BY <1>1, <1>3, <2>1, BooksType DEF Books
<1>5. /\ used' \in Books
      /\ \A g \in Framework, q \in Role, t \in Slave :
           used'[g][q][t] = IF g = f /\ q = r /\ t = s THEN used[f][r][s] + n ELSE used[g][q][t]
  <2>1. used' \in Books
    BY <1>1, <1>2, <1>3 DEF Books
  <2>2. QED BY <1>1, <1>2, <1>3, <2>1, BooksType DEF Books
<1>6. \A g \in Framework, q \in Role, t \in Slave : Outstanding(g, q, t)' = Outstanding(g, q, t)
  <2>1. TAKE g \in Framework, q \in Role, t \in Slave
  <2>2. used[g][q][t] \in Nat /\ offers[g][q][t] \in Nat
    BY <1>1, BooksType
  <2>3. QED BY <1>4, <1>5, <2>2 DEF Outstanding
<1>7. Totals' = Totals
  BY <1>3 DEF Totals
<1>8. Global'
  <2>1. \A g \in Framework \ Known, q \in Role, t \in Slave : offers'[g][q][t] = 0
    BY <1>4 DEF IInv, Global
  <2>2. QED BY <1>3, <1>4, <1>5, <1>7, <2>1, GlobalKept DEF IInv, Global
<1>9. ASSUME NEW q \in Role PROVE RoleInv(q)'
  <2>1. \A g \in Added, t \in Slave : Outstanding(g, q, t)' = Outstanding(g, q, t)
    BY <1>6 DEF IInv, Global
  <2>2. QED BY <1>3, <1>7, <2>1, RoleUntouched
<1>10. QED BY <1>3, <1>8, <1>9 DEF IInv

\* The periodic run.
LEMMA PeriodicAllocateKeeps == IInv /\ PeriodicAllocate => IInv'
<1> SUFFICES ASSUME IInv, PeriodicAllocate PROVE IInv'
  OBVIOUS
<1>1. UNCHANGED <<frameworks, completedFrameworks, slaves, roles, roleSorterTotal, offers, used>>
  BY DEF PeriodicAllocate
<1>2. Totals' = Totals
  BY <1>1 DEF Totals
<1>3. allocationCandidates' \subseteq DOMAIN slaves' /\ allocation' \in BOOLEAN
  BY DEF PeriodicAllocate, Allocate, IInv, Global
<1>4. Global'
  BY <1>1, <1>2, <1>3, GlobalKept DEF IInv, Global
<1>5. \A r \in Role : RoleInv(r)'
  BY <1>1, <1>2, RoleUntouched DEF Outstanding
<1>6. QED BY <1>1, <1>4, <1>5 DEF IInv

\* What a run may assign: units the agent has available, to a client of the sorter.
LEMMA AssignmentsGood ==
  ASSUME Global, NEW s \in DOMAIN slaves, NEW a \in Assignments(s)
  PROVE  /\ a.role \in Role /\ a.framework \in Framework
         /\ a.framework \in roles[a.role].active
         /\ a.units \in Nat /\ a.units > 0
         /\ slaves[s].allocated + a.units <= slaves[s].total
<1>1. slaves[s].total \in Nat /\ slaves[s].allocated \in Nat
  BY TotalsOf
<1>2. a.units \in 1..Available(s)
  BY DEF Assignments
<1>3. Available(s) \in Nat
  BY <1>1 DEF Available, Saturate
<1>4. a.units \in Nat /\ a.units > 0 /\ a.units <= Available(s)
  BY <1>2, <1>3
<1>5. Available(s) > 0 => Available(s) = slaves[s].total - slaves[s].allocated
  BY <1>1 DEF Available, Saturate
<1>6. slaves[s].allocated + a.units <= slaves[s].total
  BY <1>1, <1>3, <1>4, <1>5
<1>7. QED BY <1>4, <1>6 DEF Assignments

\* A run: what is offered is added to the agent, both sorters and the offers.
LEMMA RunAllocationKeeps ==
  ASSUME IInv, NEW offer, RunAllocation(offer)
  PROVE  IInv'
<1> USE DEF IInv
<1>1. /\ UNCHANGED <<frameworks, completedFrameworks, roleSorterTotal, used>>
      /\ DOMAIN slaves' = DOMAIN slaves
      /\ DOMAIN offer \subseteq DOMAIN slaves
      /\ allocationCandidates' = {} /\ allocation' = FALSE
      /\ \A s \in DOMAIN slaves :
           slaves'[s] = IF s \in DOMAIN offer
                        THEN [slaves[s] EXCEPT !.allocated = @ + offer[s].units]
                        ELSE slaves[s]
  BY DEF RunAllocation, SlaveIds
<1>2. \A s \in DOMAIN offer :
        /\ offer[s].framework \in roles[offer[s].role].active
        /\ offer[s].role \in Role /\ offer[s].framework \in Framework
        /\ offer[s].units \in Nat /\ offer[s].units > 0
  BY <1>1, AssignmentsGood DEF RunAllocation
<1>3. \A s \in DOMAIN slaves : slaves'[s] \in SlaveState /\ slaves'[s].total = slaves[s].total
  <2>1. TAKE s \in DOMAIN slaves
  <2>2. slaves[s] \in SlaveState /\ slaves[s].allocated \in Nat
    BY TotalsOf
  <2>3. CASE s \in DOMAIN offer
    <3>1. slaves[s].allocated + offer[s].units \in Nat
      BY <1>2, <2>2, <2>3
    <3>2. slaves'[s] = [slaves[s] EXCEPT !.allocated = slaves[s].allocated + offer[s].units]
      BY <1>1, <2>3
    <3>3. QED BY <2>2, <3>1, <3>2 DEF SlaveState
  <2>4. CASE s \notin DOMAIN offer
    BY <1>1, <2>2, <2>4
  <2>5. QED BY <2>3, <2>4
<1>4. Totals' = Totals
  BY <1>1, <1>3 DEF Totals
<1>5. \A f \in Framework, r \in Role :
        /\ Offered(offer, f, r) \in [Slave -> Nat]
        /\ \A s \in Slave : Offered(offer, f, r)[s] > 0 => f \in roles[r].active
  BY <1>2 DEF Offered
<1>6. offers \in Books /\ used \in Books
  BY DEF Global
<1>7. \A f \in Framework, r \in Role :
        /\ offers'[f][r] = Plus(offers[f][r], Offered(offer, f, r))
        /\ offers'[f][r] \in [Slave -> Nat]
  <2>1. TAKE f \in Framework, r \in Role
  <2>2. offers[f][r] \in [Slave -> Nat]
    BY <1>6, BooksType
  <2>3. offers'[f][r] = Plus(offers[f][r], Offered(offer, f, r))
    BY DEF RunAllocation
  <2>4. QED BY <1>5, <2>2, <2>3, PlusMinusTypes
<1>8. offers' \in Books
  <2>1. offers' = [f \in Framework |-> [r \in Role |-> offers'[f][r]]]
    BY DEF RunAllocation
  <2>2. QED BY <1>7, <2>1 DEF Books
<1>9. \A f \in Framework, r \in Role, s \in Slave :
        offers'[f][r][s] = offers[f][r][s] + Offered(offer, f, r)[s]
  <2>1. TAKE f \in Framework, r \in Role, s \in Slave
  <2>2. offers'[f][r] = [t \in Slave |-> offers[f][r][t] + Offered(offer, f, r)[t]]
    BY <1>7 DEF Plus
  <2>3. QED BY <2>2
<1>10. \A f \in Framework \ Known, r \in Role, s \in Slave : offers'[f][r][s] = 0
  <2>1. TAKE f \in Framework \ Known, r \in Role, s \in Slave
  <2>2. f \notin roles[r].active
    BY DEF RoleInv, Known
  <2>3. Offered(offer, f, r)[s] \in Nat /\ ~(Offered(offer, f, r)[s] > 0)
    BY <1>5, <2>2
  <2>4. offers[f][r][s] = 0
    BY DEF Global
  <2>5. QED BY <1>9, <2>3, <2>4
<1>11. Global'
  BY <1>1, <1>3, <1>4, <1>6, <1>8, <1>10, GlobalKept DEF Global
<1>12. ASSUME NEW r \in Role PROVE RoleInv(r)'
  <2> DEFINE R == roles[r]
             allot == [s \in Slave |->
               IF s \in DOMAIN offer /\ offer[s].role = r
               THEN R.allocation[s] + offer[s].units ELSE R.allocation[s]]
             hold == [f \in Framework |-> Plus(R.held[f], Offered(offer, f, r))]
             keys == [f \in Framework |->
               R.entries[f] \cup {s \in Slave : Offered(offer, f, r)[s] > 0}]
             T == [R EXCEPT !.allocation = allot, !.held = hold, !.entries = keys]
  <2>1. roles'[r] = T
    BY DEF RunAllocation
  <2>2. R \in RoleState /\ RoleConsistent(R)
    BY DEF RoleInv
  <2>3. allot \in [Slave -> Nat]
    <3>1. R.allocation \in [Slave -> Nat]
      BY <2>2 DEF RoleState
    <3>2. QED BY <1>2, <3>1
  <2>4. /\ R.held \in [Framework -> [Slave -> Nat]]
        /\ R.entries \in [Framework -> SUBSET Slave]
    BY <2>2 DEF RoleState
  <2>5. hold \in [Framework -> [Slave -> Nat]]
    BY <1>5, <2>4, PlusMinusTypes
  <2>6. keys \in [Framework -> SUBSET Slave]
    BY <2>4
  <2>7. \A f \in Framework, s \in Slave :
          hold[f][s] = R.held[f][s] + Offered(offer, f, r)[s]
    BY DEF Plus
  <2>8. \A f \in Framework : {s \in Slave : hold[f][s] > 0} \subseteq keys[f]
    <3>1. TAKE f \in Framework
    <3>2. ASSUME NEW s \in Slave, hold[f][s] > 0 PROVE s \in keys[f]
      <4>1. R.held[f][s] \in Nat /\ Offered(offer, f, r)[s] \in Nat
        BY <1>5, <2>4
      <4>2. R.held[f][s] > 0 \/ Offered(offer, f, r)[s] > 0
        BY <2>7, <3>2, <4>1
      <4>3. R.held[f][s] > 0 => s \in R.entries[f]
        BY <2>2 DEF RoleConsistent
      <4>4. QED BY <4>2, <4>3
    <3>3. QED BY <3>2
  <2>9. \A f \in Framework \ R.clients : hold[f] = NoResources /\ keys[f] = {}
    <3>1. TAKE f \in Framework \ R.clients
    <3>2. R.held[f] = NoResources /\ R.entries[f] = {} /\ f \notin R.active
      BY <2>2 DEF RoleConsistent
    <3>3. \A s \in Slave : Offered(offer, f, r)[s] = 0
      BY <1>5, <3>2
    <3>4. \A s \in Slave : hold[f][s] = 0
      BY <2>7, <3>2, <3>3 DEF NoResources
    <3>5. hold[f] = NoResources
      BY <2>5, <3>4 DEF NoResources
    <3>6. keys[f] = {}
      BY <3>2, <3>3
    <3>7. QED BY <3>5, <3>6
  <2> HIDE DEF allot, hold, keys
  <2>10. T \in RoleState
    BY <2>2, <2>3, <2>5, <2>6 DEF RoleState
  <2>11. /\ T.isClient = R.isClient /\ T.hasSorter = R.hasSorter
         /\ T.frameworks = R.frameworks /\ T.totals = R.totals
         /\ T.clients = R.clients /\ T.active = R.active
         /\ T.held = hold /\ T.entries = keys
    BY <2>2 DEF RoleState
  <2> HIDE DEF T
  <2>12. RoleConsistent(T)
    BY <2>2, <2>8, <2>9, <2>11 DEF RoleConsistent
  <2>13. ASSUME NEW g \in Added, NEW s \in Slave
         PROVE  T.held[g][s] = Outstanding(g, r, s)'
    <3>1. g \in Framework
      BY DEF Global
    <3>2. R.held[g][s] = offers[g][r][s] + used[g][r][s]
      BY DEF RoleInv, Outstanding
    <3>3. /\ offers[g][r][s] \in Nat /\ used[g][r][s] \in Nat
          /\ Offered(offer, g, r)[s] \in Nat
      BY <1>5, <1>6, <3>1, BooksType
    <3>4. T.held[g][s] = R.held[g][s] + Offered(offer, g, r)[s]
      BY <2>7, <2>11, <3>1
    <3>5. offers'[g][r][s] = offers[g][r][s] + Offered(offer, g, r)[s] /\ used' = used
      BY <1>1, <1>9, <3>1
    <3>6. QED BY <3>2, <3>3, <3>4, <3>5 DEF Outstanding
  <2>14. T.clients \subseteq Known /\ \A g \in Added : r \in frameworks[g].roles => g \in T.clients
    BY <2>11 DEF RoleInv
  <2>15. T.hasSorter => T.totals = Totals'
    BY <1>4, <2>11 DEF RoleInv
  <2>16. QED BY <1>1, <2>1, <2>10, <2>11, <2>12, <2>13, <2>14, <2>15, RoleKept
<1>13. QED BY <1>11, <1>12 DEF RunAllocation

-----------------------------------------------------------------------------
(* The invariant, and the properties it implies.                           *)

\* The sizes the calls draw from are numbers.
LEMMA QuantityNat ==
  \A s \in Slave : Quantity(s) \subseteq Nat /\ Tasks(s) \subseteq [Role -> Nat]
BY MaxTotalAssumption DEF Quantity, Tasks

\* Every call keeps the invariant.
LEMMA NextKeeps == IInv /\ [Next]_vars => IInv'
<1> SUFFICES ASSUME IInv, [Next]_vars PROVE IInv'
  OBVIOUS
<1>1. CASE UNCHANGED vars
  BY <1>1 DEF vars, IInv, Global, RoleInv, Known, Added, Totals, Outstanding
<1>2. ASSUME NEW f \in Framework, FrameworkCall(f) PROVE IInv'
  BY <1>2, AddFrameworkKeeps, RemoveFrameworkKeeps, ActivateFrameworkKeeps,
     DeactivateFrameworkKeeps, UpdateFrameworkKeeps, SuppressOffersKeeps, ReviveOffersKeeps
     DEF FrameworkCall
<1>3. ASSUME NEW s \in Slave, SlaveCall(s) PROVE IInv'
  <2>1. ASSUME NEW total \in Quantity(s), NEW f \in Framework, NEW tasks \in Tasks(s),
               AddSlave(s, total, f, tasks)
        PROVE  IInv'
    BY <2>1, QuantityNat, AddSlaveKeeps
  <2>2. CASE RemoveSlave(s)
    BY <2>2, RemoveSlaveKeeps
  <2>3. ASSUME NEW total \in Quantity(s), NEW infoChanged \in BOOLEAN,
               UpdateSlave(s, total, infoChanged)
        PROVE  IInv'
    BY <2>3, QuantityNat, UpdateSlaveKeeps
  <2>4. ASSUME NEW more \in Quantity(s), NEW f \in Framework, NEW tasks \in Tasks(s),
               AddResourceProvider(s, more, f, tasks)
        PROVE  IInv'
    BY <2>4, QuantityNat, AddResourceProviderKeeps
  <2>5. ASSUME NEW activated \in BOOLEAN, SetActivated(s, activated) PROVE IInv'
    BY <2>5, SetActivatedKeeps
  <2>6. QED BY <1>3, <2>1, <2>2, <2>3, <2>4, <2>5 DEF SlaveCall
<1>4. ASSUME NEW f \in Framework, NEW r \in Role, NEW s \in Slave, AllocationCall(f, r, s)
      PROVE  IInv'
  BY <1>4, QuantityNat, UpdateAllocationKeeps, RecoverKeeps, OfferArrivesKeeps, OfferReturnsKeeps
     DEF AllocationCall
<1>5. CASE PeriodicAllocate
  BY <1>5, PeriodicAllocateKeeps
<1>6. CASE Run
  BY <1>6, RunAllocationKeeps DEF Run
<1>7. QED BY <1>1, <1>2, <1>3, <1>4, <1>5, <1>6 DEF Next

\* The invariant holds of every behaviour.
THEOREM Invariant == Spec => []IInv
<1>1. QED BY InitIInv, NextKeeps, PTL DEF Spec

\* The state is well typed whatever the frameworks, roles and agents.
THEOREM TypeCorrect == Spec => []TypeOK
<1>1. IInv => TypeOK
  <2> SUFFICES ASSUME IInv PROVE TypeOK
    OBVIOUS
  <2>1. roles \in [Role -> RoleState]
    BY DEF IInv, RoleInv
  <2>2. roleSorterTotal \in [Slave -> Nat]
    BY TotalsType DEF IInv, Global
  <2>3. QED BY <2>1, <2>2 DEF IInv, Global, TypeOK, Added
<1>2. QED BY <1>1, Invariant, PTL

\* Role tree, role sorter and framework sorters agree about who is in which role: no
\* CHECK of track- and untrackFrameworkUnderRole (hierarchical.cpp:2777-2831) fails.
THEOREM RolesAreConsistent == Spec => []RolesConsistent
<1>1. IInv => RolesConsistent
  BY DEF IInv, RoleInv, RolesConsistent
<1>2. QED BY <1>1, Invariant, PTL

\* The sorter of every subscribed role knows the framework: activating, deactivating,
\* suppressing, reviving and updating it find what they CHECK for.
THEOREM SubscribedTracked == Spec => []SubscribedIsTracked
<1>1. IInv => SubscribedIsTracked
  <2> SUFFICES ASSUME IInv, NEW f \in Added, NEW r \in frameworks[f].roles
               PROVE  f \in roles[r].clients
    BY DEF SubscribedIsTracked
  <2>1. r \in Role
    BY DEF IInv, Global, FrameworkState
  <2>2. QED BY <2>1 DEF IInv, RoleInv
<1>2. QED BY <1>1, Invariant, PTL

\* The sort of a role returns only frameworks that are subscribed and not suppressed.
THEOREM OnlyWantedAreActive == Spec => []ActiveClientWantsOffers
<1>1. IInv => ActiveClientWantsOffers
  BY DEF IInv, RoleInv, ActiveClientWantsOffers
<1>2. QED BY <1>1, Invariant, PTL

\* No active framework is missing from the sort of a role it has not suppressed.
THEOREM WantedAreActive == Spec => []WantedRoleIsActive
<1>1. IInv => WantedRoleIsActive
  <2> SUFFICES ASSUME IInv, NEW f \in Added, frameworks[f].active,
                      NEW r \in frameworks[f].roles \ frameworks[f].suppressedRoles
               PROVE  f \in roles[r].active
    BY DEF WantedRoleIsActive
  <2>1. r \in Role
    BY DEF IInv, Global, FrameworkState
  <2>2. QED BY <2>1 DEF IInv, RoleInv
<1>2. QED BY <1>1, Invariant, PTL

\* The sorters hold for an added framework what the master still has of it: no
\* recovery, in whatever order the calls come, takes more than a sorter holds.
THEOREM SortersAgreeWithMaster == Spec => []SortersMatchMaster
<1>1. IInv => SortersMatchMaster
  BY DEF IInv, RoleInv, SortersMatchMaster
<1>2. QED BY <1>1, Invariant, PTL

\* Every sorter divides by the agents that are there, whenever it was made.
THEOREM TotalsAgree == Spec => []SorterTotalsMatchAgents
<1>1. IInv => SorterTotalsMatchAgents
  BY DEF IInv, Global, RoleInv, SorterTotalsMatchAgents
<1>2. QED BY <1>1, Invariant, PTL

\* A batched run finds each of its candidates.
THEOREM CandidatesAreThere == Spec => []CandidatesAreAgents
<1>1. IInv => CandidatesAreAgents
  BY DEF IInv, Global, CandidatesAreAgents
<1>2. QED BY <1>1, Invariant, PTL

-----------------------------------------------------------------------------
(* What no step does.                                                      *)

\* updateFramework leaves the suppressed roles it was given: its own CHECK
\* (hierarchical.cpp:766) holds for every earlier sequence of calls.
THEOREM UpdateIsCorrect == Spec => UpdateSetsSuppressed
<1> DEFINE Set == \A f \in Added, rs, suppressed \in SUBSET Role :
             UpdateFramework(f, rs, suppressed) => frameworks'[f].suppressedRoles = suppressed
<1>1. IInv => [Set]_vars
  <2> SUFFICES ASSUME IInv, NEW f \in Added, NEW rs \in SUBSET Role,
                      NEW suppressed \in SUBSET Role, UpdateFramework(f, rs, suppressed)
               PROVE  frameworks'[f].suppressedRoles = suppressed
    OBVIOUS
  <2>1. /\ frameworks[f] \in FrameworkState
        /\ frameworks[f].suppressedRoles \subseteq frameworks[f].roles
    BY DEF IInv, Global
  <2>2. UpdatedSuppressed(frameworks[f], rs, suppressed) = suppressed
    BY <2>1, UpdatedSuppressedCorrect DEF UpdateFramework
  <2>3. QED BY <2>1, <2>2 DEF UpdateFramework, Added, FrameworkState
<1>2. Spec => [][Set]_vars
  BY <1>1, Invariant, PTL
<1>3. QED BY <1>2 DEF UpdateSetsSuppressed

\* What happens to the excess of an agent whose total and allocation change.
LEMMA ExcessKept ==
  ASSUME NEW a \in Nat, NEW b \in Nat, NEW total \in Nat, NEW total1 \in Nat,
         b - total1 <= a - total \/ b <= total1
  PROVE  Saturate(b - total1) <= Saturate(a - total)
BY DEF Saturate

\* No step allocates a unit of an agent twice: an excess comes only with a step that
\* shrinks the agent's total.
THEOREM NeverAllocatedTwice == Spec => NoDoubleAllocation
<1> DEFINE Kept == \A s \in DOMAIN slaves \cap DOMAIN slaves' :
             slaves'[s].total >= slaves[s].total => Excess(s)' <= Excess(s)
<1>1. IInv /\ IInv' /\ [Next]_vars => [Kept]_vars
  <2> SUFFICES ASSUME IInv, IInv', Next,
                      NEW s \in DOMAIN slaves, s \in DOMAIN slaves',
                      slaves'[s].total >= slaves[s].total
               PROVE  Excess(s)' <= Excess(s)
    BY DEF vars
  <2> DEFINE a == slaves[s].allocated
             b == slaves'[s].allocated
             total == slaves[s].total
             total1 == slaves'[s].total
  <2>1. a \in Nat /\ b \in Nat /\ total \in Nat /\ total1 \in Nat
    BY DEF IInv, Global, SlaveState
  <2>2. SUFFICES b - total1 <= a - total \/ b <= total1
    BY <2>1, ExcessKept DEF Excess
  <2>3. SUFFICES ASSUME slaves'[s] # slaves[s] PROVE b - total1 <= a - total \/ b <= total1
    BY <2>1
  <2>4. ASSUME NEW f \in Framework, FrameworkCall(f) PROVE FALSE
    <3>1. UNCHANGED slaves
      BY <2>4 DEF FrameworkCall, AddFramework, RemoveFramework, ActivateFramework,
         DeactivateFramework, UpdateFramework, SuppressOffers, ReviveOffers
    <3>2. QED BY <2>3, <3>1
  <2>5. ASSUME NEW t \in Slave, SlaveCall(t) PROVE b - total1 <= a - total \/ b <= total1
    <3>1. ASSUME NEW n \in Quantity(t), NEW f \in Framework, NEW tasks \in Tasks(t),
                 AddSlave(t, n, f, tasks)
          PROVE  FALSE
      BY <2>3, <3>1 DEF AddSlave
    <3>2. CASE RemoveSlave(t)
      BY <2>3, <3>2 DEF RemoveSlave
    <3>3. ASSUME NEW n \in Quantity(t), NEW infoChanged \in BOOLEAN, UpdateSlave(t, n, infoChanged)
          PROVE  b - total1 <= a - total
      <4>1. b = a
        BY <3>3 DEF UpdateSlave, UpdateSlaveTotal, IInv, Global, SlaveState
      <4>2. QED BY <2>1, <4>1
    <3>4. ASSUME NEW more \in Quantity(t), NEW f \in Framework, NEW tasks \in Tasks(t),
                 AddResourceProvider(t, more, f, tasks)
          PROVE  b - total1 <= a - total
      <4>1. slaves' = [slaves EXCEPT ![t].total = @ + more, ![t].allocated = @ + TotalOf(tasks)]
        BY <3>4 DEF AddResourceProvider
      <4>2. t = s
        BY <2>3, <4>1
      <4>3. more \in Nat /\ TotalOf(tasks) \in 0..more
        BY <3>4, QuantityNat DEF AddResourceProvider
      <4>4. slaves[s] \in SlaveState
        BY DEF IInv, Global
      <4>5. total1 = total + more /\ b = a + TotalOf(tasks)
        BY <4>1, <4>2, <4>4 DEF SlaveState
      <4>6. TotalOf(tasks) \in Nat /\ TotalOf(tasks) <= more
        BY <4>3
      <4>7. QED BY <2>1, <4>3, <4>5, <4>6
    <3>5. ASSUME NEW activated \in BOOLEAN, SetActivated(t, activated)
          PROVE  b - total1 <= a - total
      <4>1. b = a /\ total1 = total
        BY <3>5 DEF SetActivated, IInv, Global, SlaveState
      <4>2. QED BY <2>1, <4>1
    <3>6. QED BY <2>5, <3>1, <3>2, <3>3, <3>4, <3>5 DEF SlaveCall
  <2>6. ASSUME NEW f \in Framework, NEW r \in Role, NEW t \in Slave, AllocationCall(f, r, t)
        PROVE  b - total1 <= a - total
    <3>1. ASSUME NEW n \in Nat, slaves' = [slaves EXCEPT ![t].total = @ - n, ![t].allocated = @ - n]
          PROVE  b - total1 <= a - total
      <4>1. t = s /\ slaves[s] \in SlaveState
        BY <2>3, <3>1 DEF IInv, Global
      <4>2. total1 = total - n /\ b = a - n
        BY <3>1, <4>1 DEF SlaveState
      <4>3. QED BY <2>1, <3>1, <4>2
    <3>2. ASSUME NEW n \in Nat, slaves' = [slaves EXCEPT ![t].allocated = @ - n]
          PROVE  b - total1 <= a - total
      <4>1. t = s /\ slaves[s] \in SlaveState
        BY <2>3, <3>2 DEF IInv, Global
      <4>2. total1 = total /\ b = a - n
        BY <3>2, <4>1 DEF SlaveState
      <4>3. QED BY <2>1, <3>2, <4>2
    <3>3. ASSUME NEW n \in Nat, RecoverResources(f, r, t, n) PROVE b - total1 <= a - total
      BY <2>3, <3>2, <3>3 DEF RecoverResources
    <3>4. ASSUME NEW n \in Quantity(t) \ {0}, UpdateAllocation(f, r, t, n)
          PROVE  b - total1 <= a - total
      BY <3>1, <3>4, QuantityNat DEF UpdateAllocation
    <3>5. ASSUME NEW n \in Quantity(t) \ {0}, Recover(f, r, t, n)
          PROVE  b - total1 <= a - total
      BY <3>3, <3>5, QuantityNat DEF Recover
    <3>6. ~OfferArrives(f, r, t)
      BY <2>3 DEF OfferArrives
    <3>7. CASE OfferReturns(f, r, t)
      <4>1. offers[f][r][t] \in Nat
        BY BooksType DEF IInv, Global
      <4>2. QED BY <3>3, <3>7, <4>1 DEF OfferReturns
    <3>8. QED BY <2>6, <3>4, <3>5, <3>6, <3>7 DEF AllocationCall
  <2>7. CASE PeriodicAllocate
    BY <2>3, <2>7 DEF PeriodicAllocate
  <2>8. ASSUME NEW offer, RunAllocation(offer) PROVE b <= total1
    <3>1. /\ slaves'[s] = IF s \in DOMAIN offer
                          THEN [slaves[s] EXCEPT !.allocated = @ + offer[s].units]
                          ELSE slaves[s]
          /\ s \in DOMAIN offer => offer[s] \in Assignments(s)
      BY <2>8 DEF RunAllocation
    <3>2. s \in DOMAIN offer
      BY <2>3, <3>1
    <3>3. a + offer[s].units <= total
      BY <3>1, <3>2, AssignmentsGood DEF IInv
    <3>4. slaves[s] \in SlaveState
      BY DEF IInv, Global
    <3>5. b = a + offer[s].units /\ total1 = total
      BY <3>1, <3>2, <3>4 DEF SlaveState
    <3>6. QED BY <3>3, <3>5
  <2>9. QED BY <2>4, <2>5, <2>6, <2>7, <2>8 DEF Next, Run
<1>2. Spec => [][Kept]_vars
  BY <1>1, Invariant, PTL DEF Spec
<1>3. QED BY <1>2 DEF NoDoubleAllocation

-----------------------------------------------------------------------------
(* The sums, for any finite sets of frameworks and roles: what the         *)
(* roleSorter has for a role is what the role's clients hold together, and *)
(* what an agent has allocated is what the master has still to give back   *)
(* of it.  The code adds to and subtracts from two places in each handler; *)
(* nothing recomputes the sums.  Both are inductive only together with     *)
(* IInv, which says that who leaves a role, or is new in it, holds nothing.*)


RoleSums == \A r \in Role : SumsClients(roles[r])

-----------------------------------------------------------------------------
(* The roleSorter and the framework sorters.                               *)

\* Joining or leaving a sort, and a new total, leave the allocations alone.
LEMMA NoAllocationSums ==
  ASSUME NEW R \in RoleState, SumsClients(R)
  PROVE  /\ \A f \in Framework : /\ SumsClients(Activate(R, f))
                                 /\ SumsClients(Deactivate(R, f))
         /\ \A s \in Slave, old, new \in Nat : SumsClients(ChangeTotal(R, s, old, new))
<1>1. ASSUME NEW f \in Framework
      PROVE  SumsClients(Activate(R, f)) /\ SumsClients(Deactivate(R, f))
  <2>1. /\ Activate(R, f).allocation = R.allocation /\ Activate(R, f).held = R.held
        /\ Deactivate(R, f).allocation = R.allocation /\ Deactivate(R, f).held = R.held
    BY DEF Activate, Deactivate, RoleState
  <2> QED BY <2>1, SameAllocationsSums
<1>2. ASSUME NEW s \in Slave, NEW old \in Nat, NEW new \in Nat
      PROVE  SumsClients(ChangeTotal(R, s, old, new))
  <2>1. /\ ChangeTotal(R, s, old, new).allocation = R.allocation
        /\ ChangeTotal(R, s, old, new).held = R.held
    BY DEF ChangeTotal, RoleState
  <2> QED BY <2>1, SameAllocationsSums
<1> QED BY <1>1, <1>2

\* A framework that is added holds nothing before its resources are tracked.
LEMMA AddFrameworkSums ==
  ASSUME IInv, RoleSums, NEW f \in Framework, NEW rs \in SUBSET Role,
         NEW suppressed \in SUBSET Role, NEW active \in BOOLEAN,
         AddFramework(f, rs, suppressed, active)
  PROVE  RoleSums'
<1> SUFFICES ASSUME NEW r \in Role PROVE SumsClients(roles'[r])
  BY DEF RoleSums
<1> DEFINE R == IF r \in rs THEN Track(roles[r], f, Totals) ELSE roles[r]
           S == IF r \in rs \ suppressed /\ active THEN Activate(R, f) ELSE R
<1>1. roles'[r] = TrackAllocated(S, f, used[f][r], Totals)
  BY DEF AddFramework
<1>2. /\ roles[r] \in RoleState /\ RoleConsistent(roles[r]) /\ SumsClients(roles[r])
      /\ f \notin roles[r].frameworks
  BY DEF IInv, RoleInv, RoleConsistent, RoleSums, AddFramework, Known
<1>3. Totals \in [Slave -> Nat] /\ used[f][r] \in [Slave -> Nat]
  BY TotalsType, BooksType DEF IInv, Global
<1>4. /\ R \in RoleState /\ RoleConsistent(R) /\ SumsClients(R)
      /\ r \in rs => f \in R.clients
  BY <1>2, <1>3, TrackGood, TrackSums, FiniteAssumption
<1> HIDE DEF R
<1>5. S \in RoleState /\ RoleConsistent(S) /\ SumsClients(S)
  BY <1>4, ActivateGood, NoAllocationSums
<1> HIDE DEF S
<1> QED BY <1>1, <1>3, <1>5, TrackAllocatedSums, FiniteAssumption

\* A framework that is removed takes what it holds out of the role before it leaves.
LEMMA RemoveFrameworkSums ==
  ASSUME IInv, RoleSums, NEW f \in Framework, RemoveFramework(f)
  PROVE  RoleSums'
<1> SUFFICES ASSUME NEW r \in Role PROVE SumsClients(roles'[r])
  BY DEF RoleSums
<1> DEFINE less == roles[r].held[f]
           U == Unallocated(roles[r], f, less)
           leaves == r \in frameworks[f].roles /\ roles[r].hasSorter /\ f \in roles[r].clients
<1>1. /\ roles[r] \in RoleState /\ RoleConsistent(roles[r]) /\ SumsClients(roles[r])
      /\ less \in [Slave -> Nat]
  BY DEF IInv, RoleInv, RoleState, RoleSums
<1>2. CASE ~leaves
  <2>1. roles'[r] = roles[r]
    BY <1>2 DEF RemoveFramework
  <2> QED BY <1>1, <2>1
<1>3. CASE leaves
  <2>1. roles'[r] = Untrack(U, f) /\ Holds(roles[r], f, less)
    BY <1>3 DEF RemoveFramework
  <2>2. /\ U \in RoleState /\ RoleConsistent(U)
        /\ U.frameworks = roles[r].frameworks
        /\ U.held = [roles[r].held EXCEPT ![f] = Minus(roles[r].held[f], less)]
    BY <1>1, <1>3, <2>1, UnallocatedGood
  <2>3. SumsClients(U)
    BY <1>1, <1>3, <2>1, AllocationSums, FiniteAssumption
  <2> HIDE DEF U
  <2>4. U.held[f] = NoResources
    <3>1. roles[r].held \in [Framework -> [Slave -> Nat]]
      BY <1>1 DEF RoleState
    <3> QED BY <2>2, <3>1 DEF Minus, NoResources
  <2>5. f \in U.frameworks
    BY <1>1, <1>3, <2>2 DEF RoleConsistent
  <2> QED BY <2>1, <2>2, <2>3, <2>4, <2>5, UntrackSums, FiniteAssumption
<1> QED BY <1>2, <1>3

\* Who has no entry holds nothing.
LEMMA NoEntryHoldsNothing ==
  ASSUME NEW R \in RoleState, RoleConsistent(R), NEW f \in Framework, R.entries[f] = {}
  PROVE  R.held[f] = NoResources
<1>1. R.held[f] \in [Slave -> Nat]
  BY DEF RoleState
<1>2. \A s \in Slave : ~(R.held[f][s] > 0)
  BY DEF RoleConsistent
<1>3. \A s \in Slave : R.held[f][s] = 0
  BY <1>1, <1>2
<1> QED BY <1>1, <1>3 DEF NoResources

\* A framework that is updated leaves a role only when it has no entry there.
LEMMA UpdateFrameworkSums ==
  ASSUME IInv, RoleSums, NEW f \in Framework, NEW rs \in SUBSET Role,
         NEW suppressed \in SUBSET Role, UpdateFramework(f, rs, suppressed)
  PROVE  RoleSums'
<1> SUFFICES ASSUME NEW r \in Role PROVE SumsClients(roles'[r])
  BY DEF RoleSums
<1> DEFINE old == frameworks[f]
           R == roles[r]
           tracked == IF f \in R.frameworks THEN R ELSE Track(R, f, Totals)
           sub == IF r \in rs \ old.roles THEN Activate(tracked, f) ELSE R
           left == Deactivate(sub, f)
           uns == IF r \notin old.roles \ rs THEN sub
                  ELSE IF left.entries[f] = {} THEN Untrack(left, f) ELSE left
           sup == IF r \in suppressed \ old.suppressedRoles THEN Deactivate(uns, f) ELSE uns
<1>1. roles'[r] = IF r \in (old.suppressedRoles \ suppressed) \cap rs
                  THEN Activate(sup, f) ELSE sup
  BY DEF UpdateFramework, UpdatedRole, Subscribe
<1>2. R \in RoleState /\ RoleConsistent(R) /\ SumsClients(R) /\ Totals \in [Slave -> Nat]
  BY TotalsType DEF IInv, Global, RoleInv, RoleSums
<1>3. /\ tracked \in RoleState /\ RoleConsistent(tracked) /\ SumsClients(tracked)
      /\ f \in tracked.clients
  <2>1. CASE f \in R.frameworks
    BY <1>2, <2>1 DEF RoleConsistent
  <2>2. CASE f \notin R.frameworks
    BY <1>2, <2>2, TrackGood, TrackSums, FiniteAssumption
  <2> QED BY <2>1, <2>2
<1> HIDE DEF tracked
<1>4. /\ sub \in RoleState /\ RoleConsistent(sub) /\ SumsClients(sub)
      /\ r \in old.roles \ rs => sub = R
  BY <1>2, <1>3, ActivateGood, NoAllocationSums
<1> HIDE DEF sub
<1>5. /\ left \in RoleState /\ RoleConsistent(left) /\ SumsClients(left)
      /\ left.clients = sub.clients
  BY <1>4, DeactivateGood, NoAllocationSums
<1> HIDE DEF left
<1>6. uns \in RoleState /\ SumsClients(uns)
  <2>1. CASE r \in old.roles \ rs /\ left.entries[f] = {}
    <3>1. f \in Added
      BY DEF UpdateFramework
    <3>2. f \in R.clients
      BY <2>1, <3>1 DEF IInv, RoleInv
    <3>3. f \in left.frameworks
      BY <1>4, <1>5, <2>1, <3>2 DEF RoleConsistent
    <3>4. left.held[f] = NoResources
      BY <1>5, <2>1, NoEntryHoldsNothing
    <3> QED BY <1>5, <2>1, <3>3, <3>4, UntrackSums, UntrackGood, FiniteAssumption
  <2>2. CASE ~(r \in old.roles \ rs /\ left.entries[f] = {})
    BY <1>4, <1>5, <2>2
  <2> QED BY <2>1, <2>2
<1> HIDE DEF uns
<1>7. sup \in RoleState /\ SumsClients(sup)
  <2>1. Deactivate(uns, f) \in RoleState
    BY <1>6 DEF Deactivate, RoleState
  <2> QED BY <1>6, <2>1, NoAllocationSums
<1> HIDE DEF sup
<1> QED BY <1>1, <1>7, NoAllocationSums

\* Tasks an agent comes with are added on both sides.
LEMMA TrackTasksSums ==
  ASSUME NEW R \in RoleState, RoleConsistent(R), SumsClients(R), NEW s \in Slave,
         NEW f \in Framework, NEW n \in Nat, NEW totals \in [Slave -> Nat]
  PROVE  SumsClients(TrackTasks(R, s, f, n, totals))
<1>1. On(s, n) \in [Slave -> Nat]
  BY ResourceTypes
<1> QED BY <1>1, TrackAllocatedSums, FiniteAssumption DEF TrackTasks

\* An agent comes, with tasks or without.
LEMMA AddSlaveSums ==
  ASSUME IInv, RoleSums, NEW s \in Slave, NEW total \in Nat, NEW f \in Framework,
         NEW tasks \in [Role -> Nat], AddSlave(s, total, f, tasks)
  PROVE  RoleSums'
<1> SUFFICES ASSUME NEW r \in Role PROVE SumsClients(roles'[r])
  BY DEF RoleSums
<1> DEFINE C == ChangeTotal(roles[r], s, 0, total)
           totals == [Totals EXCEPT ![s] = total]
<1>1. roles'[r] = TrackTasks(C, s, f, tasks[r], totals) /\ s \notin DOMAIN slaves
  BY DEF AddSlave
<1>2. Totals \in [Slave -> Nat] /\ Totals[s] = 0
  BY <1>1, TotalsType DEF IInv, Global, Totals
<1>3. /\ roles[r] \in RoleState /\ RoleConsistent(roles[r]) /\ SumsClients(roles[r])
      /\ roles[r].hasSorter => roles[r].totals[s] = 0
  BY <1>2 DEF IInv, RoleInv, RoleSums
<1>4. C \in RoleState /\ RoleConsistent(C) /\ SumsClients(C)
  BY <1>3, ChangeTotalGood, NoAllocationSums
<1> HIDE DEF C
<1>5. totals \in [Slave -> Nat] /\ tasks[r] \in Nat
  BY <1>2
<1> HIDE DEF totals
<1> QED BY <1>1, <1>4, <1>5, TrackTasksSums

\* An agent's total changes, or it goes: no allocation does.
LEMMA TotalSums ==
  ASSUME IInv, RoleSums, NEW s \in DOMAIN slaves, NEW new \in Nat,
         \A r \in Role : roles'[r] = ChangeTotal(roles[r], s, slaves[s].total, new)
  PROVE  RoleSums'
<1>1. s \in Slave /\ slaves[s].total \in Nat
  BY TotalsOf DEF IInv
<1> QED BY <1>1, NoAllocationSums DEF IInv, RoleInv, RoleSums

\* A resource provider comes, with tasks or without.
LEMMA AddResourceProviderSums ==
  ASSUME IInv, RoleSums, NEW s \in Slave, NEW more \in Nat, NEW f \in Framework,
         NEW tasks \in [Role -> Nat], AddResourceProvider(s, more, f, tasks)
  PROVE  RoleSums'
<1> SUFFICES ASSUME NEW r \in Role PROVE SumsClients(roles'[r])
  BY DEF RoleSums
<1> DEFINE T == TrackTasks(roles[r], s, f, tasks[r], Totals)
<1>1. /\ roles'[r] = ChangeTotal(T, s, slaves[s].total, slaves[s].total + more)
      /\ s \in DOMAIN slaves
  BY DEF AddResourceProvider
<1>2. slaves[s].total \in Nat /\ slaves[s].total + more \in Nat
  <2>1. slaves[s].total \in Nat
    BY <1>1, TotalsOf DEF IInv
  <2> QED BY <2>1
<1>3. /\ roles[r] \in RoleState /\ RoleConsistent(roles[r]) /\ SumsClients(roles[r])
      /\ roles[r].hasSorter => roles[r].totals = Totals
      /\ Totals \in [Slave -> Nat]
  BY TotalsType DEF IInv, Global, RoleInv, RoleSums
<1>4. T \in RoleState /\ SumsClients(T)
  BY <1>3, TrackTasksGood, TrackTasksSums
<1> HIDE DEF T
<1> QED BY <1>1, <1>2, <1>4, NoAllocationSums

\* Who holds something is a client.
LEMMA HolderIsClient ==
  ASSUME NEW R \in RoleState, RoleConsistent(R), NEW f \in Framework, NEW s \in Slave,
         NEW n \in Nat \ {0}, Holds(R, f, On(s, n))
  PROVE  f \in R.clients
<1>1. n <= R.held[f][s]
  BY ResourceTypes DEF Holds
<1>2. R.held[f] # NoResources
  BY <1>1 DEF RoleState, NoResources
<1> QED BY <1>2 DEF RoleConsistent

\* An operation takes resources from the client and from the role.
LEMMA UpdateAllocationSums ==
  ASSUME IInv, RoleSums, NEW f \in Framework, NEW r \in Role, NEW s \in Slave,
         NEW n \in Nat \ {0}, UpdateAllocation(f, r, s, n)
  PROVE  RoleSums'
<1> SUFFICES ASSUME NEW q \in Role PROVE SumsClients(roles'[q])
  BY DEF RoleSums
<1> DEFINE D == IF q = r THEN Removed(roles[q], f, On(s, n)) ELSE roles[q]
<1>1. /\ roles'[q] = ChangeTotal(D, s, slaves[s].total, slaves[s].total - n)
      /\ s \in DOMAIN slaves /\ n <= slaves[s].total /\ Holds(roles[r], f, On(s, n))
  BY DEF UpdateAllocation
<1>2. slaves[s].total \in Nat /\ slaves[s].total - n \in Nat
  <2>1. slaves[s].total \in Nat
    BY <1>1, TotalsOf DEF IInv
  <2> QED BY <1>1, <2>1
<1>3. roles[q] \in RoleState /\ RoleConsistent(roles[q]) /\ SumsClients(roles[q])
  BY DEF IInv, RoleInv, RoleSums
<1>4. D \in RoleState /\ SumsClients(D)
  <2>1. CASE q = r
    <3>1. On(s, n) \in [Slave -> Nat] /\ f \in roles[q].clients
      BY <1>1, <1>3, <2>1, HolderIsClient, ResourceTypes
    <3> QED BY <1>1, <1>3, <2>1, <3>1, RemovedGood, AllocationSums, FiniteAssumption
  <2>2. CASE q # r
    BY <1>3, <2>2
  <2> QED BY <2>1, <2>2
<1> HIDE DEF D
<1> QED BY <1>1, <1>2, <1>4, NoAllocationSums

\* A client that gives back its last resource of a role it left takes nothing along.
LEMMA RecoverResourcesSums ==
  ASSUME IInv, RoleSums, NEW f \in Framework, NEW r \in Role, NEW s \in Slave, NEW n \in Nat,
         RecoverResources(f, r, s, n)
  PROVE  RoleSums'
<1> SUFFICES ASSUME NEW q \in Role PROVE SumsClients(roles'[q])
  BY DEF RoleSums
<1> DEFINE R == roles[r]
           left == Unallocated(R, f, On(s, n))
<1>1. roles' = [roles EXCEPT ![r] = RecoveredRole(R, f, r, s, n)]
  BY DEF RecoverResources
<1>2. /\ R \in RoleState /\ RoleConsistent(R) /\ SumsClients(R) /\ SumsClients(roles[q])
      /\ roles = [p \in Role |-> roles[p]]
  BY DEF IInv, RoleInv, RoleSums
<1>3. SumsClients(RecoveredRole(R, f, r, s, n))
  <2>1. CASE ~(f \in Added /\ f \in R.clients)
    BY <1>2, <2>1 DEF RecoveredRole
  <2>2. CASE f \in Added /\ f \in R.clients
    <3>1. On(s, n) \in [Slave -> Nat] /\ Holds(R, f, On(s, n))
      BY <2>2, ResourceTypes DEF RecoverResources
    <3>2. /\ left \in RoleState /\ RoleConsistent(left) /\ SumsClients(left)
          /\ left.clients = R.clients
      BY <1>2, <2>2, <3>1, UnallocatedGood, AllocationSums, FiniteAssumption
    <3>3. RecoveredRole(R, f, r, s, n) =
            IF r \notin frameworks[f].roles /\ left.entries[f] = {} THEN Untrack(left, f) ELSE left
      BY <2>2 DEF RecoveredRole
    <3> HIDE DEF left
    <3>4. f \in left.frameworks
      BY <2>2, <3>2 DEF RoleConsistent
    <3>5. left.entries[f] = {} => left.held[f] = NoResources
      BY <3>2, NoEntryHoldsNothing
    <3> QED BY <3>2, <3>3, <3>4, <3>5, UntrackSums, FiniteAssumption
  <2> QED BY <2>1, <2>2
<1> QED BY <1>1, <1>2, <1>3

\* A run allocates an agent to one client of one role, and to that role.
LEMMA RunAllocationSums ==
  ASSUME IInv, RoleSums, NEW offer, RunAllocation(offer)
  PROVE  RoleSums'
<1> SUFFICES ASSUME NEW r \in Role PROVE SumsClients(roles'[r])
  BY DEF RoleSums
<1>1. IInv'
  BY RunAllocationKeeps
<1>2. /\ roles[r] \in RoleState /\ SumsClients(roles[r]) /\ roles'[r] \in RoleState
      /\ roles[r].allocation \in [Slave -> Nat]
      /\ roles[r].held \in [Framework -> [Slave -> Nat]]
  BY <1>1 DEF IInv, RoleInv, RoleSums, RoleState
<1>3. \A s \in DOMAIN offer : /\ offer[s].framework \in Framework
                              /\ offer[s].units \in Nat
  BY AssignmentsGood DEF RunAllocation, SlaveIds, IInv
<1>4. ASSUME NEW s \in Slave
      PROVE  /\ roles'[r].allocation[s] = IF s \in DOMAIN offer /\ offer[s].role = r
                  THEN roles[r].allocation[s] + offer[s].units ELSE roles[r].allocation[s]
             /\ \A g \in Framework :
                  roles'[r].held[g][s] = roles[r].held[g][s] + Offered(offer, g, r)[s]
  <2>1. roles'[r].allocation = [t \in Slave |->
          IF t \in DOMAIN offer /\ offer[t].role = r
          THEN roles[r].allocation[t] + offer[t].units ELSE roles[r].allocation[t]]
    BY <1>2 DEF RunAllocation, RoleState
  <2>2. roles'[r].held = [f \in Framework |-> Plus(roles[r].held[f], Offered(offer, f, r))]
    BY <1>2 DEF RunAllocation, RoleState
  <2> QED BY <2>1, <2>2 DEF Plus
<1>5. ASSUME NEW s \in Slave
      PROVE  \/ /\ roles'[r].allocation[s] = roles[r].allocation[s]
                /\ \A g \in Framework : roles'[r].held[g][s] = roles[r].held[g][s]
             \/ \E f \in Framework :
                  /\ roles'[r].allocation[s] =
                       roles[r].allocation[s] - roles[r].held[f][s] + roles'[r].held[f][s]
                  /\ \A g \in Framework \ {f} : roles'[r].held[g][s] = roles[r].held[g][s]
  <2>1. CASE s \in DOMAIN offer /\ offer[s].role = r
    <3> DEFINE f == offer[s].framework
    <3>1. f \in Framework /\ offer[s].units \in Nat
      BY <1>3, <2>1
    <3>2. \A g \in Framework : Offered(offer, g, r)[s] = IF g = f THEN offer[s].units ELSE 0
      BY <2>1 DEF Offered
    <3> HIDE DEF f
    <3>3. roles'[r].held[f][s] = roles[r].held[f][s] + offer[s].units
      BY <1>4, <3>1, <3>2
    <3>4. \A g \in Framework \ {f} : roles'[r].held[g][s] = roles[r].held[g][s]
      BY <1>2, <1>4, <3>2
    <3>5. roles'[r].allocation[s] =
            roles[r].allocation[s] - roles[r].held[f][s] + roles'[r].held[f][s]
      BY <1>2, <1>4, <2>1, <3>1, <3>3
    <3> QED BY <3>1, <3>4, <3>5
  <2>2. CASE ~(s \in DOMAIN offer /\ offer[s].role = r)
    <3>1. \A g \in Framework : Offered(offer, g, r)[s] = 0
      BY <2>2 DEF Offered
    <3>2. \A g \in Framework : roles'[r].held[g][s] = roles[r].held[g][s]
      BY <1>2, <1>4, <3>1
    <3> QED BY <1>4, <2>2, <3>2
  <2> QED BY <2>1, <2>2
<1> QED BY <1>2, <1>5, SumFollows, FiniteAssumption

\* Every call keeps the sums.
LEMMA NextKeepsRoleSums == IInv /\ RoleSums /\ [Next]_vars => RoleSums'
<1> SUFFICES ASSUME IInv, RoleSums, [Next]_vars PROVE RoleSums'
  OBVIOUS
<1>1. CASE UNCHANGED roles
  BY <1>1 DEF RoleSums
<1>2. ASSUME NEW f \in Framework, NEW rs \in SUBSET Role,
             \A r \in Role : \/ roles'[r] = roles[r]
                             \/ roles'[r] = Activate(roles[r], f)
                             \/ roles'[r] = Deactivate(roles[r], f)
      PROVE  RoleSums'
  BY <1>2, NoAllocationSums DEF IInv, RoleInv, RoleSums
<1>3. ASSUME NEW f \in Framework, FrameworkCall(f) PROVE RoleSums'
  <2>1. CASE ActivateFramework(f)
    BY <1>2, <2>1 DEF ActivateFramework
  <2>2. CASE DeactivateFramework(f)
    BY <1>2, <2>2 DEF DeactivateFramework
  <2>3. ASSUME NEW rs \in SUBSET Role, SuppressOffers(f, rs) PROVE RoleSums'
    BY <1>2, <2>3 DEF SuppressOffers
  <2>4. ASSUME NEW rs \in SUBSET Role, ReviveOffers(f, rs) PROVE RoleSums'
    BY <1>2, <2>4 DEF ReviveOffers
  <2> QED BY <1>3, <2>1, <2>2, <2>3, <2>4, AddFrameworkSums, RemoveFrameworkSums,
             UpdateFrameworkSums DEF FrameworkCall
<1>4. ASSUME NEW s \in Slave, SlaveCall(s) PROVE RoleSums'
  <2>1. ASSUME NEW total \in Quantity(s), NEW f \in Framework, NEW tasks \in Tasks(s),
               AddSlave(s, total, f, tasks)
        PROVE  RoleSums'
    BY <2>1, QuantityNat, AddSlaveSums
  <2>2. CASE RemoveSlave(s)
    BY <2>2, TotalSums DEF RemoveSlave
  <2>3. ASSUME NEW total \in Quantity(s), NEW infoChanged \in BOOLEAN,
               UpdateSlave(s, total, infoChanged)
        PROVE  RoleSums'
    BY <2>3, QuantityNat, TotalSums DEF UpdateSlave, UpdateSlaveTotal
  <2>4. ASSUME NEW more \in Quantity(s), NEW f \in Framework, NEW tasks \in Tasks(s),
               AddResourceProvider(s, more, f, tasks)
        PROVE  RoleSums'
    BY <2>4, QuantityNat, AddResourceProviderSums
  <2>5. ASSUME NEW activated \in BOOLEAN, SetActivated(s, activated) PROVE RoleSums'
    BY <1>1, <2>5 DEF SetActivated
  <2> QED BY <1>4, <2>1, <2>2, <2>3, <2>4, <2>5 DEF SlaveCall
<1>5. ASSUME NEW f \in Framework, NEW r \in Role, NEW s \in Slave, AllocationCall(f, r, s)
      PROVE  RoleSums'
  <2>1. ASSUME NEW n \in Quantity(s) \ {0}, UpdateAllocation(f, r, s, n) PROVE RoleSums'
    BY <2>1, QuantityNat, UpdateAllocationSums
  <2>2. ASSUME NEW n \in Quantity(s) \ {0}, Recover(f, r, s, n) PROVE RoleSums'
    BY <2>2, QuantityNat, RecoverResourcesSums DEF Recover
  <2>3. CASE OfferArrives(f, r, s)
    BY <1>1, <2>3 DEF OfferArrives
  <2>4. CASE OfferReturns(f, r, s)
    <3>1. offers[f][r][s] \in Nat
      BY BooksType DEF IInv, Global
    <3> QED BY <2>4, <3>1, RecoverResourcesSums DEF OfferReturns
  <2> QED BY <1>5, <2>1, <2>2, <2>3, <2>4 DEF AllocationCall
<1>6. CASE PeriodicAllocate
  BY <1>1, <1>6 DEF PeriodicAllocate
<1>7. CASE Run
  BY <1>7, RunAllocationSums DEF Run
<1> QED BY <1>1, <1>3, <1>4, <1>5, <1>6, <1>7 DEF Next, vars

\* What each role has is what its clients hold together, after every call.
THEOREM RolesSum == Spec => []RoleSums
<1>1. Init => RoleSums
  <2> SUFFICES ASSUME Init, NEW r \in Role PROVE SumsClients(roles[r])
    BY DEF RoleSums
  <2>1. /\ roles[r] = Untracked /\ Untracked \in RoleState
        /\ Untracked.allocation = NoResources
        /\ \A f \in Framework : Untracked.held[f] = NoResources
    BY UntrackedGood DEF Init, Untracked
  <2> QED BY <2>1, SumOfNobody, FiniteAssumption
<1> QED BY <1>1, Invariant, NextKeepsRoleSums, PTL DEF Spec

\* The share that orders the roles counts each of their clients' resources once,
\* whatever joined, left, came, went or was recovered before.
THEOREM RoleSorterIsSum == Spec => []RoleSorterSumsClients
<1>1. RoleSums => RoleSorterSumsClients
  BY DEF RoleSums, SumsClients, RoleSorterSumsClients
<1> QED BY <1>1, RolesSum, PTL

-----------------------------------------------------------------------------
(* The agents and the master's books.                                      *)

\* What the master has still to give back of agent s, by framework and role.
Shares(s) == [k \in Framework \X Role |-> Outstanding(k[1], k[2], s)]

Balanced(s) == slaves[s].allocated = SumFunction(Shares(s))

AllBalanced == \A s \in DOMAIN slaves : Balanced(s)

\* The shares are numbers, so they can be summed.
LEMMA SharesType ==
  ASSUME offers \in Books, used \in Books, NEW s \in Slave
  PROVE  /\ IsFiniteSet(Framework \X Role)
         /\ Shares(s) \in [Framework \X Role -> Nat]
         /\ \A f \in Framework, r \in Role : /\ Outstanding(f, r, s) \in Nat
                                             /\ Shares(s)[<<f, r>>] = Outstanding(f, r, s)
<1>1. \A f \in Framework, r \in Role : Outstanding(f, r, s) \in Nat
  <2> TAKE f \in Framework, r \in Role
  <2>1. offers[f][r][s] \in Nat /\ used[f][r][s] \in Nat
    BY BooksType
  <2> QED BY <2>1 DEF Outstanding
<1>2. IsFiniteSet(Framework \X Role)
  BY FS_Product, FiniteAssumption
<1> QED BY <1>1, <1>2 DEF Shares

\* Nothing happens to an agent or to its entries in the books.
LEMMA StillBalanced ==
  ASSUME NEW s \in DOMAIN slaves, Balanced(s), slaves'[s].allocated = slaves[s].allocated,
         \A f \in Framework, r \in Role : Outstanding(f, r, s)' = Outstanding(f, r, s)
  PROVE  Balanced(s)'
<1>1. Shares(s)' = Shares(s)
  BY DEF Shares
<1> QED BY <1>1 DEF Balanced

\* The agent's allocation changes as much as one entry of the books.
LEMMA BalancedByEntry ==
  ASSUME offers \in Books, used \in Books, offers' \in Books, used' \in Books,
         NEW s \in Slave, Balanced(s), NEW f \in Framework, NEW r \in Role,
         slaves'[s].allocated =
           slaves[s].allocated - Outstanding(f, r, s) + Outstanding(f, r, s)',
         \A g \in Framework, q \in Role :
           g # f \/ q # r => Outstanding(g, q, s)' = Outstanding(g, q, s)
  PROVE  Balanced(s)'
<1>1. PICK a \in [Framework \X Role -> Nat] : a = Shares(s)
  BY SharesType
<1>2. IsFiniteSet(Framework \X Role)
  BY SharesType
<1>3. \A g \in Framework, q \in Role : Outstanding(g, q, s)' \in Nat
  <2> TAKE g \in Framework, q \in Role
  <2>1. offers'[g][q][s] \in Nat /\ used'[g][q][s] \in Nat
    BY BooksType
  <2> QED BY <2>1 DEF Outstanding
<1>4. PICK b \in [Framework \X Role -> Nat] : b = Shares(s)'
  BY <1>3 DEF Shares
<1>5. /\ a[<<f, r>>] = Outstanding(f, r, s) /\ b[<<f, r>>] = Outstanding(f, r, s)'
      /\ \A k \in (Framework \X Role) \ {<<f, r>>} : b[k] = a[k]
  <2>1. \A g \in Framework, q \in Role : /\ a[<<g, q>>] = Outstanding(g, q, s)
                                         /\ b[<<g, q>>] = Outstanding(g, q, s)'
    BY <1>1, <1>4 DEF Shares
  <2> QED BY <2>1
<1>6. SumFunction(b) = SumFunction(a) - a[<<f, r>>] + b[<<f, r>>]
  BY ONLY <1>2, <1>5, SumFunctionChangesAt, a \in [Framework \X Role -> Nat],
          b \in [Framework \X Role -> Nat], <<f, r>> \in Framework \X Role
<1>7. slaves[s].allocated = SumFunction(a)
  BY <1>1 DEF Balanced
<1> QED BY <1>4, <1>5, <1>6, <1>7 DEF Balanced

\* The books grow by the tasks of one framework on the agent, by role.
LEMMA SharesGrow ==
  ASSUME offers \in Books, used \in Books, NEW s \in Slave, NEW f \in Framework,
         NEW tasks \in [Role -> Nat], offers' = offers, used' = UsedOn(s, f, tasks)
  PROVE  SumFunction(Shares(s)') = SumFunction(Shares(s)) + TotalOf(tasks)
<1>1. PICK a \in [Framework \X Role -> Nat] : a = Shares(s)
  BY SharesType
<1>2. PICK d \in [Framework \X Role -> Nat] :
        d = [k \in Framework \X Role |-> IF k[1] = f THEN tasks[k[2]] ELSE 0]
  OBVIOUS
<1>3. \A g \in Framework, q \in Role :
        /\ Outstanding(g, q, s) \in Nat
        /\ Outstanding(g, q, s)' = Outstanding(g, q, s) + IF g = f THEN tasks[q] ELSE 0
  <2> TAKE g \in Framework, q \in Role
  <2>1. offers[g][q][s] \in Nat /\ used[g][q][s] \in Nat /\ tasks[q] \in Nat
    BY BooksType
  <2>2. used'[g][q][s] = used[g][q][s] + IF g = f THEN tasks[q] ELSE 0
    BY UsedOnGood
  <2> QED BY <2>1, <2>2 DEF Outstanding
<1>4. \A g \in Framework, q \in Role :
        /\ Outstanding(g, q, s)' \in Nat
        /\ Outstanding(g, q, s)' = a[<<g, q>>] + d[<<g, q>>]
  BY <1>1, <1>2, <1>3 DEF Shares
<1>5. PICK b \in [Framework \X Role -> Nat] : b = Shares(s)'
  BY <1>4 DEF Shares
<1>6. \A k \in Framework \X Role : b[k] = a[k] + d[k]
  BY <1>4, <1>5 DEF Shares
<1>7. SumFunction(b) = SumFunction(a) + SumFunction(d)
  <2>1. IsFiniteSet(Framework \X Role)
    BY SharesType
  <2> QED BY ONLY <1>6, <2>1, SumFunctionAdds, a \in [Framework \X Role -> Nat],
            b \in [Framework \X Role -> Nat], d \in [Framework \X Role -> Nat]
<1>8. SumFunction(d) = SumFunction(tasks)
  <2>1. /\ \A q \in Role : d[<<f, q>>] = tasks[q]
        /\ \A k \in Framework \X Role : k[1] # f => d[k] = 0
    BY <1>2
  <2>2. IsFiniteSet(Framework) /\ IsFiniteSet(Role)
    BY FiniteAssumption
  <2> QED BY ONLY <2>1, <2>2, SumOfRow, f \in Framework, tasks \in [Role -> Nat],
            d \in [Framework \X Role -> Nat]
<1> QED BY <1>1, <1>5, <1>7, <1>8 DEF TotalOf

\* The books of the other agents stay as they are.
LEMMA OthersShares ==
  ASSUME used \in Books, NEW s \in Slave, NEW f \in Framework,
         NEW tasks \in [Role -> Nat], offers' = offers, used' = UsedOn(s, f, tasks)
  PROVE  \A g \in Framework, q \in Role, t \in Slave :
           t # s => Outstanding(g, q, t)' = Outstanding(g, q, t)
<1> TAKE g \in Framework, q \in Role, t \in Slave
<1>1. used[g][q][t] \in Nat /\ (t # s => used'[g][q][t] = used[g][q][t] + 0)
  BY BooksType, UsedOnGood
<1> QED BY <1>1 DEF Outstanding

\* Nobody holds anything of a new agent but what it comes with.
LEMMA AddSlaveBalanced ==
  ASSUME IInv, AllBalanced, NEW s \in Slave, NEW total \in Nat, NEW f \in Framework,
         NEW tasks \in [Role -> Nat], AddSlave(s, total, f, tasks)
  PROVE  AllBalanced'
<1>1. /\ used \in Books /\ offers \in Books /\ DOMAIN slaves \subseteq Slave
      /\ offers' = offers /\ used' = UsedOn(s, f, tasks)
      /\ DOMAIN slaves' = DOMAIN slaves \cup {s}
      /\ \A t \in DOMAIN slaves : t # s /\ slaves'[t] = slaves[t]
      /\ slaves'[s].allocated = TotalOf(tasks)
      /\ TotalOf(tasks) \in 0..total
      /\ NobodyHolds(s)
  BY DEF AddSlave, IInv, Global
<1>2. ASSUME NEW t \in DOMAIN slaves PROVE Balanced(t)'
  BY <1>1, OthersShares, StillBalanced DEF AllBalanced
<1>3. Balanced(s)'
  <2>1. \A k \in Framework \X Role : Shares(s)[k] = 0
    BY <1>1 DEF Shares, NobodyHolds
  <2>2. SumFunction(Shares(s)) = 0
    BY <1>1, <2>1, SharesType, SumFunctionOfZeros
  <2>3. SumFunction(Shares(s)') = 0 + TotalOf(tasks)
    BY <1>1, <2>2, SharesGrow
  <2> QED BY <1>1, <2>3 DEF Balanced
<1> QED BY <1>1, <1>2, <1>3 DEF AllBalanced

\* A resource provider's tasks are added to the agent and to the books.
LEMMA AddResourceProviderBalanced ==
  ASSUME IInv, AllBalanced, NEW s \in Slave, NEW more \in Nat, NEW f \in Framework,
         NEW tasks \in [Role -> Nat], AddResourceProvider(s, more, f, tasks)
  PROVE  AllBalanced'
<1>1. /\ used \in Books /\ offers \in Books /\ DOMAIN slaves \subseteq Slave
      /\ offers' = offers /\ used' = UsedOn(s, f, tasks)
      /\ s \in DOMAIN slaves
      /\ slaves' = [slaves EXCEPT ![s].total = @ + more, ![s].allocated = @ + TotalOf(tasks)]
      /\ slaves[s] \in SlaveState
  BY DEF AddResourceProvider, IInv, Global
<1>2. DOMAIN slaves' = DOMAIN slaves /\ \A t \in DOMAIN slaves : t # s => slaves'[t] = slaves[t]
  BY <1>1
<1>3. slaves'[s].allocated = slaves[s].allocated + TotalOf(tasks)
  BY <1>1 DEF SlaveState
<1>4. ASSUME NEW t \in DOMAIN slaves, t # s PROVE Balanced(t)'
  BY <1>1, <1>2, <1>4, OthersShares, StillBalanced DEF AllBalanced
<1>5. Balanced(s)'
  <2>1. SumFunction(Shares(s)') = SumFunction(Shares(s)) + TotalOf(tasks)
    BY <1>1, SharesGrow
  <2> QED BY <1>1, <1>3, <2>1 DEF Balanced, AllBalanced
<1> QED BY <1>2, <1>4, <1>5 DEF AllBalanced

\* An operation takes n units off the agent and off what the framework uses.
LEMMA UpdateAllocationBalanced ==
  ASSUME IInv, IInv', AllBalanced, NEW f \in Framework, NEW r \in Role, NEW s \in Slave,
         NEW n \in Nat, UpdateAllocation(f, r, s, n)
  PROVE  AllBalanced'
<1>1. /\ used \in Books /\ offers \in Books /\ used' \in Books /\ offers' \in Books
      /\ DOMAIN slaves \subseteq Slave /\ \A t \in DOMAIN slaves : slaves[t] \in SlaveState
  BY DEF IInv, Global
<1>2. /\ offers' = offers /\ used' = [used EXCEPT ![f][r][s] = used[f][r][s] - n]
      /\ s \in DOMAIN slaves /\ n <= used[f][r][s]
      /\ slaves' = [slaves EXCEPT ![s].total = @ - n, ![s].allocated = @ - n]
  BY DEF UpdateAllocation
<1>3. used[f][r][s] \in Nat /\ used[f][r][s] - n \in Nat
  <2>1. used[f][r][s] \in Nat
    BY <1>1, BooksType
  <2> QED BY <1>2, <2>1
<1>4. \A g \in Framework, q \in Role, t \in Slave :
        used'[g][q][t] = IF g = f /\ q = r /\ t = s THEN used[f][r][s] - n ELSE used[g][q][t]
  BY <1>1, <1>2, <1>3, BooksType DEF Books
<1>5. /\ DOMAIN slaves' = DOMAIN slaves
      /\ \A t \in DOMAIN slaves : t # s => slaves'[t] = slaves[t]
      /\ slaves'[s].allocated = slaves[s].allocated - n
      /\ slaves[s].allocated \in Nat
  BY <1>1, <1>2 DEF SlaveState
<1>6. ASSUME NEW t \in DOMAIN slaves, t # s PROVE Balanced(t)'
  <2>1. \A g \in Framework, q \in Role : Outstanding(g, q, t)' = Outstanding(g, q, t)
    BY <1>1, <1>2, <1>4, <1>6 DEF Outstanding
  <2> QED BY <1>5, <1>6, <2>1, StillBalanced DEF AllBalanced
<1>7. Balanced(s)'
  <2>1. \A g \in Framework, q \in Role :
          g # f \/ q # r => Outstanding(g, q, s)' = Outstanding(g, q, s)
    BY <1>2, <1>4 DEF Outstanding
  <2>2. offers[f][r][s] \in Nat
    BY <1>1, BooksType
  <2>3. slaves'[s].allocated =
          slaves[s].allocated - Outstanding(f, r, s) + Outstanding(f, r, s)'
    BY <1>2, <1>3, <1>4, <1>5, <2>2 DEF Outstanding
  <2> QED BY <1>1, <1>2, <2>1, <2>3, BalancedByEntry DEF AllBalanced
<1> QED BY <1>5, <1>6, <1>7 DEF AllBalanced

\* What is recovered leaves the agent, if it is there still, and the caller's books.
LEMMA RecoverResourcesBalanced ==
  ASSUME IInv, IInv', AllBalanced, NEW f \in Framework, NEW r \in Role, NEW s \in Slave,
         NEW n \in Nat, RecoverResources(f, r, s, n),
         \A g \in Framework, q \in Role, t \in Slave :
           Outstanding(g, q, t)' =
             Outstanding(g, q, t) - IF g = f /\ q = r /\ t = s THEN n ELSE 0
  PROVE  AllBalanced'
<1>1. /\ used \in Books /\ offers \in Books /\ used' \in Books /\ offers' \in Books
      /\ DOMAIN slaves \subseteq Slave /\ \A t \in DOMAIN slaves : slaves[t] \in SlaveState
  BY DEF IInv, Global
<1>2. /\ DOMAIN slaves' = DOMAIN slaves
      /\ \A t \in DOMAIN slaves : /\ slaves[t].allocated \in Nat
                                  /\ slaves'[t].allocated =
                                       slaves[t].allocated - IF t = s THEN n ELSE 0
  <2>1. CASE s \in DOMAIN slaves
    BY <1>1, <2>1 DEF RecoverResources, SlaveState
  <2>2. CASE s \notin DOMAIN slaves
    BY <1>1, <2>2 DEF RecoverResources, SlaveState
  <2> QED BY <2>1, <2>2
<1>3. \A g \in Framework, q \in Role, t \in Slave : Outstanding(g, q, t) \in Nat
  BY <1>1, SharesType
<1>4. ASSUME NEW t \in DOMAIN slaves PROVE Balanced(t)'
  <2>1. CASE t = s
    <3>1. \A g \in Framework, q \in Role :
            g # f \/ q # r => Outstanding(g, q, s)' = Outstanding(g, q, s)
      BY <1>3
    <3>2. slaves'[s].allocated =
            slaves[s].allocated - Outstanding(f, r, s) + Outstanding(f, r, s)'
      BY <1>2, <1>3, <2>1
    <3> QED BY <1>1, <2>1, <3>1, <3>2, BalancedByEntry DEF AllBalanced
  <2>2. CASE t # s
    <3>1. \A g \in Framework, q \in Role : Outstanding(g, q, t)' = Outstanding(g, q, t)
      BY <1>1, <1>3, <2>2
    <3>2. slaves'[t].allocated = slaves[t].allocated
      BY <1>2, <2>2
    <3> QED BY <3>1, <3>2, StillBalanced DEF AllBalanced
  <2> QED BY <2>1, <2>2
<1> QED BY <1>2, <1>4 DEF AllBalanced

\* The master recovers from what it has on its books ...
LEMMA RecoverBalanced ==
  ASSUME IInv, IInv', AllBalanced, NEW f \in Framework, NEW r \in Role, NEW s \in Slave,
         NEW n \in Nat, Recover(f, r, s, n)
  PROVE  AllBalanced'
<1>1. used \in Books /\ offers \in Books /\ used' \in Books
  BY DEF IInv, Global
<1>2. used[f][r][s] \in Nat /\ n <= used[f][r][s] /\ used[f][r][s] - n \in Nat
  <2>1. used[f][r][s] \in Nat /\ n <= used[f][r][s]
    BY <1>1, BooksType DEF Recover
  <2> QED BY <2>1
<1>3. /\ used' = [used EXCEPT ![f][r][s] = used[f][r][s] - n]
      /\ offers' = offers /\ RecoverResources(f, r, s, n)
  BY DEF Recover
<1>4. ASSUME NEW g \in Framework, NEW q \in Role, NEW t \in Slave
      PROVE  Outstanding(g, q, t)' =
               Outstanding(g, q, t) - IF g = f /\ q = r /\ t = s THEN n ELSE 0
  <2>1. used'[g][q][t] = IF g = f /\ q = r /\ t = s THEN used[f][r][s] - n ELSE used[g][q][t]
    BY <1>1, <1>2, <1>3, BooksType DEF Books
  <2>2. used[g][q][t] \in Nat /\ offers[g][q][t] \in Nat
    BY <1>1, BooksType
  <2> QED BY <1>3, <2>1, <2>2 DEF Outstanding
<1> QED BY <1>3, <1>4, RecoverResourcesBalanced

\* ... or an offer it never took up.
LEMMA OfferReturnsBalanced ==
  ASSUME IInv, IInv', AllBalanced, NEW f \in Framework, NEW r \in Role, NEW s \in Slave,
         OfferReturns(f, r, s)
  PROVE  AllBalanced'
<1>1. used \in Books /\ offers \in Books /\ offers' \in Books
  BY DEF IInv, Global
<1>2. PICK n \in Nat : n = offers[f][r][s]
  BY <1>1, BooksType
<1>3. /\ offers' = [offers EXCEPT ![f][r][s] = 0]
      /\ used' = used /\ RecoverResources(f, r, s, n)
  BY <1>2 DEF OfferReturns
<1>4. ASSUME NEW g \in Framework, NEW q \in Role, NEW t \in Slave
      PROVE  Outstanding(g, q, t)' =
               Outstanding(g, q, t) - IF g = f /\ q = r /\ t = s THEN n ELSE 0
  <2>1. offers'[g][q][t] = IF g = f /\ q = r /\ t = s THEN 0 ELSE offers[g][q][t]
    BY <1>1, <1>2, <1>3, BooksType DEF Books
  <2>2. used[g][q][t] \in Nat /\ offers[g][q][t] \in Nat
    BY <1>1, BooksType
  <2> QED BY <1>2, <1>3, <2>1, <2>2 DEF Outstanding
<1> QED BY <1>3, <1>4, RecoverResourcesBalanced

\* Taking an offer up moves it from one book to the other.
LEMMA OfferArrivesBalanced ==
  ASSUME IInv, IInv', AllBalanced, NEW f \in Framework, NEW r \in Role, NEW s \in Slave,
         OfferArrives(f, r, s)
  PROVE  AllBalanced'
<1>1. /\ used \in Books /\ offers \in Books /\ used' \in Books /\ offers' \in Books
      /\ DOMAIN slaves \subseteq Slave
  BY DEF IInv, Global
<1>2. used[f][r][s] \in Nat /\ offers[f][r][s] \in Nat
      /\ used[f][r][s] + offers[f][r][s] \in Nat
  <2>1. used[f][r][s] \in Nat /\ offers[f][r][s] \in Nat
    BY <1>1, BooksType
  <2> QED BY <2>1
<1>3. /\ offers' = [offers EXCEPT ![f][r][s] = 0]
      /\ used' = [used EXCEPT ![f][r][s] = used[f][r][s] + offers[f][r][s]]
      /\ slaves' = slaves
  BY DEF OfferArrives
<1>4. ASSUME NEW g \in Framework, NEW q \in Role, NEW t \in Slave
      PROVE  Outstanding(g, q, t)' = Outstanding(g, q, t)
  <2>1. offers'[g][q][t] = IF g = f /\ q = r /\ t = s THEN 0 ELSE offers[g][q][t]
    BY <1>1, <1>2, <1>3, BooksType DEF Books
  <2>2. used'[g][q][t] = IF g = f /\ q = r /\ t = s
                         THEN used[f][r][s] + offers[f][r][s] ELSE used[g][q][t]
    BY <1>1, <1>2, <1>3, BooksType DEF Books
  <2>3. used[g][q][t] \in Nat /\ offers[g][q][t] \in Nat
    BY <1>1, BooksType
  <2> QED BY <2>1, <2>2, <2>3 DEF Outstanding
<1> QED BY <1>1, <1>3, <1>4, StillBalanced DEF AllBalanced

\* A run allocates units of an agent to one framework in one role, and offers them.
LEMMA RunAllocationBalanced ==
  ASSUME IInv, IInv', AllBalanced, NEW offer, RunAllocation(offer)
  PROVE  AllBalanced'
<1>1. /\ used \in Books /\ offers \in Books /\ used' \in Books /\ offers' \in Books
      /\ DOMAIN slaves \subseteq Slave /\ \A t \in DOMAIN slaves : slaves[t] \in SlaveState
  BY DEF IInv, Global
<1>2. /\ DOMAIN slaves' = DOMAIN slaves /\ used' = used
      /\ \A t \in DOMAIN slaves :
           slaves'[t] = IF t \in DOMAIN offer
                        THEN [slaves[t] EXCEPT !.allocated = @ + offer[t].units]
                        ELSE slaves[t]
      /\ \A t \in DOMAIN offer : t \in DOMAIN slaves /\ offer[t] \in Assignments(t)
      /\ offers' = [f \in Framework |-> [r \in Role |->
                      Plus(offers[f][r], Offered(offer, f, r))]]
  BY DEF RunAllocation, SlaveIds
<1>3. \A t \in DOMAIN offer : /\ offer[t].framework \in Framework /\ offer[t].role \in Role
                              /\ offer[t].units \in Nat
  BY <1>2, AssignmentsGood DEF IInv
<1>4. \A g \in Framework, q \in Role, t \in Slave :
        Outstanding(g, q, t)' =
          Outstanding(g, q, t) +
            IF t \in DOMAIN offer /\ offer[t].framework = g /\ offer[t].role = q
            THEN offer[t].units ELSE 0
  <2> TAKE g \in Framework, q \in Role, t \in Slave
  <2>1. offers'[g][q][t] = offers[g][q][t] + Offered(offer, g, q)[t]
    BY <1>2 DEF Plus
  <2>2. used[g][q][t] \in Nat /\ offers[g][q][t] \in Nat
    BY <1>1, BooksType
  <2> QED BY <1>2, <1>3, <2>1, <2>2 DEF Outstanding, Offered
<1>5. \A g \in Framework, q \in Role, t \in Slave : Outstanding(g, q, t) \in Nat
  BY <1>1, SharesType
<1>6. ASSUME NEW t \in DOMAIN slaves PROVE Balanced(t)'
  <2>1. t \in Slave /\ Balanced(t) /\ slaves[t].allocated \in Nat
    BY <1>1 DEF AllBalanced, SlaveState
  <2>2. CASE t \in DOMAIN offer
    <3> DEFINE f == offer[t].framework
               r == offer[t].role
    <3>1. f \in Framework /\ r \in Role /\ offer[t].units \in Nat
      BY <1>3, <2>2
    <3>2. slaves'[t].allocated = slaves[t].allocated + offer[t].units
      BY <1>1, <1>2, <2>2 DEF SlaveState
    <3>3. /\ Outstanding(f, r, t)' = Outstanding(f, r, t) + offer[t].units
          /\ \A g \in Framework, q \in Role :
               g # f \/ q # r => Outstanding(g, q, t)' = Outstanding(g, q, t)
      BY <1>4, <1>5, <2>1, <2>2, <3>1
    <3> HIDE DEF f, r
    <3>4. slaves'[t].allocated =
            slaves[t].allocated - Outstanding(f, r, t) + Outstanding(f, r, t)'
      BY <1>5, <2>1, <3>1, <3>2, <3>3
    <3> QED BY <1>1, <2>1, <3>1, <3>3, <3>4, BalancedByEntry
  <2>3. CASE t \notin DOMAIN offer
    <3>1. slaves'[t].allocated = slaves[t].allocated
      BY <1>2, <2>3
    <3>2. \A g \in Framework, q \in Role : Outstanding(g, q, t)' = Outstanding(g, q, t)
      BY <1>4, <1>5, <2>1, <2>3
    <3> QED BY <2>1, <3>1, <3>2, StillBalanced
  <2> QED BY <2>2, <2>3
<1> QED BY <1>2, <1>6 DEF AllBalanced

\* Calls after which every agent that is there has what it had, and the books too.
LEMMA NothingMoves ==
  ASSUME AllBalanced, DOMAIN slaves' \subseteq DOMAIN slaves,
         \A s \in DOMAIN slaves' : slaves'[s].allocated = slaves[s].allocated,
         UNCHANGED <<offers, used>>
  PROVE  AllBalanced'
BY StillBalanced DEF AllBalanced, Outstanding

\* Every call keeps the agents and the books in balance.
LEMMA NextKeepsBalance == IInv /\ IInv' /\ AllBalanced /\ [Next]_vars => AllBalanced'
<1> SUFFICES ASSUME IInv, IInv', AllBalanced, [Next]_vars PROVE AllBalanced'
  OBVIOUS
<1>1. CASE UNCHANGED <<slaves, offers, used>>
  BY <1>1, NothingMoves
<1>2. ASSUME NEW f \in Framework, FrameworkCall(f) PROVE AllBalanced'
  BY <1>1, <1>2 DEF FrameworkCall, AddFramework, RemoveFramework, ActivateFramework,
     DeactivateFramework, UpdateFramework, SuppressOffers, ReviveOffers
<1>3. ASSUME NEW s \in Slave, SlaveCall(s) PROVE AllBalanced'
  <2>0. \A t \in DOMAIN slaves : slaves[t] \in SlaveState
    BY DEF IInv, Global
  <2>1. ASSUME NEW total \in Quantity(s), NEW f \in Framework, NEW tasks \in Tasks(s),
               AddSlave(s, total, f, tasks)
        PROVE  AllBalanced'
    BY <2>1, QuantityNat, AddSlaveBalanced
  <2>2. CASE RemoveSlave(s)
    BY <2>2, NothingMoves DEF RemoveSlave
  <2>3. ASSUME NEW total \in Quantity(s), NEW infoChanged \in BOOLEAN,
               UpdateSlave(s, total, infoChanged)
        PROVE  AllBalanced'
    <3>1. /\ DOMAIN slaves' = DOMAIN slaves
          /\ \A t \in DOMAIN slaves : slaves'[t].allocated = slaves[t].allocated
      BY <2>0, <2>3 DEF UpdateSlave, UpdateSlaveTotal, SlaveState
    <3> QED BY <2>3, <3>1, NothingMoves DEF UpdateSlave
  <2>4. ASSUME NEW more \in Quantity(s), NEW f \in Framework, NEW tasks \in Tasks(s),
               AddResourceProvider(s, more, f, tasks)
        PROVE  AllBalanced'
    BY <2>4, QuantityNat, AddResourceProviderBalanced
  <2>5. ASSUME NEW activated \in BOOLEAN, SetActivated(s, activated) PROVE AllBalanced'
    <3>1. /\ DOMAIN slaves' = DOMAIN slaves
          /\ \A t \in DOMAIN slaves : slaves'[t].allocated = slaves[t].allocated
      BY <2>0, <2>5 DEF SetActivated, SlaveState
    <3> QED BY <2>5, <3>1, NothingMoves DEF SetActivated
  <2> QED BY <1>3, <2>1, <2>2, <2>3, <2>4, <2>5 DEF SlaveCall
<1>4. ASSUME NEW f \in Framework, NEW r \in Role, NEW s \in Slave, AllocationCall(f, r, s)
      PROVE  AllBalanced'
  BY <1>4, QuantityNat, UpdateAllocationBalanced, RecoverBalanced, OfferArrivesBalanced,
     OfferReturnsBalanced DEF AllocationCall
<1>5. CASE PeriodicAllocate
  BY <1>1, <1>5 DEF PeriodicAllocate
<1>6. CASE Run
  BY <1>6, RunAllocationBalanced DEF Run
<1> QED BY <1>1, <1>2, <1>3, <1>4, <1>5, <1>6 DEF Next, vars

\* The agents and the books are in balance after every call.
THEOREM BooksBalance == Spec => []AllBalanced
<1>1. Init => AllBalanced
  BY DEF Init, AllBalanced
<1> QED BY <1>1, Invariant, NextKeepsBalance, PTL DEF Spec

\* What an agent has allocated is what the master has still to give back of it, so
\* recoverResources never takes more off an agent than it has (hierarchical.cpp:1450).
THEOREM AgentsAgreeWithMaster == Spec => []AgentMatchesMaster
<1>1. AllBalanced => AgentMatchesMaster
  BY DEF AllBalanced, Balanced, Shares, AgentMatchesMaster
<1> QED BY <1>1, BooksBalance, PTL

-----------------------------------------------------------------------------
(* What the sums are for.                                                  *)

\* Whatever the master gives back, in parts or whole and in whatever order, passes
\* the CHECKs of recoverResources: the role has a sorter (hierarchical.cpp:1432), both
\* sorters hold what is taken (sorter.hpp:338-341), the agent has it allocated (:1450).
\* Neither does removeFramework take off the roleSorter more than the role has.
RecoveryPassesChecks ==
  \A f \in Framework, r \in Role, s \in Slave :
    LET n == Outstanding(f, r, s) IN n > 0 =>
      /\ s \in DOMAIN slaves => n <= slaves[s].allocated
      /\ f \in Added => /\ roles[r].hasSorter /\ f \in roles[r].clients
                        /\ Holds(roles[r], f, On(s, n))

\* No recovery ends the program: one framework's resources are part of the role's
\* and of the agent's, whatever the other frameworks hold.
THEOREM RecoveriesPass == Spec => []RecoveryPassesChecks
<1>1. IInv /\ RoleSums /\ AllBalanced => RecoveryPassesChecks
  <2> SUFFICES ASSUME IInv, RoleSums, AllBalanced,
                      NEW f \in Framework, NEW r \in Role, NEW s \in Slave,
                      NEW n, n = Outstanding(f, r, s), n > 0
               PROVE  /\ s \in DOMAIN slaves => n <= slaves[s].allocated
                      /\ f \in Added => /\ roles[r].hasSorter /\ f \in roles[r].clients
                                        /\ Holds(roles[r], f, On(s, n))
    BY DEF RecoveryPassesChecks
  <2>1. roles[r] \in RoleState /\ RoleConsistent(roles[r]) /\ SumsClients(roles[r])
    BY DEF IInv, RoleInv, RoleSums
  <2>2. /\ n \in Nat /\ Shares(s)[<<f, r>>] = n
        /\ IsFiniteSet(Framework \X Role) /\ Shares(s) \in [Framework \X Role -> Nat]
    BY SharesType DEF IInv, Global
  <2>3. ASSUME s \in DOMAIN slaves PROVE n <= slaves[s].allocated
    <3>1. Shares(s)[<<f, r>>] <= SumFunction(Shares(s))
      BY <2>2, SumFunctionType
    <3> QED BY <2>2, <2>3, <3>1 DEF AllBalanced, Balanced
  <2>4. ASSUME f \in Added PROVE roles[r].held[f][s] = n
    BY <2>4 DEF IInv, RoleInv
  <2>5. ASSUME f \in Added PROVE roles[r].hasSorter /\ f \in roles[r].clients
    <3>1. roles[r].held[f] # NoResources
      BY <2>4, <2>5 DEF NoResources
    <3> QED BY <2>1, <3>1 DEF RoleConsistent
  <2>6. ASSUME f \in Added PROVE Holds(roles[r], f, On(s, n))
    <3>1. \A t \in Slave : On(s, n)[t] = IF t = s THEN n ELSE 0
      BY <2>2, ResourceTypes
    <3>2. roles[r].held[f][s] <= roles[r].allocation[s]
      BY <2>1, ClientWithinRole, FiniteAssumption
    <3>3. \A t \in Slave : roles[r].held[f][t] \in Nat /\ roles[r].allocation[t] \in Nat
      BY <2>1 DEF RoleState
    <3> QED BY <2>2, <2>4, <2>6, <3>1, <3>2, <3>3 DEF Holds
  <2> QED BY <2>3, <2>5, <2>6
<1> QED BY <1>1, Invariant, RolesSum, BooksBalance, PTL
=============================================================================
