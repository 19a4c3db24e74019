---------------------------- MODULE RoleTracking ----------------------------
(***************************************************************************)
(* What HierarchicalAllocatorProcess keeps for ONE role, and the helpers   *)
(* that change it.  Four structures of the allocator hold a piece of this  *)
(* state: the RoleTree (the frameworks tracked under the role), the        *)
(* roleSorter (whether the role is a client, what it is allocated), the    *)
(* map frameworkSorters (whether it has a sorter for the role) and that    *)
(* sorter (its clients, which of them are active, what each one holds and  *)
(* the agent totals it divides by).  The code changes them in lockstep;    *)
(* nothing but the code keeps them together, so they stay apart here.      *)
(*                                                                         *)
(* A quantity is a number of units of one unreserved scalar resource.      *)
(***************************************************************************)
EXTENDS Integers

CONSTANTS Framework, Slave

\* No unit on any agent.
NoResources == [s \in Slave |-> 0]

\* n units on agent s.
On(s, n) == [NoResources EXCEPT ![s] = n]

RoleState ==
  [frameworks : SUBSET Framework,                \* Role::frameworks_ of the tree
   isClient   : BOOLEAN,                         \* roleSorter->contains(role)
   allocation : [Slave -> Nat],                  \* roleSorter->allocation(role)
   hasSorter  : BOOLEAN,                         \* frameworkSorters.contains(role)
   clients    : SUBSET Framework,                \* the sorter's clients ...
   active     : SUBSET Framework,                \* ... those it returns from sort()
   held       : [Framework -> [Slave -> Nat]],   \* allocation(client, slaveId)
   entries    : [Framework -> SUBSET Slave],     \* the keys of allocation(client)
   totals     : [Slave -> Nat]]                  \* total_ of the sorter

\* A role nobody is tracked under.
Untracked ==
  [frameworks |-> {}, isClient |-> FALSE, allocation |-> NoResources,
   hasSorter |-> FALSE, clients |-> {}, active |-> {},
   held |-> [f \in Framework |-> NoResources],
   entries |-> [f \in Framework |-> {}],
   totals |-> NoResources]

-----------------------------------------------------------------------------
(* Becoming and ceasing to be a client.                                    *)

\* Slip: the new framework sorter is not told of the agents already there.
TrackWithoutAgents(R, f, totals) ==
  [R EXCEPT !.frameworks = @ \cup {f}, !.clients = @ \cup {f},
            !.isClient = TRUE, !.hasSorter = TRUE]

\* The first framework of a role makes the role a client of the roleSorter and
\* creates the role's framework sorter, which is given every agent's total.  A
\* new client of the framework sorter is inactive and holds nothing.
Track(R, f, totals) ==
  LET first == R.frameworks = {} IN
  [frameworks |-> R.frameworks \cup {f},
   isClient   |-> R.isClient \/ first,
   allocation |-> IF first THEN NoResources ELSE R.allocation,
   hasSorter  |-> R.hasSorter \/ first,
   clients    |-> R.clients \cup {f},
   active     |-> R.active \ {f},
   held       |-> [R.held EXCEPT ![f] = NoResources],
   entries    |-> [R.entries EXCEPT ![f] = {}],
   totals     |-> IF first THEN totals ELSE R.totals]

\* Slip: the role sorter keeps the role after its last framework left.
UntrackKeepRole(R, f) ==
  [R EXCEPT !.frameworks = @ \ {f}, !.clients = @ \ {f}, !.active = @ \ {f},
            !.held[f] = NoResources, !.entries[f] = {}]

\* The last framework to leave a role takes the role out of the roleSorter and
\* destroys the framework sorter.
Untrack(R, f) ==
  LET last == R.frameworks \ {f} = {} IN
  [frameworks |-> R.frameworks \ {f},
   isClient   |-> R.isClient /\ ~last,
   allocation |-> IF last THEN NoResources ELSE R.allocation,
   hasSorter  |-> R.hasSorter /\ ~last,
   clients    |-> R.clients \ {f},
   active     |-> R.active \ {f},
   held       |-> [R.held EXCEPT ![f] = NoResources],
   entries    |-> [R.entries EXCEPT ![f] = {}],
   totals     |-> IF last THEN NoResources ELSE R.totals]

Activate(R, f) == [R EXCEPT !.active = @ \cup {f}]

Deactivate(R, f) == [R EXCEPT !.active = @ \ {f}]

-----------------------------------------------------------------------------
(* The allocation of a client, in the framework sorter and the roleSorter. *)

\* What one allocation map becomes when `more` is added to / `less` taken from it.
Plus(alloc, more) == [s \in Slave |-> alloc[s] + more[s]]
Minus(alloc, less) == [s \in Slave |-> alloc[s] - less[s]]

\* `more` : [Slave -> Nat].  An agent with nothing to add leaves no entry.
Allocated(R, f, more) ==
  [R EXCEPT !.allocation = Plus(@, more),
            !.held[f]    = Plus(@, more),
            !.entries[f] = @ \cup {s \in Slave : more[s] > 0}]

\* The framework must be tracked under a role it is allocated resources of, and
\* it may hold resources of a role it is not subscribed to.
TrackAllocated(R, f, more, totals) ==
  IF more = NoResources THEN R
  ELSE Allocated(IF f \in R.frameworks THEN R ELSE Track(R, f, totals), f, more)

\* The CHECKs of Allocation::subtract: both sorters hold what is taken.
Holds(R, f, less) ==
  \A s \in Slave : less[s] <= R.held[f][s] /\ less[s] <= R.allocation[s]

\* An entry that becomes empty is erased.
Unallocated(R, f, less) ==
  [R EXCEPT !.allocation = Minus(@, less),
            !.held[f]    = Minus(@, less),
            !.entries[f] = @ \ {s \in Slave : less[s] > 0 /\ R.held[f][s] = less[s]}]

\* A conversion that removes `less` goes through update(), which keeps the entry.
Removed(R, f, less) ==
  [R EXCEPT !.allocation = Minus(@, less),
            !.held[f]    = Minus(@, less)]

\* Slip: the new total is removed from the sorter, the old one added.
ChangeTotalSwapped(R, s, old, new) ==
  IF R.hasSorter THEN [R EXCEPT !.totals[s] = @ - new + old] ELSE R

\* An agent's total goes from old to new in the role's framework sorter, if any.
ChangeTotal(R, s, old, new) ==
  IF R.hasSorter THEN [R EXCEPT !.totals[s] = @ - old + new] ELSE R

-----------------------------------------------------------------------------

\* The structures of a role agree: a role with tracked frameworks is a client of the
\* roleSorter and has a framework sorter whose clients are exactly those frameworks;
\* a role without any is gone from all of them.  A client holds resources only on
\* agents it has an entry for, and who is no client holds nothing.
RoleConsistent(R) ==
  /\ R.isClient = (R.frameworks # {})
  /\ R.hasSorter = (R.frameworks # {})
  /\ R.clients = R.frameworks
  /\ R.active \subseteq R.clients
  /\ \A f \in Framework : {s \in Slave : R.held[f][s] > 0} \subseteq R.entries[f]
  /\ \A f \in Framework \ R.clients : R.held[f] = NoResources /\ R.entries[f] = {}
=============================================================================
