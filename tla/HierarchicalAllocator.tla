------------------------ MODULE HierarchicalAllocator ------------------------
(***************************************************************************)
(* HierarchicalAllocatorProcess (src/src/hierarchical.cpp) without quota,  *)
(* reservations, offer filters and maintenance: frameworks, agents, the    *)
(* sorters' bookkeeping and the batched allocation runs.                   *)
(*                                                                         *)
(* The allocator is one libprocess actor, so every handler is one atomic   *)
(* action; what interleaves is the order of the calls.  The calls come     *)
(* from the master, which is not part of the repository: `offers` and      *)
(* `used` are its side of the books, and the guards over them are its      *)
(* contract.  An offer is on its way (`offers`) from the allocation run    *)
(* that made it until the master takes it up (`used`) or returns it.       *)
(*                                                                         *)
(* Without quota recover() is a no-op and the allocator is never paused.   *)
(***************************************************************************)
EXTENDS RoleTracking, FiniteSets, FiniteSetsExt

CONSTANTS Role,
          MaxTotal       \* bound: units of the resource on each agent, [Slave -> Nat]

ASSUME MaxTotalAssumption == MaxTotal \in [Slave -> Nat]

\* Only what is said of sums over frameworks and roles needs it.
ASSUME FiniteAssumption == IsFiniteSet(Framework) /\ IsFiniteSet(Role)

VARIABLES
  frameworks,            \* FrameworkID -> Framework, for the added ones
  completedFrameworks,   \* removed ones; the master never adds them again
  slaves,                \* SlaveID -> Slave, for the added ones
  roles,                 \* [Role -> RoleState]: role tree and sorters
  roleSorterTotal,       \* total_ of the roleSorter
  allocationCandidates,  \* agents the next run considers
  allocation,            \* TRUE while a run (_allocate) is dispatched
  offers,                \* master: offers on their way, per framework and role
  used                   \* master: offers out and resources of tasks

vars == <<frameworks, completedFrameworks, slaves, roles, roleSorterTotal,
          allocationCandidates, allocation, offers, used>>

FrameworkState ==
  [roles : SUBSET Role, suppressedRoles : SUBSET Role, active : BOOLEAN]

SlaveState == [total : Nat, allocated : Nat, activated : BOOLEAN]

Books == [Framework -> [Role -> [Slave -> Nat]]]

TypeOK ==
  /\ DOMAIN frameworks \subseteq Framework
  /\ \A f \in DOMAIN frameworks : frameworks[f] \in FrameworkState
  /\ completedFrameworks \subseteq Framework \ DOMAIN frameworks
  /\ DOMAIN slaves \subseteq Slave
  /\ \A s \in DOMAIN slaves : slaves[s] \in SlaveState
  /\ roles \in [Role -> RoleState]
  /\ roleSorterTotal \in [Slave -> Nat]
  /\ allocationCandidates \subseteq Slave
  /\ allocation \in BOOLEAN
  /\ offers \in Books
  /\ used \in Books

Nothing == [f \in Framework |-> [r \in Role |-> NoResources]]

Init ==
  /\ frameworks = [f \in {} |-> {}]
  /\ completedFrameworks = {}
  /\ slaves = [s \in {} |-> {}]
  /\ roles = [r \in Role |-> Untracked]
  /\ roleSorterTotal = NoResources
  /\ allocationCandidates = {}
  /\ allocation = FALSE
  /\ offers = Nothing
  /\ used = Nothing

-----------------------------------------------------------------------------
(* Operators over the state.                                               *)

Added == DOMAIN frameworks

\* The total of every agent, as a new framework sorter is told.
Totals == [s \in Slave |-> IF s \in DOMAIN slaves THEN slaves[s].total ELSE 0]

Saturate(n) == IF n > 0 THEN n ELSE 0

\* Slip: the agent's available resources are its total.
AvailableIsTotal(s) == slaves[s].total

\* Slave::available: subtraction of Resources never goes below nothing.
Available(s) == Saturate(slaves[s].total - slaves[s].allocated)

\* What the master still has to give back of agent s.
Outstanding(f, r, s) == offers[f][r][s] + used[f][r][s]

\* Slip: a framework still tracked under the role is not activated again.
SubscribeTrackOnly(R, f) ==
  IF f \in R.frameworks THEN R ELSE Activate(Track(R, f, Totals), f)

\* Framework f subscribes to every role of rs for the first time.
Subscribe(R, f) ==
  Activate(IF f \in R.frameworks THEN R ELSE Track(R, f, Totals), f)

\* allocate(slaveIds): add candidates, dispatch a run unless one is on its way.
Allocate(slaveIds) ==
  /\ allocationCandidates' = allocationCandidates \cup slaveIds
  /\ allocation' = TRUE

NoAllocate == UNCHANGED <<allocationCandidates, allocation>>

-----------------------------------------------------------------------------
(* Frameworks.                                                             *)

\* The master passes the resources it knows the framework uses.  It knows of no
\* removed agent's resources, and no offer is on its way to a framework that
\* was not added.  Resources on an agent the allocator lacks are not tracked.
AddFramework(f, rs, suppressed, active) ==
  /\ f \notin Added \cup completedFrameworks
  /\ suppressed \subseteq rs
  /\ \A r \in Role, s \in Slave : used[f][r][s] > 0 => s \in DOMAIN slaves
  /\ frameworks' = [g \in Added \cup {f} |->
       IF g = f THEN [roles |-> rs, suppressedRoles |-> suppressed, active |-> active]
                ELSE frameworks[g]]
  /\ roles' = [r \in Role |->
       LET R == IF r \in rs THEN Track(roles[r], f, Totals) ELSE roles[r]
           S == IF r \in rs \ suppressed /\ active THEN Activate(R, f) ELSE R
       IN  TrackAllocated(S, f, used[f][r], Totals)]
  /\ IF active THEN Allocate(DOMAIN slaves) ELSE NoAllocate
  /\ UNCHANGED <<completedFrameworks, slaves, roleSorterTotal, offers, used>>

\* Slip: the framework leaves its sorters with resources still allocated to it.
RemoveFrameworkAllocated(f) ==
  /\ f \in Added
  /\ used[f] = Nothing[f]
  /\ roles' = [r \in Role |->
       IF r \in frameworks[f].roles THEN Untrack(roles[r], f) ELSE roles[r]]
  /\ frameworks' = [g \in Added \ {f} |-> frameworks[g]]
  /\ completedFrameworks' = completedFrameworks \cup {f}
  /\ NoAllocate
  /\ UNCHANGED <<slaves, roleSorterTotal, offers, used>>

\* The master has recovered all it knows of; offers on their way remain.  Only
\* the roles the framework is subscribed to are untracked.  The agents keep the
\* resources allocated until they are recovered.
RemoveFramework(f) ==
  /\ f \in Added
  /\ used[f] = Nothing[f]
  /\ \A r \in frameworks[f].roles : Holds(roles[r], f, roles[r].held[f])
  /\ roles' = [r \in Role |->
       IF r \in frameworks[f].roles /\ roles[r].hasSorter /\ f \in roles[r].clients
       THEN Untrack(Unallocated(roles[r], f, roles[r].held[f]), f)
       ELSE roles[r]]
  /\ frameworks' = [g \in Added \ {f} |-> frameworks[g]]
  /\ completedFrameworks' = completedFrameworks \cup {f}
  /\ NoAllocate
  /\ UNCHANGED <<slaves, roleSorterTotal, offers, used>>

\* Slip: suppressed roles are activated as well.
ActivateEveryRole(f) ==
  /\ f \in Added
  /\ frameworks' = [frameworks EXCEPT ![f].active = TRUE]
  /\ roles' = [r \in Role |->
       IF r \in frameworks[f].roles THEN Activate(roles[r], f) ELSE roles[r]]
  /\ Allocate(DOMAIN slaves)
  /\ UNCHANGED <<completedFrameworks, slaves, roleSorterTotal, offers, used>>

ActivateFramework(f) ==
  /\ f \in Added
  /\ frameworks' = [frameworks EXCEPT ![f].active = TRUE]
  /\ roles' = [r \in Role |->
       IF r \in frameworks[f].roles \ frameworks[f].suppressedRoles
       THEN Activate(roles[r], f) ELSE roles[r]]
  /\ Allocate(DOMAIN slaves)
  /\ UNCHANGED <<completedFrameworks, slaves, roleSorterTotal, offers, used>>

DeactivateFramework(f) ==
  /\ f \in Added
  /\ frameworks' = [frameworks EXCEPT ![f].active = FALSE]
  /\ roles' = [r \in Role |->
       IF r \in frameworks[f].roles THEN Deactivate(roles[r], f) ELSE roles[r]]
  /\ NoAllocate
  /\ UNCHANGED <<completedFrameworks, slaves, roleSorterTotal, offers, used>>

\* What updateFramework does to one role: subscribe, unsubscribe, then suppress
\* or revive.  The framework stays tracked under a role it left as long as it
\* has an entry in that role's allocation.
UpdatedRole(R, f, r, rs, suppressed) ==
  LET old  == frameworks[f]
      sub  == IF r \in rs \ old.roles THEN Subscribe(R, f) ELSE R
      left == Deactivate(sub, f)
      uns  == IF r \notin old.roles \ rs THEN sub
              ELSE IF left.entries[f] = {} THEN Untrack(left, f) ELSE left
      sup  == IF r \in suppressed \ old.suppressedRoles THEN Deactivate(uns, f) ELSE uns
  IN  IF r \in (old.suppressedRoles \ suppressed) \cap rs THEN Activate(sup, f) ELSE sup

\* Slip: a role stays suppressed when the framework leaves it.
SuppressedAcrossRoles(old, rs, suppressed) ==
  (old.suppressedRoles \cup suppressed) \ ((old.suppressedRoles \ suppressed) \cap rs)

\* The framework's suppressed roles after unsubscribing, suppressing, reviving.
UpdatedSuppressed(old, rs, suppressed) ==
  ((old.suppressedRoles \cap rs) \cup (suppressed \ old.suppressedRoles))
    \ ((old.suppressedRoles \ suppressed) \cap rs)

UpdateFramework(f, rs, suppressed) ==
  /\ f \in Added
  /\ suppressed \subseteq rs
  /\ frameworks' = [frameworks EXCEPT
       ![f].roles = rs,
       ![f].suppressedRoles = UpdatedSuppressed(frameworks[f], rs, suppressed)]
  /\ roles' = [r \in Role |-> UpdatedRole(roles[r], f, r, rs, suppressed)]
  /\ NoAllocate
  /\ UNCHANGED <<completedFrameworks, slaves, roleSorterTotal, offers, used>>

\* No role given means all the framework's roles.
SuppressOffers(f, rs) ==
  /\ f \in Added
  /\ rs \subseteq frameworks[f].roles
  /\ LET which == IF rs = {} THEN frameworks[f].roles ELSE rs IN
       /\ frameworks' = [frameworks EXCEPT ![f].suppressedRoles = @ \cup which]
       /\ roles' = [r \in Role |->
            IF r \in which THEN Deactivate(roles[r], f) ELSE roles[r]]
  /\ NoAllocate
  /\ UNCHANGED <<completedFrameworks, slaves, roleSorterTotal, offers, used>>

ReviveOffers(f, rs) ==
  /\ f \in Added
  /\ rs \subseteq frameworks[f].roles
  /\ LET which == IF rs = {} THEN frameworks[f].roles ELSE rs IN
       /\ frameworks' = [frameworks EXCEPT ![f].suppressedRoles = @ \ which]
       /\ roles' = [r \in Role |->
            IF r \in which THEN Activate(roles[r], f) ELSE roles[r]]
  /\ Allocate(DOMAIN slaves)
  /\ UNCHANGED <<completedFrameworks, slaves, roleSorterTotal, offers, used>>

-----------------------------------------------------------------------------
(* Agents.                                                                 *)

NobodyHolds(s) == \A f \in Framework, r \in Role : Outstanding(f, r, s) = 0

\* The resources of agent s that framework f uses, by role; `tasks` in
\* [Role -> Nat].  (The code's loop is over several frameworks: here one.)
TotalOf(tasks) == SumFunction(tasks)

UsedOn(s, f, tasks) ==
  [used EXCEPT ![f] = [r \in Role |-> Plus(@[r], On(s, tasks[r]))]]

\* Slip: tasks in a role the framework is not subscribed to go unnoticed.
TrackSubscribedTasks(R, s, f, n, totals) ==
  IF f \in Added /\ f \in R.frameworks THEN TrackAllocated(R, f, On(s, n), totals) ELSE R

\* trackAllocatedResources for what f uses on s, in one role; totals are those
\* of all agents as the handler sees them at that point.
TrackTasks(R, s, f, n, totals) ==
  IF f \in Added THEN TrackAllocated(R, f, On(s, n), totals) ELSE R

\* An agent registers, or reregisters with tasks of f.  The master has finished
\* with the agent's previous life, if it had one.  A framework that is not added
\* yet is accounted for when it is.
AddSlave(s, total, f, tasks) ==
  /\ s \notin DOMAIN slaves
  /\ NobodyHolds(s)
  /\ TotalOf(tasks) > 0 => f \notin completedFrameworks
  /\ TotalOf(tasks) \in 0..total
  /\ slaves' = [t \in DOMAIN slaves \cup {s} |->
       IF t = s THEN [total |-> total, allocated |-> TotalOf(tasks), activated |-> TRUE]
                ELSE slaves[t]]
  /\ roleSorterTotal' = [roleSorterTotal EXCEPT ![s] = @ + total]
  /\ roles' = [r \in Role |->
       TrackTasks(ChangeTotal(roles[r], s, 0, total), s, f, tasks[r],
                  [Totals EXCEPT ![s] = total])]
  /\ used' = UsedOn(s, f, tasks)
  /\ Allocate({s})
  /\ UNCHANGED <<frameworks, completedFrameworks, offers>>

\* Slip: a removed agent stays a candidate of the run that is on its way.
RemoveSlaveKeepCandidate(s) ==
  /\ s \in DOMAIN slaves
  /\ slaves' = [t \in DOMAIN slaves \ {s} |-> slaves[t]]
  /\ roleSorterTotal' = [roleSorterTotal EXCEPT ![s] = @ - slaves[s].total]
  /\ roles' = [r \in Role |-> ChangeTotal(roles[r], s, slaves[s].total, 0)]
  /\ NoAllocate
  /\ UNCHANGED <<frameworks, completedFrameworks, offers, used>>

\* The sorters keep the allocations on the agent (MESOS-621): the master
\* recovers them afterwards, one by one.
RemoveSlave(s) ==
  /\ s \in DOMAIN slaves
  /\ slaves' = [t \in DOMAIN slaves \ {s} |-> slaves[t]]
  /\ roleSorterTotal' = [roleSorterTotal EXCEPT ![s] = @ - slaves[s].total]
  /\ roles' = [r \in Role |-> ChangeTotal(roles[r], s, slaves[s].total, 0)]
  /\ allocationCandidates' = allocationCandidates \ {s}
  /\ UNCHANGED <<frameworks, completedFrameworks, allocation, offers, used>>

\* updateSlaveTotal: the agent's total and that of every sorter.
UpdateSlaveTotal(s, total) ==
  /\ slaves' = [slaves EXCEPT ![s].total = total]
  /\ roleSorterTotal' = [roleSorterTotal EXCEPT ![s] = @ - slaves[s].total + total]
  /\ roles' = [r \in Role |-> ChangeTotal(roles[r], s, slaves[s].total, total)]

\* infoChanged: other attributes, hostname, domain or capabilities.
UpdateSlave(s, total, infoChanged) ==
  /\ s \in DOMAIN slaves
  /\ UpdateSlaveTotal(s, total)
  /\ IF infoChanged \/ total # slaves[s].total THEN Allocate({s}) ELSE NoAllocate
  /\ UNCHANGED <<frameworks, completedFrameworks, offers, used>>

\* A resource provider adds `more` units of which f uses `tasks` already.
AddResourceProvider(s, more, f, tasks) ==
  /\ s \in DOMAIN slaves
  /\ slaves[s].total + more <= MaxTotal[s]
  /\ slaves[s].allocated + TotalOf(tasks) <= MaxTotal[s]
  /\ TotalOf(tasks) \in 0..more
  /\ TotalOf(tasks) > 0 => f \in Added
  /\ slaves' = [slaves EXCEPT ![s].total = @ + more,
                             ![s].allocated = @ + TotalOf(tasks)]
  /\ roleSorterTotal' = [roleSorterTotal EXCEPT ![s] = @ + more]
  /\ roles' = [r \in Role |->
       ChangeTotal(TrackTasks(roles[r], s, f, tasks[r], Totals), s,
                   slaves[s].total, slaves[s].total + more)]
  /\ used' = UsedOn(s, f, tasks)
  /\ NoAllocate
  /\ UNCHANGED <<frameworks, completedFrameworks, offers>>

\* activateSlave, deactivateSlave.
SetActivated(s, activated) ==
  /\ s \in DOMAIN slaves
  /\ slaves' = [slaves EXCEPT ![s].activated = activated]
  /\ NoAllocate
  /\ UNCHANGED <<frameworks, completedFrameworks, roles, roleSorterTotal, offers, used>>

-----------------------------------------------------------------------------
(* Allocations.                                                            *)

\* The master applies an operation that removes n of the units f uses on s.  An
\* operation that converts without changing quantities leaves this state alone.
UpdateAllocation(f, r, s, n) ==
  /\ f \in Added /\ s \in DOMAIN slaves
  /\ n <= used[f][r][s] /\ n <= slaves[s].total /\ n <= slaves[s].allocated
  /\ Holds(roles[r], f, On(s, n))
  /\ slaves' = [slaves EXCEPT ![s].total = @ - n, ![s].allocated = @ - n]
  /\ roleSorterTotal' = [roleSorterTotal EXCEPT ![s] = @ - n]
  /\ roles' = [q \in Role |->
       ChangeTotal(IF q = r THEN Removed(roles[q], f, On(s, n)) ELSE roles[q], s,
                   slaves[s].total, slaves[s].total - n)]
  /\ used' = [used EXCEPT ![f][r][s] = @ - n]
  /\ NoAllocate
  /\ UNCHANGED <<frameworks, completedFrameworks, offers>>

\* Slip: a framework without resources is untracked although it is subscribed.
RecoveredRoleUntrack(R, f, r, s, n) ==
  LET left == Unallocated(R, f, On(s, n)) IN
    IF f \in Added /\ f \in R.clients
    THEN IF left.entries[f] = {} THEN Untrack(left, f) ELSE left
    ELSE R

\* The sorters' side of recoverResources, for the role of the resources.
RecoveredRole(R, f, r, s, n) ==
  LET left == Unallocated(R, f, On(s, n)) IN
    IF f \in Added /\ f \in R.clients
    THEN IF r \notin frameworks[f].roles /\ left.entries[f] = {}
         THEN Untrack(left, f) ELSE left
    ELSE R

\* Slip: an early return once the framework is gone, before the agent is updated.
RecoverFromAddedOnly(f, r, s, n) ==
  /\ f \in roles[r].clients => Holds(roles[r], f, On(s, n))
  /\ s \in DOMAIN slaves => n <= slaves[s].allocated
  /\ roles' = [roles EXCEPT ![r] = RecoveredRole(@, f, r, s, n)]
  /\ slaves' = IF f \in Added /\ s \in DOMAIN slaves
               THEN [slaves EXCEPT ![s].allocated = @ - n] ELSE slaves
  /\ NoAllocate
  /\ UNCHANGED <<frameworks, completedFrameworks, roleSorterTotal>>

\* recoverResources without filters.  Its CHECKs: both sorters hold the resources
\* (if the framework is there), the agent has them allocated (if it is there).
RecoverResources(f, r, s, n) ==
  /\ f \in Added /\ f \in roles[r].clients => Holds(roles[r], f, On(s, n))
  /\ s \in DOMAIN slaves => n <= slaves[s].allocated
  /\ roles' = [roles EXCEPT ![r] = RecoveredRole(@, f, r, s, n)]
  /\ slaves' = IF s \in DOMAIN slaves
               THEN [slaves EXCEPT ![s].allocated = @ - n] ELSE slaves
  /\ NoAllocate
  /\ UNCHANGED <<frameworks, completedFrameworks, roleSorterTotal>>

\* An offer was declined or rescinded, a task ended, or all of an agent's or a
\* framework's resources are recovered because it goes.
Recover(f, r, s, n) ==
  /\ n \in 1..used[f][r][s]
  /\ used' = [used EXCEPT ![f][r][s] = @ - n]
  /\ UNCHANGED offers
  /\ RecoverResources(f, r, s, n)

\* The offer callback reaches the master, which still knows both sides ...
OfferArrives(f, r, s) ==
  /\ offers[f][r][s] > 0 /\ f \in Added /\ s \in DOMAIN slaves
  /\ used' = [used EXCEPT ![f][r][s] = @ + offers[f][r][s]]
  /\ offers' = [offers EXCEPT ![f][r][s] = 0]
  /\ UNCHANGED <<frameworks, completedFrameworks, slaves, roles, roleSorterTotal,
                 allocationCandidates, allocation>>

\* ... or has removed the framework or the agent in between.
OfferReturns(f, r, s) ==
  /\ offers[f][r][s] > 0 /\ (f \notin Added \/ s \notin DOMAIN slaves)
  /\ offers' = [offers EXCEPT ![f][r][s] = 0]
  /\ UNCHANGED used
  /\ RecoverResources(f, r, s, offers[f][r][s])

\* The loop of initialize(): allocate() every allocationInterval.
PeriodicAllocate ==
  /\ Allocate(DOMAIN slaves)
  /\ UNCHANGED <<frameworks, completedFrameworks, slaves, roles, roleSorterTotal,
                 offers, used>>

\* The agents a run works on: candidates that are there and activated.
SlaveIds == {s \in allocationCandidates \cap DOMAIN slaves : slaves[s].activated}

\* What a run may offer of one agent: n of its available units to one active
\* client of one role.  Which client comes first is the sorters' business; it
\* may be passed over, or offered a part, because of what it filters or is
\* capable of.
Assignments(s) ==
  {a \in [role : Role, framework : Framework, units : 1..Available(s)] :
     roles[a.role].isClient /\ a.framework \in roles[a.role].active}

\* What an allocation run offers f of role r, by agent; `offer` has an assignment for
\* each agent the run allocates.
Offered(offer, f, r) ==
  [s \in Slave |-> IF s \in DOMAIN offer /\ offer[s].framework = f /\ offer[s].role = r
                   THEN offer[s].units ELSE 0]

\* _allocate and __allocate: one run.
RunAllocation(offer) ==
  /\ allocation
  /\ DOMAIN offer \subseteq SlaveIds
  /\ \A s \in DOMAIN offer : offer[s] \in Assignments(s)
  /\ slaves' = [s \in DOMAIN slaves |->
       IF s \in DOMAIN offer THEN [slaves[s] EXCEPT !.allocated = @ + offer[s].units]
                             ELSE slaves[s]]
  /\ roles' = [r \in Role |->
       [roles[r] EXCEPT
         !.allocation = [s \in Slave |->
            IF s \in DOMAIN offer /\ offer[s].role = r THEN @[s] + offer[s].units ELSE @[s]],
         !.held = [f \in Framework |-> Plus(@[f], Offered(offer, f, r))],
         !.entries = [f \in Framework |->
            @[f] \cup {s \in Slave : Offered(offer, f, r)[s] > 0}]]]
  /\ offers' = [f \in Framework |-> [r \in Role |->
       Plus(offers[f][r], Offered(offer, f, r))]]
  /\ allocationCandidates' = {}
  /\ allocation' = FALSE
  /\ UNCHANGED <<frameworks, completedFrameworks, roleSorterTotal, used>>

-----------------------------------------------------------------------------

Quantity(s) == 0..MaxTotal[s]

\* Resources of one framework on one agent, by role.
Tasks(s) == [Role -> Quantity(s)]

FrameworkCall(f) ==
  \/ \E rs, suppressed \in SUBSET Role, active \in BOOLEAN :
       AddFramework(f, rs, suppressed, active)
  \/ RemoveFramework(f)
  \/ ActivateFramework(f)
  \/ DeactivateFramework(f)
  \/ \E rs, suppressed \in SUBSET Role : UpdateFramework(f, rs, suppressed)
  \/ \E rs \in SUBSET Role : SuppressOffers(f, rs)
  \/ \E rs \in SUBSET Role : ReviveOffers(f, rs)

SlaveCall(s) ==
  \/ \E total \in Quantity(s), f \in Framework, tasks \in Tasks(s) : AddSlave(s, total, f, tasks)
  \/ RemoveSlave(s)
  \/ \E total \in Quantity(s), infoChanged \in BOOLEAN : UpdateSlave(s, total, infoChanged)
  \/ \E more \in Quantity(s), f \in Framework, tasks \in Tasks(s) :
       AddResourceProvider(s, more, f, tasks)
  \/ \E activated \in BOOLEAN : SetActivated(s, activated)

AllocationCall(f, r, s) ==
  \/ \E n \in Quantity(s) \ {0} : UpdateAllocation(f, r, s, n)
  \/ \E n \in Quantity(s) \ {0} : Recover(f, r, s, n)
  \/ OfferArrives(f, r, s)
  \/ OfferReturns(f, r, s)

Run == \E which \in SUBSET SlaveIds :
         \E offer \in [which -> UNION {Assignments(s) : s \in which}] : RunAllocation(offer)

Next ==
  \/ \E f \in Framework : FrameworkCall(f)
  \/ \E s \in Slave : SlaveCall(s)
  \/ \E f \in Framework, r \in Role, s \in Slave : AllocationCall(f, r, s)
  \/ PeriodicAllocate
  \/ Run

Spec == Init /\ [][Next]_vars

-----------------------------------------------------------------------------
(* Properties.                                                             *)

\* The structures that keep a role's frameworks agree after every call, so no CHECK
\* of trackFrameworkUnderRole or untrackFrameworkUnderRole fails
\* (hierarchical.cpp:2777-2831).
RolesConsistent == \A r \in Role : RoleConsistent(roles[r])

\* A framework is a client of the sorter of each role it is subscribed to: every
\* CHECK_NOTNONE(getFrameworkSorter(role)) and every find(client) of suppress,
\* revive, activate, deactivate and update succeeds, after any sequence of them.
SubscribedIsTracked ==
  \A f \in Added : \A r \in frameworks[f].roles : f \in roles[r].clients

\* A framework is returned by the sort of a role only if it is subscribed to that
\* role and has not suppressed it: no offers for suppressed or abandoned roles,
\* whatever the order of suppress, revive, (de)activate and update.
ActiveClientWantsOffers ==
  \A r \in Role : \A f \in roles[r].active :
    f \in Added /\ r \in frameworks[f].roles \ frameworks[f].suppressedRoles

\* The other way round: an active framework is in the sort of every role it has
\* not suppressed.  A missed activation starves the framework, silently.
WantedRoleIsActive ==
  \A f \in Added : frameworks[f].active =>
    \A r \in frameworks[f].roles \ frameworks[f].suppressedRoles : f \in roles[r].active

\* The sorters hold for an added framework exactly what the master has still to
\* give back, on present and on removed agents: no recoverResources, at any time,
\* trips a CHECK of the sorters (hierarchical.cpp:1433, sorter.hpp:338-341).
SortersMatchMaster ==
  \A f \in Added, r \in Role, s \in Slave : roles[r].held[f][s] = Outstanding(f, r, s)

\* What the roleSorter has for a role is the sum over the role's clients: the share
\* that orders the roles counts each allocation once, and loses none.
RoleSorterSumsClients ==
  \A r \in Role, s \in Slave :
    roles[r].allocation[s] = SumFunction([f \in Framework |-> roles[r].held[f][s]])

\* An agent's allocated resources are what the master has still to give back of it,
\* so the CHECK of recoverResources (hierarchical.cpp:1450) holds for every call.
AgentMatchesMaster ==
  \A s \in DOMAIN slaves :
    slaves[s].allocated =
      SumFunction([k \in Framework \X Role |-> Outstanding(k[1], k[2], s)])

\* The totals of the roleSorter and of every framework sorter are the agents', also
\* in a sorter created when agents were there: the shares divide by the cluster.
SorterTotalsMatchAgents ==
  /\ roleSorterTotal = Totals
  /\ \A r \in Role : roles[r].hasSorter => roles[r].totals = Totals

\* Candidates are agents that are there: the CHECK_NOTNONE(getSlave(...)) of a run
\* (isWhitelisted, deallocate) holds although runs are batched and agents go.
CandidatesAreAgents == allocationCandidates \subseteq DOMAIN slaves

\* An agent is over-allocated only by what its total shrank: no step that leaves
\* the total alone, or grows it, allocates a unit twice.
Excess(s) == Saturate(slaves[s].allocated - slaves[s].total)

NoDoubleAllocation ==
  [][\A s \in DOMAIN slaves \cap DOMAIN slaves' :
       slaves'[s].total >= slaves[s].total => Excess(s)' <= Excess(s)]_vars

\* updateFramework leaves the framework with the suppressed roles it was given (the
\* CHECK at hierarchical.cpp:766), whatever was suppressed before.
UpdateSetsSuppressed ==
  [][\A f \in Added, rs, suppressed \in SUBSET Role :
       UpdateFramework(f, rs, suppressed) => frameworks'[f].suppressedRoles = suppressed]_vars

\* "CHECK(framework.active)" (hierarchical.cpp:2021), which the first stage of a run
\* asserts of every framework in a role's sort: the frameworks that a run, whose second
\* stage takes the same sort without the CHECK, offers resources to are active.
OffersGoToActive ==
  [][\A f \in Framework, r \in Role, s \in Slave :
       offers'[f][r][s] > offers[f][r][s] => f \in Added /\ frameworks[f].active]_vars

\* recoverResources on a framework that is gone: "we will have already recovered
\* all of its resources" (hierarchical.cpp:1424-1429).
RemovedFrameworkHoldsNothing ==
  \A f \in completedFrameworks, r \in Role : roles[r].held[f] = NoResources
=============================================================================
