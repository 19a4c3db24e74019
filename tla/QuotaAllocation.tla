--------------------------- MODULE QuotaAllocation ---------------------------
(***************************************************************************)
(* Quota in HierarchicalAllocatorProcess (src/src/hierarchical.cpp): one   *)
(* allocation run, __allocate(), agent by agent and role by role through   *)
(* its two stages, on a cluster that changes between runs.  At its start a *)
(* run works out the consumed quota of each role, the headroom the unmet   *)
(* guarantees require and the headroom there is; while it allocates it     *)
(* corrects these three numbers instead of working them out again.         *)
(*                                                                         *)
(* Resources are units of one scalar, unreserved or reserved to a role.    *)
(* Who in a role is offered an agent, if anybody, is a choice: frameworks  *)
(* may be suppressed, not capable, or filter what they would get.          *)
(***************************************************************************)
EXTENDS RoleTree

CONSTANTS Slave, Framework,
          Unreserved,
          MaxTotal,      \* bound: units of each agent, [Slave -> Nat]
          Quotas         \* the quotas updateQuota() is called with

\* The master lets through only guarantees within limits, for top-level roles.
ASSUME QuotasAssumption ==
  \A q \in Quotas : q \in Quota /\ (q.limit # NoLimit => q.guarantee <= q.limit)

ASSUME ResourcesAssumption ==
  /\ Unreserved \notin Role
  /\ MaxTotal \in [Slave -> Nat]
  /\ IsFiniteSet(Slave)

Kind == Role \cup {Unreserved}

Resources == [Kind -> Nat]

VARIABLES
  slaves,              \* the total of each agent that is there
  held,                \* the roleSorter's allocation, [Role -> [Slave -> Resources]]
  roleTree,
  quota,               \* master: the quotas it has set
  subscribed,          \* master: the frameworks of each role, or still holding there
  stage,               \* of the run: "idle", "first" or "second"
  slaveIds,            \* the agents the run works on
  todo,                \* the agents and roles the stage has not come to
  rolesConsumedQuota,
  requiredHeadroom,
  availableHeadroom

cluster == <<slaves, held, roleTree, quota, subscribed>>
run == <<stage, slaveIds, todo, rolesConsumedQuota, requiredHeadroom, availableHeadroom>>
vars == <<slaves, held, roleTree, quota, subscribed, stage, slaveIds, todo,
          rolesConsumedQuota, requiredHeadroom, availableHeadroom>>

TypeOK ==
  /\ DOMAIN slaves \subseteq Slave
  /\ \A s \in DOMAIN slaves : slaves[s] \in Resources
  /\ held \in [Role -> [Slave -> Resources]]
  /\ \A r \in DOMAIN roleTree :
       roleTree[r] \in [frameworks : SUBSET Framework, quota : Quota, reservation : Nat]
  /\ quota \in [Role -> Quota]
  /\ subscribed \in [Role -> SUBSET Framework]
  /\ stage \in {"idle", "first", "second"}
  /\ slaveIds \subseteq DOMAIN slaves
  /\ todo \subseteq slaveIds \X Role
  /\ rolesConsumedQuota \in [Role -> Nat]
  /\ requiredHeadroom \in Nat
  /\ availableHeadroom \in Nat

Nothing == [k \in Kind |-> 0]

Init ==
  /\ slaves = [s \in {} |-> Nothing]
  /\ held = [r \in Role |-> [s \in Slave |-> Nothing]]
  /\ roleTree = EmptyTree
  /\ quota = [r \in Role |-> DefaultQuota]
  /\ subscribed = [r \in Role |-> {}]
  /\ stage = "idle"
  /\ slaveIds = {}
  /\ todo = {}
  /\ rolesConsumedQuota = [r \in Role |-> 0]
  /\ requiredHeadroom = 0
  /\ availableHeadroom = 0

-----------------------------------------------------------------------------
(* Quantities.                                                             *)

\* Subtraction of Resources and ResourceQuantities never goes below nothing.
Saturate(n) == IF n > 0 THEN n ELSE 0
Smaller(m, n) == IF m < n THEN m ELSE n

Units(resources) == SumFunction(resources)

Agents == DOMAIN slaves

TopLevel == {r \in Role : Parent[r] = Root}

HeldOn(s, k) == SumFunction([r \in Role |-> held[r][s][k]])

\* slave.getAvailable(), of one kind.
Free(s, k) == Saturate(slaves[s][k] - HeldOn(s, k))

\* What the roleSorter has, over all agents: also over those removed meanwhile.
TotalUnits == SumFunction([s \in Agents |-> Units(slaves[s])])
HeldUnits(k) == SumFunction([s \in Slave |-> HeldOn(s, k)])
AllReserved == roleTree[Root].reservation
HeldReserved == SumFunction([r \in Role |-> HeldUnits(r)])

\* The unreserved allocation of each role.
HeldUnreserved == [r \in Role |-> SumFunction([s \in Slave |-> held[r][s][Unreserved]])]

\* What r has consumed: reservations of its subtree, allocated or not, from the role tree,
\* and the unreserved allocation of the roles there that have frameworks.
ConsumedQuota(r) ==
  roleTree[r].reservation
    + SumFunctionOnSet(HeldUnreserved,
                       {q \in Subtree(r) \cap DOMAIN roleTree : roleTree[q].frameworks # {}})

-----------------------------------------------------------------------------
(* The cluster, between runs.                                              *)

Idle == stage = "idle" /\ UNCHANGED run

Totals(s) == {total \in [Kind -> 0..MaxTotal[s]] : Units(total) <= MaxTotal[s]}

\* An agent comes (back), nobody holding resources of it.
AddSlave(s, total) ==
  /\ Idle
  /\ s \notin Agents /\ \A k \in Kind : HeldOn(s, k) = 0
  /\ slaves' = [t \in Agents \cup {s} |-> IF t = s THEN total ELSE slaves[t]]
  /\ roleTree' = TrackReservations(roleTree, total)
  /\ UNCHANGED <<held, quota, subscribed>>

\* What is allocated on it stays in the sorter until it is recovered.
RemoveSlave(s) ==
  /\ Idle
  /\ s \in Agents
  /\ slaves' = [t \in Agents \ {s} |-> slaves[t]]
  /\ roleTree' = UntrackReservations(roleTree, slaves[s])
  /\ UNCHANGED <<held, quota, subscribed>>

\* updateSlaveTotal: old reservations are untracked before the new ones are tracked.
UpdateTotal(s, total) ==
  /\ slaves' = [slaves EXCEPT ![s] = total]
  /\ roleTree' = TrackReservations(UntrackReservations(roleTree, slaves[s]), total)

\* updateSlave: an agent keeps its reservations, but may have less unreserved units
\* than are allocated.
UpdateSlave(s, total) ==
  /\ Idle
  /\ s \in Agents
  /\ total # slaves[s] /\ \A r \in Role : total[r] = slaves[s][r]
  /\ UpdateTotal(s, total)
  /\ UNCHANGED <<held, quota, subscribed>>

\* updateAvailable: an operator reserves a free unit, or gives up a reservation; the
\* call fails where the unit is not free.
UpdateAvailable(r, s, from, to) ==
  /\ Idle
  /\ {from, to} = {Unreserved, r}
  /\ s \in Agents /\ Free(s, from) > 0
  /\ UpdateTotal(s, [slaves[s] EXCEPT ![from] = @ - 1, ![to] = @ + 1])
  /\ UNCHANGED <<held, quota, subscribed>>

\* updateAllocation: a framework of r reserves a unit it holds, or gives up a
\* reservation.
UpdateAllocation(r, s, from, to) ==
  LET Converted(resources) ==
        [resources EXCEPT ![from] = @ - 1, ![to] = @ + 1]
  IN  /\ Idle
      /\ {from, to} = {Unreserved, r}
      /\ s \in Agents /\ slaves[s][from] > 0 /\ held[r][s][from] > 0
      /\ UpdateTotal(s, Converted(slaves[s]))
      /\ held' = [held EXCEPT ![r][s] = Converted(@)]
      /\ UNCHANGED <<quota, subscribed>>

RecoverResources(r, s, k) ==
  /\ Idle
  /\ held[r][s][k] > 0
  /\ held' = [held EXCEPT ![r][s][k] = @ - 1]
  /\ UNCHANGED <<slaves, roleTree, quota, subscribed>>

UpdateQuota(r, q) ==
  /\ Idle
  /\ r \in TopLevel /\ q # quota[r]
  /\ quota' = [quota EXCEPT ![r] = q]
  /\ roleTree' = SetQuota(roleTree, r, q)
  /\ UNCHANGED <<slaves, held, subscribed>>

\* A framework is tracked under a role, and untracked when it holds nothing there.
Subscribe(f, r) ==
  /\ Idle
  /\ f \notin subscribed[r]
  /\ subscribed' = [subscribed EXCEPT ![r] = @ \cup {f}]
  /\ roleTree' = TrackFramework(roleTree, f, r)
  /\ UNCHANGED <<slaves, held, quota>>

Unsubscribe(f, r) ==
  /\ Idle
  /\ f \in subscribed[r] /\ \A s \in Slave : held[r][s] = Nothing
  /\ subscribed' = [subscribed EXCEPT ![r] = @ \ {f}]
  /\ roleTree' = UntrackFramework(roleTree, f, r)
  /\ UNCHANGED <<slaves, held, quota>>

-----------------------------------------------------------------------------
(* The run.                                                                *)

\* What is needed for the guarantees that are not met.
Required(consumed) ==
  SumFunction([r \in TopLevel |-> Saturate(QuotaOf(roleTree, r).guarantee - consumed[r])])

\* Slip: what is unallocated and reserved counts as headroom.
AvailableUnallocated ==
  Saturate(TotalUnits - HeldUnits(Unreserved) - HeldReserved)

\* What is unallocated and unreserved, worked out from the sorter's sums.
AvailableHeadroom ==
  Saturate(Saturate(TotalUnits - HeldUnits(Unreserved) - HeldReserved)
             - Saturate(AllReserved - HeldReserved))

\* Consumed quota is worked out for roles with a quota only.
BeginRun(candidates) ==
  LET consumed == [r \in Role |->
        IF r \in TopLevel /\ QuotaOf(roleTree, r) # DefaultQuota THEN ConsumedQuota(r) ELSE 0]
  IN  /\ stage = "idle"
      /\ candidates # {} /\ candidates \subseteq Agents
      /\ stage' = "first"
      /\ slaveIds' = candidates
      /\ todo' = candidates \X Role
      /\ rolesConsumedQuota' = consumed
      /\ requiredHeadroom' = Required(consumed)
      /\ availableHeadroom' = AvailableHeadroom
      /\ UNCHANGED cluster

\* The stage finishes an agent before it comes to the next.
Turn(s, r, accepted) ==
  /\ <<s, r>> \in todo
  /\ accepted => r \in DOMAIN roleTree /\ roleTree[r].frameworks # {}
  /\ \A t \in slaveIds \ {s} : {q \in Role : <<t, q>> \in todo} \in {{}, Role}
  /\ todo' = todo \ {<<s, r>>}

\* Slip: the limit leaves out what the allocation has for guarantees already.
WithinLimitOnly(n, r, guaranteed) ==
  IF QuotaOf(roleTree, r).limit = NoLimit THEN n
  ELSE Smaller(n, Saturate(QuotaOf(roleTree, r).limit - rolesConsumedQuota[r]))

\* n units chopped to what the limit of r leaves beside `guaranteed`.
WithinLimit(n, r, guaranteed) ==
  IF QuotaOf(roleTree, r).limit = NoLimit THEN n
  ELSE Smaller(n, Saturate(QuotaOf(roleTree, r).limit - rolesConsumedQuota[r] - guaranteed))

\* Slip: required headroom is not held back.
WithinAvailable(n) == Smaller(n, availableHeadroom)

\* n units chopped to the surplus headroom.
WithinHeadroom(n) ==
  IF requiredHeadroom = 0 THEN n
  ELSE Smaller(n, Saturate(availableHeadroom - requiredHeadroom))

\* r is allocated n unreserved units, and all it can have of the `reserved` kinds.
Hold(r, s, n, reserved) ==
  held' = [held EXCEPT ![r][s] =
    [k \in Kind |-> @[k] + (IF k = Unreserved THEN n
                            ELSE IF k \in reserved THEN Free(s, k) ELSE 0)]]

\* r and the roles above it are charged for n units.
ConsumedMore(r, n) ==
  [q \in Role |-> rolesConsumedQuota[q] + (IF q \in Lineage(r) THEN n ELSE 0)]

\* Slip: a burst lessens the required headroom as well.
FirstStageBurst(s, r, accepted) ==
  LET unmet      == Saturate(QuotaOf(roleTree, r).guarantee - rolesConsumedQuota[r])
      guaranteed == Smaller(Free(s, Unreserved), unmet)
      additional == WithinHeadroom(WithinLimit(Free(s, Unreserved) - guaranteed, r, guaranteed))
      increased  == guaranteed + additional
  IN  /\ stage = "first"
      /\ Turn(s, r, accepted)
      /\ IF guaranteed > 0 /\ accepted
         THEN /\ Hold(r, s, increased, {r})
              /\ rolesConsumedQuota' = ConsumedMore(r, increased)
              /\ requiredHeadroom' = Saturate(requiredHeadroom - increased)
              /\ availableHeadroom' = Saturate(availableHeadroom - increased)
         ELSE UNCHANGED <<held, rolesConsumedQuota, requiredHeadroom, availableHeadroom>>
      /\ UNCHANGED <<slaves, roleTree, quota, subscribed, stage, slaveIds>>

\* First stage: roles with unmet guarantees get them, whatever the headroom is, and
\* more of the same agent as far as limit and headroom allow.
FirstStage(s, r, accepted) ==
  LET unmet      == Saturate(QuotaOf(roleTree, r).guarantee - rolesConsumedQuota[r])
      guaranteed == Smaller(Free(s, Unreserved), unmet)
      additional == WithinHeadroom(WithinLimit(Free(s, Unreserved) - guaranteed, r, guaranteed))
      increased  == guaranteed + additional
  IN  /\ stage = "first"
      /\ Turn(s, r, accepted)
      /\ IF guaranteed > 0 /\ accepted
         THEN /\ Hold(r, s, increased, {r})
              /\ rolesConsumedQuota' = ConsumedMore(r, increased)
              /\ requiredHeadroom' = Saturate(requiredHeadroom - guaranteed)
              /\ availableHeadroom' = Saturate(availableHeadroom - increased)
         ELSE UNCHANGED <<held, rolesConsumedQuota, requiredHeadroom, availableHeadroom>>
      /\ UNCHANGED <<slaves, roleTree, quota, subscribed, stage, slaveIds>>

\* All agents again, in another order.
BeginSecondStage ==
  /\ stage = "first" /\ todo = {}
  /\ stage' = "second"
  /\ todo' = slaveIds \X Role
  /\ UNCHANGED <<cluster, slaveIds, rolesConsumedQuota, requiredHeadroom, availableHeadroom>>

\* Slip: allocations of the second stage are not charged.
SecondStageUncharged(s, r, accepted) ==
  LET allocated == WithinHeadroom(WithinLimit(Free(s, Unreserved), r, 0))
  IN  /\ stage = "second"
      /\ Turn(s, r, accepted)
      /\ IF accepted
         THEN /\ Hold(r, s, allocated, Lineage(r))
              /\ availableHeadroom' = Saturate(availableHeadroom - allocated)
         ELSE UNCHANGED <<held, availableHeadroom>>
      /\ UNCHANGED <<slaves, roleTree, quota, subscribed, stage, slaveIds, rolesConsumedQuota, requiredHeadroom>>

\* Second stage: every role, as far as its limit and the headroom allow, and
\* reservations of the role and of those above it.
SecondStage(s, r, accepted) ==
  LET allocated == WithinHeadroom(WithinLimit(Free(s, Unreserved), r, 0))
  IN  /\ stage = "second"
      /\ Turn(s, r, accepted)
      /\ IF accepted
         THEN /\ Hold(r, s, allocated, Lineage(r))
              /\ rolesConsumedQuota' =
                   IF QuotaOf(roleTree, r) # DefaultQuota THEN ConsumedMore(r, allocated)
                                              ELSE rolesConsumedQuota
              /\ availableHeadroom' = Saturate(availableHeadroom - allocated)
         ELSE UNCHANGED <<held, rolesConsumedQuota, availableHeadroom>>
      /\ UNCHANGED <<slaves, roleTree, quota, subscribed, stage, slaveIds, requiredHeadroom>>

\* The offers are made; what the run worked out is forgotten.
EndRun ==
  /\ stage = "second" /\ todo = {}
  /\ stage' = "idle"
  /\ slaveIds' = {}
  /\ todo' = {}
  /\ rolesConsumedQuota' = [r \in Role |-> 0]
  /\ requiredHeadroom' = 0
  /\ availableHeadroom' = 0
  /\ UNCHANGED cluster

-----------------------------------------------------------------------------

Between ==
  \/ \E s \in Slave :
       \/ \E total \in Totals(s) : AddSlave(s, total) \/ UpdateSlave(s, total)
       \/ RemoveSlave(s)
  \/ \E r \in Role, s \in Slave :
       \/ \E from, to \in Kind :
            UpdateAvailable(r, s, from, to) \/ UpdateAllocation(r, s, from, to)
       \/ \E k \in Kind : RecoverResources(r, s, k)
  \/ \E r \in Role, q \in Quotas : UpdateQuota(r, q)
  \/ \E r \in Role, f \in Framework : Subscribe(f, r) \/ Unsubscribe(f, r)

Run ==
  \/ \E candidates \in SUBSET Slave : BeginRun(candidates)
  \/ \E s \in Slave, r \in Role, accepted \in BOOLEAN :
       FirstStage(s, r, accepted) \/ SecondStage(s, r, accepted)
  \/ BeginSecondStage
  \/ EndRun

Next == Between \/ Run

Spec == Init /\ [][Next]_vars

-----------------------------------------------------------------------------
(* Properties.                                                             *)

Running == stage # "idle"

\* The units reserved to each role alone, on the agents that are there.
ReservedUnits == [r \in Role |-> SumFunction([s \in Agents |-> slaves[s][r]])]

\* Reservations, allocated or not, and the unreserved allocation, of r's subtree.
Consumed(r) ==
  SumFunctionOnSet(ReservedUnits, Subtree(r)) + SumFunctionOnSet(HeldUnreserved, Subtree(r))

Unmet == SumFunction([r \in TopLevel |-> Saturate(quota[r].guarantee - Consumed(r))])

FreeUnits == SumFunction([s \in Agents |-> Free(s, Unreserved)])

\* "Any roles that do not meet these conditions are not tracked" (hierarchical.hpp:202): a
\* role is in the tree if and only if it, or one below it, has frameworks, a quota or
\* reservations, and with exactly those, although reservations are untracked and tracked
\* again, and roles pruned and created again, with every change of an agent.
RoleTreeIsExact ==
  LET used == {r \in Role : subscribed[r] # {} \/ quota[r] # DefaultQuota \/ ReservedUnits[r] > 0}
      reserved(r) == SumFunctionOnSet(ReservedUnits, Subtree(r))
  IN  /\ DOMAIN roleTree = {Root} \cup UNION {Lineage(r) : r \in used}
      /\ roleTree[Root] = [NewRole EXCEPT !.reservation = SumFunction(ReservedUnits)]
      /\ \A r \in DOMAIN roleTree \ {Root} :
           roleTree[r] = [frameworks |-> subscribed[r], quota |-> quota[r],
                          reservation |-> reserved(r)]

\* While a run corrects the consumed quota allocation by allocation it stays what
\* working it out again would give, for every role that has a quota.
ConsumedIsExact ==
  Running => \A r \in TopLevel :
    quota[r] # DefaultQuota => rolesConsumedQuota[r] = Consumed(r)

\* The headroom a run believes in is there: not more than the unreserved units free,
\* although it is computed from sums that count what is held on removed agents and
\* on agents that shrank below their allocation.
HeadroomIsThere == Running => availableHeadroom <= FreeUnits

\* The headroom a run holds back is not less than what unmet guarantees need, so
\* bursts and roles without quota do not eat into them.
HeadroomIsEnough == Running => requiredHeadroom >= Unmet

\* "We will allocate resources while ensuring that the required unreserved
\* non-revocable headroom is still available" (hierarchical.cpp:1873): no allocation of
\* a run adds to the guarantees that free resources cannot meet any more, first-stage
\* bursts included.
DeficitNeverGrows ==
  [][Running => Saturate(Unmet' - FreeUnits') <= Saturate(Unmet - FreeUnits)]_vars

\* A run allocates nothing that lifts a role above its limit.  "We charge a role
\* against its quota by considering its allocation (including all subrole allocations)"
\* (hierarchical.cpp:1807).
LimitsAreKept ==
  [][Running => \A r \in TopLevel :
       quota[r].limit # NoLimit /\ Consumed(r)' > Consumed(r) =>
         Consumed(r)' <= quota[r].limit]_vars
=============================================================================
