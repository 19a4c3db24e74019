------------------------ MODULE ResourceWeightsSorter ------------------------
(***************************************************************************)
(* MyResourceWeightedSlaveSorter                                           *)
(* (src/src/slavesorter/resources_weights/slavesorter.cpp), the agent      *)
(* sorter of the allocator that Allocator::create makes, under the calls   *)
(* HierarchicalAllocatorProcess makes on it.  It keeps books of its own on *)
(* each agent's total and allocation; the allocator tells it of agents     *)
(* that come and go and of what is allocated and recovered, but not of an  *)
(* agent whose total changes, nor of operations on allocated resources.    *)
(*                                                                         *)
(* Resources are units of one scalar, reserved or not: what tells the      *)
(* allocator's identities apart from the sorter's quantities.  A unit      *)
(* weighs 1, as one of cpus or mem may; gpus and other scalars weigh 0 and *)
(* are left out.  All frameworks are known to the allocator.               *)
(***************************************************************************)
EXTENDS Integers, FiniteSets

CONSTANTS Slave,
          MaxTotal,     \* bound: units an agent may have
          MaxPool       \* bound: units the sorter may count as an agent's total or allocation

ASSUME BoundsAssumption == MaxTotal \in Nat /\ MaxPool \in Nat

\* The sorter adds up what its maps hold: there are finitely many agents.
ASSUME FiniteAssumption == IsFiniteSet(Slave)

VARIABLES
  slaves,              \* the allocator's agents: total and allocated resources
  used,                \* external master: what frameworks hold, by agent
  pool,                \* total_.resources
  scalarQuantities,    \* total_.scalarQuantities
  allocatedResources,
  totalWeights,
  allocationRatios,    \* as the pair of allocationWeights and totalWeights divided
  touched,             \* ghost: agents whose resources changed behind the sorter
  bare                 \* ghost: agents that last registered without resources

vars == <<slaves, used, pool, scalarQuantities, allocatedResources, totalWeights,
          allocationRatios, touched, bare>>

Kind == {"unreserved", "reserved"}

Resources == [Kind -> Nat]

None == [k \in Kind |-> 0]

Add(a, b) == [k \in Kind |-> a[k] + b[k]]
Subtract(a, b) == [k \in Kind |-> a[k] - b[k]]
Includes(a, b) == \A k \in Kind : b[k] <= a[k]
Quantity(a) == a["unreserved"] + a["reserved"]

\* createStrippedScalarQuantity: a reserved unit counts as an unreserved one.
Stripped(a) == [unreserved |-> Quantity(a), reserved |-> 0]

\* All resources of at most n units.
UpTo(n) == {a \in [Kind -> 0..n] : Quantity(a) <= n}

Ratio == [allocation : Nat, total : Nat]

TypeOK ==
  /\ DOMAIN slaves \subseteq Slave
  /\ \A s \in DOMAIN slaves : slaves[s] \in [total : Resources, allocated : Resources]
  /\ used \in [Slave -> Resources]
  /\ pool \in [Slave -> Resources]
  /\ scalarQuantities \in Nat
  /\ allocatedResources \in [Slave -> Resources]
  /\ totalWeights \in [Slave -> Nat]
  /\ DOMAIN allocationRatios \subseteq Slave
  /\ \A s \in DOMAIN allocationRatios : allocationRatios[s] \in Ratio
  /\ touched \subseteq Slave /\ bare \subseteq Slave

Init ==
  /\ slaves = [s \in {} |-> {}]
  /\ used = [s \in Slave |-> None]
  /\ pool = [s \in Slave |-> None]
  /\ scalarQuantities = 0
  /\ allocatedResources = [s \in Slave |-> None]
  /\ totalWeights = [s \in Slave |-> 0]
  /\ allocationRatios = [s \in {} |-> {}]
  /\ touched = {} /\ bare = {}

-----------------------------------------------------------------------------
(* The sorter.                                                             *)

Agents == DOMAIN slaves

\* Bound: the sorter's books of s stay in bounds when it adds `total` and allocates.
Bounded(s, toAdd, total) ==
  /\ Quantity(pool[s]) + Quantity(total) + Quantity(toAdd) <= MaxPool
  /\ Quantity(allocatedResources[s]) + Quantity(toAdd) <= MaxPool

\* Slip: the ratio is worked out before the resources are added.
RatioBefore(s, toAdd, weight) ==
  [t \in DOMAIN allocationRatios \cup {s} |->
     IF t = s THEN [allocation |-> Quantity(allocatedResources[s]), total |-> weight]
              ELSE allocationRatios[t]]

\* allocationRatios after allocated(s, toAdd), where s weighs `weight`.
RatioAfter(s, toAdd, weight) ==
  [t \in DOMAIN allocationRatios \cup {s} |->
     IF t = s THEN [allocation |-> Quantity(allocatedResources[s]) + Quantity(toAdd),
                    total |-> weight]
              ELSE allocationRatios[t]]

\* allocated(s, toAdd), when add() has left `before` in the pool and the quantities.
Allocated(s, toAdd, before, quantities, weight) ==
  /\ pool' = [pool EXCEPT ![s] = Add(before, Stripped(toAdd))]
  /\ scalarQuantities' = quantities + Quantity(toAdd)
  /\ allocatedResources' = [allocatedResources EXCEPT ![s] = Add(@, toAdd)]
  /\ allocationRatios' = RatioAfter(s, toAdd, weight)

\* Slip: resources unallocated leave the total as well.
UnallocatedFromPool(s, toRemove) ==
  /\ allocatedResources' = [allocatedResources EXCEPT ![s] = Subtract(@, toRemove)]
  /\ pool' = [pool EXCEPT ![s]["unreserved"] = @ - Quantity(toRemove)]
  /\ UNCHANGED <<scalarQuantities, totalWeights, allocationRatios>>

\* unallocated(s, toRemove): the ratio stays what it was.
Unallocated(s, toRemove) ==
  /\ allocatedResources' = [allocatedResources EXCEPT ![s] = Subtract(@, toRemove)]
  /\ UNCHANGED <<pool, scalarQuantities, totalWeights, allocationRatios>>

\* The CHECKs of unallocated() and of remove(); the program ends where one fails.
UnallocatedCheck(s, toRemove) == Includes(allocatedResources[s], toRemove)

RemoveCheck(s) ==
  Includes(pool[s], slaves[s].total) /\ Quantity(slaves[s].total) <= scalarQuantities

-----------------------------------------------------------------------------
(* The allocator's calls.                                                  *)

\* Slip: add() weighs the pool before the agent's resources are in it.
WeightBefore(s, total, before) ==
  IF total = None THEN totalWeights[s] ELSE Quantity(pool[s])

\* totalWeights[s] after add(s, total), which does nothing without resources.
WeightAfter(s, total, before) ==
  IF total = None THEN totalWeights[s] ELSE Quantity(before)

\* An agent registers with tasks; what it had before is recovered.  allocated()
\* is called for its tasks only.
AddSlave(s, total, tasks) ==
  /\ s \notin Agents /\ used[s] = None
  /\ Includes(total, tasks)
  /\ Bounded(s, tasks, total)
  /\ LET before == Add(pool[s], total)
         weight == WeightAfter(s, total, before)
     IN  /\ totalWeights' = [totalWeights EXCEPT ![s] = weight]
         /\ IF tasks = None
            THEN /\ pool' = [pool EXCEPT ![s] = before]
                 /\ scalarQuantities' = scalarQuantities + Quantity(total)
                 /\ UNCHANGED <<allocatedResources, allocationRatios>>
            ELSE Allocated(s, tasks, before, scalarQuantities + Quantity(total), weight)
  /\ slaves' = [t \in Agents \cup {s} |->
       IF t = s THEN [total |-> total, allocated |-> tasks] ELSE slaves[t]]
  /\ used' = [used EXCEPT ![s] = tasks]
  /\ touched' = touched \ {s}
  /\ bare' = IF total = None THEN bare \cup {s} ELSE bare \ {s}

\* remove() takes the agent's total away; what allocated() had added is left.
RemoveSlave(s) ==
  /\ s \in Agents
  /\ RemoveCheck(s)
  /\ pool' = [pool EXCEPT ![s] = Subtract(@, slaves[s].total)]
  /\ scalarQuantities' = scalarQuantities - Quantity(slaves[s].total)
  /\ totalWeights' = [totalWeights EXCEPT ![s] =
       IF slaves[s].total = None THEN @ ELSE Quantity(pool'[s])]
  /\ slaves' = [t \in Agents \ {s} |-> slaves[t]]
  /\ UNCHANGED <<used, allocatedResources, allocationRatios, touched, bare>>

\* updateSlave: updateSlaveTotal tells the other sorters, not this one.
UpdateSlave(s, total) ==
  /\ s \in Agents /\ total # slaves[s].total
  /\ slaves' = [slaves EXCEPT ![s].total = total]
  /\ touched' = touched \cup {s}
  /\ UNCHANGED <<used, pool, scalarQuantities, allocatedResources, totalWeights,
                 allocationRatios, bare>>

\* updateAllocation: an operation of a framework turns n units it holds from one
\* kind into the other, or, for some resources, destroys them.
UpdateAllocation(s, from, n, destroyed) ==
  LET consumed == [None EXCEPT ![from] = n]
      converted == IF destroyed THEN None
                   ELSE [k \in Kind |-> IF k = from THEN 0 ELSE n]
      Apply(a) == Add(Subtract(a, consumed), converted)
  IN  /\ s \in Agents
      /\ n > 0 /\ Includes(used[s], consumed)
      /\ Includes(slaves[s].total, consumed) /\ Includes(slaves[s].allocated, consumed)
      /\ slaves' = [slaves EXCEPT ![s] = [total |-> Apply(@.total), allocated |-> Apply(@.allocated)]]
      /\ used' = [used EXCEPT ![s] = Apply(@)]
      /\ touched' = touched \cup {s}
      /\ UNCHANGED <<pool, scalarQuantities, allocatedResources, totalWeights,
                     allocationRatios, bare>>

\* One assignment of an allocation run.
AllocateOn(s, toAllocate) ==
  /\ s \in Agents
  /\ toAllocate # None
  /\ Includes(slaves[s].total, Add(slaves[s].allocated, toAllocate))
  /\ Bounded(s, toAllocate, None)
  /\ slaves' = [slaves EXCEPT ![s].allocated = Add(@, toAllocate)]
  /\ used' = [used EXCEPT ![s] = Add(@, toAllocate)]
  /\ Allocated(s, toAllocate, pool[s], scalarQuantities, totalWeights[s])
  /\ UNCHANGED <<totalWeights, touched, bare>>

\* recoverResources, of an agent that is there or was removed.
RecoverResources(s, resources) ==
  /\ resources # None
  /\ Includes(used[s], resources)
  /\ UnallocatedCheck(s, resources)
  /\ used' = [used EXCEPT ![s] = Subtract(@, resources)]
  /\ slaves' = IF s \in Agents
               THEN [slaves EXCEPT ![s].allocated = Subtract(@, resources)] ELSE slaves
  /\ Unallocated(s, resources)
  /\ UNCHANGED <<touched, bare>>

Next ==
  \E s \in Slave :
    \/ \E total, tasks \in UpTo(MaxTotal) : AddSlave(s, total, tasks)
    \/ RemoveSlave(s)
    \/ \E total \in UpTo(MaxTotal) : UpdateSlave(s, total)
    \/ \E from \in Kind, n \in 1..MaxTotal, destroyed \in BOOLEAN :
         UpdateAllocation(s, from, n, destroyed)
    \/ \E toAllocate \in UpTo(MaxTotal) : AllocateOn(s, toAllocate)
    \/ \E resources \in UpTo(MaxTotal) : RecoverResources(s, resources)

Spec == Init /\ [][Next]_vars

-----------------------------------------------------------------------------
(* Properties.                                                             *)

\* The CHECKs of remove() and unallocated() hold for an agent that has stayed as it
\* registered, whatever earlier lives of the agent left behind in the sorter.
UntouchedAgentIsCovered ==
  \A s \in Agents \ touched :
    RemoveCheck(s) /\ UnallocatedCheck(s, used[s])

\* What sort() compares of an agent that holds something is never a division by zero,
\* although totalWeights is worked out when the agent registers and never again: unless
\* there was nothing to weigh then.  While the agent stays as it registered, the key is at
\* most the whole too, unless a destroyed allocation of an earlier life is still counted.
\* Units here weigh something: an agent of gpus alone weighs nothing from the start.
RatioIsShare ==
  \A s \in Agents : used[s] # None =>
    /\ s \notin bare => allocationRatios[s].total > 0
    /\ s \notin touched /\ allocatedResources[s] = used[s] =>
         allocationRatios[s].allocation <= allocationRatios[s].total

\* The ratio sort() compares is not refreshed when resources are recovered, but it
\* errs on one side only: it never counts less than the sorter has as allocated.
RatioCountsAllocation ==
  \A s \in Slave :
    allocatedResources[s] # None =>
      /\ s \in DOMAIN allocationRatios
      /\ allocationRatios[s].allocation >= Quantity(allocatedResources[s])

\* "CHECK(total_.resources[slaveId].contains(resources))" of remove(), which
\* removeSlave calls with the agent's total (resources_weights/slavesorter.cpp:136; with
\* nothing on its books for the agent it is the CHECK before, at 135, that fails).
AgentCanBeRemoved == \A s \in Agents : Includes(pool[s], slaves[s].total)

\* "CHECK(allocatedResources.at(slaveId).contains(toRemove))" of unallocated(), which
\* recoverResources calls with what a framework holds (slavesorter.cpp:195).
HeldCanBeRecovered == \A s \in Agents : UnallocatedCheck(s, used[s])

\* Both: the sorter's books cover what the allocator will take from them, so that these
\* CHECKs hold whatever the master asks for next.
BooksCoverAgents == AgentCanBeRemoved /\ HeldCanBeRecovered
=============================================================================
