-------------------- MODULE ResourceWeightsSorterProofs --------------------
(***************************************************************************)
(* Theorems about ResourceWeightsSorter, for any agents and any bounds:    *)
(* type correctness, that the ratio never counts less than is allocated,   *)
(* that the key of an agent that registered with resources is a share,     *)
(* and that the books, by agent and in total, cover an agent that has      *)
(* stayed as it registered.                                                *)
(***************************************************************************)
EXTENDS ResourceWeightsSorter, FoldTheorems

-----------------------------------------------------------------------------
(* Resources.                                                              *)

\* The operations on resources, kind by kind.
LEMMA ResourceOperations ==
  ASSUME NEW a \in Resources, NEW b \in Resources
  PROVE  /\ Add(a, b) \in Resources
         /\ \A k \in Kind : Add(a, b)[k] = a[k] + b[k]
         /\ \A k \in Kind : Subtract(a, b)[k] = a[k] - b[k]
         /\ Includes(a, b) => Subtract(a, b) \in Resources
  BY DEF Resources, Add, Subtract, Includes

\* Nothing is a quantity as well.
LEMMA NoneIsResources == None \in Resources
  BY DEF None, Resources

\* Quantities add up, and stripping a reservation leaves the quantity as it is.
LEMMA QuantityOperations ==
  ASSUME NEW a \in Resources, NEW b \in Resources
  PROVE  /\ Quantity(a) \in Nat
         /\ Quantity(Add(a, b)) = Quantity(a) + Quantity(b)
         /\ Includes(a, b) => Quantity(b) <= Quantity(a)
         /\ Includes(a, b) => Quantity(Subtract(a, b)) = Quantity(a) - Quantity(b)
         /\ Stripped(a) \in Resources
         /\ Includes(Add(a, b), a) /\ Includes(Add(a, b), b)
         /\ Quantity(None) = 0
         /\ a # None => Quantity(a) > 0
<1> "unreserved" \in Kind /\ "reserved" \in Kind BY DEF Kind
<1>1. Quantity(a) \in Nat /\ Quantity(b) \in Nat
  BY DEF Quantity, Resources
<1>2. Quantity(Add(a, b)) = Quantity(a) + Quantity(b)
  BY DEF Quantity, Resources, Add
<1>3. Includes(a, b) => Quantity(b) <= Quantity(a)
  BY DEF Quantity, Resources, Includes
<1>4. Includes(a, b) => Quantity(Subtract(a, b)) = Quantity(a) - Quantity(b)
  BY DEF Quantity, Resources, Subtract
<1>5. Stripped(a) \in Resources
  BY <1>1 DEF Stripped, Resources, Kind
<1>6. Includes(Add(a, b), a) /\ Includes(Add(a, b), b)
  BY DEF Includes, Resources, Add
<1>7. Quantity(None) = 0
  BY DEF Quantity, None
<1>8. a # None => Quantity(a) > 0
  <2> SUFFICES ASSUME Quantity(a) = 0 PROVE a = None
    BY <1>1
  <2>1. a["unreserved"] = 0 /\ a["reserved"] = 0
    BY DEF Quantity, Resources
  <2> QED BY <2>1 DEF None, Resources, Kind
<1> QED BY <1>1, <1>2, <1>3, <1>4, <1>5, <1>6, <1>7, <1>8

\* What is contained stays so when the same is added, or taken away, on both sides.
LEMMA ContainsMoves ==
  ASSUME NEW a \in Resources, NEW b \in Resources, NEW c \in Resources
  PROVE  /\ Includes(a, b) => Includes(Add(a, c), Add(b, c))
         /\ Includes(a, b) => Includes(Add(a, c), b)
         /\ Includes(a, b) => Includes(Subtract(a, c), Subtract(b, c))
         /\ Includes(a, None)
         /\ Add(None, c) = c
         /\ Add(a, c) = Add(b, c) => a = b
         /\ Subtract(a, c) = Subtract(b, c) => a = b
<1>1. Includes(a, b) => /\ Includes(Add(a, c), Add(b, c))
                        /\ Includes(Add(a, c), b)
                        /\ Includes(Subtract(a, c), Subtract(b, c))
  BY DEF Includes, Resources, Add, Subtract
<1>2. Includes(a, None)
  BY DEF Includes, None, Resources
<1>3. Add(None, c) = c
  BY DEF Add, None, Resources
<1>4. ASSUME Add(a, c) = Add(b, c) PROVE a = b
  <2>1. \A k \in Kind : a[k] + c[k] = b[k] + c[k]
    BY <1>4 DEF Add
  <2> QED BY <2>1 DEF Resources
<1>5. ASSUME Subtract(a, c) = Subtract(b, c) PROVE a = b
  <2>1. \A k \in Kind : a[k] - c[k] = b[k] - c[k]
    BY <1>5 DEF Subtract
  <2> QED BY <2>1 DEF Resources
<1> QED BY <1>1, <1>2, <1>3, <1>4, <1>5

\* What allocated() adds to the pool weighs as much as what is allocated.
LEMMA StrippedAdds ==
  ASSUME NEW a \in Resources, NEW b \in Resources
  PROVE  /\ Add(a, Stripped(b)) \in Resources
         /\ Quantity(Add(a, Stripped(b))) = Quantity(a) + Quantity(b)
<1>1. Stripped(b) \in Resources /\ Quantity(b) \in Nat
  BY QuantityOperations
<1>2. Quantity(Stripped(b)) = Quantity(b)
  BY <1>1 DEF Stripped, Quantity
<1> QED BY <1>1, <1>2, ResourceOperations, QuantityOperations

\* The quantities that calls bring are quantities.
LEMMA UpToResources ==
  ASSUME NEW a \in UpTo(MaxTotal) PROVE a \in Resources
  BY BoundsAssumption DEF UpTo, Resources

-----------------------------------------------------------------------------
(* The inductive invariant.                                                *)

\* An agent that has stayed as it registered: the sorter's books cover it, its weight is at
\* least its total, and unless something of an earlier life is still counted as allocated, its
\* ratio was worked out from no more than the agent's total.
Covered(s) ==
  /\ Includes(pool[s], slaves[s].total)
  /\ Includes(allocatedResources[s], used[s])
  /\ Includes(slaves[s].total, used[s])
  /\ Quantity(slaves[s].total) <= totalWeights[s]
  /\ allocatedResources[s] = used[s] /\ used[s] # None =>
       allocationRatios[s].allocation <= Quantity(slaves[s].total)

\* An agent that holds something was given it by allocated() in this life, which worked its
\* ratio out with the agent's present weight: none only if there was nothing to weigh.
Weighed(s) ==
  /\ used[s] # None => /\ s \in DOMAIN allocationRatios
                       /\ allocationRatios[s].total = totalWeights[s]
  /\ s \notin bare => totalWeights[s] > 0

RatioCounts(s) ==
  allocatedResources[s] # None =>
    /\ s \in DOMAIN allocationRatios
    /\ allocationRatios[s].allocation >= Quantity(allocatedResources[s])

AgentInv(s) ==
  /\ s \in Agents => slaves[s].allocated = used[s]
  /\ RatioCounts(s)
  /\ s \in Agents => Weighed(s)
  /\ s \in Agents \ touched => Covered(s)

IInv == TypeOK /\ \A s \in Slave : AgentInv(s)

\* A step that leaves everything of t as it is.
Same(t) ==
  /\ t \in DOMAIN slaves' <=> t \in DOMAIN slaves
  /\ t \in DOMAIN slaves => slaves'[t] = slaves[t]
  /\ used'[t] = used[t]
  /\ pool'[t] = pool[t] /\ allocatedResources'[t] = allocatedResources[t]
  /\ totalWeights'[t] = totalWeights[t]
  /\ t \in DOMAIN allocationRatios' <=> t \in DOMAIN allocationRatios
  /\ t \in DOMAIN allocationRatios => allocationRatios'[t] = allocationRatios[t]
  /\ t \in touched' <=> t \in touched
  /\ t \in bare' <=> t \in bare

\* It is enough to look at the agent a step is about.
LEMMA OneAgentChanges ==
  ASSUME IInv, NEW s \in Slave, TypeOK', AgentInv(s)', \A t \in Slave \ {s} : Same(t)
  PROVE  IInv'
<1>1. ASSUME NEW t \in Slave, t # s PROVE AgentInv(t)'
  <2>1. AgentInv(t) /\ Same(t)
    BY <1>1 DEF IInv
  <2>2. (t \in Agents => slaves[t].allocated = used[t])'
    BY <2>1 DEF AgentInv, Same, Agents
  <2>3. RatioCounts(t)'
    BY <2>1 DEF AgentInv, Same, RatioCounts
  <2>4. (t \in Agents \ touched => Covered(t))'
    BY <2>1 DEF AgentInv, Same, Covered, Weighed, Agents
  <2>5. (t \in Agents => Weighed(t))'
    BY <2>1 DEF AgentInv, Same, Weighed, Agents
  <2> QED BY <2>2, <2>3, <2>4, <2>5 DEF AgentInv
<1> QED BY <1>1 DEF IInv

\* What the invariant says of the types of one agent.
LEMMA AgentTypes ==
  ASSUME IInv, NEW s \in Slave
  PROVE  /\ used[s] \in Resources /\ pool[s] \in Resources
         /\ allocatedResources[s] \in Resources
         /\ totalWeights[s] \in Nat
         /\ s \in Agents => slaves[s].total \in Resources /\ slaves[s].allocated \in Resources
         /\ scalarQuantities \in Nat
         /\ AgentInv(s)
  BY DEF IInv, TypeOK, Agents

\* The invariant holds for a sorter without agents.
LEMMA InitIInv == Init => IInv
<1> SUFFICES ASSUME Init PROVE IInv
  OBVIOUS
<1>1. TypeOK
  BY NoneIsResources DEF Init, TypeOK
<1>2. ASSUME NEW s \in Slave PROVE AgentInv(s)
  <2>1. s \notin Agents /\ allocatedResources[s] = None
    BY DEF Init, Agents
  <2> QED BY <2>1 DEF AgentInv, RatioCounts
<1> QED BY <1>1, <1>2 DEF IInv

\* add() keeps it, also for an agent that has left something of an earlier life behind.
LEMMA AddSlaveKeepsIInv ==
  ASSUME IInv, NEW s \in Slave, NEW total \in UpTo(MaxTotal), NEW tasks \in UpTo(MaxTotal),
         AddSlave(s, total, tasks)
  PROVE  IInv'
<1> total \in Resources /\ tasks \in Resources /\ None \in Resources
  BY UpToResources, NoneIsResources
<1> DEFINE before == Add(pool[s], total)
           weight == WeightAfter(s, total, before)
<1>1. /\ s \notin Agents /\ used[s] = None /\ Includes(total, tasks)
      /\ totalWeights' = [totalWeights EXCEPT ![s] = weight]
      /\ slaves' = [t \in Agents \cup {s} |->
                      IF t = s THEN [total |-> total, allocated |-> tasks] ELSE slaves[t]]
      /\ used' = [used EXCEPT ![s] = tasks]
      /\ touched' = touched \ {s}
      /\ bare' = IF total = None THEN bare \cup {s} ELSE bare \ {s}
  BY DEF AddSlave
<1>2. /\ pool[s] \in Resources /\ allocatedResources[s] \in Resources
      /\ totalWeights[s] \in Nat /\ scalarQuantities \in Nat /\ AgentInv(s)
  BY AgentTypes
<1>3. /\ before \in Resources /\ Includes(before, total)
      /\ Quantity(before) \in Nat /\ Quantity(total) \in Nat /\ Quantity(tasks) \in Nat
      /\ Quantity(total) <= Quantity(before) /\ Quantity(tasks) <= Quantity(total)
      /\ Quantity(None) = 0 /\ Quantity(allocatedResources[s]) \in Nat
  BY <1>1, <1>2, ResourceOperations, QuantityOperations
<1>4. weight \in Nat /\ Quantity(total) <= weight
  BY <1>2, <1>3 DEF WeightAfter
<1>5. s \notin bare' => weight > 0
  <2>1. s \notin bare' => total # None
    BY <1>1
  <2>2. total # None => Quantity(total) > 0
    BY QuantityOperations
  <2> QED BY <1>3, <1>4, <2>1, <2>2
<1> HIDE DEF before, weight
<1>6. CASE tasks = None
  <2>1. /\ pool' = [pool EXCEPT ![s] = before]
        /\ scalarQuantities' = scalarQuantities + Quantity(total)
        /\ UNCHANGED <<allocatedResources, allocationRatios>>
    BY <1>6 DEF AddSlave, before
  <2>2. TypeOK'
    BY <1>1, <1>2, <1>3, <1>4, <2>1 DEF IInv, TypeOK, Agents
  <2>3. \A t \in Slave \ {s} : Same(t)
    BY <1>1, <2>1 DEF Same, Agents, IInv, TypeOK
  <2>4. /\ s \in Agents' /\ slaves'[s] = [total |-> total, allocated |-> tasks]
        /\ used'[s] = None /\ pool'[s] = before /\ totalWeights'[s] = weight
    BY <1>1, <1>6, <2>1 DEF Agents, IInv, TypeOK
  <2>5. Includes(allocatedResources[s], None) /\ Includes(total, None)
    BY <1>2, ContainsMoves
  <2>6. Covered(s)' /\ Weighed(s)'
    BY <1>3, <1>4, <1>5, <2>1, <2>4, <2>5 DEF Covered, Weighed
  <2>7. AgentInv(s)'
    BY <1>2, <1>6, <2>1, <2>4, <2>6 DEF AgentInv, RatioCounts
  <2> QED BY <2>2, <2>3, <2>7, OneAgentChanges
<1>7. CASE tasks # None
  <2>1. /\ pool' = [pool EXCEPT ![s] = Add(before, Stripped(tasks))]
        /\ scalarQuantities' = scalarQuantities + Quantity(total) + Quantity(tasks)
        /\ allocatedResources' = [allocatedResources EXCEPT ![s] = Add(@, tasks)]
        /\ allocationRatios' = RatioAfter(s, tasks, weight)
    BY <1>7 DEF AddSlave, Allocated, before, weight
  <2>2. /\ Add(before, Stripped(tasks)) \in Resources
        /\ Includes(Add(before, Stripped(tasks)), total)
        /\ Add(allocatedResources[s], tasks) \in Resources
        /\ Includes(Add(allocatedResources[s], tasks), tasks)
        /\ Quantity(Add(allocatedResources[s], tasks))
             = Quantity(allocatedResources[s]) + Quantity(tasks)
    <3>1. Stripped(tasks) \in Resources
      BY QuantityOperations
    <3> QED BY <1>2, <1>3, <3>1, ResourceOperations, QuantityOperations, ContainsMoves
  <2>3. TypeOK'
    <3>1. /\ DOMAIN allocationRatios' \subseteq Slave
          /\ \A t \in DOMAIN allocationRatios' : allocationRatios'[t] \in Ratio
      BY <1>2, <1>3, <1>4, <2>1 DEF IInv, TypeOK, RatioAfter, Ratio
    <3> QED BY <1>1, <1>2, <1>3, <1>4, <2>1, <2>2, <3>1 DEF IInv, TypeOK, Agents
  <2>4. \A t \in Slave \ {s} : Same(t)
    BY <1>1, <2>1 DEF Same, Agents, IInv, TypeOK, RatioAfter
  <2>5. /\ s \in Agents' /\ slaves'[s] = [total |-> total, allocated |-> tasks]
        /\ used'[s] = tasks /\ pool'[s] = Add(before, Stripped(tasks))
        /\ totalWeights'[s] = weight
        /\ allocatedResources'[s] = Add(allocatedResources[s], tasks)
        /\ s \in DOMAIN allocationRatios'
        /\ allocationRatios'[s] = [allocation |-> Quantity(allocatedResources[s]) + Quantity(tasks),
                                   total |-> weight]
    BY <1>1, <2>1 DEF Agents, IInv, TypeOK, RatioAfter
  <2>6. Add(allocatedResources[s], tasks) = tasks => allocatedResources[s] = None
    <3>1. Add(None, tasks) = tasks
      BY ContainsMoves
    <3> QED BY <1>2, <3>1, ContainsMoves
  <2>7. Covered(s)' /\ Weighed(s)'
    BY <1>1, <1>3, <1>4, <1>5, <2>2, <2>5, <2>6 DEF Covered, Weighed
  <2>8. AgentInv(s)'
    BY <1>3, <2>2, <2>5, <2>7 DEF AgentInv, RatioCounts
  <2> QED BY <2>3, <2>4, <2>8, OneAgentChanges
<1> QED BY <1>6, <1>7

\* remove() keeps it.
LEMMA RemoveSlaveKeepsIInv ==
  ASSUME IInv, NEW s \in Slave, RemoveSlave(s)
  PROVE  IInv'
<1>1. /\ s \in Agents /\ RemoveCheck(s)
      /\ pool' = [pool EXCEPT ![s] = Subtract(@, slaves[s].total)]
      /\ scalarQuantities' = scalarQuantities - Quantity(slaves[s].total)
      /\ totalWeights' = [totalWeights EXCEPT ![s] =
           IF slaves[s].total = None THEN @ ELSE Quantity(pool'[s])]
      /\ slaves' = [t \in Agents \ {s} |-> slaves[t]]
      /\ UNCHANGED <<used, allocatedResources, allocationRatios, touched, bare>>
  BY DEF RemoveSlave
<1>2. /\ pool[s] \in Resources /\ slaves[s].total \in Resources
      /\ totalWeights[s] \in Nat /\ scalarQuantities \in Nat /\ AgentInv(s)
  BY <1>1, AgentTypes
<1>3. /\ Subtract(pool[s], slaves[s].total) \in Resources
      /\ Quantity(slaves[s].total) \in Nat
      /\ scalarQuantities - Quantity(slaves[s].total) \in Nat
  <2>1. Includes(pool[s], slaves[s].total) /\ Quantity(slaves[s].total) <= scalarQuantities
    BY <1>1 DEF RemoveCheck
  <2>2. Subtract(pool[s], slaves[s].total) \in Resources
    BY <1>2, <2>1, ResourceOperations
  <2>3. Quantity(slaves[s].total) \in Nat
    BY <1>2, QuantityOperations
  <2> QED BY <1>2, <2>1, <2>2, <2>3
<1>4. pool'[s] = Subtract(pool[s], slaves[s].total) /\ Quantity(pool'[s]) \in Nat
  <2>1. pool'[s] = Subtract(pool[s], slaves[s].total)
    BY <1>1 DEF IInv, TypeOK
  <2> QED BY <1>3, <2>1, QuantityOperations
<1>5. TypeOK'
  BY <1>1, <1>2, <1>3, <1>4 DEF IInv, TypeOK, Agents
<1>6. \A t \in Slave \ {s} : Same(t)
  BY <1>1 DEF Same, Agents, IInv, TypeOK
<1>7. AgentInv(s)'
  BY <1>1, <1>2 DEF AgentInv, RatioCounts, Agents
<1> QED BY <1>5, <1>6, <1>7, OneAgentChanges

\* So does updateSlaveTotal(), of which the sorter is not told.
LEMMA UpdateSlaveKeepsIInv ==
  ASSUME IInv, NEW s \in Slave, NEW total \in UpTo(MaxTotal), UpdateSlave(s, total)
  PROVE  IInv'
<1> total \in Resources
  BY UpToResources
<1>1. /\ s \in Agents
      /\ slaves' = [slaves EXCEPT ![s].total = total]
      /\ touched' = touched \cup {s}
      /\ UNCHANGED <<used, pool, scalarQuantities, allocatedResources, totalWeights,
                     allocationRatios, bare>>
  BY DEF UpdateSlave
<1>2. slaves[s] \in [total : Resources, allocated : Resources] /\ AgentInv(s)
  BY <1>1, AgentTypes DEF IInv, TypeOK, Agents
<1>3. DOMAIN slaves' = Agents /\ slaves'[s] = [slaves[s] EXCEPT !.total = total]
  BY <1>1 DEF Agents
<1>4. TypeOK'
  BY <1>1, <1>2, <1>3 DEF IInv, TypeOK, Agents
<1>5. \A t \in Slave \ {s} : Same(t)
  BY <1>1 DEF Same, Agents, IInv, TypeOK
<1>6. AgentInv(s)'
  BY <1>1, <1>2, <1>3 DEF AgentInv, RatioCounts, Weighed, Agents
<1> QED BY <1>4, <1>5, <1>6, OneAgentChanges

\* So does updateAllocation(), of which it is not told either.
LEMMA UpdateAllocationKeepsIInv ==
  ASSUME IInv, NEW s \in Slave, NEW from \in Kind, NEW n \in 1..MaxTotal,
         NEW destroyed \in BOOLEAN, UpdateAllocation(s, from, n, destroyed)
  PROVE  IInv'
<1> DEFINE consumed == [None EXCEPT ![from] = n]
           converted == IF destroyed THEN None ELSE [k \in Kind |-> IF k = from THEN 0 ELSE n]
           Apply(a) == Add(Subtract(a, consumed), converted)
           agent == [total |-> Apply(slaves[s].total), allocated |-> Apply(slaves[s].allocated)]
<1>1. /\ s \in Agents
      /\ Includes(used[s], consumed)
      /\ Includes(slaves[s].total, consumed) /\ Includes(slaves[s].allocated, consumed)
      /\ slaves' = [slaves EXCEPT ![s] = agent]
      /\ used' = [used EXCEPT ![s] = Apply(@)]
      /\ touched' = touched \cup {s}
      /\ UNCHANGED <<pool, scalarQuantities, allocatedResources, totalWeights,
                     allocationRatios, bare>>
  BY DEF UpdateAllocation
<1>2. /\ used[s] \in Resources /\ slaves[s].total \in Resources
      /\ slaves[s].allocated \in Resources /\ AgentInv(s)
  BY <1>1, AgentTypes
<1>3. consumed \in Resources /\ converted \in Resources
  BY BoundsAssumption, NoneIsResources DEF Resources
<1>4. ASSUME NEW a \in Resources, Includes(a, consumed) PROVE Apply(a) \in Resources
  <2>1. Subtract(a, consumed) \in Resources
    BY <1>3, <1>4, ResourceOperations
  <2> QED BY <1>3, <2>1, ResourceOperations
<1>5. agent \in [total : Resources, allocated : Resources] /\ Apply(used[s]) \in Resources
  BY <1>1, <1>2, <1>4
<1>6. DOMAIN slaves' = Agents /\ slaves'[s] = agent /\ used'[s] = Apply(used[s])
  BY <1>1 DEF Agents, IInv, TypeOK
<1>7. agent.allocated = Apply(used[s])
  BY <1>1, <1>2 DEF AgentInv
<1>8. used[s] # None
  <2>1. consumed[from] = n /\ None[from] = 0 /\ used[s][from] \in Nat
    BY <1>2 DEF None, Resources
  <2> QED BY <1>1, <2>1 DEF Includes
<1> HIDE DEF consumed, converted, Apply, agent
<1>9. TypeOK'
  BY <1>1, <1>5, <1>6 DEF IInv, TypeOK, Agents
<1>10. \A t \in Slave \ {s} : Same(t)
  BY <1>1 DEF Same, Agents, IInv, TypeOK
<1>11. AgentInv(s)'
  BY <1>1, <1>2, <1>6, <1>7, <1>8 DEF AgentInv, RatioCounts, Weighed, Agents
<1> QED BY <1>9, <1>10, <1>11, OneAgentChanges

\* So does allocated(), which adds to the agent's total and works out its ratio.
LEMMA AllocateOnKeepsIInv ==
  ASSUME IInv, NEW s \in Slave, NEW toAllocate \in UpTo(MaxTotal), AllocateOn(s, toAllocate)
  PROVE  IInv'
<1> toAllocate \in Resources
  BY UpToResources
<1> DEFINE agent == [slaves[s] EXCEPT !.allocated = Add(@, toAllocate)]
           ratio == [allocation |-> Quantity(allocatedResources[s]) + Quantity(toAllocate),
                     total |-> totalWeights[s]]
<1>1. /\ s \in Agents /\ toAllocate # None
      /\ Includes(slaves[s].total, Add(slaves[s].allocated, toAllocate))
      /\ slaves' = [slaves EXCEPT ![s].allocated = Add(@, toAllocate)]
      /\ used' = [used EXCEPT ![s] = Add(@, toAllocate)]
      /\ pool' = [pool EXCEPT ![s] = Add(pool[s], Stripped(toAllocate))]
      /\ scalarQuantities' = scalarQuantities + Quantity(toAllocate)
      /\ allocatedResources' = [allocatedResources EXCEPT ![s] = Add(@, toAllocate)]
      /\ allocationRatios' = RatioAfter(s, toAllocate, totalWeights[s])
      /\ UNCHANGED <<totalWeights, touched, bare>>
  BY DEF AllocateOn, Allocated
<1>2. /\ used[s] \in Resources /\ slaves[s].total \in Resources
      /\ slaves[s] \in [total : Resources, allocated : Resources]
      /\ pool[s] \in Resources /\ allocatedResources[s] \in Resources
      /\ totalWeights[s] \in Nat /\ scalarQuantities \in Nat /\ AgentInv(s)
      /\ slaves[s].allocated = used[s]
  BY <1>1, AgentTypes DEF IInv, TypeOK, Agents, AgentInv
<1>3. /\ Stripped(toAllocate) \in Resources /\ Quantity(toAllocate) \in Nat
      /\ Quantity(allocatedResources[s]) \in Nat
  BY <1>2, QuantityOperations
<1>4. /\ Add(pool[s], Stripped(toAllocate)) \in Resources
      /\ Add(allocatedResources[s], toAllocate) \in Resources
      /\ Add(used[s], toAllocate) \in Resources
      /\ Quantity(Add(allocatedResources[s], toAllocate))
           = Quantity(allocatedResources[s]) + Quantity(toAllocate)
  BY <1>2, <1>3, ResourceOperations, QuantityOperations
<1>5. DOMAIN slaves' = Agents /\ slaves'[s] = agent
  BY <1>1 DEF Agents
<1>6. /\ used'[s] = Add(used[s], toAllocate)
      /\ pool'[s] = Add(pool[s], Stripped(toAllocate))
      /\ allocatedResources'[s] = Add(allocatedResources[s], toAllocate)
  BY <1>1 DEF IInv, TypeOK
<1>7. s \in DOMAIN allocationRatios' /\ allocationRatios'[s] = ratio /\ ratio \in Ratio
  BY <1>1, <1>2, <1>3 DEF RatioAfter, Ratio
<1>8. /\ agent \in [total : Resources, allocated : Resources]
      /\ agent.total = slaves[s].total /\ agent.allocated = Add(used[s], toAllocate)
  BY <1>2, <1>4
<1>9. ratio.allocation = Quantity(Add(allocatedResources[s], toAllocate))
      /\ ratio.total = totalWeights[s]
  BY <1>4
<1> HIDE DEF agent, ratio
<1>10. TypeOK'
  <2>1. /\ DOMAIN slaves' \subseteq Slave
        /\ \A t \in DOMAIN slaves' : slaves'[t] \in [total : Resources, allocated : Resources]
    BY <1>1, <1>5, <1>8 DEF IInv, TypeOK, Agents
  <2>2. /\ DOMAIN allocationRatios' \subseteq Slave
        /\ \A t \in DOMAIN allocationRatios' : allocationRatios'[t] \in Ratio
    BY <1>1, <1>7 DEF IInv, TypeOK, RatioAfter
  <2> QED BY <1>1, <1>2, <1>3, <1>4, <2>1, <2>2 DEF IInv, TypeOK
<1>11. \A t \in Slave \ {s} : Same(t)
  BY <1>1 DEF Same, Agents, IInv, TypeOK, RatioAfter
<1>12. RatioCounts(s)'
  BY <1>3, <1>4, <1>6, <1>7, <1>9 DEF RatioCounts
<1>13. ASSUME s \notin touched PROVE Covered(s)'
  <2>1. Covered(s)
    BY <1>1, <1>2, <1>13 DEF AgentInv
  <2>2. /\ Includes(Add(pool[s], Stripped(toAllocate)), slaves[s].total)
        /\ Includes(Add(allocatedResources[s], toAllocate), Add(used[s], toAllocate))
    BY <1>2, <1>3, <2>1, ContainsMoves DEF Covered
  <2>3. Quantity(Add(used[s], toAllocate)) <= Quantity(slaves[s].total)
    BY <1>1, <1>2, <1>4, QuantityOperations
  <2>4. Add(allocatedResources[s], toAllocate) = Add(used[s], toAllocate) =>
          ratio.allocation <= Quantity(slaves[s].total)
    BY <1>9, <2>3
  <2> QED BY <1>1, <1>2, <1>5, <1>6, <1>7, <1>8, <1>9, <2>1, <2>2, <2>4 DEF Covered
<1>14. Weighed(s)'
  BY <1>1, <1>2, <1>7, <1>9 DEF AgentInv, Weighed
<1>15. AgentInv(s)'
  BY <1>1, <1>5, <1>6, <1>8, <1>12, <1>13, <1>14 DEF AgentInv
<1> QED BY <1>10, <1>11, <1>15, OneAgentChanges

\* So does unallocated(), which leaves the ratio as it was.
LEMMA RecoverResourcesKeepsIInv ==
  ASSUME IInv, NEW s \in Slave, NEW resources \in UpTo(MaxTotal), RecoverResources(s, resources)
  PROVE  IInv'
<1> resources \in Resources
  BY UpToResources
<1>1. /\ Includes(used[s], resources) /\ Includes(allocatedResources[s], resources)
      /\ used' = [used EXCEPT ![s] = Subtract(@, resources)]
      /\ slaves' = IF s \in Agents
                   THEN [slaves EXCEPT ![s].allocated = Subtract(@, resources)] ELSE slaves
      /\ allocatedResources' = [allocatedResources EXCEPT ![s] = Subtract(@, resources)]
      /\ UNCHANGED <<pool, scalarQuantities, totalWeights, allocationRatios, touched, bare>>
  BY DEF RecoverResources, Unallocated, UnallocatedCheck
<1>2. /\ used[s] \in Resources /\ allocatedResources[s] \in Resources
      /\ s \in Agents => slaves[s] \in [total : Resources, allocated : Resources]
      /\ AgentInv(s)
  BY AgentTypes DEF IInv, TypeOK, Agents
<1>3. /\ Subtract(used[s], resources) \in Resources
      /\ Subtract(allocatedResources[s], resources) \in Resources
      /\ Quantity(Subtract(allocatedResources[s], resources)) <= Quantity(allocatedResources[s])
      /\ allocatedResources[s] = None => Subtract(allocatedResources[s], resources) = None
  <2>1. Quantity(Subtract(allocatedResources[s], resources))
          = Quantity(allocatedResources[s]) - Quantity(resources)
    BY <1>1, <1>2, QuantityOperations
  <2>2. ASSUME allocatedResources[s] = None
        PROVE  Subtract(allocatedResources[s], resources) = None
    <3>1. \A k \in Kind : resources[k] = 0
      BY <1>1, <2>2 DEF Includes, None, Resources
    <3> QED BY <2>2, <3>1 DEF Subtract, None
  <2>3. Quantity(allocatedResources[s]) \in Nat /\ Quantity(resources) \in Nat
    BY <1>2, QuantityOperations
  <2> QED BY <1>1, <1>2, <2>1, <2>2, <2>3, ResourceOperations
<1>4. /\ used'[s] = Subtract(used[s], resources)
      /\ allocatedResources'[s] = Subtract(allocatedResources[s], resources)
      /\ DOMAIN slaves' = Agents
      /\ s \in Agents => /\ slaves'[s].total = slaves[s].total
                         /\ slaves'[s].allocated = Subtract(slaves[s].allocated, resources)
                         /\ slaves'[s] = [slaves[s] EXCEPT !.allocated = Subtract(@, resources)]
  BY <1>1, <1>2 DEF IInv, TypeOK, Agents
<1>5. s \in Agents => slaves[s].allocated = used[s]
  BY <1>2 DEF AgentInv
<1>6. TypeOK'
  <2>1. \A t \in DOMAIN slaves' : slaves'[t] \in [total : Resources, allocated : Resources]
    BY <1>1, <1>2, <1>3, <1>4, <1>5 DEF IInv, TypeOK, Agents
  <2> QED BY <1>1, <1>3, <1>4, <2>1 DEF IInv, TypeOK, Agents
<1>7. \A t \in Slave \ {s} : Same(t)
  BY <1>1 DEF Same, Agents, IInv, TypeOK
<1>8. RatioCounts(s)'
  <2>1. allocatedResources'[s] # None =>
          /\ s \in DOMAIN allocationRatios
          /\ allocationRatios[s].allocation >= Quantity(allocatedResources[s])
    BY <1>2, <1>3, <1>4 DEF AgentInv, RatioCounts
  <2>2. s \in DOMAIN allocationRatios => allocationRatios[s].allocation \in Nat
    BY DEF IInv, TypeOK, Ratio
  <2>3. Quantity(allocatedResources[s]) \in Nat /\ Quantity(allocatedResources'[s]) \in Nat
    BY <1>2, <1>3, <1>4, QuantityOperations
  <2> QED BY <1>1, <1>3, <1>4, <2>1, <2>2, <2>3 DEF RatioCounts
<1>9. used[s] = None => used'[s] = None
  <2>1. used[s] = None => \A k \in Kind : resources[k] = 0
    BY <1>1 DEF Includes, None, Resources
  <2>2. used[s] = None => Subtract(used[s], resources) = None
    BY <2>1 DEF Subtract, None
  <2> QED BY <1>4, <2>2
<1>10. ASSUME s \in Agents, s \notin touched PROVE Covered(s)'
  <2>1. Covered(s) /\ slaves[s].total \in Resources
    BY <1>2, <1>10 DEF AgentInv
  <2>2. Includes(Subtract(allocatedResources[s], resources), Subtract(used[s], resources))
    BY <1>2, <2>1, ContainsMoves DEF Covered
  <2>3. Includes(slaves[s].total, Subtract(used[s], resources))
    BY <1>2, <2>1 DEF Covered, Includes, Subtract, Resources
  <2>4. Subtract(allocatedResources[s], resources) = Subtract(used[s], resources) =>
          allocatedResources[s] = used[s]
    BY <1>2, ContainsMoves
  <2> QED BY <1>1, <1>4, <1>10, <1>9, <2>1, <2>2, <2>3, <2>4 DEF Covered
<1>11. s \in Agents => Weighed(s)'
  BY <1>1, <1>2, <1>9 DEF AgentInv, Weighed
<1>12. AgentInv(s)'
  BY <1>1, <1>4, <1>5, <1>8, <1>10, <1>11 DEF AgentInv, Agents
<1> QED BY <1>6, <1>7, <1>12, OneAgentChanges

\* No step breaks the invariant.
LEMMA StepKeepsIInv == IInv /\ [Next]_vars => IInv'
<1> SUFFICES ASSUME IInv, [Next]_vars PROVE IInv'
  OBVIOUS
<1>1. CASE UNCHANGED vars
  BY <1>1 DEF IInv, TypeOK, AgentInv, RatioCounts, Weighed, Covered, Agents, vars
<1>2. CASE Next
  <2>1. PICK s \in Slave :
          \/ \E total, tasks \in UpTo(MaxTotal) : AddSlave(s, total, tasks)
          \/ RemoveSlave(s)
          \/ \E total \in UpTo(MaxTotal) : UpdateSlave(s, total)
          \/ \E from \in Kind, n \in 1..MaxTotal, destroyed \in BOOLEAN :
               UpdateAllocation(s, from, n, destroyed)
          \/ \E toAllocate \in UpTo(MaxTotal) : AllocateOn(s, toAllocate)
          \/ \E resources \in UpTo(MaxTotal) : RecoverResources(s, resources)
    BY <1>2 DEF Next
  <2> QED BY <2>1, AddSlaveKeepsIInv, RemoveSlaveKeepsIInv, UpdateSlaveKeepsIInv,
             UpdateAllocationKeepsIInv, AllocateOnKeepsIInv, RecoverResourcesKeepsIInv
<1> QED BY <1>1, <1>2

\* The invariant holds in every state.
LEMMA Invariance == Spec => []IInv
  BY InitIInv, StepKeepsIInv, PTL DEF Spec

-----------------------------------------------------------------------------
(* The total over all agents.                                              *)

PoolQuantities == [s \in Slave |-> Quantity(pool[s])]

\* total_.scalarQuantities, which every call moves by what it adds or takes away, is at all
\* times what adding up total_.resources would give.
QuantitiesAddUp == scalarQuantities = SumFunction(PoolQuantities)

\* What is added up are natural numbers.
LEMMA PoolQuantitiesType ==
  ASSUME IInv
  PROVE  PoolQuantities \in [Slave -> Nat]
<1>1. \A s \in Slave : Quantity(pool[s]) \in Nat
  BY AgentTypes, QuantityOperations
<1> QED BY <1>1 DEF PoolQuantities

\* A step that moves the total by what it moves the books of one agent.
LEMMA TotalMovesWithPool ==
  ASSUME IInv, IInv', QuantitiesAddUp, NEW s \in Slave, NEW resources \in Resources,
         pool' = [pool EXCEPT ![s] = resources],
         scalarQuantities' = scalarQuantities - Quantity(pool[s]) + Quantity(resources)
  PROVE  QuantitiesAddUp'
<1>1. PICK g \in [Slave -> Nat] : g = PoolQuantities
  BY PoolQuantitiesType
<1>2. PICK h \in [Slave -> Nat] : h = PoolQuantities'
  <2>1. \A t \in Slave : Quantity(pool'[t]) \in Nat
    BY AgentTypes, QuantityOperations DEF IInv, TypeOK
  <2>2. [t \in Slave |-> Quantity(pool'[t])] \in [Slave -> Nat]
    BY <2>1
  <2> QED BY <2>2 DEF PoolQuantities
<1>3. pool \in [Slave -> Resources]
  BY DEF IInv, TypeOK
<1>4. h[s] = Quantity(resources) /\ g[s] = Quantity(pool[s])
  BY <1>1, <1>2, <1>3 DEF PoolQuantities
<1>5. \A t \in Slave \ {s} : h[t] = g[t]
  BY <1>1, <1>2, <1>3 DEF PoolQuantities
<1>6. SumFunction(h) = SumFunction(g) - g[s] + h[s]
  BY <1>5, FiniteAssumption, SumFunctionChangesAt
<1> QED BY <1>1, <1>2, <1>4, <1>6 DEF QuantitiesAddUp

\* A sorter without agents has a total of zero.
LEMMA InitTotal == Init => QuantitiesAddUp
<1> SUFFICES ASSUME Init PROVE QuantitiesAddUp
  OBVIOUS
<1>1. PoolQuantities \in [Slave -> Nat]
  BY InitIInv, PoolQuantitiesType
<1>2. \A s \in Slave : PoolQuantities[s] = 0
  BY NoneIsResources, QuantityOperations DEF PoolQuantities, Init
<1>3. SumFunction(PoolQuantities) = 0
  BY <1>1, <1>2, FiniteAssumption, SumFunctionOfZeros
<1> QED BY <1>3 DEF QuantitiesAddUp, Init

\* add() moves the total by what it adds to the agent.
LEMMA AddSlaveKeepsTotal ==
  ASSUME IInv, IInv', QuantitiesAddUp, NEW s \in Slave, NEW total \in UpTo(MaxTotal),
         NEW tasks \in UpTo(MaxTotal), AddSlave(s, total, tasks)
  PROVE  QuantitiesAddUp'
<1> total \in Resources /\ tasks \in Resources /\ None \in Resources
  BY UpToResources, NoneIsResources
<1> DEFINE before == Add(pool[s], total)
<1>1. pool[s] \in Resources /\ scalarQuantities \in Nat
  BY AgentTypes
<1>2. /\ before \in Resources /\ Quantity(before) = Quantity(pool[s]) + Quantity(total)
      /\ Quantity(total) \in Nat /\ Quantity(tasks) \in Nat /\ Quantity(pool[s]) \in Nat
  BY <1>1, ResourceOperations, QuantityOperations
<1>3. CASE tasks = None
  <2>1. /\ pool' = [pool EXCEPT ![s] = before]
        /\ scalarQuantities' = scalarQuantities + Quantity(total)
    BY <1>3 DEF AddSlave
  <2>2. scalarQuantities' = scalarQuantities - Quantity(pool[s]) + Quantity(before)
    BY <1>1, <1>2, <2>1
  <2> HIDE DEF before
  <2> QED BY <1>2, <2>1, <2>2, TotalMovesWithPool
<1>4. CASE tasks # None
  <2> DEFINE after == Add(before, Stripped(tasks))
  <2>1. /\ pool' = [pool EXCEPT ![s] = after]
        /\ scalarQuantities' = scalarQuantities + Quantity(total) + Quantity(tasks)
    BY <1>4 DEF AddSlave, Allocated
  <2>2. after \in Resources /\ Quantity(after) = Quantity(before) + Quantity(tasks)
    BY <1>2, StrippedAdds
  <2>3. scalarQuantities' = scalarQuantities - Quantity(pool[s]) + Quantity(after)
    BY <1>1, <1>2, <2>1, <2>2
  <2> HIDE DEF after
  <2> QED BY <2>1, <2>2, <2>3, TotalMovesWithPool
<1> QED BY <1>3, <1>4

\* remove() moves it by what it takes away.
LEMMA RemoveSlaveKeepsTotal ==
  ASSUME IInv, IInv', QuantitiesAddUp, NEW s \in Slave, RemoveSlave(s)
  PROVE  QuantitiesAddUp'
<1>1. /\ s \in Agents /\ Includes(pool[s], slaves[s].total)
      /\ pool' = [pool EXCEPT ![s] = Subtract(pool[s], slaves[s].total)]
      /\ scalarQuantities' = scalarQuantities - Quantity(slaves[s].total)
  BY DEF RemoveSlave, RemoveCheck
<1>2. pool[s] \in Resources /\ slaves[s].total \in Resources /\ scalarQuantities \in Nat
  BY <1>1, AgentTypes
<1> DEFINE after == Subtract(pool[s], slaves[s].total)
<1>3. /\ after \in Resources
      /\ Quantity(after) = Quantity(pool[s]) - Quantity(slaves[s].total)
      /\ Quantity(pool[s]) \in Nat /\ Quantity(slaves[s].total) \in Nat
  BY <1>1, <1>2, ResourceOperations, QuantityOperations
<1>4. scalarQuantities' = scalarQuantities - Quantity(pool[s]) + Quantity(after)
  BY <1>1, <1>2, <1>3
<1>5. pool' = [pool EXCEPT ![s] = after]
  BY <1>1
<1> HIDE DEF after
<1> QED BY <1>3, <1>4, <1>5, TotalMovesWithPool

\* allocated() moves it by the allocation.
LEMMA AllocateOnKeepsTotal ==
  ASSUME IInv, IInv', QuantitiesAddUp, NEW s \in Slave, NEW toAllocate \in UpTo(MaxTotal),
         AllocateOn(s, toAllocate)
  PROVE  QuantitiesAddUp'
<1> toAllocate \in Resources
  BY UpToResources
<1> DEFINE after == Add(pool[s], Stripped(toAllocate))
<1>1. pool[s] \in Resources /\ scalarQuantities \in Nat
  BY AgentTypes
<1>2. /\ pool' = [pool EXCEPT ![s] = after]
      /\ scalarQuantities' = scalarQuantities + Quantity(toAllocate)
  BY DEF AllocateOn, Allocated
<1>3. /\ after \in Resources /\ Quantity(after) = Quantity(pool[s]) + Quantity(toAllocate)
      /\ Quantity(pool[s]) \in Nat /\ Quantity(toAllocate) \in Nat
  BY <1>1, StrippedAdds, QuantityOperations
<1>4. scalarQuantities' = scalarQuantities - Quantity(pool[s]) + Quantity(after)
  BY <1>1, <1>2, <1>3
<1> HIDE DEF after
<1> QED BY <1>2, <1>3, <1>4, TotalMovesWithPool

\* No step takes the total off the sum.
LEMMA StepKeepsTotal == IInv /\ IInv' /\ QuantitiesAddUp /\ [Next]_vars => QuantitiesAddUp'
<1> SUFFICES ASSUME IInv, IInv', QuantitiesAddUp, [Next]_vars PROVE QuantitiesAddUp'
  OBVIOUS
<1>1. CASE UNCHANGED <<pool, scalarQuantities>>
  BY <1>1 DEF QuantitiesAddUp, PoolQuantities
<1>2. CASE Next
  <2>1. PICK s \in Slave :
          \/ \E total, tasks \in UpTo(MaxTotal) : AddSlave(s, total, tasks)
          \/ RemoveSlave(s)
          \/ \E toAllocate \in UpTo(MaxTotal) : AllocateOn(s, toAllocate)
          \/ UNCHANGED <<pool, scalarQuantities>>
    BY <1>2 DEF Next, UpdateSlave, UpdateAllocation, RecoverResources, Unallocated
  <2> QED BY <1>1, <2>1, AddSlaveKeepsTotal, RemoveSlaveKeepsTotal, AllocateOnKeepsTotal
<1> QED BY <1>1, <1>2 DEF vars

-----------------------------------------------------------------------------
(* The theorems.                                                           *)

\* Every variable stays of its type: above all, no subtraction of the sorter or of the
\* allocator goes below zero where the CHECKs before it hold.
THEOREM TypeCorrect == Spec => []TypeOK
<1>1. IInv => TypeOK
  BY DEF IInv
<1> QED BY <1>1, Invariance, PTL

\* The ratio that sort() compares errs on one side only, whatever the sizes and whatever
\* earlier lives of an agent left behind.
THEOREM RatioNeverCountsLess == Spec => []RatioCountsAllocation
<1>1. IInv => RatioCountsAllocation
  BY DEF IInv, AgentInv, RatioCounts, RatioCountsAllocation
<1> QED BY <1>1, Invariance, PTL

\* The key of an agent that registered with resources is never divided by zero, whatever it
\* has grown or shrunk to; while it stays as it registered, it is at most the whole as well.
THEOREM KeyIsShare == Spec => []RatioIsShare
<1>1. ASSUME IInv, NEW s \in Agents, used[s] # None
      PROVE  /\ s \notin bare => allocationRatios[s].total > 0
             /\ s \notin touched /\ allocatedResources[s] = used[s] =>
                  allocationRatios[s].allocation <= allocationRatios[s].total
  <2>1. /\ s \in Slave /\ Weighed(s)
        /\ s \notin touched => Covered(s)
        /\ slaves[s].total \in Resources /\ totalWeights[s] \in Nat
    BY <1>1 DEF IInv, TypeOK, Agents, AgentInv
  <2>2. s \in DOMAIN allocationRatios /\ allocationRatios[s] \in Ratio
    BY <1>1, <2>1 DEF Weighed, IInv, TypeOK
  <2>3. Quantity(slaves[s].total) \in Nat /\ allocationRatios[s].allocation \in Nat
    BY <2>1, <2>2, QuantityOperations DEF Ratio
  <2> QED BY <1>1, <2>1, <2>3 DEF Weighed, Covered
<1>2. IInv => RatioIsShare
  BY <1>1 DEF RatioIsShare
<1> QED BY <1>2, Invariance, PTL

\* What adding up the books of all agents would give is what is kept.
THEOREM TotalIsSum == Spec => []QuantitiesAddUp
<1>1. IInv /\ QuantitiesAddUp /\ [Next]_vars => (IInv /\ QuantitiesAddUp)'
  BY StepKeepsIInv, StepKeepsTotal
<1> QED BY <1>1, InitIInv, InitTotal, PTL DEF Spec

\* None of the CHECKs of remove() and unallocated() fails on an agent that has stayed as it
\* registered: its own books cover it, and the total covers its books.
THEOREM UntouchedCovered == Spec => []UntouchedAgentIsCovered
<1>1. ASSUME IInv, QuantitiesAddUp, NEW s \in Agents \ touched
      PROVE  RemoveCheck(s) /\ UnallocatedCheck(s, used[s])
  <2>1. /\ s \in Slave /\ Covered(s)
        /\ pool[s] \in Resources /\ slaves[s].total \in Resources
    BY <1>1 DEF IInv, TypeOK, Agents, AgentInv
  <2>2. Includes(pool[s], slaves[s].total) /\ Includes(allocatedResources[s], used[s])
    BY <2>1 DEF Covered
  <2>3. /\ Quantity(slaves[s].total) <= Quantity(pool[s])
        /\ Quantity(slaves[s].total) \in Nat /\ Quantity(pool[s]) \in Nat
    BY <2>1, <2>2, QuantityOperations
  <2>4. PoolQuantities[s] = Quantity(pool[s])
    BY <2>1 DEF PoolQuantities
  <2>5. /\ PoolQuantities[s] <= SumFunction(PoolQuantities)
        /\ SumFunction(PoolQuantities) \in Nat
    BY <1>1, <2>1, FiniteAssumption, PoolQuantitiesType, SumFunctionType
  <2>6. Quantity(slaves[s].total) <= scalarQuantities
    BY <1>1, <2>3, <2>4, <2>5 DEF QuantitiesAddUp
  <2> QED BY <2>2, <2>6 DEF RemoveCheck, UnallocatedCheck
<1>2. IInv /\ QuantitiesAddUp => UntouchedAgentIsCovered
  BY <1>1 DEF UntouchedAgentIsCovered
<1> QED BY <1>2, Invariance, TotalIsSum, PTL
=============================================================================
