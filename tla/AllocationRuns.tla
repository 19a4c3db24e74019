---------------------------- MODULE AllocationRuns ----------------------------
(***************************************************************************)
(* When HierarchicalAllocatorProcess (src/src/hierarchical.cpp) runs an    *)
(* allocation, and for which agents: the actor's mailbox, the batching of  *)
(* allocate() and _allocate(), the loop that initialize() starts, the      *)
(* whitelist, and the pause after a master failover, from recover() until  *)
(* enough agents are back or the recovery timer fires.                     *)
(*                                                                         *)
(* The master, the loop, the timer and the allocator itself dispatch calls *)
(* to the mailbox, which the actor handles one after the other, in order.  *)
(* Between the dispatch of _allocate and its turn come other calls.  What  *)
(* a run allocates is the business of HierarchicalAllocator.               *)
(***************************************************************************)
EXTENDS Integers, Sequences, FiniteSets

CONSTANTS Slave,
          MaxExpected,   \* bound: agents recover() may be told to expect
          MaxMailbox     \* bound: the master dispatches to a shorter mailbox only

ASSUME BoundsAssumption == MaxExpected \in Nat /\ MaxMailbox \in Nat \ {0}

VARIABLES
  mailbox,               \* calls dispatched to the allocator and not handled
  slaves,                \* SlaveID -> whether it is activated
  whitelist,             \* agents whose host name is whitelisted; Slave if None
  paused,
  expectedAgentCount,    \* the number, or None
  allocationCandidates,
  allocation,            \* the future of the dispatched run: is it pending?
  loop,                  \* the loop of initialize()
  timer,                 \* the delayed resume() of recover()
  registered,            \* master: agents it told the allocator of
  elected                \* master: TRUE until it has called recover()

vars == <<mailbox, slaves, whitelist, paused, expectedAgentCount, allocationCandidates,
          allocation, loop, timer, registered, elected>>

None == -1

Call ==
  [call : {"addSlave", "removeSlave", "updateSlave", "activateSlave", "deactivateSlave"},
   slave : Slave]
    \cup [call : {"recover"}, expected : 0..MaxExpected, quotas : BOOLEAN]
    \cup [call : {"updateWhitelist"}, whitelist : SUBSET Slave]
    \cup [call : {"reviveOffers", "allocate", "_allocate", "resume"}]

TypeOK ==
  /\ mailbox \in Seq(Call)
  /\ DOMAIN slaves \subseteq Slave
  /\ \A s \in DOMAIN slaves : slaves[s] \in BOOLEAN
  /\ whitelist \subseteq Slave
  /\ paused \in BOOLEAN
  /\ expectedAgentCount \in 0..MaxExpected \cup {None}
  /\ allocationCandidates \subseteq Slave
  /\ allocation \in BOOLEAN
  /\ loop \in {"sleeping", "dispatched", "waiting"}
  /\ timer \in {"unset", "set", "fired"}
  /\ registered \subseteq Slave
  /\ elected \in BOOLEAN

Init ==
  /\ mailbox = <<>>
  /\ slaves = [s \in {} |-> TRUE]
  /\ whitelist = Slave
  /\ paused = FALSE
  /\ expectedAgentCount = None
  /\ allocationCandidates = {}
  /\ allocation = FALSE
  /\ loop = "sleeping"
  /\ timer = "unset"
  /\ registered = {}
  /\ elected = TRUE

-----------------------------------------------------------------------------
(* The other actors.                                                       *)

FromMaster(call) ==
  /\ Len(mailbox) < MaxMailbox
  /\ mailbox' = Append(mailbox, call)
  /\ UNCHANGED <<slaves, whitelist, paused, expectedAgentCount, allocationCandidates,
                 allocation, loop, timer>>

\* An elected master recovers the allocator before it lets agents register.
MasterRecover(expected, quotas) ==
  /\ elected
  /\ FromMaster([call |-> "recover", expected |-> expected, quotas |-> quotas])
  /\ elected' = FALSE
  /\ UNCHANGED registered

MasterAddSlave(s) ==
  /\ ~elected /\ s \notin registered
  /\ FromMaster([call |-> "addSlave", slave |-> s])
  /\ registered' = registered \cup {s}
  /\ UNCHANGED elected

MasterRemoveSlave(s) ==
  /\ s \in registered
  /\ FromMaster([call |-> "removeSlave", slave |-> s])
  /\ registered' = registered \ {s}
  /\ UNCHANGED elected

\* Calls that change no one's membership.
MasterOther(s) ==
  /\ \/ /\ s \in registered
        /\ \E call \in {"updateSlave", "activateSlave", "deactivateSlave"} :
             FromMaster([call |-> call, slave |-> s])
     \/ FromMaster([call |-> "reviveOffers"])
     \/ \E w \in SUBSET Slave : FromMaster([call |-> "updateWhitelist", whitelist |-> w])
  /\ UNCHANGED <<registered, elected>>

\* The allocation interval is over; the next one starts when the run is over.
LoopFires ==
  /\ loop = "sleeping"
  /\ loop' = "dispatched"
  /\ mailbox' = Append(mailbox, [call |-> "allocate"])
  /\ UNCHANGED <<slaves, whitelist, paused, expectedAgentCount, allocationCandidates,
                 allocation, timer, registered, elected>>

RecoveryTimerFires ==
  /\ timer = "set"
  /\ timer' = "fired"
  /\ mailbox' = Append(mailbox, [call |-> "resume"])
  /\ UNCHANGED <<slaves, whitelist, paused, expectedAgentCount, allocationCandidates,
                 allocation, loop, registered, elected>>

-----------------------------------------------------------------------------
(* The handlers.                                                           *)

Known == DOMAIN slaves

NextIs(call) == mailbox # <<>> /\ Head(mailbox).call = call

\* The handler asks for nothing.
NoAllocate ==
  /\ mailbox' = Tail(mailbox)
  /\ UNCHANGED <<allocationCandidates, allocation>>

\* Slip: the run is dispatched although one is on its way.
AllocateAgain(slaveIds, isPaused) ==
  IF isPaused THEN NoAllocate
  ELSE /\ allocationCandidates' = allocationCandidates \cup slaveIds
       /\ allocation' = TRUE
       /\ mailbox' = Append(Tail(mailbox), [call |-> "_allocate"])

\* allocate(slaveIds), where the handler has left the allocator paused or not.
Allocate(slaveIds, isPaused) ==
  IF isPaused THEN NoAllocate
  ELSE /\ allocationCandidates' = allocationCandidates \cup slaveIds
       /\ allocation' = TRUE
       /\ mailbox' = IF allocation THEN Tail(mailbox)
                     ELSE Append(Tail(mailbox), [call |-> "_allocate"])

\* Slip: agents are expected but allocation is not paused.
RecoverUnpaused ==
  /\ NextIs("recover")
  /\ IF Head(mailbox).quotas /\ Head(mailbox).expected > 0
     THEN expectedAgentCount' = Head(mailbox).expected /\ timer' = "set"
     ELSE UNCHANGED <<expectedAgentCount, timer>>
  /\ NoAllocate
  /\ UNCHANGED <<slaves, whitelist, paused, loop, registered, elected>>

\* Slip: allocation is paused but no timer set.
RecoverWithoutTimer ==
  /\ NextIs("recover")
  /\ IF Head(mailbox).quotas
     THEN /\ expectedAgentCount' = Head(mailbox).expected
          /\ paused' = (paused \/ Head(mailbox).expected > 0)
     ELSE UNCHANGED <<expectedAgentCount, paused>>
  /\ NoAllocate
  /\ UNCHANGED <<slaves, whitelist, loop, timer, registered, elected>>

\* expected is the count times the recovery factor; without quota, a no-op.
Recover ==
  /\ NextIs("recover")
  /\ Known = {}
  /\ IF Head(mailbox).quotas
     THEN /\ expectedAgentCount' = Head(mailbox).expected
          /\ IF Head(mailbox).expected > 0
             THEN paused' = TRUE /\ timer' = "set"
             ELSE UNCHANGED <<paused, timer>>
     ELSE UNCHANGED <<expectedAgentCount, paused, timer>>
  /\ NoAllocate
  /\ UNCHANGED <<slaves, whitelist, loop, registered, elected>>

Resume ==
  /\ NextIs("resume")
  /\ paused' = FALSE
  /\ NoAllocate
  /\ UNCHANGED <<slaves, whitelist, expectedAgentCount, loop, timer, registered, elected>>

\* Slip: more agents than expected have to be back.
RecoveredMore(known) == Cardinality(known) > expectedAgentCount

\* Enough agents are back.
Recovered(known) == Cardinality(known) >= expectedAgentCount

\* An agent registers; it may be the one the recovery waits for.
AddSlave ==
  LET s == Head(mailbox).slave
      enough == paused /\ expectedAgentCount # None /\ Recovered(Known \cup {s})
  IN  /\ NextIs("addSlave")
      /\ s \notin Known
      /\ slaves' = [t \in Known \cup {s} |-> IF t = s THEN TRUE ELSE slaves[t]]
      /\ expectedAgentCount' = IF enough THEN None ELSE expectedAgentCount
      /\ paused' = (paused /\ ~enough)
      /\ Allocate({s}, paused')
      /\ UNCHANGED <<whitelist, loop, timer, registered, elected>>

RemoveSlave ==
  LET s == Head(mailbox).slave IN
  /\ NextIs("removeSlave")
  /\ s \in Known
  /\ slaves' = [t \in Known \ {s} |-> slaves[t]]
  /\ allocationCandidates' = allocationCandidates \ {s}
  /\ mailbox' = Tail(mailbox)
  /\ UNCHANGED <<whitelist, paused, expectedAgentCount, allocation, loop, timer,
                 registered, elected>>

\* With a change of any of its attributes, or with none.
UpdateSlave(changed) ==
  /\ NextIs("updateSlave")
  /\ IF changed THEN Allocate({Head(mailbox).slave}, paused) ELSE NoAllocate
  /\ UNCHANGED <<slaves, whitelist, paused, expectedAgentCount, loop, timer, registered,
                 elected>>

\* activateSlave, deactivateSlave.
SetActivated ==
  /\ NextIs("activateSlave") \/ NextIs("deactivateSlave")
  /\ slaves' = [slaves EXCEPT ![Head(mailbox).slave] = (Head(mailbox).call = "activateSlave")]
  /\ NoAllocate
  /\ UNCHANGED <<whitelist, paused, expectedAgentCount, loop, timer, registered, elected>>

UpdateWhitelist ==
  /\ NextIs("updateWhitelist")
  /\ whitelist' = Head(mailbox).whitelist
  /\ NoAllocate
  /\ UNCHANGED <<slaves, paused, expectedAgentCount, loop, timer, registered, elected>>

\* Any framework's call that ends with allocate().
ReviveOffers ==
  /\ NextIs("reviveOffers")
  /\ Allocate(Known, paused)
  /\ UNCHANGED <<slaves, whitelist, paused, expectedAgentCount, loop, timer, registered,
                 elected>>

\* Slip: the loop is given the future of a run that will not be dispatched.
PeriodicAllocateWaits ==
  /\ NextIs("allocate")
  /\ Allocate(Known, paused)
  /\ loop' = "waiting"
  /\ UNCHANGED <<slaves, whitelist, paused, expectedAgentCount, timer, registered, elected>>

\* The loop's call: the loop waits for the run, or for nothing.
PeriodicAllocate ==
  /\ NextIs("allocate")
  /\ Allocate(Known, paused)
  /\ loop' = IF paused THEN "sleeping" ELSE "waiting"
  /\ UNCHANGED <<slaves, whitelist, paused, expectedAgentCount, timer, registered, elected>>

\* The agents a run considers.
SlaveIds == {s \in allocationCandidates \cap Known : s \in whitelist /\ slaves[s]}

\* Slip: the candidates are cleared by the next run, not by this one.
RunKeepCandidates ==
  /\ NextIs("_allocate")
  /\ UNCHANGED allocationCandidates
  /\ allocation' = FALSE
  /\ loop' = IF loop = "waiting" THEN "sleeping" ELSE loop
  /\ mailbox' = Tail(mailbox)
  /\ UNCHANGED <<slaves, whitelist, paused, expectedAgentCount, timer, registered, elected>>

\* _allocate: paused, it leaves the candidates for a later run.  Either way the
\* future is ready, and the loop goes on if it waits for it.
Run ==
  /\ NextIs("_allocate")
  /\ allocationCandidates' = IF paused THEN allocationCandidates ELSE {}
  /\ allocation' = FALSE
  /\ loop' = IF loop = "waiting" THEN "sleeping" ELSE loop
  /\ mailbox' = Tail(mailbox)
  /\ UNCHANGED <<slaves, whitelist, paused, expectedAgentCount, timer, registered, elected>>

RunConsiders(s) == Run /\ ~paused /\ s \in SlaveIds

-----------------------------------------------------------------------------

Master ==
  \/ \E expected \in 0..MaxExpected, quotas \in BOOLEAN : MasterRecover(expected, quotas)
  \/ \E s \in Slave : MasterAddSlave(s) \/ MasterRemoveSlave(s) \/ MasterOther(s)

Handle ==
  \/ Recover \/ Resume
  \/ AddSlave \/ RemoveSlave \/ SetActivated \/ UpdateWhitelist
  \/ \E changed \in BOOLEAN : UpdateSlave(changed)
  \/ ReviveOffers \/ PeriodicAllocate \/ Run

Next == Master \/ LoopFires \/ RecoveryTimerFires \/ Handle

\* libprocess handles what is in a mailbox; timers fire.  The master owes nothing.
Fairness ==
  /\ WF_vars(Handle)
  /\ WF_vars(LoopFires)
  /\ WF_vars(RecoveryTimerFires)

Spec == Init /\ [][Next]_vars /\ Fairness

-----------------------------------------------------------------------------
(* Properties.                                                             *)

\* At most one run is in the mailbox, and the future is pending exactly while it is:
\* the runs that frameworks, agents and the loop ask for are batched into one.
OneRunOnItsWay ==
  LET runs == {i \in 1..Len(mailbox) : mailbox[i].call = "_allocate"}
  IN  Cardinality(runs) = IF allocation THEN 1 ELSE 0

\* The loop waits only for a run that is on its way: it cannot hang on a future that
\* nobody completes, whatever is paused or resumed meanwhile.
LoopWaitsForRun == loop = "waiting" => allocation

\* The CHECK of addSlave (hierarchical.cpp:785), and what it is for: a paused allocator
\* expects more agents than it has, so it is the next ones that end the pause.
PausedWhileTooFew ==
  paused => expectedAgentCount # None /\ Cardinality(Known) < expectedAgentCount

\* "Pause allocation until after a sufficient amount of agents reregister or a timer
\* expires" (hierarchical.cpp:530): no run considers an agent before either.
NoRunWhileRecovering ==
  [][timer = "set" /\ expectedAgentCount # None =>
       \A s \in Slave : ~RunConsiders(s)]_vars

\* A paused allocator resumes, also if the agents never come back.
EventuallyResumes == paused ~> ~paused

\* An agent that stays, activated and whitelisted, is considered again and again: the
\* runs skipped while paused and those batched are made up for.
AgentsAreConsidered ==
  \A s \in Slave :
    <>[](s \in Known /\ s \in whitelist /\ slaves[s]) => []<><<RunConsiders(s)>>_vars

\* A candidate is considered or taken out; none is left behind by a pause.
CandidatesAreServed ==
  \A s \in Slave : s \in allocationCandidates ~> s \notin allocationCandidates
=============================================================================
