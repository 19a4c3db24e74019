----------------------------- MODULE InverseOffers -----------------------------
(***************************************************************************)
(* Maintenance in HierarchicalAllocatorProcess (src/src/hierarchical.cpp). *)
(* The master schedules an agent to be unavailable; at the end of every    *)
(* run, deallocate() has it send an inverse offer to each framework that   *)
(* holds resources there, unless one is outstanding or the framework has   *)
(* filtered them for a while.  Inverse offers go to the master as          *)
(* callbacks, answers come back as calls: while one is on its way, the     *)
(* schedule may change.                                                    *)
(*                                                                         *)
(* An unavailability is a number, the version of an agent's schedule.      *)
(* Frameworks and agents are known throughout.  Who holds resources is     *)
(* kept in HierarchicalAllocator, and may change at any time here.         *)
(***************************************************************************)
EXTENDS Integers, Queues

CONSTANTS Framework, Slave,
          MaxVersion,          \* bound: schedules of one agent
          MaxFilters,          \* bound: refusals under way
          MaxMailbox           \* bound: the master dispatches to a shorter mailbox only

ASSUME BoundsAssumption == {MaxVersion, MaxFilters, MaxMailbox} \subseteq Nat \ {0}

ASSUME FiniteAssumption == IsFiniteSet(Framework) /\ IsFiniteSet(Slave)

VARIABLES
  mailbox,               \* calls dispatched to the allocator and not handled
  callbacks,             \* inverse offers on their way to the master
  active,                \* frameworks
  maintenance,           \* SlaveID -> None or [version, offersOutstanding, statuses]
  filters,               \* the inverse offer filters of all frameworks
  allocationCandidates,
  holders,               \* who holds resources on which agent
  schedule,              \* master: SlaveID -> [version, on], the latest
  connected,             \* master: frameworks as it told the allocator
  offers,                \* master: inverse offers that frameworks have not answered
  late,                  \* history: inverse offers the master got when they were outdated
  ignored                \* history: inverse offers the master did not pass on

masterVars == <<schedule, connected, offers, late, ignored>>
vars == <<mailbox, callbacks, active, maintenance, filters, allocationCandidates, holders,
          schedule, connected, offers, late, ignored>>

None == [version |-> 0]
FilterId == 1..MaxFilters

Init ==
  /\ mailbox = <<>> /\ callbacks = <<>>
  /\ active = Framework /\ connected = Framework
  /\ maintenance = [s \in Slave |-> None]
  /\ filters = {}
  /\ allocationCandidates = {}
  /\ holders \in SUBSET (Framework \X Slave)
  /\ schedule = [s \in Slave |-> [version |-> 0, on |-> FALSE]]
  /\ offers = <<>>
  /\ late = {} /\ ignored = {}

Calls == ToSet(mailbox)

-----------------------------------------------------------------------------
(* The master.                                                             *)

Dispatch(calls) ==
  /\ Len(mailbox) < MaxMailbox
  /\ mailbox' = mailbox \o calls
  /\ UNCHANGED <<active, maintenance, filters, allocationCandidates, holders>>

Answer(offer, status, refuse) ==
  [call |-> "updateInverseOffer", offer |-> offer, status |-> status, refuse |-> refuse]

NoRefusal == 0

\* Inverse offers are withdrawn one by one.
Withdraw(which) ==
  LET withdrawn == Among(offers, which)
  IN  [i \in DOMAIN withdrawn |-> Answer(withdrawn[i], "none", NoRefusal)]

\* Operators change an agent's schedule or cancel it.
MasterSchedules(s) ==
  LET old == {o \in ToSet(offers) : o.slave = s} IN
  /\ \/ /\ schedule[s].version < MaxVersion
        /\ schedule' = [schedule EXCEPT ![s] = [version |-> @.version + 1, on |-> TRUE]]
     \/ /\ schedule[s].on
        /\ schedule' = [schedule EXCEPT ![s].on = FALSE]
  /\ Dispatch(Withdraw(old) \o
              << [call |-> "updateUnavailability", slave |-> s,
                  version |-> IF schedule'[s].on THEN schedule'[s].version ELSE 0] >>)
  /\ offers' = Among(offers, ToSet(offers) \ old)
  /\ UNCHANGED <<callbacks, connected, late, ignored>>

\* An inverse offer is passed on if the framework is connected and the agent's
\* unavailability is still scheduled, be it for another time.
MasterReceives ==
  LET o == Head(callbacks) IN
  /\ callbacks # <<>>
  /\ callbacks' = Tail(callbacks)
  /\ IF o.framework \in connected /\ schedule[o.slave].on
     THEN /\ offers' = Append(offers, o)
          /\ late' = IF schedule[o.slave].version = o.version THEN late ELSE late \cup {o}
          /\ UNCHANGED ignored
     ELSE /\ ignored' = ignored \cup {o}
          /\ UNCHANGED <<offers, late>>
  /\ UNCHANGED <<mailbox, active, maintenance, filters, allocationCandidates, holders,
                 schedule, connected>>

UnderWay ==
  {x.id : x \in filters} \cup {c.id : c \in {d \in Calls : d.call = "expire"}}
    \cup {c.refuse : c \in {d \in Calls : d.call = "updateInverseOffer"}}

\* A framework answers, with a filter or without, or its time is up.
MasterAnswers ==
  \E i \in DOMAIN offers :
    /\ \/ \E status \in {"none", "accept", "decline"} :
            Dispatch(<< Answer(offers[i], status, NoRefusal) >>)
       \/ /\ FilterId \ UnderWay # {}
          /\ LET id == CHOOSE j \in FilterId \ UnderWay : \A k \in FilterId \ UnderWay : j <= k
             IN  Dispatch(<< Answer(offers[i], "decline", id) >>)
    /\ offers' = RemoveAt(offers, i)
    /\ UNCHANGED <<callbacks, schedule, connected, late, ignored>>

\* A framework connects or disconnects; a disconnected one loses its inverse offers.
MasterFramework(f) ==
  LET old == {o \in ToSet(offers) : o.framework = f} IN
  /\ \/ /\ f \in connected
        /\ Dispatch(<< [call |-> "deactivateFramework", framework |-> f] >> \o Withdraw(old))
        /\ connected' = connected \ {f}
        /\ offers' = Among(offers, ToSet(offers) \ old)
     \/ /\ f \notin connected
        /\ Dispatch(<< [call |-> "activateFramework", framework |-> f] >>)
        /\ connected' = connected \cup {f}
        /\ UNCHANGED offers
     \/ /\ f \in connected
        /\ Dispatch(<< [call |-> "reviveOffers", framework |-> f] >>)
        /\ UNCHANGED <<connected, offers>>
     \/ /\ Dispatch(<< [call |-> "updateFramework", framework |-> f] >>)
        /\ UNCHANGED <<connected, offers>>
  /\ UNCHANGED <<callbacks, schedule, late, ignored>>

\* An agent comes back, perhaps with other attributes.
MasterUpdatesSlave(s) ==
  /\ Dispatch(<< [call |-> "updateSlave", slave |-> s] >>)
  /\ UNCHANGED <<callbacks, masterVars>>

-----------------------------------------------------------------------------
(* Handlers.                                                               *)

NextIs(call) == mailbox # <<>> /\ Head(mailbox).call = call

\* allocate(slaveIds) at the end of a handler; a run is pending while it is in the mailbox.
Allocate(slaveIds) ==
  /\ allocationCandidates' = allocationCandidates \cup slaveIds
  /\ mailbox' = Tail(mailbox) \o (IF [call |-> "_allocate"] \in Calls THEN <<>>
                                  ELSE << [call |-> "_allocate"] >>)

NoAllocate ==
  /\ mailbox' = Tail(mailbox)
  /\ UNCHANGED allocationCandidates

\* Slip: frameworks that filtered the old schedule are not asked about the new one.
UpdateUnavailabilityOnly ==
  LET c == Head(mailbox) IN
  /\ NextIs("updateUnavailability")
  /\ maintenance' = [maintenance EXCEPT ![c.slave] =
       IF c.version = 0 THEN None
       ELSE [version |-> c.version, offersOutstanding |-> {}, statuses |-> << >>]]
  /\ Allocate({c.slave})
  /\ UNCHANGED <<callbacks, active, filters, holders, masterVars>>

\* "we want to force frameworks to reassess": the agent's filters go.
UpdateUnavailability ==
  LET c == Head(mailbox) IN
  /\ NextIs("updateUnavailability")
  /\ filters' = {x \in filters : x.slave # c.slave}
  /\ maintenance' = [maintenance EXCEPT ![c.slave] =
       IF c.version = 0 THEN None
       ELSE [version |-> c.version, offersOutstanding |-> {}, statuses |-> << >>]]
  /\ Allocate({c.slave})
  /\ UNCHANGED <<callbacks, active, holders, masterVars>>

\* A filter is installed even when the inverse offer is not outstanding.
Refused(c) ==
  IF c.refuse = NoRefusal THEN {}
  ELSE {[id |-> c.refuse, framework |-> c.offer.framework, slave |-> c.offer.slave,
         version |-> c.offer.version, pending |-> TRUE]}

\* What the framework answered takes the place of what it answered before.
Recorded(statuses, f, status) ==
  [g \in DOMAIN statuses \cup {f} |-> IF g = f THEN status ELSE statuses[g]]

\* Slip: an inverse offer that was withdrawn is still taken for outstanding.
UpdateAnswered ==
  LET c == Head(mailbox)
      f == c.offer.framework
      s == c.offer.slave
  IN  /\ NextIs("updateInverseOffer")
      /\ maintenance' =
           IF f \in maintenance[s].offersOutstanding /\ c.status # "none"
           THEN [maintenance EXCEPT
                   ![s].offersOutstanding = @ \ {f},
                   ![s].statuses = Recorded(@, f, [status |-> c.status, of |-> c.offer])]
           ELSE maintenance
      /\ filters' = filters \cup Refused(c)
      /\ NoAllocate
      /\ UNCHANGED <<callbacks, active, holders, masterVars>>

\* The unavailability the answer is about is not looked at.  It has to be scheduled (a
\* CHECK): without maintenance there would be no next state.
UpdateInverseOffer ==
  LET c == Head(mailbox)
      f == c.offer.framework
      s == c.offer.slave
  IN  /\ NextIs("updateInverseOffer")
      /\ maintenance' =
           IF f \notin maintenance[s].offersOutstanding THEN maintenance
           ELSE IF c.status = "none"
           THEN [maintenance EXCEPT ![s].offersOutstanding = @ \ {f}]
           ELSE [maintenance EXCEPT
                   ![s].offersOutstanding = @ \ {f},
                   ![s].statuses = Recorded(@, f, [status |-> c.status, of |-> c.offer])]
      /\ filters' = filters \cup Refused(c)
      /\ NoAllocate
      /\ UNCHANGED <<callbacks, active, holders, masterVars>>

ActivateFramework ==
  /\ NextIs("activateFramework")
  /\ active' = active \cup {Head(mailbox).framework}
  /\ Allocate(Slave)
  /\ UNCHANGED <<callbacks, maintenance, filters, holders, masterVars>>

DeactivateFramework ==
  LET f == Head(mailbox).framework IN
  /\ NextIs("deactivateFramework")
  /\ active' = active \ {f}
  /\ filters' = {x \in filters : x.framework # f}
  /\ NoAllocate
  /\ UNCHANGED <<callbacks, maintenance, holders, masterVars>>

ReviveOffers ==
  /\ NextIs("reviveOffers")
  /\ filters' = {x \in filters : x.framework # Head(mailbox).framework}
  /\ Allocate(Slave)
  /\ UNCHANGED <<callbacks, active, maintenance, holders, masterVars>>

\* updateFramework ends with reviveRoles(), which takes the filters out even when there are
\* no roles to revive.
UpdateFramework ==
  /\ NextIs("updateFramework")
  /\ filters' = {x \in filters : x.framework # Head(mailbox).framework}
  /\ NoAllocate
  /\ UNCHANGED <<callbacks, active, maintenance, holders, masterVars>>

\* updateSlave: of an agent with other attributes the filters go.  Something else of it may
\* have changed, or nothing.
UpdateSlave ==
  LET s == Head(mailbox).slave IN
  /\ NextIs("updateSlave")
  /\ \/ filters' = {x \in filters : x.slave # s} /\ Allocate({s})
     \/ UNCHANGED filters /\ (Allocate({s}) \/ NoAllocate)
  /\ UNCHANGED <<callbacks, active, maintenance, holders, masterVars>>

\* The timer of a filter: from now on it does not filter, and expire() will take it out.
TimerFires(id) ==
  \E x \in filters :
    /\ x.id = id /\ x.pending
    /\ filters' = (filters \ {x}) \cup {[x EXCEPT !.pending = FALSE]}
    /\ mailbox' = Append(mailbox, [call |-> "expire", id |-> id])
    /\ UNCHANGED <<callbacks, active, maintenance, allocationCandidates, holders, masterVars>>

\* expire: nothing is left to do when the filter is gone.
Expire ==
  /\ NextIs("expire")
  /\ filters' = {x \in filters : x.id # Head(mailbox).id}
  /\ NoAllocate
  /\ UNCHANGED <<callbacks, active, maintenance, holders, masterVars>>

\* The periodic loop asks for an allocation, one at a time.
LoopFires ==
  /\ [call |-> "allocate"] \notin Calls
  /\ mailbox' = Append(mailbox, [call |-> "allocate"])
  /\ UNCHANGED <<callbacks, active, maintenance, filters, allocationCandidates, holders,
                 masterVars>>

PeriodicAllocate ==
  /\ NextIs("allocate")
  /\ Allocate(Slave)
  /\ UNCHANGED <<callbacks, active, maintenance, filters, holders, masterVars>>

IsFiltered(f, s) == \E x \in filters : x.framework = f /\ x.slave = s /\ x.pending

\* Slip: those that have an inverse offer get another.
OfferableToAll(s) ==
  {f \in active : <<f, s>> \in holders /\ maintenance[s] # None /\ ~IsFiltered(f, s)}

\* deallocate: to whom an inverse offer for an agent is sent.
Offerable(s) ==
  {f \in active : /\ <<f, s>> \in holders
                  /\ maintenance[s] # None /\ f \notin maintenance[s].offersOutstanding
                  /\ ~IsFiltered(f, s)}

\* _allocate ends with deallocate; inverse offers are sent in some order.
Run ==
  LET asked == {k \in Framework \X allocationCandidates : k[1] \in Offerable(k[2])}
      offer(k) == [framework |-> k[1], slave |-> k[2], version |-> maintenance[k[2]].version]
  IN  /\ NextIs("_allocate")
      /\ maintenance' = [s \in Slave |->
           IF \E f \in Framework : <<f, s>> \in asked
           THEN [maintenance[s] EXCEPT !.offersOutstanding =
                   @ \cup {f \in Framework : <<f, s>> \in asked}]
           ELSE maintenance[s]]
      /\ \E order \in SetToSeqs({offer(k) : k \in asked}) : callbacks' = callbacks \o order
      /\ allocationCandidates' = {}
      /\ mailbox' = Tail(mailbox)
      /\ UNCHANGED <<active, filters, holders, masterVars>>

\* Runs, updateAllocation and recoverResources change what the sorters say is allocated.
HoldersChange(f, s) ==
  /\ holders' = SymDiff(holders, {<<f, s>>})
  /\ UNCHANGED <<mailbox, callbacks, active, maintenance, filters, allocationCandidates,
                 masterVars>>

-----------------------------------------------------------------------------

Handle ==
  \/ UpdateUnavailability \/ UpdateInverseOffer
  \/ ActivateFramework \/ DeactivateFramework \/ ReviveOffers \/ UpdateFramework
  \/ UpdateSlave \/ Expire \/ PeriodicAllocate \/ Run

Next ==
  \/ \E s \in Slave : MasterSchedules(s)
  \/ \E f \in Framework : MasterFramework(f)
  \/ \E s \in Slave : MasterUpdatesSlave(s)
  \/ MasterReceives \/ MasterAnswers
  \/ \E id \in FilterId : TimerFires(id)
  \/ LoopFires
  \/ \E f \in Framework, s \in Slave : HoldersChange(f, s)
  \/ Handle

\* The actor serves its mailbox, and timers fire.  Nothing is assumed of the master.
Fairness ==
  WF_vars(Handle) /\ WF_vars(LoopFires) /\ \A id \in FilterId : WF_vars(TimerFires(id))

Spec == Init /\ [][Next]_vars /\ Fairness

-----------------------------------------------------------------------------
(* Properties.                                                             *)

\* Where inverse offers are: on their way to a framework, with it, or on their way back.
Places ==
  ({"callbacks"} \X DOMAIN callbacks) \cup ({"offers"} \X DOMAIN offers)
    \cup ({"mailbox"} \X {i \in DOMAIN mailbox : mailbox[i].call = "updateInverseOffer"})

OfferAt(place) ==
  CASE place[1] = "callbacks" -> callbacks[place[2]]
    [] place[1] = "offers" -> offers[place[2]]
    [] place[1] = "mailbox" -> mailbox[place[2]].offer

Asked(f, s) == {p \in Places : OfferAt(p).framework = f /\ OfferAt(p).slave = s}

Late(f, s) == \E o \in late : o.framework = f /\ o.slave = s

\* "If we didn't keep track of outstanding offers then we would keep generating new inverse
\* offers even though the framework had not responded yet" (hierarchical.cpp:2376): there is
\* never a second inverse offer for the same unavailability.  The exception is a framework
\* that got an outdated one: its answer is taken for that to the next.
OneInverseOffer ==
  \A f \in Framework, s \in Slave :
    \/ \A v \in 1..MaxVersion :
         Cardinality({p \in Asked(f, s) : OfferAt(p).version = v}) <= 1
    \/ Late(f, s)

\* "we want to force frameworks to reassess the calculations they have made" (:1259): what
\* is recorded of an agent's maintenance, and what filters it, are answers to inverse offers
\* for it and not for an earlier one, but for those that reached the master outdated.
FrameworksReassess ==
  \A s \in Slave :
    maintenance[s] # None =>
      /\ \A f \in DOMAIN maintenance[s].statuses :
           LET o == maintenance[s].statuses[f].of
           IN  o.version = maintenance[s].version \/ o \in late
      /\ \A x \in filters :
           x.slave = s => x.version = maintenance[s].version \/ Late(x.framework, s)

Due(f, s) ==
  /\ maintenance[s] # None
  /\ f \in active /\ <<f, s>> \in holders
  /\ Asked(f, s) = {}
  /\ \A o \in ignored : o.framework # f \/ o.slave # s

\* A framework that may lose something is asked, and asked again when its inverse offer was
\* answered, withdrawn or timed out and its filter is over, unless the master let one drop.
AskedAgain == \A f \in Framework, s \in Slave : Due(f, s) ~> ~Due(f, s)
=============================================================================
