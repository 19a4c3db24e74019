----------------------------- MODULE OfferFilters -----------------------------
(***************************************************************************)
(* The offer filters of HierarchicalAllocatorProcess                       *)
(* (src/src/hierarchical.cpp).  A framework that declines resources is not *)
(* offered them, nor less of the same agent, for refuse_seconds.           *)
(* recoverResources() installs the filter and its timer; the timer         *)
(* dispatches expire(), which dispatches _expire(), which takes the filter *)
(* out, so that the periodic allocation of the interval comes before       *)
(* (MESOS-4302).  Meanwhile the framework revives, leaves the role, is     *)
(* deactivated or removed, or its agent changes: the filter is destroyed,  *)
(* and calls that are in the mailbox find it gone (a weak_ptr).            *)
(*                                                                         *)
(* The timers of libprocess fire in the order of their deadlines, and of   *)
(* their creation when these are equal.  Which of its resources a run      *)
(* offers, and to whom, is left open but for the filters.                  *)
(***************************************************************************)
EXTENDS Integers, Queues

CONSTANTS Framework, Role, Slave,
          Amount,              \* units of resources an agent has
          AllocationInterval,
          DefaultRefuse,       \* Filters().refuse_seconds()
          MaxRefuse,           \* the 365 days of recoverResources
          RefuseSeconds,       \* bound: what frameworks send
          MaxRefusals,         \* bound: refusals under way
          MaxMailbox,          \* bound: the master dispatches to a shorter mailbox only
          None                 \* no refuse_seconds, no refusal

ASSUME BoundsAssumption ==
  /\ {Amount, AllocationInterval, DefaultRefuse, MaxRefuse, MaxRefusals, MaxMailbox}
       \subseteq Nat \ {0}
  /\ DefaultRefuse <= MaxRefuse
  /\ RefuseSeconds \subseteq Int
  /\ None \notin Int

VARIABLES
  mailbox,               \* calls dispatched to the allocator and not handled
  timers,                \* of the loop and of the filters, the next to fire first
  frameworks,            \* FrameworkID -> [roles, active]
  slaves,
  allocated,             \* what runs gave out and was not recovered
  filters,               \* the offer filters of all frameworks
  allocationCandidates,
  registered,            \* master: the frameworks as it told the allocator
  agents,                \* master: the agents it told the allocator of
  considered,            \* history: filters a run has come by
  refusals               \* history: refusals in force, and for how long

masterVars == <<registered, agents>>
vars == <<mailbox, timers, frameworks, slaves, allocated, filters, allocationCandidates,
          registered, agents, considered, refusals>>

RefusalId == 1..MaxRefusals
Filter == [id : RefusalId, framework : Framework, role : Role, slave : Slave, amount : 1..Amount]
Longest == IF AllocationInterval > MaxRefuse THEN AllocationInterval ELSE MaxRefuse
Timer == [kind : {"loop"}, left : 0..AllocationInterval]
           \cup [kind : {"filter"}, filter : Filter, left : 0..Longest]

Call ==
  [call : {"recoverResources"}, framework : Framework, role : Role, slave : Slave,
   amount : 1..Amount, refuse : RefuseSeconds \cup {None}, id : {None} \cup RefusalId]
    \cup [call : {"activateFramework", "deactivateFramework", "removeFramework"},
          framework : Framework]
    \cup [call : {"addFramework", "updateFramework", "reviveOffers"},
          framework : Framework, roles : SUBSET Role]
    \cup [call : {"addSlave", "updateSlave", "removeSlave"}, slave : Slave]
    \cup [call : {"expire", "_expire"}, filter : Filter]
    \cup [call : {"allocate", "_allocate"}]

Frameworks == UNION {[F -> [roles : SUBSET Role, active : BOOLEAN]] : F \in SUBSET Framework}

TypeOK ==
  /\ mailbox \in Seq(Call)
  /\ timers \in Seq(Timer)
  /\ frameworks \in Frameworks
  /\ slaves \subseteq Slave
  /\ allocated \in [Framework \X Role \X Slave -> 0..Amount]
  /\ filters \subseteq Filter
  /\ allocationCandidates \subseteq slaves
  /\ registered \in Frameworks
  /\ agents \subseteq Slave
  /\ considered \subseteq RefusalId
  /\ refusals \subseteq [filter : Filter, left : 1..Longest]

Init ==
  /\ mailbox = <<>>
  /\ timers = << [kind |-> "loop", left |-> AllocationInterval] >>
  /\ frameworks = << >> /\ registered = << >>
  /\ slaves = {} /\ agents = {}
  /\ allocated = [k \in Framework \X Role \X Slave |-> 0]
  /\ filters = {}
  /\ allocationCandidates = {}
  /\ considered = {}
  /\ refusals = {}

Calls == {mailbox[i] : i \in DOMAIN mailbox}

-----------------------------------------------------------------------------
(* Time.                                                                   *)

AddTimer(timer, running) ==
  LET before == {i \in DOMAIN running : running[i].left <= timer.left}
  IN  InsertAt(running, Cardinality(before) + 1, timer)

\* Destroying a filter discards its future, which cancels the timer.
Running(kept) ==
  Among(timers, {t \in ToSet(timers) : t.kind = "loop" \/ t.filter \in kept})

Tick ==
  /\ timers # <<>> /\ Head(timers).left > 0
  /\ timers' = [i \in DOMAIN timers |-> [timers[i] EXCEPT !.left = @ - 1]]
  /\ refusals' = {[r EXCEPT !.left = @ - 1] : r \in {q \in refusals : q.left > 1}}
  /\ UNCHANGED <<mailbox, frameworks, slaves, allocated, filters, allocationCandidates,
                 masterVars, considered>>

\* The loop of initialize() asks for an allocation; a filter's expiry is dispatched.
TimerFires ==
  /\ timers # <<>> /\ Head(timers).left = 0
  /\ timers' = Tail(timers)
  /\ mailbox' = Append(mailbox, IF Head(timers).kind = "loop" THEN [call |-> "allocate"]
                                ELSE [call |-> "expire", filter |-> Head(timers).filter])
  /\ UNCHANGED <<frameworks, slaves, allocated, filters, allocationCandidates, masterVars,
                 considered, refusals>>

-----------------------------------------------------------------------------
(* The master.                                                             *)

FromMaster(call) ==
  /\ Len(mailbox) < MaxMailbox
  /\ mailbox' = Append(mailbox, call)
  /\ UNCHANGED <<timers, frameworks, slaves, allocated, filters, allocationCandidates,
                 considered, refusals>>

\* A framework registers, changes its roles, or has given them up for good.
MasterFramework(f, roles) ==
  /\ IF f \in DOMAIN registered
     THEN \/ /\ FromMaster([call |-> "updateFramework", framework |-> f, roles |-> roles])
             /\ registered' = [registered EXCEPT ![f].roles = roles]
          \/ /\ FromMaster([call |-> "reviveOffers", framework |-> f, roles |-> roles])
             /\ roles \subseteq registered[f].roles
             /\ UNCHANGED registered
     ELSE /\ FromMaster([call |-> "addFramework", framework |-> f, roles |-> roles])
          /\ registered' = (f :> [roles |-> roles, active |-> TRUE]) @@ registered
  /\ UNCHANGED agents

MasterActive(f) ==
  /\ f \in DOMAIN registered
  /\ \/ /\ FromMaster([call |-> "activateFramework", framework |-> f])
        /\ ~registered[f].active
        /\ registered' = [registered EXCEPT ![f].active = TRUE]
     \/ /\ FromMaster([call |-> "deactivateFramework", framework |-> f])
        /\ registered[f].active
        /\ registered' = [registered EXCEPT ![f].active = FALSE]
     \/ /\ FromMaster([call |-> "removeFramework", framework |-> f])
        /\ registered' = Restrict(registered, DOMAIN registered \ {f})
  /\ UNCHANGED agents

\* What the master may still give back of what it was offered.
OnBooks(f, r, s) ==
  LET back == {i \in DOMAIN mailbox :
                 /\ mailbox[i].call = "recoverResources"
                 /\ <<mailbox[i].framework, mailbox[i].role, mailbox[i].slave>> = <<f, r, s>>}
  IN  allocated[f, r, s] - FoldSet(LAMBDA i, n : mailbox[i].amount + n, 0, back)

MasterAgent(s) ==
  /\ IF s \in agents
     THEN \/ /\ FromMaster([call |-> "updateSlave", slave |-> s])
             /\ UNCHANGED agents
          \/ /\ FromMaster([call |-> "removeSlave", slave |-> s])
             /\ agents' = agents \ {s}
     ELSE /\ FromMaster([call |-> "addSlave", slave |-> s])
          /\ \A f \in Framework, r \in Role : OnBooks(f, r, s) = 0
          /\ agents' = agents \cup {s}
  /\ UNCHANGED registered

\* Refusals that have a filter, a timer, or calls in the mailbox.
UnderWay ==
  {x.id : x \in filters}
    \cup {t.filter.id : t \in {u \in ToSet(timers) : u.kind = "filter"}}
    \cup {c.filter.id : c \in {d \in Calls : d.call \in {"expire", "_expire"}}}
    \cup {c.id : c \in {d \in Calls : d.call = "recoverResources" /\ d.id # None}}

\* Resources come back: declined, unused or no longer used.
MasterRecovers(f, r, s, n) ==
  /\ n <= OnBooks(f, r, s)
  /\ \E refuse \in RefuseSeconds \cup {None} :
       LET free == RefusalId \ UnderWay
           id == IF refuse = None THEN None ELSE CHOOSE i \in free : \A j \in free : i <= j
       IN  /\ refuse # None => f \in DOMAIN registered /\ free # {}
           /\ FromMaster([call |-> "recoverResources", framework |-> f, role |-> r,
                          slave |-> s, amount |-> n, refuse |-> refuse, id |-> id])
  /\ UNCHANGED masterVars

-----------------------------------------------------------------------------
(* Handlers that take filters out.                                         *)

NextIs(call) == mailbox # <<>> /\ Head(mailbox).call = call

\* allocate(slaveIds) at the end of a handler; a run is pending while it is in the mailbox.
Allocate(slaveIds) ==
  /\ allocationCandidates' = allocationCandidates \cup slaveIds
  /\ mailbox' = Tail(mailbox) \o (IF [call |-> "_allocate"] \in Calls THEN <<>>
                                  ELSE << [call |-> "_allocate"] >>)

NoAllocate ==
  /\ mailbox' = Tail(mailbox)
  /\ UNCHANGED allocationCandidates

\* The filters that stay; a refusal that was withdrawn holds no longer.
Keep(stays(_)) ==
  /\ filters' = {x \in filters : stays(x)}
  /\ refusals' = {r \in refusals : stays(r.filter)}
  /\ timers' = Running(filters')
  /\ considered' = considered \cap {x.id : x \in filters'}
  /\ UNCHANGED <<allocated, masterVars>>

KeepAll == Keep(LAMBDA x : TRUE)

AddFramework ==
  LET c == Head(mailbox) IN
  /\ NextIs("addFramework")
  /\ frameworks' = (c.framework :> [roles |-> c.roles, active |-> TRUE]) @@ frameworks
  /\ KeepAll
  /\ Allocate(slaves)
  /\ UNCHANGED slaves

\* Its offerFilters go with it.
RemoveFramework ==
  LET c == Head(mailbox) IN
  /\ NextIs("removeFramework")
  /\ frameworks' = Restrict(frameworks, DOMAIN frameworks \ {c.framework})
  /\ Keep(LAMBDA x : x.framework # c.framework)
  /\ NoAllocate
  /\ UNCHANGED slaves

ActivateFramework ==
  /\ NextIs("activateFramework")
  /\ frameworks' = [frameworks EXCEPT ![Head(mailbox).framework].active = TRUE]
  /\ KeepAll
  /\ Allocate(slaves)
  /\ UNCHANGED slaves

DeactivateFramework ==
  LET c == Head(mailbox) IN
  /\ NextIs("deactivateFramework")
  /\ frameworks' = [frameworks EXCEPT ![c.framework].active = FALSE]
  /\ Keep(LAMBDA x : x.framework # c.framework)
  /\ NoAllocate
  /\ UNCHANGED slaves

\* The filters of the roles it left go, and those of roles whose suppression ended.
UpdateFramework(unsuppressed) ==
  LET c == Head(mailbox)
      f == c.framework
      left == frameworks[f].roles \ c.roles
  IN  /\ NextIs("updateFramework")
      /\ unsuppressed \subseteq c.roles \cap frameworks[f].roles
      /\ frameworks' = [frameworks EXCEPT ![f].roles = c.roles]
      /\ Keep(LAMBDA x : ~(x.framework = f /\ x.role \in left \cup unsuppressed))
      /\ NoAllocate
      /\ UNCHANGED slaves

\* No roles stands for all the framework has.
ReviveOffers ==
  LET c == Head(mailbox)
      f == c.framework
      roles == IF c.roles = {} THEN frameworks[f].roles ELSE c.roles
  IN  /\ NextIs("reviveOffers")
      /\ Keep(LAMBDA x : ~(x.framework = f /\ x.role \in roles))
      /\ Allocate(slaves)
      /\ UNCHANGED <<frameworks, slaves>>

AddSlave ==
  LET s == Head(mailbox).slave IN
  /\ NextIs("addSlave")
  /\ slaves' = slaves \cup {s}
  /\ KeepAll
  /\ Allocate({s})
  /\ UNCHANGED frameworks

\* removeFilters.
RemoveSlave ==
  LET s == Head(mailbox).slave IN
  /\ NextIs("removeSlave")
  /\ slaves' = slaves \ {s}
  /\ allocationCandidates' = allocationCandidates \ {s}
  /\ mailbox' = Tail(mailbox)
  /\ Keep(LAMBDA x : x.slave # s)
  /\ UNCHANGED frameworks

\* The agent was restarted with other attributes: removeFilters.
UpdateSlave ==
  LET s == Head(mailbox).slave IN
  /\ NextIs("updateSlave")
  /\ Keep(LAMBDA x : x.slave # s)
  /\ Allocate({s})
  /\ UNCHANGED <<frameworks, slaves>>

-----------------------------------------------------------------------------
(* Handlers that install filters, expire them and come by them.            *)

\* What refuse_seconds stands for: too many are cut, less than none is the default.
Refuse(secs) ==
  IF secs > MaxRefuse THEN MaxRefuse ELSE IF secs < 0 THEN DefaultRefuse ELSE secs

Timeout(secs) ==
  IF Refuse(secs) < AllocationInterval THEN AllocationInterval ELSE Refuse(secs)

\* The framework and the agent may be gone, and the role left.
RecoverResources ==
  LET c == Head(mailbox)
      x == [id |-> c.id, framework |-> c.framework, role |-> c.role, slave |-> c.slave,
            amount |-> c.amount]
      refused == /\ c.refuse # None /\ Refuse(c.refuse) # 0
                 /\ c.framework \in DOMAIN frameworks /\ c.slave \in slaves
  IN  /\ NextIs("recoverResources")
      /\ allocated' = [allocated EXCEPT ![<<c.framework, c.role, c.slave>>] = @ - c.amount]
      /\ IF refused
         THEN /\ filters' = filters \cup {x}
              /\ timers' = AddTimer([kind |-> "filter", filter |-> x,
                                     left |-> Timeout(c.refuse)], timers)
              /\ refusals' = refusals \cup {[filter |-> x, left |-> Refuse(c.refuse)]}
         ELSE UNCHANGED <<filters, timers, refusals>>
      /\ NoAllocate
      /\ UNCHANGED <<frameworks, slaves, masterVars, considered>>

\* Slip: the filter is taken out at once.
ExpireAtOnce ==
  LET x == Head(mailbox).filter IN
  /\ NextIs("expire")
  /\ filters' = filters \ {x}
  /\ NoAllocate
  /\ UNCHANGED <<timers, frameworks, slaves, allocated, masterVars, considered, refusals>>

Expire ==
  /\ NextIs("expire")
  /\ mailbox' = Append(Tail(mailbox), [call |-> "_expire", filter |-> Head(mailbox).filter])
  /\ UNCHANGED <<timers, frameworks, slaves, allocated, filters, allocationCandidates,
                 masterVars, considered, refusals>>

\* Slip: a framework that has left the role is not looked up.
ExpireSubscribed ==
  LET x == Head(mailbox).filter IN
  /\ NextIs("_expire")
  /\ filters' = IF x.framework \in DOMAIN frameworks /\ x.role \in frameworks[x.framework].roles
                THEN filters \ {x} ELSE filters
  /\ NoAllocate
  /\ considered' = considered \ {x.id}
  /\ UNCHANGED <<timers, frameworks, slaves, allocated, masterVars, refusals>>

\* _expire: nothing is left to do when the filter is gone.
ExpireFilter ==
  LET x == Head(mailbox).filter IN
  /\ NextIs("_expire")
  /\ filters' = filters \ {x}
  /\ NoAllocate
  /\ considered' = considered \ {x.id}
  /\ UNCHANGED <<timers, frameworks, slaves, allocated, masterVars, refusals>>

\* The loop's call; the loop goes on when the run is over.
PeriodicAllocate ==
  /\ NextIs("allocate")
  /\ Allocate(slaves)
  /\ UNCHANGED <<timers, frameworks, slaves, allocated, filters, masterVars, considered,
                 refusals>>

\* The loop waits for the run: it neither sleeps nor has it a call in the mailbox.
LoopWaits ==
  /\ \A i \in DOMAIN timers : timers[i].kind # "loop"
  /\ [call |-> "allocate"] \notin Calls

\* Slip: a filter is for exactly what was refused.
FilteredExact(f, r, s, n) ==
  \E x \in filters : <<x.framework, x.role, x.slave, x.amount>> = <<f, r, s, n>>

\* isFiltered: the refused resources are a superset.
IsFiltered(f, r, s, n) ==
  \E x \in filters : <<x.framework, x.role, x.slave>> = <<f, r, s>> /\ n <= x.amount

Available(s) ==
  Amount - SumFunctionOnSet(allocated, Framework \X Role \X {s})

\* What a run may give out.
Offers ==
  {offer \in [Framework \X Role \X Slave -> 0..Amount] :
     /\ \A s \in Slave :
          SumFunctionOnSet(offer, Framework \X Role \X {s}) <= Available(s)
     /\ \A f \in Framework, r \in Role, s \in Slave :
          offer[f, r, s] > 0 =>
            /\ f \in DOMAIN frameworks /\ frameworks[f].active /\ r \in frameworks[f].roles
            /\ s \in allocationCandidates
            /\ ~IsFiltered(f, r, s, offer[f, r, s])}

\* _allocate.
Run(offer) ==
  /\ NextIs("_allocate")
  /\ offer \in Offers
  /\ allocated' = [k \in DOMAIN allocated |-> allocated[k] + offer[k]]
  /\ allocationCandidates' = {}
  /\ mailbox' = Tail(mailbox)
  /\ timers' = IF LoopWaits
               THEN AddTimer([kind |-> "loop", left |-> AllocationInterval], timers)
               ELSE timers
  /\ considered' = considered \cup {x.id : x \in {y \in filters : y.slave \in allocationCandidates}}
  /\ UNCHANGED <<frameworks, slaves, filters, masterVars, refusals>>

-----------------------------------------------------------------------------

Master ==
  \/ \E f \in Framework, roles \in SUBSET Role : MasterFramework(f, roles)
  \/ \E f \in Framework : MasterActive(f)
  \/ \E s \in Slave : MasterAgent(s)
  \/ \E f \in Framework, r \in Role, s \in Slave, n \in 1..Amount : MasterRecovers(f, r, s, n)

Handle ==
  \/ AddFramework \/ RemoveFramework \/ ActivateFramework \/ DeactivateFramework
  \/ \E roles \in SUBSET Role : UpdateFramework(roles)
  \/ ReviveOffers
  \/ AddSlave \/ RemoveSlave \/ UpdateSlave
  \/ RecoverResources \/ Expire \/ ExpireFilter
  \/ PeriodicAllocate
  \/ mailbox # <<>> /\ \E offer \in Offers : Run(offer)

Next == Master \/ Tick \/ TimerFires \/ Handle

\* The actor serves its mailbox, time passes and timers fire.
Fairness == WF_vars(Handle) /\ WF_vars(Tick) /\ WF_vars(TimerFires)

Spec == Init /\ [][Next]_vars /\ Fairness

-----------------------------------------------------------------------------
(* Properties.                                                             *)

\* "This ensures that the filter does not expire before we perform the next allocation for
\* this agent" (hierarchical.cpp:1506): when its expiry takes a filter out, a run has come
\* by the agent while it was in force, however late the mailbox is served.
OutlivesNextRun ==
  [][\A x \in filters \ filters' :
       NextIs("expire") \/ NextIs("_expire") => x.id \in considered]_vars

\* For as long as it asked, and unless it revived, left, was deactivated or the agent
\* changed, a framework is not offered what it refused or less of it: not by a run that was
\* already on its way, and not because another of its refusals expired.
RefusalIsHonoured ==
  [][NextIs("_allocate") /\ mailbox' = Tail(mailbox) =>
       \A r \in refusals :
         LET k == <<r.filter.framework, r.filter.role, r.filter.slave>>
         IN  allocated'[k] - allocated[k] \notin 1..r.filter.amount]_vars

\* No filter stays for good, whatever becomes of its framework, role or agent: also not one
\* that a late decline installs for a role the framework has left.
FiltersGo == \A i \in RefusalId : (\E x \in filters : x.id = i) ~> (\A x \in filters : x.id # i)
=============================================================================
