------------------------- MODULE AllocationRunsProofs -------------------------
(***************************************************************************)
(* Theorems about AllocationRuns, for any agents, any number of expected   *)
(* ones and a mailbox of any length: one run at most is on its way, the    *)
(* loop waits for nothing else, and a paused allocator expects more agents *)
(* than it has and considers none.                                         *)
(***************************************************************************)
EXTENDS AllocationRuns, FiniteSetTheorems, TLAPS

-----------------------------------------------------------------------------
(* The mailbox.                                                            *)

\* A call of this name is in m, and there is no second one.
HasIn(m, call) == \E i \in 1..Len(m) : m[i].call = call
OnceIn(m, call) == \A i, j \in 1..Len(m) : m[i].call = call /\ m[j].call = call => i = j

Has(call) == HasIn(mailbox, call)
Once(call) == OnceIn(mailbox, call)

\* A dispatched call is in the mailbox, and is there once if it was not there before.
LEMMA AppendCall ==
  ASSUME NEW m \in Seq(Call), NEW c \in Call, NEW call
  PROVE  /\ Append(m, c) \in Seq(Call)
         /\ HasIn(Append(m, c), call) <=> HasIn(m, call) \/ c.call = call
         /\ OnceIn(m, call) /\ (c.call = call => ~HasIn(m, call)) => OnceIn(Append(m, c), call)
<1>1. /\ Append(m, c) \in Seq(Call) /\ Len(m) \in Nat
      /\ Len(Append(m, c)) = Len(m) + 1
      /\ \A i \in 1..Len(m) : Append(m, c)[i] = m[i]
      /\ Append(m, c)[Len(m) + 1] = c
  OBVIOUS
<1>2. 1..(Len(m) + 1) = 1..Len(m) \cup {Len(m) + 1}
  BY <1>1
<1> QED BY <1>1, <1>2 DEF HasIn, OnceIn

\* Handling the first call takes that one out and leaves the others.
LEMMA TailCalls ==
  ASSUME NEW m \in Seq(Call), m # <<>>, NEW call
  PROVE  /\ Tail(m) \in Seq(Call)
         /\ HasIn(Tail(m), call) => HasIn(m, call)
         /\ OnceIn(m, call) => OnceIn(Tail(m), call)
         /\ OnceIn(m, call) /\ Head(m).call = call => ~HasIn(Tail(m), call)
         /\ Head(m).call # call /\ HasIn(m, call) => HasIn(Tail(m), call)
<1>1. /\ Tail(m) \in Seq(Call) /\ Len(m) \in Nat /\ Len(m) >= 1
      /\ Len(Tail(m)) = Len(m) - 1
      /\ \A i \in 1..Len(Tail(m)) : Tail(m)[i] = m[i + 1]
      /\ Head(m) = m[1]
  OBVIOUS
<1>2. \A i \in 1..Len(Tail(m)) : i + 1 \in 1..Len(m) /\ i + 1 # 1
  BY <1>1
<1>3. \A i \in 1..Len(m) : i # 1 => i - 1 \in 1..Len(Tail(m)) /\ Tail(m)[i - 1] = m[i]
  BY <1>1
<1>4. HasIn(Tail(m), call) => HasIn(m, call)
  BY <1>1, <1>2 DEF HasIn
<1>5. OnceIn(m, call) => OnceIn(Tail(m), call)
  <2> SUFFICES ASSUME OnceIn(m, call), NEW i \in 1..Len(Tail(m)), NEW j \in 1..Len(Tail(m)),
                      Tail(m)[i].call = call, Tail(m)[j].call = call
               PROVE  i = j
    BY DEF OnceIn
  <2>1. i + 1 = j + 1
    BY <1>1, <1>2 DEF OnceIn
  <2> QED BY <2>1
<1>6. OnceIn(m, call) /\ Head(m).call = call => ~HasIn(Tail(m), call)
  <2> SUFFICES ASSUME OnceIn(m, call), m[1].call = call, NEW i \in 1..Len(Tail(m)),
                      Tail(m)[i].call = call
               PROVE  FALSE
    BY <1>1 DEF HasIn
  <2>1. i + 1 \in 1..Len(m) /\ m[i + 1].call = call /\ 1 \in 1..Len(m)
    BY <1>1, <1>2
  <2> QED BY <1>2, <2>1 DEF OnceIn
<1>7. Head(m).call # call /\ HasIn(m, call) => HasIn(Tail(m), call)
  BY <1>1, <1>3 DEF HasIn
<1> QED BY <1>1, <1>4, <1>5, <1>6, <1>7

\* What a call carries, by its name.
LEMMA CallFields ==
  ASSUME NEW c \in Call
  PROVE  /\ c.call \in {"addSlave", "removeSlave", "updateSlave", "activateSlave",
                        "deactivateSlave"} => c.slave \in Slave
         /\ c.call = "recover" => c.expected \in 0..MaxExpected /\ c.quotas \in BOOLEAN
         /\ c.call = "updateWhitelist" => c.whitelist \subseteq Slave
  BY DEF Call

\* The calls without arguments.
LEMMA PlainCalls ==
  ASSUME NEW name \in {"reviveOffers", "allocate", "_allocate", "resume"}
  PROVE  [call |-> name] \in Call
  BY DEF Call

-----------------------------------------------------------------------------
(* The inductive invariant.                                                *)

\* The future is pending exactly while the run's call is in the mailbox.
RunInMailbox == Once("_allocate") /\ (allocation <=> Has("_allocate"))

\* recover() is called once; its timer is set when it is handled and calls resume() once.
RecoveryInOrder ==
  /\ elected => timer = "unset"
  /\ Once("recover")
  /\ Has("recover") => ~elected /\ timer = "unset"
  /\ Has("resume") => timer = "fired"

\* The timer that recover() sets is there for the pause, and the pause for the agents.
PauseHasTimer ==
  /\ paused => timer # "unset"
  /\ timer = "set" /\ expectedAgentCount # None => paused

IInv ==
  /\ TypeOK
  /\ IsFiniteSet(Known)
  /\ RunInMailbox
  /\ RecoveryInOrder
  /\ PauseHasTimer
  /\ LoopWaitsForRun
  /\ PausedWhileTooFew

\* What every handler but those of recover() and the run does to the mailbox.
Handled ==
  /\ mailbox' \in Seq(Call) /\ allocation' \in BOOLEAN /\ allocationCandidates' \subseteq Slave
  /\ RunInMailbox'
  /\ Once("recover")'
  /\ Has("recover")' => Has("recover")
  /\ Has("resume")' => Has("resume")
  /\ allocation => allocation'

\* A handler that asks for a run keeps what the invariant says of the mailbox, and leaves a run
\* on its way unless the allocator is paused.
LEMMA AllocateHandled ==
  ASSUME IInv, mailbox # <<>>, Head(mailbox).call # "_allocate",
         NEW slaveIds \in SUBSET Slave, NEW isPaused \in BOOLEAN, Allocate(slaveIds, isPaused)
  PROVE  Handled /\ (~isPaused => allocation')
<1>1. /\ mailbox \in Seq(Call) /\ allocation \in BOOLEAN /\ allocationCandidates \subseteq Slave
      /\ Once("_allocate") /\ (allocation <=> Has("_allocate")) /\ Once("recover")
  BY DEF IInv, TypeOK, RunInMailbox, RecoveryInOrder
<1>2. /\ Tail(mailbox) \in Seq(Call)
      /\ OnceIn(Tail(mailbox), "_allocate") /\ OnceIn(Tail(mailbox), "recover")
      /\ HasIn(Tail(mailbox), "_allocate") <=> allocation
      /\ HasIn(Tail(mailbox), "recover") => Has("recover")
      /\ HasIn(Tail(mailbox), "resume") => Has("resume")
  BY <1>1, TailCalls DEF Has, Once
<1>3. CASE mailbox' = Tail(mailbox)
  <2>1. allocation' = allocation
    BY <1>1, <1>2, <1>3, AppendCall, PlainCalls DEF Allocate, NoAllocate
  <2>2. allocationCandidates' \subseteq Slave /\ (~isPaused => allocation')
    BY <1>1 DEF Allocate, NoAllocate
  <2> QED BY <1>1, <1>2, <1>3, <2>1, <2>2 DEF Handled, RunInMailbox, Has, Once
<1>4. CASE mailbox' # Tail(mailbox)
  <2>1. /\ ~allocation /\ allocation' = TRUE
        /\ mailbox' = Append(Tail(mailbox), [call |-> "_allocate"])
        /\ allocationCandidates' \subseteq Slave
    BY <1>1, <1>4 DEF Allocate, NoAllocate
  <2>2. [call |-> "_allocate"] \in Call
    BY PlainCalls
  <2>3. /\ mailbox' \in Seq(Call)
        /\ OnceIn(mailbox', "_allocate") /\ OnceIn(mailbox', "recover")
        /\ HasIn(mailbox', "_allocate")
        /\ HasIn(mailbox', "recover") => HasIn(Tail(mailbox), "recover")
        /\ HasIn(mailbox', "resume") => HasIn(Tail(mailbox), "resume")
    BY <1>2, <2>1, <2>2, AppendCall
  <2> QED BY <1>2, <2>1, <2>3 DEF Handled, RunInMailbox, Has, Once
<1> QED BY <1>3, <1>4

\* So does one that asks for none.
LEMMA NoAllocateHandled ==
  ASSUME IInv, mailbox # <<>>, Head(mailbox).call # "_allocate", mailbox' = Tail(mailbox),
         allocation' = allocation, allocationCandidates' \subseteq Slave
  PROVE  Handled
<1>1. /\ mailbox \in Seq(Call) /\ allocation \in BOOLEAN
      /\ Once("_allocate") /\ (allocation <=> Has("_allocate")) /\ Once("recover")
  BY DEF IInv, TypeOK, RunInMailbox, RecoveryInOrder
<1>2. /\ Tail(mailbox) \in Seq(Call)
      /\ OnceIn(Tail(mailbox), "_allocate") /\ OnceIn(Tail(mailbox), "recover")
      /\ HasIn(Tail(mailbox), "_allocate") <=> allocation
      /\ HasIn(Tail(mailbox), "recover") => Has("recover")
      /\ HasIn(Tail(mailbox), "resume") => Has("resume")
  BY <1>1, TailCalls DEF Has, Once
<1> QED BY <1>1, <1>2 DEF Handled, RunInMailbox, Has, Once

-----------------------------------------------------------------------------
(* The invariant at the start and under each action.                       *)

\* The invariant holds when the allocator starts.
LEMMA InitIInv == Init => IInv
<1> SUFFICES ASSUME Init PROVE IInv
  OBVIOUS
<1>1. TypeOK
  <2>1. mailbox \in Seq(Call)
    BY DEF Init
  <2>2. DOMAIN slaves \subseteq Slave /\ \A s \in DOMAIN slaves : slaves[s] \in BOOLEAN
    BY DEF Init
  <2>3. expectedAgentCount \in 0..MaxExpected \cup {None}
    BY DEF Init
  <2> QED BY <2>1, <2>2, <2>3 DEF Init, TypeOK
<1>2. IsFiniteSet(Known)
  BY FS_EmptySet DEF Init, Known
<1>3. \A call : ~Has(call) /\ Once(call)
  BY DEF Init, Has, HasIn, Once, OnceIn
<1>4. RunInMailbox /\ RecoveryInOrder /\ PauseHasTimer /\ LoopWaitsForRun /\ PausedWhileTooFew
  BY <1>3 DEF Init, RunInMailbox, RecoveryInOrder, PauseHasTimer, LoopWaitsForRun,
              PausedWhileTooFew
<1> QED BY <1>1, <1>2, <1>4 DEF IInv

\* A handler that leaves the recovery and the loop alone.
LEMMA OtherHandler ==
  ASSUME IInv, Handled, slaves' = slaves, whitelist' \subseteq Slave,
         UNCHANGED <<paused, expectedAgentCount, loop, timer, registered, elected>>
  PROVE  IInv'
<1>1. TypeOK' /\ IsFiniteSet(Known)'
  BY DEF IInv, TypeOK, Handled, Known
<1>2. RecoveryInOrder'
  BY DEF IInv, RecoveryInOrder, Handled
<1>3. PauseHasTimer' /\ LoopWaitsForRun' /\ PausedWhileTooFew'
  BY DEF IInv, PauseHasTimer, LoopWaitsForRun, PausedWhileTooFew, Handled, Known
<1> QED BY <1>1, <1>2, <1>3 DEF IInv, Handled

\* A call from outside that is no run and no resume; one of recover() by an elected master.
LEMMA MasterCall ==
  ASSUME IInv, NEW c \in Call, FromMaster(c), c.call \notin {"_allocate", "resume"},
         registered' \subseteq Slave,
         elected' \in BOOLEAN /\ (elected' => elected), c.call = "recover" => elected /\ ~elected'
  PROVE  IInv'
<1>1. /\ mailbox' = Append(mailbox, c)
      /\ UNCHANGED <<slaves, whitelist, paused, expectedAgentCount, allocationCandidates,
                     allocation, loop, timer>>
  BY DEF FromMaster
<1>2. mailbox \in Seq(Call)
  BY DEF IInv, TypeOK
<1>3. TypeOK' /\ IsFiniteSet(Known)'
  <2>1. mailbox' \in Seq(Call)
    BY <1>1, <1>2, AppendCall
  <2> QED BY <1>1, <2>1 DEF IInv, TypeOK, Known
<1>4. RunInMailbox'
  BY <1>1, <1>2, AppendCall DEF IInv, RunInMailbox, Has, Once
<1>5. RecoveryInOrder'
  <2>1. elected => ~Has("recover")
    BY DEF IInv, RecoveryInOrder
  <2>2. Once("recover")' /\ (Has("recover")' <=> Has("recover") \/ c.call = "recover")
    BY <1>1, <1>2, <2>1, AppendCall DEF IInv, RecoveryInOrder, Has, Once
  <2>3. Has("resume")' <=> Has("resume")
    BY <1>1, <1>2, AppendCall DEF Has
  <2> QED BY <1>1, <2>2, <2>3 DEF IInv, RecoveryInOrder
<1>6. PauseHasTimer' /\ LoopWaitsForRun' /\ PausedWhileTooFew'
  BY <1>1 DEF IInv, PauseHasTimer, LoopWaitsForRun, PausedWhileTooFew, Known
<1> QED BY <1>3, <1>4, <1>5, <1>6 DEF IInv

\* No call of the master breaks it: it recovers once, and names agents it has registered.
LEMMA MasterKeepsIInv ==
  ASSUME IInv, Master
  PROVE  IInv'
<1> elected \in BOOLEAN /\ registered \subseteq Slave
  BY DEF IInv, TypeOK
<1>1. ASSUME NEW expected \in 0..MaxExpected, NEW quotas \in BOOLEAN,
             MasterRecover(expected, quotas)
      PROVE  IInv'
  <2> DEFINE c == [call |-> "recover", expected |-> expected, quotas |-> quotas]
  <2>1. c \in Call /\ c.call = "recover"
    BY DEF Call
  <2>2. FromMaster(c) /\ elected /\ ~elected' /\ elected' \in BOOLEAN /\ registered' = registered
    BY <1>1 DEF MasterRecover
  <2> HIDE DEF c
  <2> QED BY <2>1, <2>2, MasterCall
<1>2. ASSUME NEW s \in Slave, MasterAddSlave(s) PROVE IInv'
  <2>1. [call |-> "addSlave", slave |-> s] \in Call
    BY DEF Call
  <2> QED BY <1>2, <2>1, MasterCall DEF MasterAddSlave
<1>3. ASSUME NEW s \in Slave, MasterRemoveSlave(s) PROVE IInv'
  <2>1. [call |-> "removeSlave", slave |-> s] \in Call
    BY DEF Call
  <2> QED BY <1>3, <2>1, MasterCall DEF MasterRemoveSlave
<1>4. ASSUME NEW s \in Slave, MasterOther(s) PROVE IInv'
  <2>1. ASSUME NEW call \in {"updateSlave", "activateSlave", "deactivateSlave"},
               FromMaster([call |-> call, slave |-> s])
        PROVE  IInv'
    <3>1. [call |-> call, slave |-> s] \in Call
      BY DEF Call
    <3> QED BY <1>4, <2>1, <3>1, MasterCall DEF MasterOther
  <2>2. ASSUME FromMaster([call |-> "reviveOffers"]) PROVE IInv'
    <3>1. [call |-> "reviveOffers"] \in Call
      BY PlainCalls
    <3> QED BY <1>4, <2>2, <3>1, MasterCall DEF MasterOther
  <2>3. ASSUME NEW w \in SUBSET Slave,
               FromMaster([call |-> "updateWhitelist", whitelist |-> w])
        PROVE  IInv'
    <3>1. [call |-> "updateWhitelist", whitelist |-> w] \in Call
      BY DEF Call
    <3> QED BY <1>4, <2>3, <3>1, MasterCall DEF MasterOther
  <2> QED BY <1>4, <2>1, <2>2, <2>3 DEF MasterOther
<1> QED BY <1>1, <1>2, <1>3, <1>4 DEF Master

\* Nor does a timer that fires.
LEMMA TimersKeepIInv ==
  ASSUME IInv, LoopFires \/ RecoveryTimerFires
  PROVE  IInv'
<1>1. mailbox \in Seq(Call)
  BY DEF IInv, TypeOK
<1>2. [call |-> "allocate"] \in Call /\ [call |-> "resume"] \in Call
  BY PlainCalls
<1>3. CASE LoopFires
  <2>1. /\ mailbox' = Append(mailbox, [call |-> "allocate"]) /\ loop' = "dispatched"
        /\ UNCHANGED <<slaves, whitelist, paused, expectedAgentCount, allocationCandidates,
                       allocation, timer, registered, elected>>
    BY <1>3 DEF LoopFires
  <2>2. /\ mailbox' \in Seq(Call)
        /\ RunInMailbox' /\ Once("recover")'
        /\ Has("recover")' <=> Has("recover")
        /\ Has("resume")' <=> Has("resume")
    BY <1>1, <1>2, <2>1, AppendCall DEF IInv, RunInMailbox, RecoveryInOrder, Has, Once
  <2>3. TypeOK' /\ IsFiniteSet(Known)'
    BY <2>1, <2>2 DEF IInv, TypeOK, Known
  <2>4. RecoveryInOrder'
    BY <2>1, <2>2 DEF IInv, RecoveryInOrder
  <2> QED BY <2>1, <2>2, <2>3, <2>4
          DEF IInv, PauseHasTimer, LoopWaitsForRun, PausedWhileTooFew, Known
<1>4. CASE RecoveryTimerFires
  <2>1. /\ timer = "set" /\ timer' = "fired"
        /\ mailbox' = Append(mailbox, [call |-> "resume"])
        /\ UNCHANGED <<slaves, whitelist, paused, expectedAgentCount, allocationCandidates,
                       allocation, loop, registered, elected>>
    BY <1>4 DEF RecoveryTimerFires
  <2>2. /\ mailbox' \in Seq(Call)
        /\ RunInMailbox' /\ Once("recover")'
        /\ Has("recover")' <=> Has("recover")
    BY <1>1, <1>2, <2>1, AppendCall DEF IInv, RunInMailbox, RecoveryInOrder, Has, Once
  <2>3. TypeOK' /\ IsFiniteSet(Known)'
    BY <2>1, <2>2 DEF IInv, TypeOK, Known
  <2>4. RecoveryInOrder'
    BY <2>1, <2>2 DEF IInv, RecoveryInOrder
  <2> QED BY <2>1, <2>2, <2>3, <2>4
          DEF IInv, PauseHasTimer, LoopWaitsForRun, PausedWhileTooFew, Known
<1> QED BY <1>3, <1>4

\* recover() comes before any resume(), and no second one comes after it.
LEMMA RecoverKeepsIInv ==
  ASSUME IInv, Recover
  PROVE  IInv'
<1> DEFINE c == Head(mailbox)
<1>1. /\ mailbox # <<>> /\ c.call = "recover" /\ Known = {}
      /\ mailbox' = Tail(mailbox)
      /\ UNCHANGED <<allocationCandidates, allocation, slaves, whitelist, loop, registered,
                     elected>>
  BY DEF Recover, NextIs, NoAllocate
<1>2. mailbox \in Seq(Call) /\ c \in Call
  BY <1>1 DEF IInv, TypeOK
<1>3. c.expected \in 0..MaxExpected
  BY <1>1, <1>2, CallFields
<1>4. Handled
  BY <1>1, NoAllocateHandled DEF IInv, TypeOK
<1>5. Has("recover")
  BY <1>1, <1>2 DEF Has, HasIn
<1>6. ~elected /\ timer = "unset" /\ ~paused /\ ~Has("resume")
  BY <1>5 DEF IInv, RecoveryInOrder, PauseHasTimer
<1>7. ~Has("recover")' /\ ~Has("resume")'
  <2>1. ~HasIn(Tail(mailbox), "recover")
    BY <1>1, <1>2, TailCalls DEF IInv, RecoveryInOrder, Once
  <2> QED BY <1>1, <1>4, <1>6, <2>1 DEF Handled, Has
<1>8. \/ UNCHANGED <<expectedAgentCount, paused, timer>>
      \/ expectedAgentCount' = c.expected /\ c.expected > 0 /\ paused' = TRUE /\ timer' = "set"
      \/ expectedAgentCount' = c.expected /\ UNCHANGED <<paused, timer>>
  BY DEF Recover
<1> HIDE DEF c
<1>9. TypeOK' /\ IsFiniteSet(Known)'
  BY <1>1, <1>3, <1>4, <1>8 DEF IInv, TypeOK, Handled, Known
<1>10. RecoveryInOrder'
  BY <1>1, <1>4, <1>6, <1>7 DEF RecoveryInOrder, Handled
<1>11. PauseHasTimer'
  BY <1>6, <1>8 DEF PauseHasTimer
<1>12. LoopWaitsForRun'
  BY <1>1 DEF IInv, LoopWaitsForRun
<1>13. PausedWhileTooFew'
  <2>1. Known' = {} /\ Cardinality(Known') = 0
    BY <1>1, FS_EmptySet DEF Known
  <2>2. c.expected \in Nat
    BY <1>3, BoundsAssumption
  <2>3. paused' => expectedAgentCount' = c.expected /\ c.expected > 0
    BY <1>6, <1>8
  <2> QED BY <2>1, <2>2, <2>3 DEF PausedWhileTooFew, None
<1> QED BY <1>4, <1>9, <1>10, <1>11, <1>12, <1>13 DEF IInv, Handled

\* Nor resume(), which is in the mailbox only after the recovery timer has fired.
LEMMA ResumeKeepsIInv ==
  ASSUME IInv, Resume
  PROVE  IInv'
<1>1. /\ mailbox # <<>> /\ Head(mailbox).call = "resume" /\ paused' = FALSE
      /\ mailbox' = Tail(mailbox)
      /\ UNCHANGED <<allocationCandidates, allocation, slaves, whitelist, expectedAgentCount,
                     loop, timer, registered, elected>>
  BY DEF Resume, NextIs, NoAllocate
<1>2. Handled
  BY <1>1, NoAllocateHandled DEF IInv, TypeOK
<1>3. timer = "fired"
  <2>1. Has("resume")
    BY <1>1 DEF IInv, TypeOK, Has, HasIn
  <2> QED BY <2>1 DEF IInv, RecoveryInOrder
<1>4. TypeOK' /\ IsFiniteSet(Known)'
  BY <1>1, <1>2 DEF IInv, TypeOK, Handled, Known
<1>5. RecoveryInOrder'
  BY <1>1, <1>2 DEF IInv, RecoveryInOrder, Handled
<1>6. PauseHasTimer' /\ LoopWaitsForRun' /\ PausedWhileTooFew'
  BY <1>1, <1>3 DEF IInv, PauseHasTimer, LoopWaitsForRun, PausedWhileTooFew
<1> QED BY <1>2, <1>4, <1>5, <1>6 DEF IInv, Handled

\* An agent more: either it ends the pause or there are still too few.
LEMMA AddSlaveKeepsIInv ==
  ASSUME IInv, AddSlave
  PROVE  IInv'
<1> DEFINE s == Head(mailbox).slave
           enough == paused /\ expectedAgentCount # None /\ Recovered(Known \cup {s})
<1>1. /\ mailbox # <<>> /\ Head(mailbox).call = "addSlave"
      /\ slaves' = [t \in Known \cup {s} |-> IF t = s THEN TRUE ELSE slaves[t]]
      /\ expectedAgentCount' = (IF enough THEN None ELSE expectedAgentCount)
      /\ paused' = (paused /\ ~enough)
      /\ Allocate({s}, paused')
      /\ UNCHANGED <<whitelist, loop, timer, registered, elected>>
  BY DEF AddSlave, NextIs
<1>2. s \in Slave
  <2>1. Head(mailbox) \in Call
    BY <1>1 DEF IInv, TypeOK
  <2> QED BY <1>1, <2>1, CallFields
<1>3. paused' \in BOOLEAN
  BY <1>1 DEF IInv, TypeOK
<1>4. Handled
  BY <1>1, <1>2, <1>3, AllocateHandled
<1>5. /\ IsFiniteSet(Known \cup {s}) /\ Cardinality(Known \cup {s}) \in Nat
      /\ Known' = Known \cup {s}
  BY <1>1, FS_AddElement, FS_CardinalityType DEF IInv, Known
<1>6. paused' => paused /\ expectedAgentCount' = expectedAgentCount
  BY <1>1
<1>7. paused /\ ~paused' => expectedAgentCount' = None
  BY <1>1
<1>8. paused' /\ expectedAgentCount # None => ~(Cardinality(Known \cup {s}) >= expectedAgentCount)
  BY <1>1 DEF Recovered
<1>9. TypeOK' /\ IsFiniteSet(Known)'
  <2>1. DOMAIN slaves' \subseteq Slave /\ \A t \in DOMAIN slaves' : slaves'[t] \in BOOLEAN
    BY <1>1, <1>2 DEF IInv, TypeOK, Known
  <2>2. expectedAgentCount' \in 0..MaxExpected \cup {None}
    BY <1>1 DEF IInv, TypeOK
  <2> QED BY <1>1, <1>3, <1>4, <1>5, <2>1, <2>2 DEF IInv, TypeOK, Handled
<1>10. RecoveryInOrder'
  BY <1>1, <1>4 DEF IInv, RecoveryInOrder, Handled
<1>11. PauseHasTimer'
  <2>1. expectedAgentCount' # None => expectedAgentCount' = expectedAgentCount
    BY <1>1
  <2> QED BY <1>1, <1>6, <1>7, <2>1 DEF IInv, PauseHasTimer
<1>12. LoopWaitsForRun'
  BY <1>1, <1>4 DEF IInv, LoopWaitsForRun, Handled
<1>13. PausedWhileTooFew'
  <2> SUFFICES ASSUME paused'
               PROVE  expectedAgentCount' # None /\ Cardinality(Known') < expectedAgentCount'
    BY DEF PausedWhileTooFew
  <2>1. paused /\ expectedAgentCount' = expectedAgentCount /\ expectedAgentCount # None
    BY <1>6 DEF IInv, PausedWhileTooFew
  <2>2. expectedAgentCount \in Int
    BY BoundsAssumption DEF IInv, TypeOK, None
  <2> QED BY <1>5, <1>8, <2>1, <2>2
<1> QED BY <1>4, <1>9, <1>10, <1>11, <1>12, <1>13 DEF IInv, Handled

\* Nor removeSlave(), which takes the agent out of the candidates.
LEMMA RemoveSlaveKeepsIInv ==
  ASSUME IInv, RemoveSlave
  PROVE  IInv'
<1> DEFINE s == Head(mailbox).slave
<1>1. /\ mailbox # <<>> /\ Head(mailbox).call = "removeSlave" /\ s \in Known
      /\ slaves' = [t \in Known \ {s} |-> slaves[t]]
      /\ allocationCandidates' = allocationCandidates \ {s}
      /\ mailbox' = Tail(mailbox)
      /\ UNCHANGED <<whitelist, paused, expectedAgentCount, allocation, loop, timer,
                     registered, elected>>
  BY DEF RemoveSlave, NextIs
<1>2. Handled
  BY <1>1, NoAllocateHandled DEF IInv, TypeOK
<1>3. /\ Known' = Known \ {s} /\ IsFiniteSet(Known')
      /\ Cardinality(Known') = Cardinality(Known) - 1
      /\ Cardinality(Known) \in Nat
  BY <1>1, FS_RemoveElement, FS_CardinalityType DEF IInv, Known
<1> HIDE DEF s
<1>4. TypeOK' /\ IsFiniteSet(Known)'
  <2>1. DOMAIN slaves' \subseteq Slave /\ \A t \in DOMAIN slaves' : slaves'[t] \in BOOLEAN
    BY <1>1 DEF IInv, TypeOK, Known
  <2> QED BY <1>1, <1>2, <1>3, <2>1 DEF IInv, TypeOK, Handled
<1>5. RecoveryInOrder'
  BY <1>1, <1>2 DEF IInv, RecoveryInOrder, Handled
<1>6. PauseHasTimer' /\ LoopWaitsForRun'
  BY <1>1 DEF IInv, PauseHasTimer, LoopWaitsForRun
<1>7. PausedWhileTooFew'
  <2>1. expectedAgentCount \in Int
    BY BoundsAssumption DEF IInv, TypeOK, None
  <2> QED BY <1>1, <1>3, <2>1 DEF IInv, PausedWhileTooFew
<1> QED BY <1>2, <1>4, <1>5, <1>6, <1>7 DEF IInv, Handled

\* The handlers that may ask for a run and do nothing else that matters here.
LEMMA OthersKeepIInv ==
  ASSUME IInv, \/ SetActivated \/ UpdateWhitelist \/ ReviveOffers
               \/ \E changed \in BOOLEAN : UpdateSlave(changed)
  PROVE  IInv'
<1> /\ paused \in BOOLEAN /\ Known \subseteq Slave /\ whitelist \subseteq Slave
    /\ allocationCandidates \subseteq Slave
    /\ mailbox # <<>> => Head(mailbox) \in Call
  BY DEF IInv, TypeOK, Known
<1>1. CASE SetActivated
  <2>1. /\ mailbox # <<>> /\ Head(mailbox).call \in {"activateSlave", "deactivateSlave"}
        /\ slaves' = [slaves EXCEPT ![Head(mailbox).slave] = (Head(mailbox).call = "activateSlave")]
        /\ mailbox' = Tail(mailbox)
        /\ UNCHANGED <<allocationCandidates, allocation, whitelist, paused, expectedAgentCount,
                       loop, timer, registered, elected>>
    BY <1>1 DEF SetActivated, NextIs, NoAllocate
  <2>2. Handled
    BY <2>1, NoAllocateHandled
  <2>3. DOMAIN slaves' = DOMAIN slaves /\ \A t \in DOMAIN slaves' : slaves'[t] \in BOOLEAN
    BY <2>1 DEF IInv, TypeOK
  <2>4. TypeOK' /\ IsFiniteSet(Known)' /\ Known' = Known
    BY <2>1, <2>2, <2>3 DEF IInv, TypeOK, Handled, Known
  <2>5. RecoveryInOrder'
    BY <2>1, <2>2 DEF IInv, RecoveryInOrder, Handled
  <2> QED BY <2>1, <2>2, <2>4, <2>5
          DEF IInv, PauseHasTimer, LoopWaitsForRun, PausedWhileTooFew, Handled
<1>2. CASE UpdateWhitelist
  <2>1. /\ mailbox # <<>> /\ Head(mailbox).call = "updateWhitelist"
        /\ whitelist' = Head(mailbox).whitelist
        /\ mailbox' = Tail(mailbox)
        /\ UNCHANGED <<allocationCandidates, allocation, slaves, paused, expectedAgentCount,
                       loop, timer, registered, elected>>
    BY <1>2 DEF UpdateWhitelist, NextIs, NoAllocate
  <2>2. Handled
    BY <2>1, NoAllocateHandled
  <2>3. whitelist' \subseteq Slave
    BY <2>1, CallFields
  <2> QED BY <2>1, <2>2, <2>3, OtherHandler
<1>3. CASE ReviveOffers
  <2>1. /\ mailbox # <<>> /\ Head(mailbox).call = "reviveOffers" /\ Allocate(Known, paused)
        /\ UNCHANGED <<slaves, whitelist, paused, expectedAgentCount, loop, timer, registered,
                       elected>>
    BY <1>3 DEF ReviveOffers, NextIs
  <2>2. Handled
    BY <2>1, AllocateHandled
  <2> QED BY <2>1, <2>2, OtherHandler
<1>4. ASSUME NEW changed \in BOOLEAN, UpdateSlave(changed) PROVE IInv'
  <2>1. /\ mailbox # <<>> /\ Head(mailbox).call = "updateSlave"
        /\ UNCHANGED <<slaves, whitelist, paused, expectedAgentCount, loop, timer, registered,
                       elected>>
    BY <1>4 DEF UpdateSlave, NextIs
  <2>2. Head(mailbox).slave \in Slave
    BY <2>1, CallFields
  <2>3. CASE changed
    <3>1. Allocate({Head(mailbox).slave}, paused)
      BY <1>4, <2>3 DEF UpdateSlave
    <3>2. Handled
      BY <2>1, <2>2, <3>1, AllocateHandled
    <3> QED BY <2>1, <3>2, OtherHandler
  <2>4. CASE ~changed
    <3>1. mailbox' = Tail(mailbox) /\ UNCHANGED <<allocationCandidates, allocation>>
      BY <1>4, <2>4 DEF UpdateSlave, NoAllocate
    <3>2. Handled
      BY <2>1, <3>1, NoAllocateHandled
    <3> QED BY <2>1, <3>2, OtherHandler
  <2> QED BY <2>3, <2>4
<1> QED BY <1>1, <1>2, <1>3, <1>4

\* The loop waits only when the run it asked for is on its way.
LEMMA PeriodicAllocateKeepsIInv ==
  ASSUME IInv, PeriodicAllocate
  PROVE  IInv'
<1>1. /\ mailbox # <<>> /\ Head(mailbox).call = "allocate" /\ Allocate(Known, paused)
      /\ loop' = IF paused THEN "sleeping" ELSE "waiting"
      /\ UNCHANGED <<slaves, whitelist, paused, expectedAgentCount, timer, registered, elected>>
  BY DEF PeriodicAllocate, NextIs
<1>2. paused \in BOOLEAN /\ Known \subseteq Slave
  BY DEF IInv, TypeOK, Known
<1>3. Handled /\ (~paused => allocation')
  BY <1>1, <1>2, AllocateHandled
<1>4. TypeOK' /\ IsFiniteSet(Known)'
  BY <1>1, <1>3 DEF IInv, TypeOK, Handled, Known
<1>5. RecoveryInOrder'
  BY <1>1, <1>3 DEF IInv, RecoveryInOrder, Handled
<1>6. LoopWaitsForRun'
  BY <1>1, <1>3 DEF LoopWaitsForRun
<1>7. PauseHasTimer' /\ PausedWhileTooFew'
  BY <1>1 DEF IInv, PauseHasTimer, PausedWhileTooFew, Known
<1> QED BY <1>3, <1>4, <1>5, <1>6, <1>7 DEF IInv, Handled

\* Nor a run, which completes the future and wakes the loop.
LEMMA RunKeepsIInv ==
  ASSUME IInv, Run
  PROVE  IInv'
<1>1. /\ mailbox # <<>> /\ Head(mailbox).call = "_allocate"
      /\ allocationCandidates' = IF paused THEN allocationCandidates ELSE {}
      /\ allocation' = FALSE
      /\ loop' = IF loop = "waiting" THEN "sleeping" ELSE loop
      /\ mailbox' = Tail(mailbox)
      /\ UNCHANGED <<slaves, whitelist, paused, expectedAgentCount, timer, registered, elected>>
  BY DEF Run, NextIs
<1>2. mailbox \in Seq(Call) /\ Once("_allocate") /\ Once("recover")
  BY DEF IInv, TypeOK, RunInMailbox, RecoveryInOrder
<1>3. /\ mailbox' \in Seq(Call)
      /\ Once("_allocate")' /\ ~Has("_allocate")'
      /\ Once("recover")'
      /\ Has("recover")' => Has("recover")
      /\ Has("resume")' => Has("resume")
  BY <1>1, <1>2, TailCalls DEF Has, Once
<1>4. TypeOK' /\ IsFiniteSet(Known)'
  BY <1>1, <1>3 DEF IInv, TypeOK, Known
<1>5. RunInMailbox'
  BY <1>1, <1>3 DEF RunInMailbox
<1>6. RecoveryInOrder'
  BY <1>1, <1>3 DEF IInv, RecoveryInOrder
<1>7. PauseHasTimer' /\ LoopWaitsForRun' /\ PausedWhileTooFew'
  BY <1>1 DEF IInv, PauseHasTimer, LoopWaitsForRun, PausedWhileTooFew, Known
<1> QED BY <1>4, <1>5, <1>6, <1>7 DEF IInv

\* No step breaks the invariant.
LEMMA StepKeepsIInv == IInv /\ [Next]_vars => IInv'
<1> SUFFICES ASSUME IInv, [Next]_vars PROVE IInv'
  OBVIOUS
<1>1. CASE UNCHANGED vars
  BY <1>1 DEF IInv, TypeOK, RunInMailbox, RecoveryInOrder, PauseHasTimer, LoopWaitsForRun,
              PausedWhileTooFew, Known, Has, Once, vars
<1>2. CASE Master
  BY <1>2, MasterKeepsIInv
<1>3. CASE LoopFires \/ RecoveryTimerFires
  BY <1>3, TimersKeepIInv
<1>4. CASE Handle
  BY <1>4, RecoverKeepsIInv, ResumeKeepsIInv, AddSlaveKeepsIInv, RemoveSlaveKeepsIInv,
     OthersKeepIInv, PeriodicAllocateKeepsIInv, RunKeepsIInv DEF Handle
<1> QED BY <1>1, <1>2, <1>3, <1>4 DEF Next

\* The invariant holds in every state.
LEMMA Invariance == Spec => []IInv
  BY InitIInv, StepKeepsIInv, PTL DEF Spec

-----------------------------------------------------------------------------
(* The theorems.                                                           *)

\* Every variable, and every call in a mailbox of any length, stays of its type.
THEOREM TypeCorrect == Spec => []TypeOK
<1>1. IInv => TypeOK
  BY DEF IInv
<1> QED BY <1>1, Invariance, PTL

\* Batching, for any number of agents and calls: one run is in the mailbox while the future
\* is pending, and none otherwise.
THEOREM OneRun == Spec => []OneRunOnItsWay
<1>1. ASSUME IInv PROVE OneRunOnItsWay
  <2> DEFINE runs == {i \in 1..Len(mailbox) : mailbox[i].call = "_allocate"}
  <2>1. CASE allocation
    <3>1. PICK i \in 1..Len(mailbox) : mailbox[i].call = "_allocate"
      BY <1>1, <2>1 DEF IInv, RunInMailbox, Has, HasIn
    <3>2. runs = {i}
      BY <1>1, <3>1 DEF IInv, RunInMailbox, Once, OnceIn
    <3>3. Cardinality(runs) = 1
      BY <3>2, FS_Singleton
    <3> QED BY <2>1, <3>3 DEF OneRunOnItsWay
  <2>2. CASE ~allocation
    <3>1. runs = {}
      BY <1>1, <2>2 DEF IInv, RunInMailbox, Has, HasIn
    <3>2. Cardinality(runs) = 0
      BY <3>1, FS_EmptySet
    <3> QED BY <2>2, <3>2 DEF OneRunOnItsWay
  <2> QED BY <2>1, <2>2
<1> QED BY <1>1, Invariance, PTL

\* The loop never hangs on a future that nobody completes.
THEOREM LoopNeverHangs == Spec => []LoopWaitsForRun
<1>1. IInv => LoopWaitsForRun
  BY DEF IInv
<1> QED BY <1>1, Invariance, PTL

\* The CHECK of addSlave holds however many agents are expected.
THEOREM PauseIsForAgents == Spec => []PausedWhileTooFew
<1>1. IInv => PausedWhileTooFew
  BY DEF IInv
<1> QED BY <1>1, Invariance, PTL

\* No run considers an agent between a recovery and its end, by agents or by the timer.
THEOREM NoRunBeforeResume == Spec => NoRunWhileRecovering
<1>1. IInv /\ [Next]_vars =>
        [timer = "set" /\ expectedAgentCount # None => \A s \in Slave : ~RunConsiders(s)]_vars
  BY DEF IInv, PauseHasTimer, RunConsiders
<1> QED BY <1>1, Invariance, PTL DEF Spec, NoRunWhileRecovering
=============================================================================
