-------------------------- MODULE OfferFiltersProofs --------------------------
(***************************************************************************)
(* Theorems about OfferFilters, for any frameworks, roles, agents and      *)
(* times, and a mailbox of any length: a refusal is honoured, and a filter *)
(* outlives the next run for its agent.  The first rests on the timers: a  *)
(* refusal in force has a timer that has no less left, so no call that     *)
(* expires its filter can be in the mailbox.  The second rests on the      *)
(* order of timers and calls: from the filter's timer on to its _expire(), *)
(* the loop's timer, its call and the run it asks for are ahead.           *)
(***************************************************************************)
EXTENDS OfferFilters, FoldTheorems

-----------------------------------------------------------------------------
(* The inductive invariant, as parts about the mailbox q, the timers ts,   *)
(* the agents sl, the candidates cand, the filters F, those a run has come *)
(* by con, and the refusals ref.                                           *)

IsLoop(t) == t.kind = "loop"
IsTimerOf(t, x) == t.kind = "filter" /\ t.filter = x
Expires(c) == c.call \in {"expire", "_expire"}
Refuses(c) == c.call = "recoverResources" /\ c.refuse # None

NoLoop(ts) == \A i \in DOMAIN ts : ~IsLoop(ts[i])
HasCall(q, name) == \E i \in DOMAIN q : q[i].call = name

\* The loop waits for a run to be over.
Waiting(q, ts) == NoLoop(ts) /\ ~HasCall(q, "allocate")

Refusal == [filter : Filter, left : Nat]

Types(q, ts, sl, F, ref) ==
  /\ q \in Seq(Call)
  /\ \A i \in DOMAIN q : Refuses(q[i]) => q[i].id \in RefusalId /\ q[i].refuse \in RefuseSeconds
  /\ ts \in Seq(Timer)
  /\ sl \subseteq Slave
  /\ F \subseteq Filter
  /\ ref \subseteq Refusal

\* The next to fire comes first.
InOrder(ts) == \A i, j \in DOMAIN ts : i < j => ts[i].left <= ts[j].left

\* A refusal's number is used again only when nothing of it is left: no filter, no timer and
\* no call.
FreshRefusals(q, ts, F) ==
  \A i \in DOMAIN q : Refuses(q[i]) =>
    /\ \A x \in F : x.id # q[i].id
    /\ \A j \in DOMAIN ts : ts[j].kind = "filter" => ts[j].filter.id # q[i].id
    /\ \A j \in DOMAIN q : Expires(q[j]) => q[j].filter.id # q[i].id
    /\ \A j \in DOMAIN q : Refuses(q[j]) /\ q[j].id = q[i].id => j = i

\* A filter has one timer, and when it has fired none.
OneTimer(q, ts, F) ==
  /\ \A x, y \in F : x.id = y.id => x = y
  /\ \A i \in DOMAIN ts : ts[i].kind = "filter" =>
       /\ ts[i].filter \in F
       /\ \A j \in DOMAIN ts : ts[j].kind = "filter" /\ ts[j].filter.id = ts[i].filter.id => j = i
  /\ \A i \in DOMAIN q : Expires(q[i]) =>
       /\ \A j \in DOMAIN ts : ts[j].kind = "filter" => ts[j].filter.id # q[i].filter.id
       /\ \A x \in F : x.id = q[i].filter.id => x = q[i].filter

\* A refusal in force has its filter, whose timer runs at least as long.
InForce(ts, F, ref) ==
  \A r \in ref :
    /\ r.left > 0 /\ r.filter \in F
    /\ \E i \in DOMAIN ts : IsTimerOf(ts[i], r.filter) /\ r.left <= ts[i].left

\* When the loop waits, a run is in the mailbox that will come by all agents.
RunComes(q, ts, sl, cand) ==
  Waiting(q, ts) => HasCall(q, "_allocate") /\ sl \subseteq cand

\* Ahead of what expires a filter that no run has come by are, one after the other, the
\* loop's timer, its call and the run.
RunAhead(q, ts, F, con) ==
  \A x \in F : x.id \notin con =>
    /\ \A i \in DOMAIN ts : IsTimerOf(ts[i], x) => \A j \in DOMAIN ts : IsLoop(ts[j]) => j < i
    /\ \A k \in DOMAIN q : q[k].call = "expire" /\ q[k].filter = x =>
         NoLoop(ts) /\ \A m \in DOMAIN q : q[m].call = "allocate" => m < k
    /\ \A k \in DOMAIN q : q[k].call = "_expire" /\ q[k].filter = x =>
         Waiting(q, ts) /\ \E m \in 1..(k - 1) : q[m].call = "_allocate"

Inv(q, ts, sl, cand, F, con, ref) ==
  /\ Types(q, ts, sl, F, ref)
  /\ InOrder(ts)
  /\ FreshRefusals(q, ts, F)
  /\ OneTimer(q, ts, F)
  /\ \A x \in F : x.slave \in sl
  /\ InForce(ts, F, ref)
  /\ RunComes(q, ts, sl, cand)
  /\ RunAhead(q, ts, F, con)

IInv ==
  /\ Inv(mailbox, timers, slaves, allocationCandidates, filters, considered, refusals)
  /\ allocated \in [Framework \X Role \X Slave -> Int]

-----------------------------------------------------------------------------
(* Calls and timers.                                                       *)

\* What the types of calls say.
LEMMA CallFields ==
  ASSUME NEW c \in Call
  PROVE  /\ Expires(c) => c.filter \in Filter
         /\ c.call = "recoverResources" =>
              /\ c.framework \in Framework /\ c.role \in Role /\ c.slave \in Slave
              /\ c.amount \in 1..Amount
         /\ c.call = "allocate" => c = [call |-> "allocate"]
         /\ c.call = "_allocate" => c = [call |-> "_allocate"]
BY DEF Call, Expires

\* What the types of timers say.
LEMMA TimerFields ==
  ASSUME NEW t \in Timer
  PROVE  /\ t.left \in Nat
         /\ IsLoop(t) => t.left <= AllocationInterval
         /\ t.kind \in {"loop", "filter"}
         /\ t.kind = "filter" => t.filter \in Filter
BY BoundsAssumption DEF Timer, IsLoop, Longest

\* What the first call's end leaves.
LEMMA TailOf ==
  ASSUME NEW S, NEW q \in Seq(S), q # <<>>
  PROVE  /\ Tail(q) \in Seq(S)
         /\ DOMAIN Tail(q) = 1..(Len(q) - 1) /\ Len(q) \in Nat \ {0}
         /\ Head(q) = q[1] /\ 1 \in DOMAIN q
         /\ \A i \in DOMAIN Tail(q) : i + 1 \in DOMAIN q /\ Tail(q)[i] = q[i + 1]
         /\ \A i \in DOMAIN q \ {1} : i - 1 \in DOMAIN Tail(q) /\ Tail(q)[i - 1] = q[i]
OBVIOUS

\* What a call at the end adds.
LEMMA AppendTo ==
  ASSUME NEW S, NEW q \in Seq(S), NEW c \in S
  PROVE  /\ Append(q, c) \in Seq(S)
         /\ DOMAIN Append(q, c) = 1..(Len(q) + 1) /\ Len(q) \in Nat
         /\ Append(q, c)[Len(q) + 1] = c
         /\ \A i \in DOMAIN q : i \in DOMAIN Append(q, c) /\ Append(q, c)[i] = q[i]
         /\ \A i \in DOMAIN Append(q, c) : i \in DOMAIN q \/ i = Len(q) + 1
         /\ DOMAIN q = 1..Len(q)
OBVIOUS

\* A call that asks for no run and expires nothing arrives.
LEMMA CallArrives ==
  ASSUME NEW q, NEW ts, NEW sl, NEW cand, NEW F, NEW con, NEW ref,
         Inv(q, ts, sl, cand, F, con, ref),
         NEW c \in Call, c.call \notin {"allocate", "_allocate", "expire", "_expire"},
         Refuses(c) =>
           /\ c.id \in RefusalId /\ c.refuse \in RefuseSeconds
           /\ \A x \in F : x.id # c.id
           /\ \A j \in DOMAIN ts : ts[j].kind = "filter" => ts[j].filter.id # c.id
           /\ \A j \in DOMAIN q : Expires(q[j]) => q[j].filter.id # c.id
           /\ \A j \in DOMAIN q : Refuses(q[j]) => q[j].id # c.id
  PROVE  Inv(Append(q, c), ts, sl, cand, F, con, ref)
<1> DEFINE p == Append(q, c)
<1>0. q \in Seq(Call) /\ Types(q, ts, sl, F, ref)
  BY DEF Inv, Types
<1>1. /\ p \in Seq(Call) /\ Len(q) \in Nat
      /\ DOMAIN q = 1..Len(q) /\ DOMAIN p = 1..(Len(q) + 1)
      /\ \A i \in DOMAIN q : i \in DOMAIN p /\ p[i] = q[i]
      /\ \A i \in DOMAIN p : i \in DOMAIN q \/ i = Len(q) + 1
      /\ p[Len(q) + 1] = c
  BY <1>0, AppendTo
<1> HIDE DEF p
<1>2. ~Expires(c)
  BY DEF Expires
<1>3. \A i \in DOMAIN p : Expires(p[i]) => i \in DOMAIN q /\ p[i] = q[i]
  BY <1>1, <1>2
<1>4. Types(p, ts, sl, F, ref)
  BY <1>0, <1>1 DEF Types
<1>5. FreshRefusals(p, ts, F)
  <2>1. FreshRefusals(q, ts, F)
    BY DEF Inv
  <2> SUFFICES ASSUME NEW i \in DOMAIN p, Refuses(p[i])
               PROVE  /\ \A x \in F : x.id # p[i].id
                      /\ \A j \in DOMAIN ts : ts[j].kind = "filter" => ts[j].filter.id # p[i].id
                      /\ \A j \in DOMAIN p : Expires(p[j]) => p[j].filter.id # p[i].id
                      /\ \A j \in DOMAIN p : Refuses(p[j]) /\ p[j].id = p[i].id => j = i
    BY DEF FreshRefusals
  <2>2. CASE i \in DOMAIN q
    BY <1>1, <1>3, <2>1, <2>2 DEF FreshRefusals
  <2>3. CASE i = Len(q) + 1
    BY <1>1, <1>3, <2>3
  <2> QED BY <1>1, <2>2, <2>3
<1>6. OneTimer(p, ts, F)
  BY <1>3 DEF Inv, OneTimer
<1>7. HasCall(p, "allocate") <=> HasCall(q, "allocate")
  BY <1>1 DEF HasCall
<1>8. HasCall(q, "_allocate") => HasCall(p, "_allocate")
  BY <1>1 DEF HasCall
<1>9. RunComes(p, ts, sl, cand)
  BY <1>7, <1>8 DEF Inv, RunComes, Waiting
<1>10. RunAhead(p, ts, F, con)
  <2>1. RunAhead(q, ts, F, con)
    BY DEF Inv
  <2> SUFFICES ASSUME NEW x \in F, x.id \notin con
               PROVE  /\ \A i \in DOMAIN ts : IsTimerOf(ts[i], x) =>
                           \A j \in DOMAIN ts : IsLoop(ts[j]) => j < i
                      /\ \A k \in DOMAIN p : p[k].call = "expire" /\ p[k].filter = x =>
                           NoLoop(ts) /\ \A m \in DOMAIN p : p[m].call = "allocate" => m < k
                      /\ \A k \in DOMAIN p : p[k].call = "_expire" /\ p[k].filter = x =>
                           Waiting(p, ts) /\ \E m \in 1..(k - 1) : p[m].call = "_allocate"
    BY DEF RunAhead
  <2>2. \A k \in DOMAIN p : p[k].call \in {"expire", "_expire", "allocate"} =>
          k \in DOMAIN q /\ p[k] = q[k]
    BY <1>1
  <2>3. \A i \in DOMAIN ts : IsTimerOf(ts[i], x) => \A j \in DOMAIN ts : IsLoop(ts[j]) => j < i
    BY <2>1 DEF RunAhead
  <2>4. \A k \in DOMAIN p : p[k].call = "expire" /\ p[k].filter = x =>
          NoLoop(ts) /\ \A m \in DOMAIN p : p[m].call = "allocate" => m < k
    BY <2>1, <2>2 DEF RunAhead
  <2>5. ASSUME NEW k \in DOMAIN p, p[k].call = "_expire", p[k].filter = x
        PROVE  Waiting(p, ts) /\ \E m \in 1..(k - 1) : p[m].call = "_allocate"
    <3>1. k \in DOMAIN q /\ p[k] = q[k]
      BY <2>2, <2>5
    <3>2. Waiting(q, ts) /\ \E m \in 1..(k - 1) : q[m].call = "_allocate"
      BY <2>1, <2>5, <3>1 DEF RunAhead
    <3>3. \A m \in 1..(k - 1) : p[m] = q[m]
      BY <1>1, <3>1
    <3> QED BY <1>7, <3>2, <3>3 DEF Waiting
  <2> QED BY <2>3, <2>4, <2>5
<1> QED BY <1>4, <1>5, <1>6, <1>9, <1>10 DEF Inv, p

-----------------------------------------------------------------------------
(* Time passes.                                                            *)

\* All timers and refusals have one unit less.
LEMMA TimePasses ==
  ASSUME NEW q, NEW ts, NEW sl, NEW cand, NEW F, NEW con, NEW ref,
         Inv(q, ts, sl, cand, F, con, ref), ts # <<>>, Head(ts).left > 0
  PROVE  Inv(q, [i \in DOMAIN ts |-> [ts[i] EXCEPT !.left = @ - 1]], sl, cand, F, con,
             {[r EXCEPT !.left = @ - 1] : r \in {o \in ref : o.left > 1}})
<1> DEFINE us == [i \in DOMAIN ts |-> [ts[i] EXCEPT !.left = @ - 1]]
           less == {[r EXCEPT !.left = @ - 1] : r \in {o \in ref : o.left > 1}}
<1>1. ts \in Seq(Timer) /\ Len(ts) \in Nat /\ DOMAIN ts = 1..Len(ts) /\ 1 \in DOMAIN ts
  BY DEF Inv, Types
<1>2. ASSUME NEW i \in DOMAIN ts
      PROVE  ts[i].left \in Nat /\ ts[i].left > 0
  <2>1. ts[i] \in Timer /\ ts[1] \in Timer /\ Head(ts) = ts[1]
    BY <1>1
  <2>2. ts[1].left <= ts[i].left
    <3>1. CASE i = 1
      BY <2>1, <3>1, TimerFields
    <3>2. CASE i # 1
      BY <1>1, <3>2 DEF Inv, InOrder
    <3> QED BY <3>1, <3>2
  <2> QED BY <2>1, <2>2, TimerFields
<1>3. ASSUME NEW i \in DOMAIN ts
      PROVE  /\ us[i] \in Timer
             /\ us[i].left = ts[i].left - 1 /\ us[i].kind = ts[i].kind
             /\ ts[i].kind = "filter" => us[i].filter = ts[i].filter
  <2>1. ts[i] \in Timer
    BY <1>1
  <2>2. CASE ts[i] \in [kind : {"loop"}, left : 0..AllocationInterval]
    <3>1. AllocationInterval \in Nat
      BY BoundsAssumption
    <3>2. us[i] = [kind |-> "loop", left |-> ts[i].left - 1]
      BY <2>2
    <3> QED BY <1>2, <2>2, <3>1, <3>2 DEF Timer
  <2>3. CASE ts[i] \in [kind : {"filter"}, filter : Filter, left : 0..Longest]
    <3>1. Longest \in Nat
      BY BoundsAssumption DEF Longest
    <3>2. us[i] = [kind |-> "filter", filter |-> ts[i].filter, left |-> ts[i].left - 1]
      BY <2>3
    <3> QED BY <1>2, <2>3, <3>1, <3>2 DEF Timer
  <2> QED BY <2>1, <2>2, <2>3 DEF Timer
<1>4. us \in Seq(Timer) /\ DOMAIN us = DOMAIN ts
  <2>1. us \in [1..Len(ts) -> Timer]
    BY <1>1, <1>3
  <2> QED BY <1>1, <2>1
<1> HIDE DEF us
<1>5. ASSUME NEW r \in less
      PROVE  /\ r \in Refusal
             /\ \E o \in ref : o.left > 1 /\ r.left = o.left - 1 /\ r.filter = o.filter
  <2>1. PICK o \in ref : o.left > 1 /\ r = [o EXCEPT !.left = @ - 1]
    BY <1>5
  <2>2. o \in Refusal
    BY DEF Inv, Types
  <2> QED BY <2>1, <2>2 DEF Refusal
<1> HIDE DEF less
<1>6. Types(q, us, sl, F, less)
  BY <1>4, <1>5 DEF Inv, Types
<1>7. InOrder(us)
  BY <1>2, <1>3, <1>4 DEF Inv, InOrder
<1>8. FreshRefusals(q, us, F)
  BY <1>3, <1>4 DEF Inv, FreshRefusals
<1>9. OneTimer(q, us, F)
  BY <1>3, <1>4 DEF Inv, OneTimer
<1>10. InForce(us, F, less)
  <2> SUFFICES ASSUME NEW r \in less
               PROVE  /\ r.left > 0 /\ r.filter \in F
                      /\ \E i \in DOMAIN us : IsTimerOf(us[i], r.filter) /\ r.left <= us[i].left
    BY DEF InForce
  <2>1. PICK o \in ref : o.left > 1 /\ r.left = o.left - 1 /\ r.filter = o.filter
    BY <1>5
  <2>2. o.left \in Nat
    BY DEF Inv, Types, Refusal
  <2>3. PICK i \in DOMAIN ts : IsTimerOf(ts[i], o.filter) /\ o.left <= ts[i].left
    BY DEF Inv, InForce
  <2>4. o.filter \in F
    BY DEF Inv, InForce
  <2>5. IsTimerOf(us[i], r.filter) /\ r.left <= us[i].left /\ i \in DOMAIN us
    BY <1>2, <1>3, <1>4, <2>1, <2>2, <2>3 DEF IsTimerOf
  <2> QED BY <2>1, <2>2, <2>4, <2>5
<1>11. (NoLoop(us) <=> NoLoop(ts)) /\ (Waiting(q, us) <=> Waiting(q, ts))
  BY <1>3, <1>4 DEF NoLoop, Waiting, IsLoop
<1>12. RunComes(q, us, sl, cand)
  BY <1>11 DEF Inv, RunComes
<1>13. \A i \in DOMAIN us : /\ IsLoop(us[i]) <=> IsLoop(ts[i])
                            /\ \A x : IsTimerOf(us[i], x) <=> IsTimerOf(ts[i], x)
  BY <1>3, <1>4 DEF IsLoop, IsTimerOf
<1>14. RunAhead(q, us, F, con)
  BY <1>4, <1>11, <1>13 DEF Inv, RunAhead
<1> QED BY <1>6, <1>7, <1>8, <1>9, <1>10, <1>12, <1>14 DEF Inv, us, less

\* What the other timers have when the first fires.
LEMMA FirstTimerFires ==
  ASSUME NEW q, NEW ts, NEW sl, NEW cand, NEW F, NEW con, NEW ref,
         Inv(q, ts, sl, cand, F, con, ref), ts # <<>>, Head(ts).left = 0
  PROVE  /\ Types(q, Tail(ts), sl, F, ref)
         /\ InOrder(Tail(ts))
         /\ FreshRefusals(q, Tail(ts), F)
         /\ OneTimer(q, Tail(ts), F)
         /\ InForce(Tail(ts), F, ref)
<1> DEFINE us == Tail(ts)
<1>1. /\ ts \in Seq(Timer) /\ Len(ts) \in Nat /\ us \in Seq(Timer)
      /\ DOMAIN ts = 1..Len(ts) /\ DOMAIN us = 1..(Len(ts) - 1) /\ ts[1].left = 0
      /\ \A i \in DOMAIN us : i + 1 \in DOMAIN ts /\ us[i] = ts[i + 1]
      /\ \A i \in DOMAIN ts \ {1} : i - 1 \in DOMAIN us /\ us[i - 1] = ts[i]
  <2>1. ts \in Seq(Timer)
    BY DEF Inv, Types
  <2> QED BY <2>1, TailOf
<1> HIDE DEF us
<1>2. Types(q, us, sl, F, ref)
  BY <1>1 DEF Inv, Types
<1>3. InOrder(us)
  <2> SUFFICES ASSUME NEW i \in DOMAIN us, NEW j \in DOMAIN us, i < j
               PROVE  us[i].left <= us[j].left
    BY DEF InOrder
  <2>1. i + 1 \in DOMAIN ts /\ j + 1 \in DOMAIN ts /\ i + 1 < j + 1
    BY <1>1
  <2> QED BY <1>1, <2>1 DEF Inv, InOrder
<1>4. FreshRefusals(q, us, F)
  BY <1>1 DEF Inv, FreshRefusals
<1>5. OneTimer(q, us, F)
  <2>1. ASSUME NEW i \in DOMAIN us, us[i].kind = "filter", NEW j \in DOMAIN us,
               us[j].kind = "filter", us[j].filter.id = us[i].filter.id
        PROVE  j = i
    <3>1. i + 1 = j + 1
      BY <1>1, <2>1 DEF Inv, OneTimer
    <3> QED BY <1>1, <3>1
  <2>2. \A i \in DOMAIN us : us[i].kind = "filter" => us[i].filter \in F
    BY <1>1 DEF Inv, OneTimer
  <2>3. \A i \in DOMAIN q : Expires(q[i]) =>
          /\ \A j \in DOMAIN us : us[j].kind = "filter" => us[j].filter.id # q[i].filter.id
          /\ \A x \in F : x.id = q[i].filter.id => x = q[i].filter
    BY <1>1 DEF Inv, OneTimer
  <2> QED BY <2>1, <2>2, <2>3 DEF Inv, OneTimer
<1>6. InForce(us, F, ref)
  <2> SUFFICES ASSUME NEW r \in ref
               PROVE  /\ r.left > 0 /\ r.filter \in F
                      /\ \E i \in DOMAIN us : IsTimerOf(us[i], r.filter) /\ r.left <= us[i].left
    BY DEF InForce
  <2>1. r.left \in Nat
    BY DEF Inv, Types, Refusal
  <2>2. r.left > 0 /\ r.filter \in F
    BY DEF Inv, InForce
  <2>3. PICK i \in DOMAIN ts : IsTimerOf(ts[i], r.filter) /\ r.left <= ts[i].left
    BY DEF Inv, InForce
  <2>4. i # 1
    BY <1>1, <2>1, <2>2, <2>3
  <2> QED BY <1>1, <2>2, <2>3, <2>4
<1> QED BY <1>2, <1>3, <1>4, <1>5, <1>6 DEF us

\* The loop's timer fires: its call is in the mailbox, where nothing expires a filter that
\* no run has come by.
LEMMA LoopTimerFires ==
  ASSUME NEW q, NEW ts, NEW sl, NEW cand, NEW F, NEW con, NEW ref,
         Inv(q, ts, sl, cand, F, con, ref), ts # <<>>, Head(ts).left = 0, IsLoop(Head(ts))
  PROVE  Inv(Append(q, [call |-> "allocate"]), Tail(ts), sl, cand, F, con, ref)
<1> DEFINE us == Tail(ts)
           c == [call |-> "allocate"]
           p == Append(q, c)
<1>1. /\ ts \in Seq(Timer) /\ Len(ts) \in Nat
      /\ DOMAIN ts = 1..Len(ts) /\ DOMAIN us = 1..(Len(ts) - 1) /\ IsLoop(ts[1])
      /\ 1 \in DOMAIN ts
      /\ \A i \in DOMAIN us : i + 1 \in DOMAIN ts /\ us[i] = ts[i + 1]
  <2>1. ts \in Seq(Timer)
    BY DEF Inv, Types
  <2> QED BY <2>1, TailOf
<1>2. /\ Types(q, us, sl, F, ref) /\ InOrder(us) /\ FreshRefusals(q, us, F)
      /\ OneTimer(q, us, F) /\ InForce(us, F, ref)
  BY FirstTimerFires
<1>3. /\ p \in Seq(Call) /\ Len(q) \in Nat
      /\ DOMAIN q = 1..Len(q) /\ DOMAIN p = 1..(Len(q) + 1)
      /\ \A i \in DOMAIN q : i \in DOMAIN p /\ p[i] = q[i]
      /\ \A i \in DOMAIN p : i \in DOMAIN q \/ i = Len(q) + 1
      /\ p[Len(q) + 1] = c
  <2>1. q \in Seq(Call) /\ c \in Call
    BY DEF Inv, Types, Call
  <2> QED BY <2>1, AppendTo
<1>4. ~Refuses(c) /\ ~Expires(c) /\ c.call = "allocate"
  BY DEF Refuses, Expires
<1> HIDE DEF us, c, p
<1>5. \A i \in DOMAIN p : Refuses(p[i]) \/ Expires(p[i]) => i \in DOMAIN q /\ p[i] = q[i]
  BY <1>3, <1>4
<1>6. Types(p, us, sl, F, ref)
  BY <1>2, <1>3, <1>5 DEF Types
<1>7. FreshRefusals(p, us, F)
  BY <1>2, <1>5 DEF FreshRefusals
<1>8. OneTimer(p, us, F)
  BY <1>2, <1>5 DEF OneTimer
<1>9. RunComes(p, us, sl, cand)
  BY <1>3, <1>4 DEF RunComes, Waiting, HasCall
<1>10. RunAhead(p, us, F, con)
  <2> SUFFICES ASSUME NEW x \in F, x.id \notin con
               PROVE  /\ \A i \in DOMAIN us : IsTimerOf(us[i], x) =>
                           \A j \in DOMAIN us : IsLoop(us[j]) => j < i
                      /\ \A k \in DOMAIN p : Expires(p[k]) => p[k].filter # x
    BY DEF RunAhead, Expires
  <2>1. ASSUME NEW i \in DOMAIN us, IsTimerOf(us[i], x), NEW j \in DOMAIN us, IsLoop(us[j])
        PROVE  j < i
    <3>1. j + 1 < i + 1
      BY <1>1, <2>1 DEF Inv, RunAhead
    <3> QED BY <1>1, <3>1
  <2>2. ASSUME NEW k \in DOMAIN p, Expires(p[k]), p[k].filter = x
        PROVE  FALSE
    <3>1. k \in DOMAIN q /\ p[k] = q[k]
      BY <1>5, <2>2
    <3>2. NoLoop(ts)
      BY <2>2, <3>1 DEF Inv, RunAhead, Waiting, Expires
    <3> QED BY <1>1, <3>2 DEF NoLoop
  <2> QED BY <2>1, <2>2
<1> QED BY <1>2, <1>6, <1>7, <1>8, <1>9, <1>10 DEF Inv, us, p, c

\* A filter's timer fires: its expiry is in the mailbox, behind the loop's call if that is
\* there, and the loop's timer does not run.
LEMMA FilterTimerFires ==
  ASSUME NEW q, NEW ts, NEW sl, NEW cand, NEW F, NEW con, NEW ref,
         Inv(q, ts, sl, cand, F, con, ref), ts # <<>>, Head(ts).left = 0,
         Head(ts).kind = "filter"
  PROVE  Inv(Append(q, [call |-> "expire", filter |-> Head(ts).filter]), Tail(ts), sl, cand, F,
             con, ref)
<1> DEFINE us == Tail(ts)
           y == Head(ts).filter
           c == [call |-> "expire", filter |-> y]
           p == Append(q, c)
<1>1. /\ ts \in Seq(Timer) /\ Len(ts) \in Nat
      /\ DOMAIN ts = 1..Len(ts) /\ DOMAIN us = 1..(Len(ts) - 1)
      /\ 1 \in DOMAIN ts /\ ts[1] = Head(ts) /\ ts[1].kind = "filter" /\ ts[1].filter = y
      /\ \A i \in DOMAIN us : i + 1 \in DOMAIN ts /\ us[i] = ts[i + 1]
      /\ \A i \in DOMAIN ts \ {1} : i - 1 \in DOMAIN us /\ us[i - 1] = ts[i]
  <2>1. ts \in Seq(Timer)
    BY DEF Inv, Types
  <2> QED BY <2>1, TailOf
<1>2. /\ Types(q, us, sl, F, ref) /\ InOrder(us) /\ FreshRefusals(q, us, F)
      /\ OneTimer(q, us, F) /\ InForce(us, F, ref)
  BY FirstTimerFires
<1>3. y \in Filter /\ c \in Call
  <2>1. ts[1] \in Timer
    BY <1>1
  <2>2. y \in Filter
    BY <1>1, <2>1, TimerFields
  <2> QED BY <2>2 DEF Call
<1>4. /\ p \in Seq(Call) /\ Len(q) \in Nat
      /\ DOMAIN q = 1..Len(q) /\ DOMAIN p = 1..(Len(q) + 1)
      /\ \A i \in DOMAIN q : i \in DOMAIN p /\ p[i] = q[i]
      /\ \A i \in DOMAIN p : i \in DOMAIN q \/ i = Len(q) + 1
      /\ p[Len(q) + 1] = c
  <2>1. q \in Seq(Call)
    BY DEF Inv, Types
  <2> QED BY <1>3, <2>1, AppendTo
<1>5. /\ ~Refuses(c) /\ Expires(c) /\ c.call = "expire" /\ c.filter = y
  BY DEF Refuses, Expires
<1> HIDE DEF us, c, p, y
<1>6. /\ \A i \in DOMAIN p : Refuses(p[i]) => i \in DOMAIN q /\ p[i] = q[i]
      /\ \A i \in DOMAIN p : p[i].call # "expire" => i \in DOMAIN q /\ p[i] = q[i]
  BY <1>4, <1>5
<1>7. Types(p, us, sl, F, ref)
  BY <1>2, <1>4, <1>6 DEF Types
<1>8. FreshRefusals(p, us, F)
  <2> SUFFICES ASSUME NEW i \in DOMAIN q, Refuses(q[i])
               PROVE  y.id # q[i].id
    BY <1>2, <1>4, <1>5, <1>6 DEF FreshRefusals
  <2> QED BY <1>1 DEF Inv, FreshRefusals
<1>9. OneTimer(p, us, F)
  <2>1. \A j \in DOMAIN us : us[j].kind = "filter" => us[j].filter.id # y.id
    <3> SUFFICES ASSUME NEW j \in DOMAIN us, us[j].kind = "filter", us[j].filter.id = y.id
                 PROVE  FALSE
      OBVIOUS
    <3>1. j + 1 = 1
      BY <1>1 DEF Inv, OneTimer
    <3> QED BY <1>1, <3>1
  <2>2. \A x \in F : x.id = y.id => x = y
    BY <1>1 DEF Inv, OneTimer
  <2> QED BY <1>2, <1>4, <1>5, <2>1, <2>2 DEF OneTimer
<1>10. NoLoop(us) <=> NoLoop(ts)
  <2>1. NoLoop(us) => NoLoop(ts)
    BY <1>1 DEF NoLoop, IsLoop
  <2> QED BY <1>1, <2>1 DEF NoLoop
<1>11. \A name : name # "expire" => (HasCall(p, name) <=> HasCall(q, name))
  BY <1>4, <1>6 DEF HasCall
<1>12. Waiting(p, us) <=> Waiting(q, ts)
  BY <1>10, <1>11 DEF Waiting
<1>13. RunComes(p, us, sl, cand)
  BY <1>11, <1>12 DEF Inv, RunComes
<1>14. RunAhead(p, us, F, con)
  <2> SUFFICES ASSUME NEW x \in F, x.id \notin con
               PROVE  /\ \A i \in DOMAIN us : IsTimerOf(us[i], x) =>
                           \A j \in DOMAIN us : IsLoop(us[j]) => j < i
                      /\ \A k \in DOMAIN p : p[k].call = "expire" /\ p[k].filter = x =>
                           NoLoop(us) /\ \A m \in DOMAIN p : p[m].call = "allocate" => m < k
                      /\ \A k \in DOMAIN p : p[k].call = "_expire" /\ p[k].filter = x =>
                           Waiting(p, us) /\ \E m \in 1..(k - 1) : p[m].call = "_allocate"
    BY DEF RunAhead
  <2>0. RunAhead(q, ts, F, con)
    BY DEF Inv
  <2>1. ASSUME NEW i \in DOMAIN us, IsTimerOf(us[i], x), NEW j \in DOMAIN us, IsLoop(us[j])
        PROVE  j < i
    <3>1. j + 1 < i + 1
      BY <1>1, <2>0, <2>1 DEF RunAhead
    <3> QED BY <1>1, <3>1
  <2>2. ASSUME NEW k \in DOMAIN p, p[k].call = "expire", p[k].filter = x
        PROVE  NoLoop(us) /\ \A m \in DOMAIN p : p[m].call = "allocate" => m < k
    <3>1. CASE k \in DOMAIN q
      BY <1>4, <1>6, <1>10, <2>0, <2>2, <3>1 DEF RunAhead
    <3>2. CASE k = Len(q) + 1
      <4>1. IsTimerOf(ts[1], x)
        BY <1>1, <1>4, <1>5, <2>2, <3>2 DEF IsTimerOf
      <4>2. \A j \in DOMAIN ts : IsLoop(ts[j]) => j < 1
        BY <1>1, <2>0, <4>1 DEF RunAhead
      <4>3. NoLoop(ts)
        BY <1>1, <4>2 DEF NoLoop
      <4>4. \A m \in DOMAIN p : p[m].call = "allocate" => m < k
        BY <1>4, <1>6, <3>2
      <4> QED BY <1>10, <4>3, <4>4
    <3> QED BY <1>4, <3>1, <3>2
  <2>3. ASSUME NEW k \in DOMAIN p, p[k].call = "_expire", p[k].filter = x
        PROVE  Waiting(p, us) /\ \E m \in 1..(k - 1) : p[m].call = "_allocate"
    <3>1. k \in DOMAIN q /\ p[k] = q[k]
      BY <1>6, <2>3
    <3>2. Waiting(q, ts) /\ \E m \in 1..(k - 1) : q[m].call = "_allocate"
      BY <2>0, <2>3, <3>1 DEF RunAhead
    <3>3. \A m \in 1..(k - 1) : p[m] = q[m]
      BY <1>4, <3>1
    <3> QED BY <1>12, <3>2, <3>3
  <2> QED BY <2>1, <2>2, <2>3
<1> QED BY <1>2, <1>7, <1>8, <1>9, <1>13, <1>14 DEF Inv, us, p, c, y

-----------------------------------------------------------------------------
(* Handlers.                                                               *)

Remaining(ts, G) == Among(ts, {t \in ToSet(ts) : t.kind = "loop" \/ t.filter \in G})

\* Filters are taken out with their timers, and what they are remembered by; those that stay
\* keep their timers in order.
LEMMA FiltersLeave ==
  ASSUME NEW q, NEW ts, NEW sl, NEW cand, NEW F, NEW con, NEW ref,
         Inv(q, ts, sl, cand, F, con, ref),
         NEW G \in SUBSET F, NEW old \in SUBSET ref, \A r \in old : r.filter \in G
  PROVE  Inv(q, Remaining(ts, G), sl, cand, G, con \cap {x.id : x \in G}, old)
<1> DEFINE us == Remaining(ts, G)
           new == con \cap {x.id : x \in G}
<1>1. ts \in Seq(Timer) /\ Len(ts) \in Nat /\ DOMAIN ts = 1..Len(ts)
  BY DEF Inv, Types
<1> DEFINE Left == {t \in ToSet(ts) : t.kind = "loop" \/ t.filter \in G}
<1>2. us \in Seq(Timer) /\ \E h : Picks(us, ts, Len(ts), Left, h)
  BY <1>1, AmongPicks DEF Remaining
<1>3. PICK h : Picks(us, ts, Len(ts), Left, h)
  BY <1>2
<1>0. \A k \in DOMAIN ts : ts[k] \in Left <=> ts[k].kind = "loop" \/ ts[k].filter \in G
  BY DEF ToSet
<1> HIDE DEF us, Left
<1>4. /\ Len(us) \in Nat /\ DOMAIN us = 1..Len(us)
      /\ \A i \in DOMAIN us : /\ h[i] \in DOMAIN ts /\ us[i] = ts[h[i]]
                              /\ (us[i].kind = "loop" \/ us[i].filter \in G)
      /\ \A i, j \in DOMAIN us : i < j => h[i] < h[j]
      /\ \A k \in DOMAIN ts : ts[k].kind = "loop" \/ ts[k].filter \in G =>
           \E i \in DOMAIN us : h[i] = k
  <2>1. Len(us) \in Nat /\ DOMAIN us = 1..Len(us)
    BY <1>2
  <2>2. /\ h \in [1..Len(us) -> 1..Len(ts)]
        /\ \A i \in 1..Len(us) : us[i] = ts[h[i]] /\ ts[h[i]] \in Left
        /\ \A i, j \in 1..Len(us) : i < j => h[i] < h[j]
        /\ \A k \in 1..Len(ts) : ts[k] \in Left => \E i \in 1..Len(us) : h[i] = k
    BY <1>3 DEF Picks
  <2>3. ASSUME NEW i \in DOMAIN us
        PROVE  /\ h[i] \in DOMAIN ts /\ us[i] = ts[h[i]]
               /\ (us[i].kind = "loop" \/ us[i].filter \in G)
    <3>1. h[i] \in DOMAIN ts /\ us[i] = ts[h[i]] /\ ts[h[i]] \in Left
      BY <1>1, <2>1, <2>2
    <3> QED BY <1>0, <3>1
  <2>4. \A k \in DOMAIN ts : ts[k].kind = "loop" \/ ts[k].filter \in G =>
          \E i \in DOMAIN us : h[i] = k
    BY <1>0, <1>1, <2>1, <2>2
  <2> QED BY <2>1, <2>2, <2>3, <2>4
<1>5. \A i, j \in DOMAIN us : (h[i] = h[j] => i = j) /\ (h[j] < h[i] => j < i)
  <2> SUFFICES ASSUME NEW i \in DOMAIN us, NEW j \in DOMAIN us
               PROVE  (h[i] = h[j] => i = j) /\ (h[j] < h[i] => j < i)
    OBVIOUS
  <2>1. h[i] \in Nat /\ h[j] \in Nat /\ i \in Nat /\ j \in Nat
    BY <1>1, <1>4
  <2>2. (i < j => h[i] < h[j]) /\ (j < i => h[j] < h[i])
    BY <1>4
  <2> QED BY <2>1, <2>2
<1>6. \A x \in G : x \in F /\ (x.id \notin new <=> x.id \notin con)
  OBVIOUS
<1> HIDE DEF new
<1>7. Types(q, us, sl, G, old)
  BY <1>2 DEF Inv, Types
<1>8. InOrder(us)
  BY <1>4 DEF Inv, InOrder
<1>9. FreshRefusals(q, us, G)
  BY <1>4 DEF Inv, FreshRefusals
<1>10. OneTimer(q, us, G)
  <2>1. ASSUME NEW i \in DOMAIN us, us[i].kind = "filter"
        PROVE  /\ us[i].filter \in G
               /\ \A j \in DOMAIN us :
                    us[j].kind = "filter" /\ us[j].filter.id = us[i].filter.id => j = i
    BY <1>4, <1>5, <2>1 DEF Inv, OneTimer
  <2> QED BY <1>4, <2>1 DEF Inv, OneTimer
<1>11. InForce(us, G, old)
  <2> SUFFICES ASSUME NEW r \in old
               PROVE  /\ r.left > 0 /\ r.filter \in G
                      /\ \E i \in DOMAIN us : IsTimerOf(us[i], r.filter) /\ r.left <= us[i].left
    BY DEF InForce
  <2>1. r.left > 0 /\ r.filter \in G
    BY DEF Inv, InForce
  <2>2. PICK k \in DOMAIN ts : IsTimerOf(ts[k], r.filter) /\ r.left <= ts[k].left
    BY DEF Inv, InForce
  <2>3. PICK i \in DOMAIN us : h[i] = k
    BY <1>4, <2>1, <2>2 DEF IsTimerOf
  <2> QED BY <1>4, <2>1, <2>2, <2>3
<1>12. NoLoop(us) <=> NoLoop(ts)
  BY <1>4 DEF NoLoop, IsLoop
<1>13. Waiting(q, us) <=> Waiting(q, ts)
  BY <1>12 DEF Waiting
<1>14. RunComes(q, us, sl, cand)
  BY <1>13 DEF Inv, RunComes
<1>15. RunAhead(q, us, G, new)
  <2> SUFFICES ASSUME NEW x \in G, x.id \notin new
               PROVE  /\ \A i \in DOMAIN us : IsTimerOf(us[i], x) =>
                           \A j \in DOMAIN us : IsLoop(us[j]) => j < i
                      /\ \A k \in DOMAIN q : q[k].call = "expire" /\ q[k].filter = x =>
                           NoLoop(us) /\ \A m \in DOMAIN q : q[m].call = "allocate" => m < k
                      /\ \A k \in DOMAIN q : q[k].call = "_expire" /\ q[k].filter = x =>
                           Waiting(q, us) /\ \E m \in 1..(k - 1) : q[m].call = "_allocate"
    BY DEF RunAhead
  <2>1. x \in F /\ x.id \notin con
    BY <1>6
  <2>2. ASSUME NEW i \in DOMAIN us, IsTimerOf(us[i], x), NEW j \in DOMAIN us, IsLoop(us[j])
        PROVE  j < i
    <3>1. h[j] < h[i]
      BY <1>4, <2>1, <2>2 DEF Inv, RunAhead
    <3> QED BY <1>5, <3>1
  <2> QED BY <1>12, <1>13, <2>1, <2>2 DEF Inv, RunAhead
<1>16. \A x \in G : x.slave \in sl
  BY DEF Inv
<1> QED BY <1>7, <1>8, <1>9, <1>10, <1>11, <1>14, <1>15, <1>16 DEF Inv, us, new

\* p is the mailbox q without its first call, and with a run at its end perhaps.
Handles(q, p) ==
  /\ p \in Seq(Call)
  /\ \A i \in DOMAIN q : i \in 1..Len(q)
  /\ Len(q) \in Nat /\ 1 \in DOMAIN q /\ \A i \in 1..Len(q) : i \in DOMAIN q
  /\ \A i \in DOMAIN q : i # 1 => i - 1 \in DOMAIN p /\ p[i - 1] = q[i]
  /\ \A i \in DOMAIN p : i \in Nat /\ i > 0
  /\ \A i \in DOMAIN p : p[i].call # "_allocate" => i + 1 \in DOMAIN q /\ p[i] = q[i + 1]

\* How a handler leaves the mailbox.
LEMMA FirstHandled ==
  ASSUME NEW q \in Seq(Call), q # <<>>,
         NEW p, p = Tail(q) \/ p = Tail(q) \o << [call |-> "_allocate"] >>
  PROVE  Handles(q, p)
<1> DEFINE t == Tail(q)
           c == [call |-> "_allocate"]
<1>1. /\ t \in Seq(Call) /\ Len(t) = Len(q) - 1 /\ Len(q) \in Nat \ {0}
      /\ DOMAIN t = 1..(Len(q) - 1) /\ DOMAIN q = 1..Len(q)
      /\ \A i \in DOMAIN t : i + 1 \in DOMAIN q /\ t[i] = q[i + 1]
      /\ \A i \in DOMAIN q \ {1} : i - 1 \in DOMAIN t /\ t[i - 1] = q[i]
  BY TailOf
<1>2. CASE p = t
  BY <1>1, <1>2 DEF Handles
<1>3. CASE p = t \o <<c>>
  <2>1. c \in Call
    BY DEF Call
  <2>2. c.call = "_allocate"
    OBVIOUS
  <2> HIDE DEF t, c
  <2>3. /\ p \in Seq(Call) /\ DOMAIN p = 1..(Len(t) + 1) /\ p[Len(t) + 1] = c
        /\ \A i \in DOMAIN t : p[i] = t[i]
    BY <1>1, <1>3, <2>1
  <2> QED BY <1>1, <2>2, <2>3 DEF Handles
<1> QED BY <1>2, <1>3

\* The calls that stay are as they were.
LEMMA CallsStay ==
  ASSUME NEW q, NEW ts, NEW sl, NEW cand, NEW F, NEW con, NEW ref,
         Inv(q, ts, sl, cand, F, con, ref), NEW p, Handles(q, p), NEW agents2 \in SUBSET Slave
  PROVE  Types(p, ts, agents2, F, ref) /\ FreshRefusals(p, ts, F) /\ OneTimer(p, ts, F)
<1>2. /\ p \in Seq(Call) /\ Len(q) \in Nat /\ 1 \in DOMAIN q
      /\ \A i \in DOMAIN q : i \in 1..Len(q)
      /\ \A i \in 1..Len(q) : i \in DOMAIN q
      /\ \A i \in DOMAIN q : i # 1 => i - 1 \in DOMAIN p /\ p[i - 1] = q[i]
      /\ \A i \in DOMAIN p : i \in Nat /\ i > 0
  BY DEF Handles
<1>3. \A i \in DOMAIN p : p[i].call # "_allocate" => i + 1 \in DOMAIN q /\ p[i] = q[i + 1]
  BY DEF Handles
<1>4. \A i \in DOMAIN p : Refuses(p[i]) \/ Expires(p[i]) => i + 1 \in DOMAIN q /\ p[i] = q[i + 1]
  BY <1>3 DEF Refuses, Expires
<1>5. Types(p, ts, agents2, F, ref)
  BY <1>2, <1>4 DEF Inv, Types
<1>6. FreshRefusals(p, ts, F)
  <2> SUFFICES ASSUME NEW i \in DOMAIN p, Refuses(p[i])
               PROVE  /\ \A x \in F : x.id # p[i].id
                      /\ \A j \in DOMAIN ts : ts[j].kind = "filter" => ts[j].filter.id # p[i].id
                      /\ \A j \in DOMAIN p : Expires(p[j]) => p[j].filter.id # p[i].id
                      /\ \A j \in DOMAIN p : Refuses(p[j]) /\ p[j].id = p[i].id => j = i
    BY DEF FreshRefusals
  <2>1. FreshRefusals(q, ts, F)
    BY DEF Inv
  <2>2. i + 1 \in DOMAIN q /\ p[i] = q[i + 1]
    BY <1>4
  <2>3. \A j \in DOMAIN p : Refuses(p[j]) /\ p[j].id = p[i].id => j + 1 = i + 1
    BY <1>4, <2>1, <2>2 DEF FreshRefusals
  <2>4. \A j \in DOMAIN p : Refuses(p[j]) /\ p[j].id = p[i].id => j = i
    BY <1>2, <2>3
  <2> QED BY <1>4, <2>1, <2>2, <2>4 DEF FreshRefusals
<1>7. OneTimer(p, ts, F)
  BY <1>4 DEF Inv, OneTimer
<1> QED BY <1>5, <1>6, <1>7

\* The first call is handled, and a run may be asked for.
LEMMA CallHandled ==
  ASSUME NEW q, NEW ts, NEW sl, NEW cand, NEW F, NEW con, NEW ref,
         Inv(q, ts, sl, cand, F, con, ref), q[1].call # "_allocate",
         NEW p, Handles(q, p),
         NEW agents2 \in SUBSET Slave, NEW cand2,
         \A x \in F : x.slave \in agents2,
         sl \subseteq cand => agents2 \subseteq cand2,
         q[1].call = "allocate" => HasCall(p, "_allocate") /\ agents2 \subseteq cand2
  PROVE  Inv(p, ts, agents2, cand2, F, con, ref)
<1>2. /\ p \in Seq(Call) /\ Len(q) \in Nat /\ 1 \in DOMAIN q
      /\ \A i \in DOMAIN q : i \in 1..Len(q)
      /\ \A i \in 1..Len(q) : i \in DOMAIN q
      /\ \A i \in DOMAIN q : i # 1 => i - 1 \in DOMAIN p /\ p[i - 1] = q[i]
      /\ \A i \in DOMAIN p : i \in Nat /\ i > 0
  BY DEF Handles
<1>3. \A i \in DOMAIN p : p[i].call # "_allocate" => i + 1 \in DOMAIN q /\ p[i] = q[i + 1]
  BY DEF Handles
<1>4. Types(p, ts, agents2, F, ref) /\ FreshRefusals(p, ts, F) /\ OneTimer(p, ts, F)
  BY CallsStay
<1>8. HasCall(p, "allocate") => HasCall(q, "allocate")
  BY <1>3 DEF HasCall
<1>9. HasCall(q, "_allocate") => HasCall(p, "_allocate")
  BY <1>2 DEF HasCall
<1>10. RunComes(p, ts, agents2, cand2)
  <2> SUFFICES ASSUME Waiting(p, ts)
               PROVE  HasCall(p, "_allocate") /\ agents2 \subseteq cand2
    BY DEF RunComes
  <2>1. CASE q[1].call = "allocate"
    BY <2>1
  <2>2. CASE q[1].call # "allocate"
    <3>1. ~HasCall(q, "allocate")
      BY <1>2, <2>2 DEF HasCall, Waiting
    <3>2. Waiting(q, ts)
      BY <3>1 DEF Waiting
    <3> QED BY <1>9, <3>2 DEF Inv, RunComes
  <2> QED BY <2>1, <2>2
<1>11. RunAhead(p, ts, F, con)
  <2> SUFFICES ASSUME NEW x \in F, x.id \notin con
               PROVE  /\ \A i \in DOMAIN ts : IsTimerOf(ts[i], x) =>
                           \A j \in DOMAIN ts : IsLoop(ts[j]) => j < i
                      /\ \A k \in DOMAIN p : p[k].call = "expire" /\ p[k].filter = x =>
                           NoLoop(ts) /\ \A m \in DOMAIN p : p[m].call = "allocate" => m < k
                      /\ \A k \in DOMAIN p : p[k].call = "_expire" /\ p[k].filter = x =>
                           Waiting(p, ts) /\ \E m \in 1..(k - 1) : p[m].call = "_allocate"
    BY DEF RunAhead
  <2>0. RunAhead(q, ts, F, con)
    BY DEF Inv
  <2>1. \A i \in DOMAIN ts : IsTimerOf(ts[i], x) => \A j \in DOMAIN ts : IsLoop(ts[j]) => j < i
    BY <2>0 DEF RunAhead
  <2>2. ASSUME NEW k \in DOMAIN p, p[k].call = "expire", p[k].filter = x
        PROVE  NoLoop(ts) /\ \A m \in DOMAIN p : p[m].call = "allocate" => m < k
    <3>1. k + 1 \in DOMAIN q /\ p[k] = q[k + 1]
      BY <1>3, <2>2
    <3>2. NoLoop(ts) /\ \A m \in DOMAIN q : q[m].call = "allocate" => m < k + 1
      BY <2>0, <2>2, <3>1 DEF RunAhead
    <3>3. ASSUME NEW m \in DOMAIN p, p[m].call = "allocate"
          PROVE  m < k
      <4>1. m + 1 < k + 1
        BY <1>3, <3>2, <3>3
      <4> QED BY <1>2, <4>1
    <3> QED BY <3>2, <3>3
  <2>3. ASSUME NEW k \in DOMAIN p, p[k].call = "_expire", p[k].filter = x
        PROVE  Waiting(p, ts) /\ \E m \in 1..(k - 1) : p[m].call = "_allocate"
    <3>1. k + 1 \in DOMAIN q /\ p[k] = q[k + 1] /\ k \in Nat
      BY <1>2, <1>3, <2>3
    <3>2. Waiting(q, ts) /\ \E m \in 1..((k + 1) - 1) : q[m].call = "_allocate"
      BY <2>0, <2>3, <3>1 DEF RunAhead
    <3>3. PICK m \in 1..k : q[m].call = "_allocate"
      BY <3>1, <3>2
    <3>4. m # 1 /\ m \in DOMAIN q
      BY <1>2, <3>1, <3>3
    <3>5. m - 1 \in DOMAIN p /\ p[m - 1] = q[m]
      BY <1>2, <3>4
    <3>6. m - 1 \in 1..(k - 1)
      BY <3>1, <3>3, <3>4
    <3> QED BY <1>8, <3>2, <3>3, <3>5, <3>6 DEF Waiting
  <2> QED BY <2>1, <2>2, <2>3
<1> QED BY <1>4, <1>10, <1>11 DEF Inv
-----------------------------------------------------------------------------
(* A timer is added.                                                       *)

\* us is the queue ts with the timer t at the place `at', behind those that have no more left.
AddedAt(us, ts, t, at) ==
  /\ us \in Seq(Timer) /\ InOrder(us)
  /\ at \in Nat /\ at \in DOMAIN us /\ us[at] = t
  /\ \A i \in DOMAIN us : i \in Nat
  /\ \A i \in DOMAIN ts :
       /\ i \in Nat
       /\ i < at => i \in DOMAIN us /\ us[i] = ts[i]
       /\ ~(i < at) => i + 1 \in DOMAIN us /\ us[i + 1] = ts[i] /\ ts[i].left > t.left
  /\ \A i \in DOMAIN us : i # at =>
       \/ i < at /\ i \in DOMAIN ts /\ us[i] = ts[i]
       \/ at < i /\ i - 1 \in DOMAIN ts /\ us[i] = ts[i - 1] /\ ts[i - 1].left > t.left

\* The place of a new timer.
LEMMA TimerAdded ==
  ASSUME NEW ts \in Seq(Timer), InOrder(ts), NEW t \in Timer
  PROVE  \E at : AddedAt(AddTimer(t, ts), ts, t, at)
<1> DEFINE before == {i \in DOMAIN ts : ts[i].left <= t.left}
           after == {i \in 1..(Len(ts) + 1) : i = Len(ts) + 1 \/ ts[i].left > t.left}
<1>1. Len(ts) \in Nat /\ DOMAIN ts = 1..Len(ts) /\ \A i \in DOMAIN ts : ts[i] \in Timer
  OBVIOUS
<1>2. t.left \in Nat /\ \A i \in DOMAIN ts : ts[i].left \in Nat
  BY <1>1, TimerFields
<1>3. PICK at \in after : \A i \in after : ~(i < at)
  <2>1. after \in SUBSET Nat /\ Len(ts) + 1 \in after
    BY <1>1
  <2> HIDE DEF after
  <2> QED BY <2>1, LeastNumber
<1>4. at \in Nat /\ at \in 1..(Len(ts) + 1)
  BY <1>1
<1>5. \A i \in DOMAIN ts : i < at => ts[i].left <= t.left
  BY <1>1, <1>2, <1>3
<1>6. \A i \in DOMAIN ts : ~(i < at) => ts[i].left > t.left
  <2> SUFFICES ASSUME NEW i \in DOMAIN ts, ~(i < at)
               PROVE  ts[i].left > t.left
    OBVIOUS
  <2>1. at \in DOMAIN ts /\ ts[at].left > t.left
    BY <1>1, <1>3, <1>4
  <2>2. ts[at].left <= ts[i].left
    <3>1. CASE at = i
      BY <1>2, <3>1
    <3>2. CASE at < i
      BY <2>1, <3>2 DEF InOrder
    <3> QED BY <1>1, <1>4, <3>1, <3>2
  <2> QED BY <1>2, <2>1, <2>2
<1>7. before = 1..(at - 1)
  BY <1>1, <1>2, <1>4, <1>5, <1>6
<1>8. Cardinality(before) + 1 = at
  <2>1. Cardinality(1..(at - 1)) = IF 1 > at - 1 THEN 0 ELSE (at - 1) - 1 + 1
    BY <1>4, FS_Interval
  <2>2. Cardinality(before) = Cardinality(1..(at - 1))
    BY <1>7
  <2> HIDE DEF before, after
  <2> QED BY <1>4, <2>1, <2>2
<1> HIDE DEF before, after
<1> DEFINE us == SubSeq(ts, 1, at - 1) \o <<t>> \o SubSeq(ts, at, Len(ts))
<1>9. AddTimer(t, ts) = us
  BY <1>8 DEF AddTimer, InsertAt, before
<1>10. /\ us \in Seq(Timer) /\ DOMAIN us = 1..(Len(ts) + 1)
       /\ us[at] = t
       /\ \A i \in DOMAIN ts : /\ i < at => us[i] = ts[i]
                               /\ ~(i < at) => us[i + 1] = ts[i]
  <2> DEFINE a == SubSeq(ts, 1, at - 1)
             b == SubSeq(ts, at, Len(ts))
             c == a \o <<t>>
  <2>1. a \in Seq(Timer) /\ Len(a) = at - 1 /\ \A i \in 1..(at - 1) : a[i] = ts[i]
    BY <1>1, <1>4
  <2>2. /\ b \in Seq(Timer) /\ Len(b) = Len(ts) + 1 - at
        /\ \A i \in 1..(Len(ts) + 1 - at) : b[i] = ts[at + i - 1]
    BY <1>1, <1>4
  <2>3. us = c \o b
    OBVIOUS
  <2> HIDE DEF a, b, us
  <2>4. c \in Seq(Timer) /\ Len(c) = at /\ c[at] = t /\ \A i \in 1..(at - 1) : c[i] = ts[i]
    BY <1>4, <2>1
  <2> HIDE DEF c
  <2>5. us \in Seq(Timer) /\ Len(us) = Len(ts) + 1
    <3>1. us \in Seq(Timer) /\ Len(us) = Len(c) + Len(b)
      BY <2>2, <2>3, <2>4
    <3> QED BY <1>1, <1>4, <2>2, <2>4, <3>1
  <2>6. us[at] = t /\ \A i \in 1..(at - 1) : us[i] = ts[i]
    BY <1>4, <2>2, <2>3, <2>4
  <2>7. ASSUME NEW i \in DOMAIN ts, ~(i < at)
        PROVE  us[i + 1] = ts[i]
    <3>1. i + 1 - at \in 1..(Len(ts) + 1 - at) /\ at + (i + 1 - at) - 1 = i
      BY <1>1, <1>4, <2>7
    <3>2. us[i + 1] = b[i + 1 - at]
      BY <1>1, <1>4, <2>2, <2>3, <2>4, <2>7
    <3> QED BY <2>2, <3>1, <3>2
  <2> QED BY <1>1, <1>4, <2>5, <2>6, <2>7
<1> HIDE DEF us
<1>11. \A i \in DOMAIN ts :
         /\ i \in Nat
         /\ i < at => i \in DOMAIN us /\ us[i] = ts[i]
         /\ ~(i < at) => i + 1 \in DOMAIN us /\ us[i + 1] = ts[i] /\ ts[i].left > t.left
  BY <1>1, <1>6, <1>10
<1>12. ASSUME NEW i \in DOMAIN us, i # at
       PROVE  \/ i < at /\ i \in DOMAIN ts /\ us[i] = ts[i]
              \/ at < i /\ i - 1 \in DOMAIN ts /\ us[i] = ts[i - 1] /\ ts[i - 1].left > t.left
  <2>1. CASE i < at
    BY <1>1, <1>4, <1>10, <2>1
  <2>2. CASE at < i
    <3>1. i - 1 \in DOMAIN ts /\ ~(i - 1 < at) /\ (i - 1) + 1 = i
      BY <1>1, <1>4, <1>10, <2>2
    <3> QED BY <1>11, <2>2, <3>1
  <2> QED BY <1>1, <1>4, <1>10, <1>12, <2>1, <2>2
<1>13. InOrder(us)
  <2> SUFFICES ASSUME NEW i \in DOMAIN us, NEW j \in DOMAIN us, i < j
               PROVE  us[i].left <= us[j].left
    BY DEF InOrder
  <2>0. i \in Nat /\ j \in Nat
    BY <1>1, <1>10
  <2>1. CASE i = at
    BY <1>2, <1>4, <1>10, <1>12, <2>0, <2>1
  <2>2. CASE j = at
    BY <1>2, <1>4, <1>5, <1>10, <1>12, <2>0, <2>2
  <2>3. CASE i # at /\ j # at
    <3>1. CASE i < at /\ j < at
      BY <1>4, <1>12, <2>0, <2>3, <3>1 DEF InOrder
    <3>2. CASE i < at /\ at < j
      <4>2. /\ i \in DOMAIN ts /\ us[i] = ts[i]
            /\ j - 1 \in DOMAIN ts /\ us[j] = ts[j - 1]
        BY <1>4, <1>12, <2>0, <2>3, <3>2
      <4>3. ts[i].left <= t.left
        BY <1>5, <3>2, <4>2
      <4>4. ts[j - 1].left > t.left
        BY <1>4, <1>12, <2>0, <2>3, <3>2
      <4> QED BY <1>2, <4>2, <4>3, <4>4
    <3>3. CASE at < i
      <4>1. i - 1 < j - 1 /\ at < j
        BY <1>4, <2>0, <3>3
      <4>2. /\ i - 1 \in DOMAIN ts /\ us[i] = ts[i - 1]
            /\ j - 1 \in DOMAIN ts /\ us[j] = ts[j - 1]
        BY <1>4, <1>12, <2>0, <2>3, <3>3, <4>1
      <4> QED BY <4>1, <4>2 DEF InOrder
    <3> QED BY <1>4, <2>0, <2>3, <3>1, <3>2, <3>3
  <2> QED BY <2>1, <2>2, <2>3
<1>14. AddedAt(us, ts, t, at)
  <2>1. at \in DOMAIN us /\ \A i \in DOMAIN us : i \in Nat
    BY <1>1, <1>4, <1>10
  <2> QED BY <1>4, <1>10, <1>11, <1>12, <1>13, <2>1 DEF AddedAt
<1> QED BY <1>9, <1>14

\* A refusal has its filter and its timer installed.
LEMMA RefusalInstalled ==
  ASSUME NEW q, NEW ts, NEW sl, NEW cand, NEW F, NEW con, NEW ref,
         Inv(q, ts, sl, cand, F, con, ref),
         NEW x \in Filter, x.slave \in sl,
         \A y \in F : y.id # x.id,
         \A j \in DOMAIN ts : ts[j].kind = "filter" => ts[j].filter.id # x.id,
         \A j \in DOMAIN q : Expires(q[j]) => q[j].filter.id # x.id,
         \A j \in DOMAIN q : Refuses(q[j]) => q[j].id # x.id,
         NEW n \in Nat \ {0}, NEW m \in 0..Longest, n <= m, AllocationInterval <= m
  PROVE  Inv(q, AddTimer([kind |-> "filter", filter |-> x, left |-> m], ts), sl, cand,
             F \cup {x}, con, ref \cup {[filter |-> x, left |-> n]})
<1> DEFINE t == [kind |-> "filter", filter |-> x, left |-> m]
           us == AddTimer(t, ts)
           G == F \cup {x}
           more == ref \cup {[filter |-> x, left |-> n]}
<1>1. t \in Timer /\ t.kind = "filter" /\ t.filter = x /\ t.left = m
  BY DEF Timer
<1>2. ts \in Seq(Timer) /\ InOrder(ts) /\ \A i \in DOMAIN ts : ts[i] \in Timer
  BY DEF Inv, Types
<1>3. PICK at : AddedAt(us, ts, t, at)
  BY <1>1, <1>2, TimerAdded
<1> HIDE DEF us, t
<1>4. /\ at \in Nat /\ at \in DOMAIN us /\ us[at] = t
      /\ \A i \in DOMAIN ts :
           /\ i \in Nat
           /\ i < at => i \in DOMAIN us /\ us[i] = ts[i]
           /\ ~(i < at) => i + 1 \in DOMAIN us /\ us[i + 1] = ts[i] /\ ts[i].left > m
      /\ \A i \in DOMAIN us : i \in Nat
      /\ \A i \in DOMAIN us : i # at =>
           \/ i < at /\ i \in DOMAIN ts /\ us[i] = ts[i]
           \/ at < i /\ i - 1 \in DOMAIN ts /\ us[i] = ts[i - 1]
  BY <1>1, <1>3 DEF AddedAt
<1>5. \A i \in DOMAIN us : i # at => \E j \in DOMAIN ts : us[i] = ts[j]
  BY <1>4
<1>6. \A j \in DOMAIN ts : \E i \in DOMAIN us : us[i] = ts[j]
  BY <1>4
<1>7. Types(q, us, sl, G, more)
  BY <1>3 DEF Inv, Types, AddedAt, Refusal
<1>8. FreshRefusals(q, us, G)
  BY <1>1, <1>4, <1>5 DEF Inv, FreshRefusals
<1>9. \A i \in DOMAIN us : us[i].kind = "filter" /\ us[i].filter.id = x.id => i = at
  BY <1>5
<1>10. OneTimer(q, us, G)
  <2>0. OneTimer(q, ts, F)
    BY DEF Inv
  <2>1. \A y, z \in G : y.id = z.id => y = z
    BY <2>0 DEF OneTimer
  <2>2. ASSUME NEW i \in DOMAIN us, us[i].kind = "filter"
        PROVE  /\ us[i].filter \in G
               /\ \A j \in DOMAIN us :
                    us[j].kind = "filter" /\ us[j].filter.id = us[i].filter.id => j = i
    <3>1. CASE i = at
      BY <1>1, <1>4, <1>9, <3>1
    <3>2. CASE i # at
      <4>1. us[i].filter \in G
        BY <1>5, <2>0, <2>2, <3>2 DEF OneTimer
      <4>2. ASSUME NEW j \in DOMAIN us, us[j].kind = "filter", us[j].filter.id = us[i].filter.id
            PROVE  j = i
        <5>1. j # at
          BY <1>1, <1>4, <1>9, <2>2, <3>2, <4>2
        <5>2. PICK k \in DOMAIN ts : us[i] = ts[k] /\ (i < at => k = i) /\ (at < i => k = i - 1)
          BY <1>4, <3>2
        <5>3. PICK l \in DOMAIN ts : us[j] = ts[l] /\ (j < at => l = j) /\ (at < j => l = j - 1)
          BY <1>4, <5>1
        <5>4. l = k
          BY <2>0, <2>2, <4>2, <5>2, <5>3 DEF OneTimer
        <5>5. i \in Nat /\ j \in Nat /\ at \in Nat
          BY <1>4
        <5>6. (i < at /\ k = i) \/ (at < i /\ k = i - 1 /\ k >= at)
          BY <3>2, <5>2, <5>5
        <5>7. (j < at /\ k = j) \/ (at < j /\ k = j - 1 /\ k >= at)
          BY <5>1, <5>3, <5>4, <5>5
        <5> QED BY <5>5, <5>6, <5>7
      <4> QED BY <4>1, <4>2
    <3> QED BY <3>1, <3>2
  <2>3. ASSUME NEW i \in DOMAIN q, Expires(q[i])
        PROVE  /\ \A j \in DOMAIN us : us[j].kind = "filter" => us[j].filter.id # q[i].filter.id
               /\ \A y \in G : y.id = q[i].filter.id => y = q[i].filter
    BY <1>1, <1>4, <1>5, <2>0, <2>3 DEF OneTimer
  <2> QED BY <2>1, <2>2, <2>3 DEF OneTimer
<1>11. InForce(us, G, more)
  <2>1. ASSUME NEW r \in ref
        PROVE  /\ r.left > 0 /\ r.filter \in G
               /\ \E i \in DOMAIN us : IsTimerOf(us[i], r.filter) /\ r.left <= us[i].left
    BY <1>6 DEF Inv, InForce
  <2>2. IsTimerOf(us[at], x) /\ n <= us[at].left /\ n > 0
    BY <1>1, <1>4 DEF IsTimerOf
  <2> QED BY <1>4, <2>1, <2>2 DEF InForce
<1>12. NoLoop(us) <=> NoLoop(ts)
  BY <1>1, <1>4, <1>5, <1>6 DEF NoLoop, IsLoop
<1>13. Waiting(q, us) <=> Waiting(q, ts)
  BY <1>12 DEF Waiting
<1>14. RunComes(q, us, sl, cand)
  BY <1>13 DEF Inv, RunComes
<1>15. RunAhead(q, us, G, con)
  <2> SUFFICES ASSUME NEW y \in G, y.id \notin con
               PROVE  /\ \A i \in DOMAIN us : IsTimerOf(us[i], y) =>
                           \A j \in DOMAIN us : IsLoop(us[j]) => j < i
                      /\ \A k \in DOMAIN q : q[k].call = "expire" /\ q[k].filter = y =>
                           NoLoop(us) /\ \A l \in DOMAIN q : q[l].call = "allocate" => l < k
                      /\ \A k \in DOMAIN q : q[k].call = "_expire" /\ q[k].filter = y =>
                           Waiting(q, us) /\ \E l \in 1..(k - 1) : q[l].call = "_allocate"
    BY DEF RunAhead
  <2>0. RunAhead(q, ts, F, con)
    BY DEF Inv
  <2>1. ASSUME NEW j \in DOMAIN us, IsLoop(us[j])
        PROVE  j < at /\ j \in DOMAIN ts /\ us[j] = ts[j]
    <3>1. j # at
      BY <1>1, <1>4, <2>1 DEF IsLoop
    <3>2. CASE at < j
      <4>1. j - 1 \in DOMAIN ts /\ us[j] = ts[j - 1] /\ at < j
        BY <1>4, <3>1, <3>2
      <4>2. ts[j - 1].left > m
        BY <1>4, <4>1
      <4>3. ts[j - 1].left <= AllocationInterval /\ ts[j - 1].left \in Nat
        BY <1>2, <2>1, <4>1, TimerFields
      <4> QED BY <4>2, <4>3, BoundsAssumption
    <3> QED BY <1>4, <3>1, <3>2
  <2>2. CASE y = x
    <3>1. \A k \in DOMAIN q : Expires(q[k]) => q[k].filter # y
      BY <2>2
    <3>2. \A i \in DOMAIN us : IsTimerOf(us[i], y) => i = at
      BY <1>9, <2>2 DEF IsTimerOf
    <3> QED BY <2>1, <3>1, <3>2 DEF Expires
  <2>3. CASE y \in F
    <3>1. ASSUME NEW i \in DOMAIN us, IsTimerOf(us[i], y), NEW j \in DOMAIN us, IsLoop(us[j])
          PROVE  j < i
      <4>1. i # at
        BY <1>1, <1>4, <2>3, <3>1 DEF IsTimerOf
      <4>2. j < at /\ j \in DOMAIN ts /\ IsLoop(ts[j])
        BY <2>1, <3>1
      <4>3. CASE i < at
        <5>1. i \in DOMAIN ts /\ us[i] = ts[i]
          BY <1>4, <4>1, <4>3
        <5> QED BY <2>0, <2>3, <3>1, <4>2, <5>1 DEF RunAhead
      <4> QED BY <1>4, <4>1, <4>2, <4>3
    <3> QED BY <1>12, <1>13, <2>0, <2>3, <3>1 DEF RunAhead
  <2> QED BY <2>2, <2>3
<1>16. \A y \in G : y.slave \in sl
  BY DEF Inv
<1>17. InOrder(us)
  BY <1>3 DEF AddedAt
<1> QED BY <1>7, <1>8, <1>10, <1>11, <1>14, <1>15, <1>16, <1>17 DEF Inv, us, t

\* The loop sleeps again, when a run has come by all filters.
LEMMA LoopAdded ==
  ASSUME NEW q, NEW ts, NEW sl, NEW cand, NEW F, NEW con, NEW ref,
         Types(q, ts, sl, F, ref), InOrder(ts), FreshRefusals(q, ts, F), OneTimer(q, ts, F),
         InForce(ts, F, ref), \A x \in F : x.slave \in sl /\ x.id \in con
  PROVE  Inv(q, AddTimer([kind |-> "loop", left |-> AllocationInterval], ts), sl, cand, F, con,
             ref)
<1> DEFINE t == [kind |-> "loop", left |-> AllocationInterval]
           us == AddTimer(t, ts)
<1>1. t \in Timer /\ t.kind = "loop"
  BY BoundsAssumption DEF Timer
<1>2. ts \in Seq(Timer)
  BY DEF Types
<1>3. PICK at : AddedAt(us, ts, t, at)
  BY <1>1, <1>2, TimerAdded
<1> HIDE DEF us, t
<1>4. /\ at \in Nat /\ at \in DOMAIN us /\ us[at] = t
      /\ \A i \in DOMAIN ts :
           /\ i \in Nat
           /\ i < at => i \in DOMAIN us /\ us[i] = ts[i]
           /\ ~(i < at) => i + 1 \in DOMAIN us /\ us[i + 1] = ts[i]
      /\ \A i \in DOMAIN us : i \in Nat
      /\ \A i \in DOMAIN us : i # at =>
           \/ i < at /\ i \in DOMAIN ts /\ us[i] = ts[i]
           \/ at < i /\ i - 1 \in DOMAIN ts /\ us[i] = ts[i - 1]
  BY <1>1, <1>3 DEF AddedAt
<1>5. \A i \in DOMAIN us : us[i].kind = "filter" => i # at
  BY <1>1, <1>4
<1>6. \A i \in DOMAIN us : us[i].kind = "filter" => \E j \in DOMAIN ts : us[i] = ts[j]
  BY <1>4, <1>5
<1>7. \A j \in DOMAIN ts : \E i \in DOMAIN us : us[i] = ts[j]
  BY <1>4
<1>8. Types(q, us, sl, F, ref) /\ InOrder(us)
  BY <1>3 DEF Types, AddedAt
<1>9. FreshRefusals(q, us, F)
  BY <1>6 DEF FreshRefusals
<1>10. OneTimer(q, us, F)
  <2>1. ASSUME NEW i \in DOMAIN us, us[i].kind = "filter",
               NEW j \in DOMAIN us, us[j].kind = "filter", us[j].filter.id = us[i].filter.id
        PROVE  j = i
    <3>1. PICK k \in DOMAIN ts : us[i] = ts[k] /\ (i < at => k = i) /\ (at < i => k = i - 1)
      BY <1>4, <1>5, <2>1
    <3>2. PICK l \in DOMAIN ts : us[j] = ts[l] /\ (j < at => l = j) /\ (at < j => l = j - 1)
      BY <1>4, <1>5, <2>1
    <3>3. l = k
      BY <2>1, <3>1, <3>2 DEF OneTimer
    <3>4. i \in Nat /\ j \in Nat /\ at \in Nat /\ i # at /\ j # at
      BY <1>4, <1>5, <2>1
    <3>5. (i < at /\ k = i) \/ (at < i /\ k = i - 1 /\ k >= at)
      BY <3>1, <3>4
    <3>6. (j < at /\ k = j) \/ (at < j /\ k = j - 1 /\ k >= at)
      BY <3>2, <3>3, <3>4
    <3> QED BY <3>4, <3>5, <3>6
  <2>2. \A i \in DOMAIN us : us[i].kind = "filter" => us[i].filter \in F
    BY <1>6 DEF OneTimer
  <2>3. \A i \in DOMAIN q : Expires(q[i]) =>
          \A j \in DOMAIN us : us[j].kind = "filter" => us[j].filter.id # q[i].filter.id
    BY <1>6 DEF OneTimer
  <2> QED BY <2>1, <2>2, <2>3 DEF OneTimer
<1>11. InForce(us, F, ref)
  BY <1>7 DEF InForce
<1>12. ~NoLoop(us)
  BY <1>1, <1>4 DEF NoLoop, IsLoop
<1>13. RunComes(q, us, sl, cand) /\ RunAhead(q, us, F, con)
  BY <1>12 DEF RunComes, RunAhead, Waiting
<1> QED BY <1>8, <1>9, <1>10, <1>11, <1>13 DEF Inv, us, t

-----------------------------------------------------------------------------
(* Filters expire, and a run comes by them.                                *)

\* An expiry's second call goes to the end of the mailbox.
LEMMA ExpiryArrives ==
  ASSUME NEW q, NEW ts, NEW sl, NEW cand, NEW F, NEW con, NEW ref,
         Inv(q, ts, sl, cand, F, con, ref),
         NEW c \in Call, c.call = "_expire",
         \A j \in DOMAIN ts : ts[j].kind = "filter" => ts[j].filter.id # c.filter.id,
         \A x \in F : x.id = c.filter.id => x = c.filter,
         \A i \in DOMAIN q : Refuses(q[i]) => q[i].id # c.filter.id,
         c.filter \in F /\ c.filter.id \notin con => Waiting(q, ts)
  PROVE  Inv(Append(q, c), ts, sl, cand, F, con, ref)
<1> DEFINE p == Append(q, c)
<1>0. Types(q, ts, sl, F, ref) /\ FreshRefusals(q, ts, F) /\ OneTimer(q, ts, F)
  BY DEF Inv
<1>1. /\ p \in Seq(Call) /\ Len(q) \in Nat
      /\ DOMAIN q = 1..Len(q)
      /\ \A i \in DOMAIN q : i \in DOMAIN p /\ p[i] = q[i]
      /\ \A i \in DOMAIN p : i \in DOMAIN q \/ i = Len(q) + 1
      /\ p[Len(q) + 1] = c
  BY <1>0, AppendTo DEF Types
<1> HIDE DEF p
<1>2. ~Refuses(c)
  BY DEF Refuses
<1>3. \A i \in DOMAIN p : Refuses(p[i]) => i \in DOMAIN q /\ p[i] = q[i]
  BY <1>1, <1>2
<1>4. \A i \in DOMAIN p : p[i].call # "_expire" => i \in DOMAIN q /\ p[i] = q[i]
  BY <1>1
<1>5. Types(p, ts, sl, F, ref)
  BY <1>0, <1>1, <1>3 DEF Types
<1>6. \A i \in DOMAIN p : (i \in DOMAIN q /\ p[i] = q[i]) \/ p[i] = c
  BY <1>1
<1>7. FreshRefusals(p, ts, F)
  BY <1>0, <1>3, <1>6 DEF FreshRefusals
<1>8. OneTimer(p, ts, F)
  BY <1>0, <1>6 DEF OneTimer
<1>9. \A name : name # "_expire" => (HasCall(p, name) <=> HasCall(q, name))
  BY <1>1, <1>4 DEF HasCall
<1>10. Waiting(p, ts) <=> Waiting(q, ts)
  BY <1>9 DEF Waiting
<1>11. RunComes(p, ts, sl, cand)
  BY <1>9, <1>10 DEF Inv, RunComes
<1>12. RunAhead(p, ts, F, con)
  <2> SUFFICES ASSUME NEW x \in F, x.id \notin con
               PROVE  /\ \A i \in DOMAIN ts : IsTimerOf(ts[i], x) =>
                           \A j \in DOMAIN ts : IsLoop(ts[j]) => j < i
                      /\ \A k \in DOMAIN p : p[k].call = "expire" /\ p[k].filter = x =>
                           NoLoop(ts) /\ \A m \in DOMAIN p : p[m].call = "allocate" => m < k
                      /\ \A k \in DOMAIN p : p[k].call = "_expire" /\ p[k].filter = x =>
                           Waiting(p, ts) /\ \E m \in 1..(k - 1) : p[m].call = "_allocate"
    BY DEF RunAhead
  <2>0. RunAhead(q, ts, F, con)
    BY DEF Inv
  <2>1. \A i \in DOMAIN ts : IsTimerOf(ts[i], x) => \A j \in DOMAIN ts : IsLoop(ts[j]) => j < i
    BY <2>0 DEF RunAhead
  <2>2. \A k \in DOMAIN p : p[k].call = "expire" /\ p[k].filter = x =>
          NoLoop(ts) /\ \A m \in DOMAIN p : p[m].call = "allocate" => m < k
    BY <1>4, <2>0 DEF RunAhead
  <2>3. ASSUME NEW k \in DOMAIN p, p[k].call = "_expire", p[k].filter = x
        PROVE  Waiting(p, ts) /\ \E m \in 1..(k - 1) : p[m].call = "_allocate"
    <3>1. CASE k \in DOMAIN q
      <4>1. Waiting(q, ts) /\ \E m \in 1..(k - 1) : q[m].call = "_allocate"
        BY <1>1, <2>0, <2>3, <3>1 DEF RunAhead
      <4>2. \A m \in 1..(k - 1) : p[m] = q[m]
        BY <1>1, <3>1
      <4> QED BY <1>10, <4>1, <4>2
    <3>2. CASE k = Len(q) + 1
      <4>1. Waiting(q, ts)
        BY <1>1, <2>3, <3>2
      <4>2. PICK m \in DOMAIN q : q[m].call = "_allocate"
        BY <4>1 DEF Inv, RunComes, HasCall
      <4>3. m \in 1..(k - 1) /\ p[m] = q[m]
        BY <1>1, <3>2
      <4> QED BY <1>10, <4>1, <4>2, <4>3
    <3> QED BY <1>1, <3>1, <3>2
  <2> QED BY <2>1, <2>2, <2>3
<1> QED BY <1>5, <1>7, <1>8, <1>11, <1>12 DEF Inv, p

\* A filter whose timer has fired is taken out.
LEMMA FilterGone ==
  ASSUME NEW q, NEW ts, NEW sl, NEW cand, NEW F, NEW con, NEW ref,
         Inv(q, ts, sl, cand, F, con, ref),
         NEW x, \A y \in F : y.id = x.id => y = x,
         \A j \in DOMAIN ts : ts[j].kind = "filter" => ts[j].filter.id # x.id
  PROVE  Inv(q, ts, sl, cand, F \ {x}, con \ {x.id}, ref)
<1> DEFINE G == F \ {x}
           new == con \ {x.id}
<1>1. \A y \in G : y \in F /\ (y.id \notin new <=> y.id \notin con)
  OBVIOUS
<1>2. \A j \in DOMAIN ts : ts[j].kind = "filter" => ts[j].filter # x
  OBVIOUS
<1> HIDE DEF new
<1>3. Types(q, ts, sl, G, ref)
  BY DEF Inv, Types
<1>4. FreshRefusals(q, ts, G)
  BY DEF Inv, FreshRefusals
<1>5. OneTimer(q, ts, G)
  BY <1>2 DEF Inv, OneTimer
<1>6. InForce(ts, G, ref)
  BY <1>2 DEF Inv, InForce, IsTimerOf
<1>7. RunAhead(q, ts, G, new)
  BY <1>1 DEF Inv, RunAhead
<1>8. \A y \in G : y.slave \in sl
  BY DEF Inv
<1> QED BY <1>3, <1>4, <1>5, <1>6, <1>7, <1>8 DEF Inv, new

\* The run has come by the candidates, and the loop goes on when it waited for it.
LEMMA RunDone ==
  ASSUME NEW q, NEW ts, NEW sl, NEW cand, NEW F, NEW con, NEW ref,
         Inv(q, ts, sl, cand, F, con, ref), q # <<>>, q[1].call = "_allocate",
         NEW new, new = con \cup {x.id : x \in {y \in F : y.slave \in cand}}
  PROVE  /\ Waiting(q, ts) =>
              Inv(Tail(q), AddTimer([kind |-> "loop", left |-> AllocationInterval], ts), sl, {}, F,
                  new, ref)
         /\ ~Waiting(q, ts) => Inv(Tail(q), ts, sl, {}, F, new, ref)
<1> DEFINE p == Tail(q)
<1>1. q \in Seq(Call) /\ sl \in SUBSET Slave /\ \A x \in F : x.slave \in sl
  BY DEF Inv, Types
<1>2. Handles(q, p)
  BY <1>1, FirstHandled
<1>3. /\ 1 \in DOMAIN q
      /\ \A i \in DOMAIN q : i \in Nat /\ i > 0
      /\ \A i \in DOMAIN p : i \in Nat /\ i > 0 /\ i + 1 \in DOMAIN q /\ p[i] = q[i + 1]
      /\ \A i \in DOMAIN q : i # 1 => i - 1 \in DOMAIN p /\ p[i - 1] = q[i]
  BY <1>1, TailOf
<1>4. \A x \in F : (x.id \notin new => x.id \notin con) /\ (x.slave \in cand => x.id \in new)
  OBVIOUS
<1> HIDE DEF p
<1>5. Types(p, ts, sl, F, ref) /\ FreshRefusals(p, ts, F) /\ OneTimer(p, ts, F)
  BY <1>1, <1>2, CallsStay
<1>6. InOrder(ts) /\ InForce(ts, F, ref)
  BY DEF Inv
<1>7. CASE Waiting(q, ts)
  <2>1. \A x \in F : x.slave \in sl /\ x.id \in new
    BY <1>1, <1>4, <1>7 DEF Inv, RunComes
  <2> QED BY <1>5, <1>6, <1>7, <2>1, LoopAdded DEF p
<1>8. CASE ~Waiting(q, ts)
  <2>1. HasCall(p, "allocate") <=> HasCall(q, "allocate")
    BY <1>3 DEF HasCall
  <2>2. ~Waiting(p, ts)
    BY <1>8, <2>1 DEF Waiting
  <2>3. RunComes(p, ts, sl, {})
    BY <2>2 DEF RunComes
  <2>4. RunAhead(p, ts, F, new)
    <3> SUFFICES ASSUME NEW x \in F, x.id \notin con
                 PROVE  /\ \A i \in DOMAIN ts : IsTimerOf(ts[i], x) =>
                             \A j \in DOMAIN ts : IsLoop(ts[j]) => j < i
                        /\ \A k \in DOMAIN p : p[k].call = "expire" /\ p[k].filter = x =>
                             NoLoop(ts) /\ \A m \in DOMAIN p : p[m].call = "allocate" => m < k
                        /\ \A k \in DOMAIN p : ~(p[k].call = "_expire" /\ p[k].filter = x)
      BY <1>4 DEF RunAhead
    <3>0. RunAhead(q, ts, F, con)
      BY DEF Inv
    <3>1. \A i \in DOMAIN ts : IsTimerOf(ts[i], x) => \A j \in DOMAIN ts : IsLoop(ts[j]) => j < i
      BY <3>0 DEF RunAhead
    <3>2. ASSUME NEW k \in DOMAIN p, p[k].call = "expire", p[k].filter = x
          PROVE  NoLoop(ts) /\ \A m \in DOMAIN p : p[m].call = "allocate" => m < k
      <4>1. k + 1 \in DOMAIN q /\ p[k] = q[k + 1]
        BY <1>3
      <4>2. NoLoop(ts) /\ \A m \in DOMAIN q : q[m].call = "allocate" => m < k + 1
        BY <3>0, <3>2, <4>1 DEF RunAhead
      <4>3. ASSUME NEW m \in DOMAIN p, p[m].call = "allocate"
            PROVE  m < k
        <5>1. m + 1 < k + 1
          BY <1>3, <4>2, <4>3
        <5> QED BY <1>3, <5>1
      <4> QED BY <4>2, <4>3
    <3>3. \A k \in DOMAIN p : ~(p[k].call = "_expire" /\ p[k].filter = x)
      BY <1>3, <1>8, <3>0 DEF RunAhead
    <3> QED BY <3>1, <3>2, <3>3
  <2> QED BY <1>1, <1>5, <1>6, <1>8, <2>3, <2>4 DEF Inv, p
<1> QED BY <1>7, <1>8

-----------------------------------------------------------------------------
(* The steps.                                                              *)

\* What the invariant says of the types.
LEMMA TypesOfIInv ==
  ASSUME IInv
  PROVE  /\ mailbox \in Seq(Call) /\ timers \in Seq(Timer)
         /\ slaves \in SUBSET Slave /\ filters \in SUBSET Filter
         /\ \A x \in filters : x.slave \in slaves
         /\ \A r \in refusals : r.filter \in filters
         /\ \A i \in DOMAIN mailbox : Refuses(mailbox[i]) =>
              mailbox[i].id \in RefusalId /\ mailbox[i].refuse \in RefuseSeconds
         /\ allocated \in [Framework \X Role \X Slave -> Int]
BY DEF IInv, Inv, Types, InForce

\* The call that is handled.
LEMMA HandledCall ==
  ASSUME IInv, mailbox # <<>>
  PROVE  Head(mailbox) = mailbox[1] /\ 1 \in DOMAIN mailbox /\ Head(mailbox) \in Call
BY TypesOfIInv, TailOf

\* The handler's test whether a run is pending.
LEMMA PendingRun ==
  ASSUME IInv
  PROVE  [call |-> "_allocate"] \in Calls <=> HasCall(mailbox, "_allocate")
<1>1. \A i \in DOMAIN mailbox : mailbox[i] \in Call
  BY TypesOfIInv
<1>2. \A c \in Call : c.call = "_allocate" <=> c = [call |-> "_allocate"]
  BY CallFields
<1> QED BY <1>1, <1>2 DEF Calls, HasCall

\* The run's test whether the loop waits for it.
LEMMA LoopWaitsIsWaiting ==
  ASSUME IInv
  PROVE  LoopWaits <=> Waiting(mailbox, timers)
<1>1. \A i \in DOMAIN mailbox : mailbox[i] \in Call
  BY TypesOfIInv
<1>2. \A c \in Call : c.call = "allocate" <=> c = [call |-> "allocate"]
  BY CallFields
<1>3. [call |-> "allocate"] \in Calls <=> HasCall(mailbox, "allocate")
  BY <1>1, <1>2 DEF Calls, HasCall
<1> QED BY <1>3 DEF LoopWaits, Waiting, NoLoop, IsLoop

\* A handler that ends with allocate() leaves a run in the mailbox.
LEMMA RunAskedFor ==
  ASSUME IInv, mailbox # <<>>, Head(mailbox).call # "_allocate", NEW S, Allocate(S)
  PROVE  Handles(mailbox, mailbox') /\ HasCall(mailbox', "_allocate")
<1> DEFINE c == [call |-> "_allocate"]
<1>0. mailbox \in Seq(Call)
  BY TypesOfIInv
<1>1. /\ Tail(mailbox) \in Seq(Call) /\ Head(mailbox) = mailbox[1]
      /\ \A i \in DOMAIN mailbox \ {1} :
           i - 1 \in DOMAIN Tail(mailbox) /\ Tail(mailbox)[i - 1] = mailbox[i]
  BY <1>0, TailOf
<1>2. c \in Call /\ c.call = "_allocate"
  BY DEF Call
<1>3. CASE HasCall(mailbox, "_allocate")
  <2>1. mailbox' = Tail(mailbox)
    BY <1>1, <1>3, PendingRun DEF Allocate
  <2>2. HasCall(Tail(mailbox), "_allocate")
    BY <1>1, <1>3 DEF HasCall
  <2> QED BY <1>0, <2>1, <2>2, FirstHandled
<1>4. CASE ~HasCall(mailbox, "_allocate")
  <2>1. mailbox' = Tail(mailbox) \o << c >>
    BY <1>4, PendingRun DEF Allocate
  <2>2. Handles(mailbox, mailbox')
    BY <1>0, <2>1, FirstHandled
  <2> HIDE DEF c
  <2>3. Len(mailbox') \in DOMAIN mailbox' /\ mailbox'[Len(mailbox')] = c
    BY <1>1, <1>2, <2>1
  <2> QED BY <1>2, <2>2, <2>3 DEF HasCall
<1> QED BY <1>3, <1>4

\* A handler that takes filters out, or none.
LEMMA KeepStep ==
  ASSUME IInv, mailbox # <<>>, Head(mailbox).call \notin {"allocate", "_allocate"},
         Handles(mailbox, mailbox'),
         filters' \in SUBSET filters, refusals' \in SUBSET refusals,
         \A r \in refusals' : r.filter \in filters',
         timers' = Running(filters'),
         considered' = considered \cap {x.id : x \in filters'},
         UNCHANGED allocated,
         slaves' \in SUBSET Slave, \A x \in filters' : x.slave \in slaves',
         slaves \subseteq allocationCandidates => slaves' \subseteq allocationCandidates'
  PROVE  IInv'
<1>1. Inv(mailbox, timers, slaves, allocationCandidates, filters, considered, refusals)
  BY DEF IInv
<1>2. timers' = Remaining(timers, filters')
  BY DEF Running, Remaining
<1>3. Inv(mailbox, timers', slaves, allocationCandidates, filters', considered', refusals')
  BY <1>1, <1>2, FiltersLeave
<1>4. mailbox[1].call \notin {"allocate", "_allocate"}
  BY HandledCall
<1>5. Inv(mailbox', timers', slaves', allocationCandidates', filters', considered', refusals')
  BY <1>3, <1>4, CallHandled
<1> QED BY <1>5 DEF IInv

\* Handlers that leave frameworks' filters or take them out, and end in allocate() or not.
LEMMA FrameworkSteps ==
  ASSUME IInv, mailbox # <<>>,
         \/ AddFramework \/ RemoveFramework \/ ActivateFramework \/ DeactivateFramework
         \/ \E roles \in SUBSET Role : UpdateFramework(roles)
         \/ ReviveOffers
  PROVE  IInv'
<1> USE TypesOfIInv
<1>1. \/ \E S : Allocate(S)
      \/ NoAllocate
  BY DEF AddFramework, RemoveFramework, ActivateFramework, DeactivateFramework,
         UpdateFramework, ReviveOffers
<1>2. Head(mailbox).call \notin {"allocate", "_allocate"} /\ slaves' = slaves
  BY DEF AddFramework, RemoveFramework, ActivateFramework, DeactivateFramework,
         UpdateFramework, ReviveOffers, NextIs
<1>3. allocationCandidates \subseteq allocationCandidates'
  BY <1>1 DEF Allocate, NoAllocate
<1>4. Handles(mailbox, mailbox')
  BY <1>1, <1>2, RunAskedFor, FirstHandled DEF NoAllocate
<1>5. /\ filters' \in SUBSET filters /\ refusals' \in SUBSET refusals
      /\ \A r \in refusals' : r.filter \in filters'
      /\ timers' = Running(filters')
      /\ considered' = considered \cap {x.id : x \in filters'}
      /\ UNCHANGED allocated
  <2>1. CASE AddFramework
    BY <2>1 DEF AddFramework, KeepAll, Keep
  <2>2. CASE RemoveFramework
    BY <2>2 DEF RemoveFramework, Keep
  <2>3. CASE ActivateFramework
    BY <2>3 DEF ActivateFramework, KeepAll, Keep
  <2>4. CASE DeactivateFramework
    BY <2>4 DEF DeactivateFramework, Keep
  <2>5. CASE \E roles \in SUBSET Role : UpdateFramework(roles)
    BY <2>5 DEF UpdateFramework, Keep
  <2>6. CASE ReviveOffers
    BY <2>6 DEF ReviveOffers, Keep
  <2> QED BY <2>1, <2>2, <2>3, <2>4, <2>5, <2>6
<1> QED BY <1>2, <1>3, <1>4, <1>5, KeepStep

\* An agent comes, goes or changes.
LEMMA AgentSteps ==
  ASSUME IInv, mailbox # <<>>, AddSlave \/ RemoveSlave \/ UpdateSlave
  PROVE  IInv'
<1> USE TypesOfIInv
<1> DEFINE s == Head(mailbox).slave
<1>1. Head(mailbox).call \notin {"allocate", "_allocate"}
  BY DEF AddSlave, RemoveSlave, UpdateSlave, NextIs
<1>2. Handles(mailbox, mailbox')
  BY <1>1, RunAskedFor, FirstHandled DEF AddSlave, RemoveSlave, UpdateSlave
<1>3. /\ filters' \in SUBSET filters /\ refusals' \in SUBSET refusals
      /\ \A r \in refusals' : r.filter \in filters'
      /\ timers' = Running(filters')
      /\ considered' = considered \cap {x.id : x \in filters'}
      /\ UNCHANGED allocated
  BY DEF AddSlave, RemoveSlave, UpdateSlave, KeepAll, Keep
<1>4. /\ slaves' \in SUBSET Slave
      /\ \A x \in filters' : x.slave \in slaves'
      /\ slaves \subseteq allocationCandidates => slaves' \subseteq allocationCandidates'
  <2>1. CASE AddSlave
    <3>1. s \in Slave
      BY <2>1, HandledCall DEF AddSlave, NextIs, Call
    <3> QED BY <1>3, <2>1, <3>1 DEF AddSlave, Allocate
  <2>2. CASE RemoveSlave
    <3>1. \A x \in filters' : x.slave # s
      BY <2>2 DEF RemoveSlave, Keep
    <3> QED BY <1>3, <2>2, <3>1 DEF RemoveSlave
  <2>3. CASE UpdateSlave
    BY <1>3, <2>3 DEF UpdateSlave, Allocate
  <2> QED BY <2>1, <2>2, <2>3
<1> QED BY <1>1, <1>2, <1>3, <1>4, KeepStep

\* What a refusal is cut or raised to is a time a timer may have.
LEMMA RefuseTimes ==
  ASSUME NEW secs \in RefuseSeconds, Refuse(secs) # 0
  PROVE  /\ Refuse(secs) \in Nat \ {0}
         /\ Timeout(secs) \in 0..Longest
         /\ Refuse(secs) <= Timeout(secs) /\ AllocationInterval <= Timeout(secs)
<1>1. /\ secs \in Int /\ AllocationInterval \in Nat /\ MaxRefuse \in Nat
      /\ DefaultRefuse \in Nat /\ DefaultRefuse <= MaxRefuse
  BY BoundsAssumption
<1>2. Refuse(secs) \in Nat \ {0} /\ Refuse(secs) <= MaxRefuse
  BY <1>1 DEF Refuse
<1> QED BY <1>1, <1>2 DEF Timeout, Longest

\* Resources come back, refused or not.
LEMMA RecoverStep ==
  ASSUME IInv, mailbox # <<>>, RecoverResources
  PROVE  IInv'
<1> USE TypesOfIInv
<1> DEFINE c == Head(mailbox)
           p == Tail(mailbox)
           x == [id |-> c.id, framework |-> c.framework, role |-> c.role, slave |-> c.slave,
                 amount |-> c.amount]
           refused == /\ c.refuse # None /\ Refuse(c.refuse) # 0
                      /\ c.framework \in DOMAIN frameworks /\ c.slave \in slaves
<1>1. /\ c = mailbox[1] /\ 1 \in DOMAIN mailbox /\ c.call = "recoverResources"
      /\ c.framework \in Framework /\ c.role \in Role /\ c.slave \in Slave /\ c.amount \in 1..Amount
  BY HandledCall, CallFields DEF RecoverResources, NextIs
<1>2. /\ mailbox' = p
      /\ allocated' = [allocated EXCEPT ![<<c.framework, c.role, c.slave>>] = @ - c.amount]
      /\ UNCHANGED <<allocationCandidates, slaves, considered>>
      /\ IF refused
         THEN /\ filters' = filters \cup {x}
              /\ timers' = AddTimer([kind |-> "filter", filter |-> x,
                                     left |-> Timeout(c.refuse)], timers)
              /\ refusals' = refusals \cup {[filter |-> x, left |-> Refuse(c.refuse)]}
         ELSE UNCHANGED <<filters, timers, refusals>>
  BY DEF RecoverResources, NoAllocate
<1>3. allocated' \in [Framework \X Role \X Slave -> Int]
  <2> DEFINE key == <<c.framework, c.role, c.slave>>
             n == allocated[key] - c.amount
  <2>1. key \in Framework \X Role \X Slave
    BY <1>1
  <2>2. n \in Int
    BY <1>1, <2>1, BoundsAssumption
  <2>3. allocated' = [allocated EXCEPT ![key] = n]
    BY <1>2
  <2> HIDE DEF key, n
  <2> QED BY <2>2, <2>3
<1>4. Handles(mailbox, p)
  BY FirstHandled
<1>5. /\ p \in Seq(Call)
      /\ \A i \in DOMAIN p : i \in Nat /\ i > 0 /\ i + 1 \in DOMAIN mailbox /\ p[i] = mailbox[i + 1]
  BY TailOf
<1> HIDE DEF p, c
<1>6. Inv(p, timers, slaves, allocationCandidates, filters, considered, refusals)
  <2>1. Inv(mailbox, timers, slaves, allocationCandidates, filters, considered, refusals)
    BY DEF IInv
  <2> QED BY <1>1, <1>4, <2>1, CallHandled
<1>7. CASE ~refused
  BY <1>2, <1>3, <1>6, <1>7 DEF IInv, p
<1>8. CASE refused
  <2>1. Refuses(mailbox[1])
    BY <1>1, <1>8 DEF Refuses
  <2>2. c.id \in RefusalId /\ c.refuse \in RefuseSeconds
    BY <1>1, <2>1
  <2>3. x \in Filter /\ x.id = c.id /\ x.slave \in slaves
    BY <1>1, <1>8, <2>2 DEF Filter
  <2>4. /\ \A y \in filters : y.id # x.id
        /\ \A j \in DOMAIN timers : timers[j].kind = "filter" => timers[j].filter.id # x.id
        /\ \A j \in DOMAIN mailbox : Expires(mailbox[j]) => mailbox[j].filter.id # x.id
        /\ \A j \in DOMAIN mailbox : Refuses(mailbox[j]) /\ mailbox[j].id = x.id => j = 1
    BY <1>1, <2>1, <2>3 DEF IInv, Inv, FreshRefusals
  <2>5. /\ \A j \in DOMAIN p : Expires(p[j]) => p[j].filter.id # x.id
        /\ \A j \in DOMAIN p : Refuses(p[j]) => p[j].id # x.id
    <3> HIDE DEF x
    <3>1. \A j \in DOMAIN p : Expires(p[j]) => p[j].filter.id # x.id
      BY <1>5, <2>4
    <3>2. \A j \in DOMAIN p : Refuses(p[j]) /\ p[j].id = x.id => j + 1 = 1
      BY <1>5, <2>4
    <3>3. \A j \in DOMAIN p : j + 1 # 1
      BY <1>5
    <3> QED BY <3>1, <3>2, <3>3
  <2> HIDE DEF x
  <2>6. Inv(p, AddTimer([kind |-> "filter", filter |-> x, left |-> Timeout(c.refuse)], timers),
            slaves, allocationCandidates, filters \cup {x}, considered,
            refusals \cup {[filter |-> x, left |-> Refuse(c.refuse)]})
    BY <1>6, <1>8, <2>2, <2>3, <2>4, <2>5, RefuseTimes, RefusalInstalled
  <2> QED BY <1>2, <1>3, <1>8, <2>6 DEF IInv, p, x
<1> QED BY <1>7, <1>8

\* The timer's call goes to the end of the mailbox again.
LEMMA ExpireStep ==
  ASSUME IInv, mailbox # <<>>, Expire
  PROVE  IInv'
<1> USE TypesOfIInv
<1> DEFINE x == Head(mailbox).filter
           p == Tail(mailbox)
           c == [call |-> "_expire", filter |-> x]
<1>1. /\ Head(mailbox) = mailbox[1] /\ 1 \in DOMAIN mailbox
      /\ Head(mailbox).call = "expire" /\ Expires(Head(mailbox)) /\ x \in Filter
  BY HandledCall, CallFields DEF Expire, NextIs, Expires
<1>2. c \in Call /\ c.call = "_expire" /\ c.filter = x
  BY <1>1 DEF Call
<1>3. Handles(mailbox, p)
  BY FirstHandled
<1>4. \A i \in DOMAIN p : i + 1 \in DOMAIN mailbox /\ p[i] = mailbox[i + 1]
  BY TailOf
<1>5. mailbox' = Append(p, c)
      /\ UNCHANGED <<timers, slaves, allocated, filters, allocationCandidates, considered, refusals>>
  BY DEF Expire
<1> HIDE DEF p, c, x
<1>6. Inv(mailbox, timers, slaves, allocationCandidates, filters, considered, refusals)
  BY DEF IInv
<1>7. Inv(p, timers, slaves, allocationCandidates, filters, considered, refusals)
  BY <1>1, <1>3, <1>6, CallHandled
<1>8. /\ \A j \in DOMAIN timers : timers[j].kind = "filter" => timers[j].filter.id # x.id
      /\ \A y \in filters : y.id = x.id => y = x
  BY <1>1, <1>6 DEF Inv, OneTimer, x
<1>9. \A i \in DOMAIN p : Refuses(p[i]) => p[i].id # x.id
  BY <1>1, <1>4, <1>6 DEF Inv, FreshRefusals, x
<1>10. x \in filters /\ x.id \notin considered => Waiting(p, timers)
  <2> SUFFICES ASSUME x \in filters, x.id \notin considered
               PROVE  Waiting(p, timers)
    OBVIOUS
  <2>1. NoLoop(timers) /\ \A m \in DOMAIN mailbox : mailbox[m].call = "allocate" => m < 1
    BY <1>1, <1>6 DEF Inv, RunAhead, x
  <2>2. \A i \in DOMAIN mailbox : i \in Nat /\ i > 0
    BY TailOf
  <2>3. ~HasCall(p, "allocate")
    BY <1>4, <2>1, <2>2 DEF HasCall
  <2> QED BY <2>1, <2>3 DEF Waiting
<1>11. Inv(Append(p, c), timers, slaves, allocationCandidates, filters, considered, refusals)
  BY <1>2, <1>7, <1>8, <1>9, <1>10, ExpiryArrives
<1> QED BY <1>5, <1>11 DEF IInv

\* The filter is taken out, if it is there.
LEMMA ExpireFilterStep ==
  ASSUME IInv, mailbox # <<>>, ExpireFilter
  PROVE  IInv'
<1> USE TypesOfIInv
<1> DEFINE x == Head(mailbox).filter
           p == Tail(mailbox)
<1>1. /\ Head(mailbox) = mailbox[1] /\ 1 \in DOMAIN mailbox
      /\ Head(mailbox).call = "_expire" /\ Expires(Head(mailbox))
  BY HandledCall DEF ExpireFilter, NextIs, Expires
<1>2. Handles(mailbox, p)
  BY FirstHandled
<1>3. /\ mailbox' = p /\ filters' = filters \ {x} /\ considered' = considered \ {x.id}
      /\ UNCHANGED <<timers, slaves, allocated, allocationCandidates, refusals>>
  BY DEF ExpireFilter, NoAllocate
<1> HIDE DEF p, x
<1>4. Inv(mailbox, timers, slaves, allocationCandidates, filters, considered, refusals)
  BY DEF IInv
<1>5. Inv(p, timers, slaves, allocationCandidates, filters, considered, refusals)
  BY <1>1, <1>2, <1>4, CallHandled
<1>6. /\ \A j \in DOMAIN timers : timers[j].kind = "filter" => timers[j].filter.id # x.id
      /\ \A y \in filters : y.id = x.id => y = x
  BY <1>1, <1>4 DEF Inv, OneTimer, x
<1>7. Inv(p, timers, slaves, allocationCandidates, filters \ {x}, considered \ {x.id}, refusals)
  BY <1>5, <1>6, FilterGone
<1> QED BY <1>3, <1>7 DEF IInv

\* The loop asks for a run for all agents.
LEMMA PeriodicStep ==
  ASSUME IInv, mailbox # <<>>, PeriodicAllocate
  PROVE  IInv'
<1> USE TypesOfIInv
<1>1. Head(mailbox) = mailbox[1] /\ Head(mailbox).call = "allocate" /\ Allocate(slaves)
  BY HandledCall DEF PeriodicAllocate, NextIs
<1>2. Handles(mailbox, mailbox') /\ HasCall(mailbox', "_allocate")
  BY <1>1, RunAskedFor
<1>3. /\ UNCHANGED <<timers, slaves, allocated, filters, considered, refusals>>
      /\ slaves \subseteq allocationCandidates'
  BY DEF PeriodicAllocate, Allocate
<1>4. Inv(mailbox, timers, slaves, allocationCandidates, filters, considered, refusals)
  BY DEF IInv
<1>5. Inv(mailbox', timers, slaves, allocationCandidates', filters, considered, refusals)
  BY <1>1, <1>2, <1>3, <1>4, CallHandled
<1> QED BY <1>3, <1>5 DEF IInv

\* A run comes by the candidates.
LEMMA RunStep ==
  ASSUME IInv, mailbox # <<>>, NEW offer \in Offers, Run(offer)
  PROVE  IInv'
<1> USE TypesOfIInv
<1>1. mailbox[1].call = "_allocate"
  BY HandledCall DEF Run, NextIs
<1>2. /\ mailbox' = Tail(mailbox) /\ allocationCandidates' = {}
      /\ timers' = IF Waiting(mailbox, timers)
                   THEN AddTimer([kind |-> "loop", left |-> AllocationInterval], timers)
                   ELSE timers
      /\ considered' = considered
                         \cup {x.id : x \in {y \in filters : y.slave \in allocationCandidates}}
      /\ allocated' = [k \in DOMAIN allocated |-> allocated[k] + offer[k]]
      /\ UNCHANGED <<slaves, filters, refusals>>
  BY LoopWaitsIsWaiting DEF Run
<1>3. Inv(mailbox, timers, slaves, allocationCandidates, filters, considered, refusals)
  BY DEF IInv
<1>4. Inv(mailbox', timers', slaves, {}, filters, considered', refusals)
  <2>1. /\ Waiting(mailbox, timers) =>
             Inv(Tail(mailbox),
                 AddTimer([kind |-> "loop", left |-> AllocationInterval], timers),
                 slaves, {}, filters, considered', refusals)
        /\ ~Waiting(mailbox, timers) =>
             Inv(Tail(mailbox), timers, slaves, {}, filters, considered', refusals)
    BY <1>1, <1>2, <1>3, RunDone
  <2> QED BY <1>2, <2>1
<1>5. allocated' \in [Framework \X Role \X Slave -> Int]
  <2>1. offer \in [Framework \X Role \X Slave -> 0..Amount]
    BY DEF Offers
  <2>2. 0..Amount \subseteq Int
    BY BoundsAssumption
  <2>3. \A k \in Framework \X Role \X Slave : allocated[k] + offer[k] \in Int
    BY <2>1, <2>2
  <2> QED BY <1>2, <2>3
<1> QED BY <1>2, <1>4, <1>5 DEF IInv

\* The master's calls.
LEMMA MasterStep ==
  ASSUME IInv, Master
  PROVE  IInv'
<1> USE TypesOfIInv
<1>0. Inv(mailbox, timers, slaves, allocationCandidates, filters, considered, refusals)
  BY DEF IInv
<1>1. ASSUME NEW c \in Call, FromMaster(c),
             c.call \notin {"allocate", "_allocate", "expire", "_expire"},
             Refuses(c) => c.id \in RefusalId \ UnderWay /\ c.refuse \in RefuseSeconds
      PROVE  IInv'
  <2>1. /\ mailbox' = Append(mailbox, c)
        /\ UNCHANGED <<timers, slaves, allocated, filters, allocationCandidates, considered,
                       refusals>>
    BY <1>1 DEF FromMaster
  <2>2. ASSUME Refuses(c)
        PROVE  /\ \A x \in filters : x.id # c.id
               /\ \A j \in DOMAIN timers : timers[j].kind = "filter" => timers[j].filter.id # c.id
               /\ \A j \in DOMAIN mailbox : Expires(mailbox[j]) => mailbox[j].filter.id # c.id
               /\ \A j \in DOMAIN mailbox : Refuses(mailbox[j]) => mailbox[j].id # c.id
    <3>1. c.id \notin UnderWay
      BY <1>1, <2>2
    <3>2. \A x \in filters : x.id # c.id
      BY <3>1 DEF UnderWay
    <3>3. \A j \in DOMAIN timers : timers[j].kind = "filter" => timers[j].filter.id # c.id
      BY <3>1 DEF UnderWay, ToSet
    <3>4. \A j \in DOMAIN mailbox : Expires(mailbox[j]) => mailbox[j].filter.id # c.id
      BY <3>1 DEF UnderWay, Calls, Expires
    <3>5. \A j \in DOMAIN mailbox : Refuses(mailbox[j]) => mailbox[j].id # c.id
      <4>1. \A j \in DOMAIN mailbox : Refuses(mailbox[j]) => mailbox[j].id # None
        BY BoundsAssumption DEF RefusalId
      <4> QED BY <3>1, <4>1 DEF UnderWay, Calls, Refuses
    <3> QED BY <3>2, <3>3, <3>4, <3>5
  <2>3. Inv(Append(mailbox, c), timers, slaves, allocationCandidates, filters, considered,
            refusals)
    BY <1>0, <1>1, <2>2, CallArrives
  <2> QED BY <2>1, <2>3 DEF IInv
<1>2. ASSUME NEW f \in Framework, NEW roles \in SUBSET Role, MasterFramework(f, roles)
      PROVE  IInv'
  <2>1. PICK name \in {"addFramework", "updateFramework", "reviveOffers"} :
          FromMaster([call |-> name, framework |-> f, roles |-> roles])
    BY <1>2 DEF MasterFramework
  <2> DEFINE c == [call |-> name, framework |-> f, roles |-> roles]
  <2>2. c \in Call /\ c.call = name
    BY DEF Call
  <2> HIDE DEF c
  <2> QED BY <1>1, <2>1, <2>2 DEF c, Refuses
<1>3. ASSUME NEW f \in Framework, MasterActive(f)
      PROVE  IInv'
  <2>1. PICK name \in {"activateFramework", "deactivateFramework", "removeFramework"} :
          FromMaster([call |-> name, framework |-> f])
    BY <1>3 DEF MasterActive
  <2> DEFINE c == [call |-> name, framework |-> f]
  <2>2. c \in Call /\ c.call = name
    BY DEF Call
  <2> HIDE DEF c
  <2> QED BY <1>1, <2>1, <2>2 DEF c, Refuses
<1>4. ASSUME NEW s \in Slave, MasterAgent(s)
      PROVE  IInv'
  <2>1. PICK name \in {"addSlave", "updateSlave", "removeSlave"} :
          FromMaster([call |-> name, slave |-> s])
    BY <1>4 DEF MasterAgent
  <2> DEFINE c == [call |-> name, slave |-> s]
  <2>2. c \in Call /\ c.call = name
    BY DEF Call
  <2> HIDE DEF c
  <2> QED BY <1>1, <2>1, <2>2 DEF c, Refuses
<1>5. ASSUME NEW f \in Framework, NEW r \in Role, NEW s \in Slave, NEW n \in 1..Amount,
             MasterRecovers(f, r, s, n)
      PROVE  IInv'
  <2> DEFINE free == RefusalId \ UnderWay
             least == CHOOSE i \in free : \A j \in free : i <= j
  <2>1. PICK refuse \in RefuseSeconds \cup {None} :
          /\ refuse # None => free # {}
          /\ FromMaster([call |-> "recoverResources", framework |-> f, role |-> r, slave |-> s,
                         amount |-> n, refuse |-> refuse,
                         id |-> IF refuse = None THEN None ELSE least])
    BY <1>5 DEF MasterRecovers
  <2> DEFINE id == IF refuse = None THEN None ELSE least
             c == [call |-> "recoverResources", framework |-> f, role |-> r, slave |-> s,
                   amount |-> n, refuse |-> refuse, id |-> id]
  <2>2. refuse # None => id \in free
    <3> SUFFICES ASSUME refuse # None
                 PROVE  least \in free
      OBVIOUS
    <3>1. free \in SUBSET Nat /\ free # {}
      BY <2>1, BoundsAssumption DEF RefusalId
    <3> HIDE DEF free
    <3>2. PICK i \in free : \A j \in free : ~(j < i)
      BY <3>1, LeastNumber
    <3>3. \A j \in free : i <= j
      BY <3>1, <3>2
    <3> QED BY <3>3
  <2>3. id \in {None} \cup RefusalId
    BY <2>2
  <2> HIDE DEF id
  <2>4. c \in Call /\ c.call = "recoverResources" /\ c.refuse = refuse /\ c.id = id
    BY <2>3 DEF Call
  <2>5. FromMaster(c)
    BY <2>1 DEF id
  <2> HIDE DEF c, free
  <2> QED BY <1>1, <2>2, <2>4, <2>5 DEF Refuses, free
<1> QED BY <1>2, <1>3, <1>4, <1>5 DEF Master

-----------------------------------------------------------------------------
(* The theorems.                                                           *)

\* No call, no agent and no filter: only the loop sleeps.
LEMMA InitInductive == Init => IInv
<1> SUFFICES ASSUME Init PROVE IInv
  OBVIOUS
<1> DEFINE t == [kind |-> "loop", left |-> AllocationInterval]
<1>1. t \in Timer /\ t.kind = "loop" /\ t.left \in Nat
  BY BoundsAssumption DEF Timer
<1>2. timers = <<t>> /\ mailbox = <<>> /\ filters = {} /\ refusals = {} /\ slaves = {}
  BY DEF Init
<1> HIDE DEF t
<1>3. timers \in Seq(Timer) /\ DOMAIN timers = {1} /\ timers[1] = t
  BY <1>1, <1>2
<1>4. mailbox \in Seq(Call) /\ DOMAIN mailbox = {}
  BY <1>2
<1>5. Types(mailbox, timers, slaves, filters, refusals)
  BY <1>2, <1>3, <1>4 DEF Types
<1>6. InOrder(timers) /\ FreshRefusals(mailbox, timers, filters)
  BY <1>1, <1>3, <1>4 DEF InOrder, FreshRefusals
<1>7. OneTimer(mailbox, timers, filters) /\ InForce(timers, filters, refusals)
  BY <1>1, <1>2, <1>3, <1>4 DEF OneTimer, InForce
<1>8. ~NoLoop(timers)
  BY <1>1, <1>3 DEF NoLoop, IsLoop
<1>9. /\ RunComes(mailbox, timers, slaves, allocationCandidates)
      /\ RunAhead(mailbox, timers, filters, considered)
  BY <1>2, <1>8 DEF RunComes, RunAhead, Waiting
<1>10. allocated \in [Framework \X Role \X Slave -> Int]
  BY DEF Init
<1> QED BY <1>2, <1>5, <1>6, <1>7, <1>9, <1>10 DEF IInv, Inv

\* The mailbox's handlers look at its first call.
LEMMA HandleStep ==
  ASSUME IInv, Handle
  PROVE  IInv'
<1>1. mailbox # <<>>
  BY DEF Handle, AddFramework, RemoveFramework, ActivateFramework, DeactivateFramework,
         UpdateFramework, ReviveOffers, AddSlave, RemoveSlave, UpdateSlave, RecoverResources,
         Expire, ExpireFilter, PeriodicAllocate, NextIs
<1> QED BY <1>1, FrameworkSteps, AgentSteps, RecoverStep, ExpireStep, ExpireFilterStep,
           PeriodicStep, RunStep DEF Handle

\* All steps keep the invariant.
LEMMA NextInductive == IInv /\ [Next]_vars => IInv'
<1> SUFFICES ASSUME IInv, [Next]_vars PROVE IInv'
  OBVIOUS
<1>0. Inv(mailbox, timers, slaves, allocationCandidates, filters, considered, refusals)
  BY DEF IInv
<1>1. CASE Master
  BY <1>1, MasterStep
<1>2. CASE Tick
  <2>1. Inv(mailbox, timers', slaves, allocationCandidates, filters, considered, refusals')
    BY <1>0, <1>2, TimePasses DEF Tick
  <2> QED BY <1>2, <2>1 DEF Tick, IInv
<1>3. CASE TimerFires
  <2>1. timers # <<>> /\ Head(timers).left = 0 /\ timers' = Tail(timers)
    BY <1>3 DEF TimerFires
  <2>2. UNCHANGED <<slaves, allocated, filters, allocationCandidates, considered, refusals>>
    BY <1>3 DEF TimerFires
  <2>3. Head(timers) \in Timer
    BY <2>1, TypesOfIInv, TailOf
  <2>4. CASE IsLoop(Head(timers))
    <3>1. mailbox' = Append(mailbox, [call |-> "allocate"])
      BY <1>3, <2>4 DEF TimerFires, IsLoop
    <3>2. Inv(mailbox', timers', slaves, allocationCandidates, filters, considered, refusals)
      BY <1>0, <2>1, <2>4, <3>1, LoopTimerFires
    <3> QED BY <2>2, <3>2 DEF IInv
  <2>5. CASE ~IsLoop(Head(timers))
    <3>1. mailbox' = Append(mailbox, [call |-> "expire", filter |-> Head(timers).filter])
      BY <1>3, <2>5 DEF TimerFires, IsLoop
    <3>2. Head(timers).kind = "filter"
      BY <2>3, <2>5, TimerFields DEF IsLoop
    <3>3. Inv(mailbox', timers', slaves, allocationCandidates, filters, considered, refusals)
      BY <1>0, <2>1, <2>5, <3>1, <3>2, FilterTimerFires
    <3> QED BY <2>2, <3>3 DEF IInv
  <2> QED BY <2>4, <2>5
<1>4. CASE Handle
  BY <1>4, HandleStep
<1>5. CASE UNCHANGED vars
  BY <1>5 DEF vars, IInv
<1> QED BY <1>1, <1>2, <1>3, <1>4, <1>5 DEF Next

\* The invariant holds throughout.
THEOREM Inductive == Spec => []IInv
<1> QED BY InitInductive, NextInductive, PTL DEF Spec

\* For as long as a refusal is in force its filter is there, and no run offers the framework
\* what it refused or less.
THEOREM RefusalHonoured == Spec => RefusalIsHonoured
<1>1. ASSUME IInv, [Next]_vars
      PROVE  [NextIs("_allocate") /\ mailbox' = Tail(mailbox) =>
                \A r \in refusals :
                  LET k == <<r.filter.framework, r.filter.role, r.filter.slave>>
                  IN  allocated'[k] - allocated[k] \notin 1..r.filter.amount]_vars
  <2> USE <1>1, TypesOfIInv
  <2> SUFFICES ASSUME NextIs("_allocate"), mailbox' = Tail(mailbox), ~(UNCHANGED vars),
                      NEW r \in refusals
               PROVE  LET k == <<r.filter.framework, r.filter.role, r.filter.slave>>
                      IN  allocated'[k] - allocated[k] \notin 1..r.filter.amount
    OBVIOUS
  <2> DEFINE k == <<r.filter.framework, r.filter.role, r.filter.slave>>
  <2>1. mailbox \in Seq(Call) /\ mailbox # <<>>
    BY DEF NextIs
  <2>2. Len(mailbox') = Len(mailbox) - 1 /\ Len(mailbox) \in Nat
    BY <2>1
  <2>3. ~Master
    <3>1. \A c : mailbox' = Append(mailbox, c) => Len(mailbox') = Len(mailbox) + 1
      BY <2>1
    <3>2. \A c : mailbox' # Append(mailbox, c)
      BY <2>2, <3>1
    <3> QED BY <3>2 DEF Master, MasterFramework, MasterActive, MasterAgent, MasterRecovers,
                        FromMaster
  <2>4. ~Tick /\ ~TimerFires
    <3>1. \A c : Len(Append(mailbox, c)) = Len(mailbox) + 1
      BY <2>1
    <3>2. \A c : mailbox' # Append(mailbox, c)
      BY <2>2, <3>1
    <3>3. Len(Tail(mailbox)) # Len(mailbox)
      BY <2>1
    <3>4. mailbox' # mailbox
      BY <3>3
    <3> QED BY <3>2, <3>4 DEF Tick, TimerFires
  <2>5. PICK offer \in Offers : Run(offer)
    BY <2>3, <2>4 DEF Next, Handle, NextIs, AddFramework, RemoveFramework, ActivateFramework,
                      DeactivateFramework, UpdateFramework, ReviveOffers, AddSlave, RemoveSlave,
                      UpdateSlave, RecoverResources, Expire, ExpireFilter, PeriodicAllocate
  <2>6. r.filter \in filters /\ r.filter \in Filter
    OBVIOUS
  <2>7. /\ r.filter.framework \in Framework /\ r.filter.role \in Role /\ r.filter.slave \in Slave
        /\ r.filter.amount \in Nat
    BY <2>6, BoundsAssumption DEF Filter
  <2>8. /\ offer \in [Framework \X Role \X Slave -> 0..Amount]
        /\ offer[k] > 0 =>
             ~IsFiltered(r.filter.framework, r.filter.role, r.filter.slave, offer[k])
    BY <2>7 DEF Offers
  <2>9. offer[k] > 0 => ~(offer[k] <= r.filter.amount)
    BY <2>6, <2>8 DEF IsFiltered
  <2>10. allocated'[k] = allocated[k] + offer[k] /\ allocated[k] \in Int
    BY <2>5, <2>7 DEF Run
  <2>11. offer[k] \in Int
    BY <2>7, <2>8, BoundsAssumption
  <2> HIDE DEF k
  <2>12. allocated'[k] - allocated[k] \notin 1..r.filter.amount
    BY <2>7, <2>9, <2>10, <2>11
  <2> QED BY <2>12 DEF k
<1> QED BY <1>1, Inductive, PTL DEF Spec, RefusalIsHonoured

\* When its expiry takes a filter out, a run has come by the agent.
THEOREM Outlives == Spec => OutlivesNextRun
<1>1. ASSUME IInv, [Next]_vars
      PROVE  [\A x \in filters \ filters' :
                NextIs("expire") \/ NextIs("_expire") => x.id \in considered]_vars
  <2> USE <1>1, TypesOfIInv
  <2> SUFFICES ASSUME NEW x \in filters \ filters', NextIs("expire") \/ NextIs("_expire"),
                      ~(UNCHANGED vars), x.id \notin considered
               PROVE  FALSE
    OBVIOUS
  <2>1. ~Master /\ ~Tick /\ ~TimerFires
    BY DEF Master, MasterFramework, MasterActive, MasterAgent, MasterRecovers, FromMaster, Tick,
           TimerFires
  <2>2. ExpireFilter
    BY <2>1 DEF Next, Handle, NextIs, AddFramework, RemoveFramework, ActivateFramework,
                DeactivateFramework, UpdateFramework, ReviveOffers, AddSlave, RemoveSlave,
                UpdateSlave, RecoverResources, Expire, PeriodicAllocate, Run
  <2>3. mailbox # <<>> /\ Head(mailbox).call = "_expire" /\ x = Head(mailbox).filter
    BY <2>2 DEF ExpireFilter, NextIs
  <2>4. 1 \in DOMAIN mailbox /\ mailbox[1].call = "_expire" /\ mailbox[1].filter = x
    BY <2>3, HandledCall
  <2>5. \E m \in 1..(1 - 1) : mailbox[m].call = "_allocate"
    BY <2>4 DEF IInv, Inv, RunAhead
  <2> QED BY <2>5
<1> QED BY <1>1, Inductive, PTL DEF Spec, OutlivesNextRun

=============================================================================
