-------------------------- MODULE InverseOffersProofs --------------------------
(***************************************************************************)
(* Theorems about InverseOffers, for any frameworks, agents, schedules and *)
(* refusals, and a mailbox of any length.  What an answer is about is      *)
(* right because of the order of calls: the master withdraws the inverse   *)
(* offers of an agent, with an answer for each, before it tells of a new   *)
(* schedule.  So the invariant says of every call in the mailbox which     *)
(* schedule its agent will have when the call is handled (VersionAt).      *)
(* That no second inverse offer is about one unavailability is a second    *)
(* invariant, on the places where inverse offers are (Second).             *)
(***************************************************************************)
EXTENDS InverseOffers, FoldTheorems

Offer == [framework : Framework, slave : Slave, version : 1..MaxVersion]

Call ==
  [call : {"updateUnavailability"}, slave : Slave, version : 0..MaxVersion]
    \cup [call : {"updateInverseOffer"}, offer : Offer, status : {"none", "accept", "decline"},
          refuse : {NoRefusal} \cup FilterId]
    \cup [call : {"activateFramework", "deactivateFramework", "reviveOffers", "updateFramework"},
          framework : Framework]
    \cup [call : {"updateSlave"}, slave : Slave]
    \cup [call : {"expire"}, id : FilterId]
    \cup [call : {"allocate", "_allocate"}]

Statuses == UNION {[F -> [status : {"accept", "decline"}, of : Offer]] : F \in SUBSET Framework}

Maintenance ==
  [version : 1..MaxVersion, offersOutstanding : SUBSET Framework, statuses : Statuses]

Filter ==
  [id : FilterId, framework : Framework, slave : Slave, version : 1..MaxVersion,
   pending : BOOLEAN]

Plans ==
  {plan \in [Slave -> [version : 0..MaxVersion, on : BOOLEAN]] :
     \A s \in Slave : plan[s].on => plan[s].version # 0}

Types ==
  /\ mailbox \in Seq(Call)
  /\ callbacks \in Seq(Offer)
  /\ offers \in Seq(Offer)
  /\ active \subseteq Framework
  /\ maintenance \in [Slave -> Maintenance \cup {None}]
  /\ filters \subseteq Filter
  /\ allocationCandidates \subseteq Slave
  /\ schedule \in Plans

-----------------------------------------------------------------------------
(* The schedule of an agent while the mailbox is served.                   *)

\* Call c changes the schedule of s.
Changes(c, s) == c.call = "updateUnavailability" /\ c.slave = s

IsAnswer(c) == c.call = "updateInverseOffer"

\* v is the version that agent s, now at u, has when call i of the mailbox q is handled.
VersionAt(q, u, s, i, v) ==
  \/ \E j \in 1..(i - 1) : /\ Changes(q[j], s) /\ q[j].version = v
                           /\ \A k \in (j + 1)..(i - 1) : ~Changes(q[k], s)
  \/ u = v /\ \A k \in 1..(i - 1) : ~Changes(q[k], s)

\* What a schedule of the master's says.
Scheduled(entry) == IF entry.on THEN entry.version ELSE 0

\* An answer is handled while its agent is scheduled as it was when the master passed the
\* inverse offer on, which is as it was when it was made unless it is in `late`.
AnswersInTime(q, m, old) ==
  \A i \in 1..Len(q) : IsAnswer(q[i]) =>
    LET o == q[i].offer
    IN  \E v \in 1..MaxVersion : /\ VersionAt(q, m[o.slave].version, o.slave, i, v)
                                 /\ o.version = v \/ o \in old

\* When the mailbox has been served, the allocator has the schedule that the master has.
Outlook(q, m, plan) ==
  \A s \in Slave : VersionAt(q, m[s].version, s, Len(q) + 1, Scheduled(plan[s]))

\* An inverse offer that a framework has is for what is scheduled.
InTime(o, plan, old) ==
  plan[o.slave].on /\ (o.version = plan[o.slave].version \/ o \in old)

OffersInTime(given, plan, old) == \A i \in 1..Len(given) : InTime(given[i], plan, old)

Timing ==
  /\ AnswersInTime(mailbox, maintenance, late)
  /\ Outlook(mailbox, maintenance, schedule)
  /\ OffersInTime(offers, schedule, late)

-----------------------------------------------------------------------------
(* Queues.                                                                 *)

\* Where the elements of a concatenation are.
LEMMA Concatenated ==
  ASSUME NEW S, NEW q \in Seq(S), NEW c \in Seq(S)
  PROVE  /\ q \o c \in Seq(S) /\ Len(q \o c) = Len(q) + Len(c)
         /\ Len(q) \in Nat /\ Len(c) \in Nat
         /\ \A i \in 1..Len(q) : (q \o c)[i] = q[i]
         /\ \A i \in 1..Len(c) : (q \o c)[Len(q) + i] = c[i]
         /\ \A i \in 1..Len(q \o c) : i \in 1..Len(q) \/ i - Len(q) \in 1..Len(c)
OBVIOUS

\* Where the elements of a tail are.
LEMMA TailOf ==
  ASSUME NEW S, NEW q \in Seq(S), q # <<>>
  PROVE  /\ Tail(q) \in Seq(S) /\ Len(q) \in Nat \ {0} /\ Len(Tail(q)) = Len(q) - 1
         /\ Head(q) = q[1] /\ q[1] \in S
         /\ \A i \in 1..(Len(q) - 1) : Tail(q)[i] = q[i + 1]
OBVIOUS

\* Calls that are appended come too late to matter.
LEMMA AppendKeepsVersion ==
  ASSUME NEW q \in Seq(Call), NEW c \in Seq(Call), NEW u, NEW s, NEW v,
         NEW i \in 1..(Len(q) + 1), VersionAt(q, u, s, i, v)
  PROVE  VersionAt(q \o c, u, s, i, v)
<1>1. \A k \in 1..(i - 1) : (q \o c)[k] = q[k]
  BY Concatenated
<1>2. Len(q) \in Nat
  OBVIOUS
<1> DEFINE r == q \o c
<1>3. \A k \in 1..(i - 1) : r[k] = q[k]
  BY <1>1
<1> HIDE DEF r
<1>4. VersionAt(r, u, s, i, v)
  <2>1. CASE u = v /\ \A k \in 1..(i - 1) : ~Changes(q[k], s)
    BY <1>3, <2>1 DEF VersionAt
  <2>2. CASE \E j \in 1..(i - 1) : /\ Changes(q[j], s) /\ q[j].version = v
                                   /\ \A k \in (j + 1)..(i - 1) : ~Changes(q[k], s)
    <3>1. PICK j \in 1..(i - 1) : /\ Changes(q[j], s) /\ q[j].version = v
                                  /\ \A k \in (j + 1)..(i - 1) : ~Changes(q[k], s)
      BY <2>2
    <3>2. \A k \in (j + 1)..(i - 1) : k \in 1..(i - 1)
      BY <1>2
    <3> QED BY <1>3, <3>1, <3>2 DEF VersionAt
  <2> QED BY <2>1, <2>2 DEF VersionAt
<1> QED BY <1>4 DEF r

\* Between two calls the version is the same if none between them changes it.
LEMMA LaterVersion ==
  ASSUME NEW q, NEW u, NEW s, NEW v, NEW i \in Nat \ {0}, NEW j \in Nat, i <= j,
         VersionAt(q, u, s, i, v), \A k \in i..(j - 1) : ~Changes(q[k], s)
  PROVE  VersionAt(q, u, s, j, v)
<1>1. CASE u = v /\ \A k \in 1..(i - 1) : ~Changes(q[k], s)
  <2>1. \A k \in 1..(j - 1) : k \in 1..(i - 1) \/ k \in i..(j - 1)
    OBVIOUS
  <2> QED BY <1>1, <2>1 DEF VersionAt
<1>2. CASE \E n \in 1..(i - 1) : /\ Changes(q[n], s) /\ q[n].version = v
                                 /\ \A k \in (n + 1)..(i - 1) : ~Changes(q[k], s)
  <2>1. PICK n \in 1..(i - 1) : /\ Changes(q[n], s) /\ q[n].version = v
                                /\ \A k \in (n + 1)..(i - 1) : ~Changes(q[k], s)
    BY <1>2
  <2>2. /\ n \in 1..(j - 1)
        /\ \A k \in (n + 1)..(j - 1) : k \in (n + 1)..(i - 1) \/ k \in i..(j - 1)
    OBVIOUS
  <2> QED BY <2>1, <2>2 DEF VersionAt
<1> QED BY <1>1, <1>2 DEF VersionAt

\* When the first call has been handled, the rest find what they would have found.
LEMMA HandledVersion ==
  ASSUME NEW q \in Seq(Call), q # <<>>, NEW u, NEW s, NEW v, NEW w,
         NEW i \in 1..Len(q), VersionAt(q, u, s, i + 1, v),
         w = IF Changes(q[1], s) THEN q[1].version ELSE u
  PROVE  VersionAt(Tail(q), w, s, i, v)
<1> DEFINE r == Tail(q)
<1>1. Len(q) \in Nat /\ \A k \in 1..(i - 1) : r[k] = q[k + 1]
  BY TailOf
<1> HIDE DEF r
<1>2. CASE u = v /\ \A k \in 1..i : ~Changes(q[k], s)
  <2>1. w = v
    BY <1>2
  <2>2. \A k \in 1..(i - 1) : k + 1 \in 1..i
    OBVIOUS
  <2> QED BY <1>1, <1>2, <2>1, <2>2 DEF VersionAt, r
<1>3. CASE \E j \in 1..i : /\ Changes(q[j], s) /\ q[j].version = v
                           /\ \A k \in (j + 1)..i : ~Changes(q[k], s)
  <2>1. PICK j \in 1..i : /\ Changes(q[j], s) /\ q[j].version = v
                          /\ \A k \in (j + 1)..i : ~Changes(q[k], s)
    BY <1>3
  <2>2. \A k \in j..(i - 1) : k \in 1..(i - 1) /\ k + 1 \in (j + 1)..i
    BY <1>1
  <2>3. CASE j = 1
    <3>1. w = v
      BY <2>1, <2>3
    <3>2. \A k \in 1..(i - 1) : ~Changes(r[k], s)
      BY <1>1, <2>1, <2>2, <2>3
    <3> QED BY <3>1, <3>2 DEF VersionAt, r
  <2>4. CASE j # 1
    <3>1. /\ j - 1 \in 1..(i - 1) /\ r[j - 1] = q[j]
          /\ ((j - 1) + 1)..(i - 1) = j..(i - 1)
      <4>1. j - 1 \in 1..(i - 1) /\ (j - 1) + 1 = j
        BY <2>4
      <4> QED BY <1>1, <4>1
    <3>2. \A k \in j..(i - 1) : ~Changes(r[k], s)
      BY <1>1, <2>1, <2>2
    <3> QED BY <2>1, <3>1, <3>2 DEF VersionAt, r
  <2> QED BY <2>3, <2>4
<1>4. (i + 1) - 1 = i
  OBVIOUS
<1> QED BY <1>2, <1>3, <1>4 DEF VersionAt
-----------------------------------------------------------------------------
(* The order of calls.                                                     *)

\* The answers that withdraw inverse offers, each at its place among the offers.
LEMMA Withdrawn ==
  ASSUME Types, NEW old
  PROVE  /\ Withdraw(old) \in Seq(Call)
         /\ Len(Withdraw(old)) = Len(Among(offers, old))
         /\ \E h : Picks(Among(offers, old), offers, Len(offers), old, h)
         /\ \A i \in 1..Len(Withdraw(old)) :
              /\ Withdraw(old)[i].call = "updateInverseOffer"
              /\ Withdraw(old)[i].offer = Among(offers, old)[i]
              /\ Withdraw(old)[i].offer \in old \cap ToSet(offers)
<1> DEFINE q == Among(offers, old)
<1>1. q \in Seq(Offer) /\ \E h : Picks(q, offers, Len(offers), old, h)
  BY AmongPicks DEF Types
<1>2. \A i \in 1..Len(q) : q[i] \in Offer /\ q[i] \in old \cap ToSet(offers)
  <2>1. PICK h : Picks(q, offers, Len(offers), old, h)
    BY <1>1
  <2>2. \A i \in 1..Len(offers) : offers[i] \in ToSet(offers)
    BY DEF ToSet, Types
  <2> HIDE DEF q
  <2>3. ASSUME NEW i \in 1..Len(q) PROVE q[i] \in Offer /\ q[i] \in old \cap ToSet(offers)
    <3>1. h[i] \in 1..Len(offers) /\ q[i] = offers[h[i]] /\ q[i] \in old
      BY <2>1 DEF Picks
    <3>2. q[i] \in Offer
      BY <1>1
    <3> QED BY <2>2, <3>1, <3>2
  <2> QED BY <2>3
<1> HIDE DEF q
<1>3. Withdraw(old) = [i \in 1..Len(q) |-> Answer(q[i], "none", NoRefusal)]
  BY <1>1 DEF Withdraw, q
<1>4. \A i \in 1..Len(q) : Answer(q[i], "none", NoRefusal) \in Call
  BY <1>2 DEF Answer, Call
<1>5. Withdraw(old) \in Seq(Call) /\ Len(Withdraw(old)) = Len(q)
  BY <1>1, <1>3, <1>4
<1> QED BY <1>1, <1>2, <1>3, <1>5 DEF Answer, q

\* What the master keeps of the offers are offers.
LEMMA KeptOffers ==
  ASSUME Types, NEW W
  PROVE  /\ Among(offers, W) \in Seq(Offer)
         /\ \A i \in 1..Len(Among(offers, W)) :
              \E j \in 1..Len(offers) : Among(offers, W)[i] = offers[j] /\ offers[j] \in W
<1>1. /\ Among(offers, W) \in Seq(Offer)
      /\ \E h : Picks(Among(offers, W), offers, Len(offers), W, h)
  BY AmongPicks DEF Types
<1> QED BY <1>1 DEF Picks

\* Calls that change no schedule, and answers to offers that frameworks had.
LEMMA AppendKeepsTiming ==
  ASSUME NEW q \in Seq(Call), NEW m, NEW n, NEW plan \in Plans, NEW old, NEW older,
         NEW given \in Seq(Offer), NEW kept \in Seq(Offer), NEW c \in Seq(Call),
         AnswersInTime(q, m, old), Outlook(q, m, plan), OffersInTime(given, plan, old),
         \A k \in 1..Len(c) :
           /\ \A s \in Slave : ~Changes(c[k], s)
           /\ IsAnswer(c[k]) => \E j \in 1..Len(given) : c[k].offer = given[j],
         \A s \in Slave : n[s].version = m[s].version, old \subseteq older,
         \A i \in 1..Len(kept) : \/ \E j \in 1..Len(given) : kept[i] = given[j]
                                 \/ InTime(kept[i], plan, older)
  PROVE  /\ AnswersInTime(q \o c, n, older) /\ Outlook(q \o c, n, plan)
         /\ OffersInTime(kept, plan, older)
<1> DEFINE r == q \o c
<1>1. /\ r \in Seq(Call) /\ Len(r) = Len(q) + Len(c)
      /\ Len(q) \in Nat /\ Len(c) \in Nat
      /\ \A i \in 1..Len(q) : r[i] = q[i]
      /\ \A i \in 1..Len(c) : r[Len(q) + i] = c[i]
      /\ \A i \in 1..Len(r) : i \in 1..Len(q) \/ i - Len(q) \in 1..Len(c)
  BY Concatenated
<1>2. ASSUME NEW s \in Slave, NEW j \in (Len(q) + 1)..(Len(r) + 1)
      PROVE  VersionAt(r, n[s].version, s, j, Scheduled(plan[s]))
  <2>1. VersionAt(r, n[s].version, s, Len(q) + 1, Scheduled(plan[s]))
    BY <1>1, AppendKeepsVersion DEF Outlook
  <2>2. \A k \in (Len(q) + 1)..(j - 1) : ~Changes(r[k], s)
    <3> TAKE k \in (Len(q) + 1)..(j - 1)
    <3>1. k - Len(q) \in 1..Len(c) /\ Len(q) + (k - Len(q)) = k
      BY <1>1
    <3> QED BY <1>1, <3>1
  <2> HIDE DEF r
  <2>3. Len(q) + 1 \in Nat \ {0} /\ j \in Nat /\ Len(q) + 1 <= j
    BY <1>1
  <2> QED BY <2>1, <2>2, <2>3, LaterVersion
<1>3. Outlook(r, n, plan)
  <2>1. Len(r) + 1 \in (Len(q) + 1)..(Len(r) + 1)
    BY <1>1
  <2> HIDE DEF r
  <2> QED BY <1>2, <2>1 DEF Outlook
<1>4. AnswersInTime(r, n, older)
  <2> SUFFICES ASSUME NEW i \in 1..Len(r), IsAnswer(r[i]),
                      NEW o, o = r[i].offer
               PROVE  \E v \in 1..MaxVersion :
                        /\ VersionAt(r, n[o.slave].version, o.slave, i, v)
                        /\ o.version = v \/ o \in older
    BY DEF AnswersInTime
  <2>1. o.slave \in Slave
    <3>1. r[i] \in Call
      BY <1>1
    <3> QED BY <3>1 DEF Call, IsAnswer, Offer
  <2>2. CASE i \in 1..Len(q)
    <3>1. r[i] = q[i]
      BY <1>1, <2>2
    <3>2. PICK v \in 1..MaxVersion : /\ VersionAt(q, m[o.slave].version, o.slave, i, v)
                                     /\ o.version = v \/ o \in old
      BY <2>2, <3>1 DEF AnswersInTime
    <3>3. VersionAt(r, n[o.slave].version, o.slave, i, v)
      BY <1>1, <2>1, <2>2, <3>2, AppendKeepsVersion
    <3> QED BY <2>1, <3>2, <3>3
  <2>3. CASE i - Len(q) \in 1..Len(c)
    <3>1. r[i] = c[i - Len(q)]
      <4>1. i = Len(q) + (i - Len(q))
        BY <1>1
      <4> QED BY <1>1, <2>3, <4>1
    <3>2. PICK j \in 1..Len(given) : o = given[j]
      BY <2>3, <3>1
    <3>3. InTime(o, plan, old)
      BY <3>2 DEF OffersInTime
    <3>4. /\ Scheduled(plan[o.slave]) = plan[o.slave].version
          /\ Scheduled(plan[o.slave]) \in 1..MaxVersion
      BY <2>1, <3>3, BoundsAssumption DEF Scheduled, Plans, InTime
    <3>5. i \in (Len(q) + 1)..(Len(r) + 1)
      BY <1>1, <2>3
    <3>6. VersionAt(r, n[o.slave].version, o.slave, i, Scheduled(plan[o.slave]))
      <4> HIDE DEF r
      <4> QED BY <1>2, <2>1, <3>5
    <3> QED BY <3>3, <3>4, <3>6 DEF InTime
  <2> QED BY <1>1, <2>2, <2>3
<1>5. OffersInTime(kept, plan, older)
  BY DEF OffersInTime, InTime
<1> QED BY <1>3, <1>4, <1>5

\* A handler takes the first call and appends a run at most.
LEMMA HandleKeepsTiming ==
  ASSUME NEW q \in Seq(Call), q # <<>>, NEW m, NEW n, NEW plan \in Plans, NEW old,
         NEW c \in Seq(Call),
         AnswersInTime(q, m, old), Outlook(q, m, plan),
         \A k \in 1..Len(c) : ~IsAnswer(c[k]) /\ \A s \in Slave : ~Changes(c[k], s),
         \A s \in Slave :
           n[s].version = IF Changes(q[1], s) THEN q[1].version ELSE m[s].version
  PROVE  AnswersInTime(Tail(q) \o c, n, old) /\ Outlook(Tail(q) \o c, n, plan)
<1> DEFINE t == Tail(q)
<1>0. /\ t \in Seq(Call)
      /\ Len(q) \in Nat \ {0} /\ Len(t) = Len(q) - 1 /\ Len(t) \in Nat
      /\ \A i \in 1..Len(t) : t[i] = q[i + 1]
  BY TailOf
<1> HIDE DEF t
<1> DEFINE r == t \o c
<1>1. /\ r \in Seq(Call) /\ Len(r) = Len(t) + Len(c) /\ Len(c) \in Nat
      /\ \A i \in 1..Len(t) : r[i] = t[i]
      /\ \A i \in 1..Len(c) : r[Len(t) + i] = c[i]
      /\ \A i \in 1..Len(r) : i \in 1..Len(t) \/ i - Len(t) \in 1..Len(c)
  <2>1. t \in Seq(Call)
    BY <1>0
  <2> QED BY ONLY <2>1, c \in Seq(Call), Concatenated
<1>2. ASSUME NEW s \in Slave, NEW v, NEW i \in 1..Len(q),
             VersionAt(q, m[s].version, s, i + 1, v)
      PROVE  VersionAt(r, n[s].version, s, i, v)
  <2>1. VersionAt(t, n[s].version, s, i, v)
    BY <1>0, <1>2, HandledVersion DEF t
  <2>2. i \in 1..(Len(t) + 1)
    BY <1>0
  <2> QED BY <1>0, <2>1, <2>2, AppendKeepsVersion
<1>3. Outlook(r, n, plan)
  <2> SUFFICES ASSUME NEW s \in Slave
               PROVE  VersionAt(r, n[s].version, s, Len(r) + 1, Scheduled(plan[s]))
    BY DEF Outlook
  <2>1. VersionAt(r, n[s].version, s, Len(q), Scheduled(plan[s]))
    <3>1. /\ Len(q) \in 1..Len(q)
          /\ VersionAt(q, m[s].version, s, Len(q) + 1, Scheduled(plan[s]))
      BY <1>0 DEF Outlook
    <3> HIDE DEF r
    <3> QED BY <1>2, <3>1
  <2>2. \A k \in Len(q)..((Len(r) + 1) - 1) : ~Changes(r[k], s)
    <3> TAKE k \in Len(q)..((Len(r) + 1) - 1)
    <3>1. k - Len(t) \in 1..Len(c) /\ Len(t) + (k - Len(t)) = k
      BY <1>0, <1>1
    <3> QED BY <1>1, <3>1
  <2>3. Len(q) <= Len(r) + 1 /\ Len(r) + 1 \in Nat
    BY <1>0, <1>1
  <2> HIDE DEF r
  <2> QED BY <1>0, <2>1, <2>2, <2>3, LaterVersion
<1>4. AnswersInTime(r, n, old)
  <2> SUFFICES ASSUME NEW i \in 1..Len(r), IsAnswer(r[i]),
                      NEW o, o = r[i].offer
               PROVE  \E v \in 1..MaxVersion :
                        /\ VersionAt(r, n[o.slave].version, o.slave, i, v)
                        /\ o.version = v \/ o \in old
    BY DEF AnswersInTime
  <2>1. o.slave \in Slave
    <3>1. r[i] \in Call
      BY <1>1
    <3> QED BY <3>1 DEF Call, IsAnswer, Offer
  <2>2. i \in 1..Len(t)
    <3> SUFFICES ASSUME i - Len(t) \in 1..Len(c) PROVE FALSE
      BY <1>1
    <3>1. i = Len(t) + (i - Len(t))
      BY <1>0
    <3> QED BY <1>1, <3>1
  <2>3. i + 1 \in 1..Len(q) /\ r[i] = q[i + 1] /\ i \in 1..Len(q)
    BY <1>0, <1>1, <2>2
  <2>4. PICK v \in 1..MaxVersion : /\ VersionAt(q, m[o.slave].version, o.slave, i + 1, v)
                                   /\ o.version = v \/ o \in old
    BY <2>3 DEF AnswersInTime
  <2> QED BY <1>2, <2>1, <2>3, <2>4
<1> QED BY <1>3, <1>4 DEF t

\* The master tells of a new schedule of s when no framework has an inverse offer for it.
LEMMA NewScheduleTiming ==
  ASSUME NEW q \in Seq(Call), NEW m, NEW plan \in Plans, NEW next \in Plans, NEW old,
         NEW kept, NEW s \in Slave, NEW c \in Call,
         AnswersInTime(q, m, old), Outlook(q, m, plan), OffersInTime(kept, plan, old),
         Changes(c, s), c.version = Scheduled(next[s]),
         \A t \in Slave \ {s} : next[t] = plan[t],
         \A i \in 1..Len(kept) : kept[i].slave \in Slave \ {s}
  PROVE  /\ AnswersInTime(q \o <<c>>, m, old) /\ Outlook(q \o <<c>>, m, next)
         /\ OffersInTime(kept, next, old)
<1> DEFINE r == q \o <<c>>
<1>1. /\ r \in Seq(Call) /\ Len(r) = Len(q) + 1 /\ Len(q) \in Nat
      /\ \A i \in 1..Len(q) : r[i] = q[i]
      /\ r[Len(q) + 1] = c
  OBVIOUS
<1>2. ASSUME NEW u, NEW t, NEW v, NEW i \in 1..(Len(q) + 1), VersionAt(q, u, t, i, v)
      PROVE  VersionAt(r, u, t, i, v)
  BY <1>2, AppendKeepsVersion, <<c>> \in Seq(Call)
<1> HIDE DEF r
<1>3. AnswersInTime(r, m, old)
  <2> SUFFICES ASSUME NEW i \in 1..Len(r), IsAnswer(r[i]),
                      NEW o, o = r[i].offer
               PROVE  \E v \in 1..MaxVersion :
                        /\ VersionAt(r, m[o.slave].version, o.slave, i, v)
                        /\ o.version = v \/ o \in old
    BY DEF AnswersInTime
  <2>1. i \in 1..Len(q) /\ i \in 1..(Len(q) + 1) /\ r[i] = q[i]
    <3>1. i # Len(q) + 1
      BY <1>1 DEF IsAnswer, Changes
    <3> QED BY <1>1, <3>1
  <2>2. PICK v \in 1..MaxVersion : /\ VersionAt(q, m[o.slave].version, o.slave, i, v)
                                   /\ o.version = v \/ o \in old
    BY <2>1 DEF AnswersInTime
  <2> QED BY <1>2, <2>1, <2>2
<1>4. Outlook(r, m, next)
  <2> SUFFICES ASSUME NEW t \in Slave
               PROVE  VersionAt(r, m[t].version, t, Len(r) + 1, Scheduled(next[t]))
    BY DEF Outlook
  <2>1. CASE t = s
    <3>1. /\ Len(q) + 1 \in 1..((Len(r) + 1) - 1)
          /\ \A k \in ((Len(q) + 1) + 1)..((Len(r) + 1) - 1) : FALSE
      BY <1>1
    <3> QED BY <1>1, <2>1, <3>1 DEF VersionAt
  <2>2. CASE t # s
    <3>1. VersionAt(r, m[t].version, t, Len(q) + 1, Scheduled(next[t]))
      <4>1. Scheduled(next[t]) = Scheduled(plan[t]) /\ Len(q) + 1 \in 1..(Len(q) + 1)
        BY <1>1, <2>2
      <4> QED BY <1>2, <4>1 DEF Outlook
    <3>2. \A k \in (Len(q) + 1)..((Len(r) + 1) - 1) : ~Changes(r[k], t)
      <4>1. \A k \in (Len(q) + 1)..((Len(r) + 1) - 1) : k = Len(q) + 1
        BY <1>1
      <4> QED BY <1>1, <2>2, <4>1 DEF Changes
    <3>3. Len(q) + 1 \in Nat \ {0} /\ Len(r) + 1 \in Nat /\ Len(q) + 1 <= Len(r) + 1
      BY <1>1
    <3> QED BY <3>1, <3>2, <3>3, LaterVersion
  <2> QED BY <2>1, <2>2
<1>5. OffersInTime(kept, next, old)
  BY DEF OffersInTime, InTime
<1> QED BY <1>3, <1>4, <1>5 DEF r

-----------------------------------------------------------------------------
(* The steps.                                                              *)

IInv == Types /\ Timing /\ FrameworksReassess

\* What filters is there before, perhaps no longer pending, and what is recorded stays.
LEMMA ReassessKept ==
  ASSUME FrameworksReassess, maintenance' = maintenance, late \subseteq late',
         \A x \in filters' : \E y \in filters : /\ y.framework = x.framework
                                                /\ y.slave = x.slave /\ y.version = x.version
  PROVE  FrameworksReassess'
<1> SUFFICES ASSUME NEW s \in Slave, maintenance[s] # None
             PROVE  /\ \A f \in DOMAIN maintenance[s].statuses :
                         LET o == maintenance[s].statuses[f].of
                         IN  o.version = maintenance[s].version \/ o \in late'
                    /\ \A x \in filters' : x.slave = s =>
                         x.version = maintenance[s].version \/ Late(x.framework, s)'
  BY DEF FrameworksReassess
<1>1. ASSUME NEW f \in DOMAIN maintenance[s].statuses
      PROVE  LET o == maintenance[s].statuses[f].of
             IN  o.version = maintenance[s].version \/ o \in late'
  BY DEF FrameworksReassess
<1>2. ASSUME NEW x \in filters', x.slave = s
      PROVE  x.version = maintenance[s].version \/ Late(x.framework, s)'
  <2>1. PICK y \in filters : /\ y.framework = x.framework
                             /\ y.slave = x.slave /\ y.version = x.version
    BY <1>2
  <2>2. x.version = maintenance[s].version \/ Late(x.framework, s)
    BY <1>2, <2>1 DEF FrameworksReassess
  <2> QED BY <2>2 DEF Late
<1> QED BY <1>1, <1>2

\* No offer is left of an agent whose offers are withdrawn.
LEMMA MasterSchedulesKeeps ==
  ASSUME IInv, NEW s \in Slave, MasterSchedules(s)
  PROVE  IInv'
<1> DEFINE old == {o \in ToSet(offers) : o.slave = s}
           c == [call |-> "updateUnavailability", slave |-> s,
                 version |-> IF schedule'[s].on THEN schedule'[s].version ELSE 0]
           W == Withdraw(old)
           kept == Among(offers, ToSet(offers) \ old)
<1>0. /\ mailbox \in Seq(Call) /\ offers \in Seq(Offer) /\ callbacks \in Seq(Offer)
      /\ schedule \in Plans /\ Types /\ Timing /\ FrameworksReassess
  BY DEF IInv, Types
<1>1. /\ \/ /\ schedule[s].version < MaxVersion
            /\ schedule' = [schedule EXCEPT ![s] = [version |-> @.version + 1, on |-> TRUE]]
         \/ /\ schedule[s].on
            /\ schedule' = [schedule EXCEPT ![s].on = FALSE]
      /\ mailbox' = mailbox \o (W \o <<c>>)
      /\ offers' = kept
      /\ UNCHANGED <<active, maintenance, filters, allocationCandidates, holders>>
      /\ UNCHANGED <<callbacks, connected, late, ignored>>
  BY DEF MasterSchedules, Dispatch
<1>2. schedule' \in Plans /\ \A t \in Slave \ {s} : schedule'[t] = schedule[t]
  <2>0. /\ schedule \in [Slave -> [version : 0..MaxVersion, on : BOOLEAN]]
        /\ \A t \in Slave : schedule[t].on => schedule[t].version # 0
    BY <1>0 DEF Plans
  <2>1. PICK e \in [version : 0..MaxVersion, on : BOOLEAN] :
          schedule' = [schedule EXCEPT ![s] = e] /\ (e.on => e.version # 0)
    <3>1. CASE /\ schedule[s].version < MaxVersion
               /\ schedule' = [schedule EXCEPT ![s] = [version |-> @.version + 1, on |-> TRUE]]
      <4> DEFINE e == [version |-> schedule[s].version + 1, on |-> TRUE]
      <4>1. e \in [version : 0..MaxVersion, on : BOOLEAN] /\ e.version # 0
        BY <2>0, <3>1, BoundsAssumption
      <4>2. schedule' = [schedule EXCEPT ![s] = e]
        BY <3>1
      <4> QED BY <4>1, <4>2
    <3>2. CASE schedule' = [schedule EXCEPT ![s].on = FALSE]
      <4> DEFINE e == [schedule[s] EXCEPT !.on = FALSE]
      <4>1. e \in [version : 0..MaxVersion, on : BOOLEAN] /\ ~e.on
        BY <2>0
      <4>2. schedule' = [schedule EXCEPT ![s] = e]
        BY <3>2
      <4> QED BY <4>1, <4>2
    <3> QED BY <1>1, <3>1, <3>2
  <2>2. schedule' \in [Slave -> [version : 0..MaxVersion, on : BOOLEAN]]
    BY <2>0, <2>1
  <2>3. \A t \in Slave : schedule'[t] = IF t = s THEN e ELSE schedule[t]
    BY <2>0, <2>1
  <2> QED BY <2>0, <2>1, <2>2, <2>3 DEF Plans
<1>3. /\ c \in Call /\ Changes(c, s) /\ c.version = Scheduled(schedule'[s])
  <2>1. schedule'[s].version \in 0..MaxVersion
    BY <1>2 DEF Plans
  <2>2. c.version \in 0..MaxVersion
    BY <2>1, BoundsAssumption
  <2> QED BY <2>2 DEF Call, Changes, Scheduled
<1>4. /\ W \in Seq(Call)
      /\ \A i \in 1..Len(W) : /\ W[i].call = "updateInverseOffer"
                              /\ W[i].offer \in old \cap ToSet(offers)
  BY <1>0, Withdrawn
<1>5. /\ kept \in Seq(Offer)
      /\ \A i \in 1..Len(kept) :
           \E j \in 1..Len(offers) : kept[i] = offers[j] /\ offers[j] \in ToSet(offers) \ old
  BY <1>0, KeptOffers
<1>6. \A i \in 1..Len(kept) : kept[i].slave \in Slave \ {s}
  <2> SUFFICES ASSUME NEW i \in 1..Len(kept) PROVE kept[i].slave \in Slave \ {s}
    OBVIOUS
  <2>1. kept[i] \in ToSet(offers) \ old /\ kept[i] \in Offer
    BY <1>5
  <2> QED BY <2>1 DEF Offer
<1>7. \A o \in ToSet(offers) : \E j \in 1..Len(offers) : o = offers[j]
  BY <1>0 DEF ToSet
<1> HIDE DEF W, kept, c
<1>8. /\ mailbox \o W \in Seq(Call)
      /\ mailbox \o (W \o <<c>>) = (mailbox \o W) \o <<c>>
      /\ mailbox \o (W \o <<c>>) \in Seq(Call)
  BY <1>0, <1>3, <1>4
<1>9. /\ AnswersInTime(mailbox \o W, maintenance, late)
      /\ Outlook(mailbox \o W, maintenance, schedule)
      /\ OffersInTime(kept, schedule, late)
  <2>1. \A k \in 1..Len(W) :
          /\ \A t \in Slave : ~Changes(W[k], t)
          /\ IsAnswer(W[k]) => \E j \in 1..Len(offers) : W[k].offer = offers[j]
    BY <1>4, <1>7 DEF Changes
  <2>2. \A i \in 1..Len(kept) : \E j \in 1..Len(offers) : kept[i] = offers[j]
    BY <1>5
  <2>3. /\ AnswersInTime(mailbox, maintenance, late) /\ Outlook(mailbox, maintenance, schedule)
        /\ OffersInTime(offers, schedule, late)
    BY <1>0 DEF Timing
  <2> QED BY <1>0, <1>4, <1>5, <2>1, <2>2, <2>3, AppendKeepsTiming
<1>10. /\ AnswersInTime((mailbox \o W) \o <<c>>, maintenance, late)
       /\ Outlook((mailbox \o W) \o <<c>>, maintenance, schedule')
       /\ OffersInTime(kept, schedule', late)
  <2> DEFINE next == schedule'
  <2> HIDE DEF next
  <2>1. next \in Plans /\ c.version = Scheduled(next[s])
        /\ \A t \in Slave \ {s} : next[t] = schedule[t]
    BY <1>2, <1>3 DEF next
  <2>2. /\ AnswersInTime((mailbox \o W) \o <<c>>, maintenance, late)
        /\ Outlook((mailbox \o W) \o <<c>>, maintenance, next)
        /\ OffersInTime(kept, next, late)
    BY <1>0, <1>3, <1>6, <1>8, <1>9, <2>1, NewScheduleTiming
  <2> QED BY <2>2 DEF next
<1>11. Timing'
  BY <1>1, <1>8, <1>10 DEF Timing
<1>12. Types'
  BY <1>0, <1>1, <1>2, <1>5, <1>8 DEF Types
<1>13. FrameworksReassess'
  BY <1>0, <1>1, ReassessKept
<1> QED BY <1>11, <1>12, <1>13 DEF IInv

\* A dispatch of calls that change no schedule.
LEMMA DispatchKeeps ==
  ASSUME IInv, NEW c \in Seq(Call), mailbox' = mailbox \o c,
         \A k \in 1..Len(c) :
           /\ \A s \in Slave : ~Changes(c[k], s)
           /\ IsAnswer(c[k]) => \E j \in 1..Len(offers) : c[k].offer = offers[j],
         offers' \in Seq(Offer),
         \A i \in 1..Len(offers') : \E j \in 1..Len(offers) : offers'[i] = offers[j],
         filters' \subseteq Filter,
         \A x \in filters' : \E y \in filters : /\ y.framework = x.framework
                                                /\ y.slave = x.slave /\ y.version = x.version,
         UNCHANGED <<active, maintenance, allocationCandidates, callbacks, schedule, late>>
  PROVE  IInv'
<1>0. /\ mailbox \in Seq(Call) /\ offers \in Seq(Offer) /\ schedule \in Plans
      /\ Types /\ Timing /\ FrameworksReassess
  BY DEF IInv, Types
<1>1. mailbox \o c \in Seq(Call)
  BY <1>0
<1>2. Types'
  BY <1>0, <1>1 DEF Types
<1>3. Timing'
  <2> DEFINE kept == offers'
  <2>1. /\ kept \in Seq(Offer)
        /\ \A i \in 1..Len(kept) : \E j \in 1..Len(offers) : kept[i] = offers[j]
    OBVIOUS
  <2> HIDE DEF kept
  <2>2. /\ AnswersInTime(mailbox, maintenance, late) /\ Outlook(mailbox, maintenance, schedule)
        /\ OffersInTime(offers, schedule, late)
    BY <1>0 DEF Timing
  <2>3. /\ AnswersInTime(mailbox \o c, maintenance, late)
        /\ Outlook(mailbox \o c, maintenance, schedule)
        /\ OffersInTime(kept, schedule, late)
    BY <1>0, <2>1, <2>2, AppendKeepsTiming
  <2> QED BY <2>3 DEF Timing, kept
<1>4. FrameworksReassess'
  BY <1>0, ReassessKept
<1> QED BY <1>2, <1>3, <1>4 DEF IInv

\* A call of the master about a framework, with the answers that withdraw its offers.
LEMMA MasterFrameworkKeeps ==
  ASSUME IInv, NEW f \in Framework, MasterFramework(f)
  PROVE  IInv'
<1> DEFINE old == {o \in ToSet(offers) : o.framework = f}
           W == Withdraw(old)
           kept == Among(offers, ToSet(offers) \ old)
           Step(c) == mailbox' = mailbox \o c
<1>0. Types /\ offers \in Seq(Offer) /\ filters \subseteq Filter
  BY DEF IInv, Types
<1>1. /\ UNCHANGED <<active, maintenance, filters, allocationCandidates>>
      /\ UNCHANGED <<callbacks, schedule, late>>
      /\ \/ /\ mailbox' = mailbox \o (<< [call |-> "deactivateFramework", framework |-> f] >> \o W)
            /\ offers' = kept
         \/ /\ mailbox' = mailbox \o << [call |-> "activateFramework", framework |-> f] >>
            /\ offers' = offers
         \/ /\ mailbox' = mailbox \o << [call |-> "reviveOffers", framework |-> f] >>
            /\ offers' = offers
         \/ /\ mailbox' = mailbox \o << [call |-> "updateFramework", framework |-> f] >>
            /\ offers' = offers
  BY DEF MasterFramework, Dispatch
<1>2. /\ W \in Seq(Call)
      /\ \A i \in 1..Len(W) : /\ W[i].call = "updateInverseOffer"
                              /\ W[i].offer \in ToSet(offers)
  BY <1>0, Withdrawn
<1>3. /\ kept \in Seq(Offer)
      /\ \A i \in 1..Len(kept) : \E j \in 1..Len(offers) : kept[i] = offers[j]
  BY <1>0, KeptOffers
<1>4. \A o \in ToSet(offers) : \E j \in 1..Len(offers) : o = offers[j]
  BY <1>0 DEF ToSet
<1> HIDE DEF W, kept
<1>5. \A i \in 1..Len(offers) : \E j \in 1..Len(offers) : offers[i] = offers[j]
  OBVIOUS
<1>6. \A x \in filters : \E y \in filters : /\ y.framework = x.framework
                                            /\ y.slave = x.slave /\ y.version = x.version
  OBVIOUS
<1>7. CASE /\ mailbox' = mailbox \o (<< [call |-> "deactivateFramework", framework |-> f] >> \o W)
           /\ offers' = kept
  <2> DEFINE d == [call |-> "deactivateFramework", framework |-> f]
             c == <<d>> \o W
  <2>1. d \in Call /\ ~IsAnswer(d) /\ \A s \in Slave : ~Changes(d, s)
    BY DEF Call, IsAnswer, Changes
  <2>2. \A k \in 1..Len(W) :
          /\ \A s \in Slave : ~Changes(W[k], s)
          /\ IsAnswer(W[k]) => \E j \in 1..Len(offers) : W[k].offer = offers[j]
    BY <1>2, <1>4 DEF Changes
  <2> HIDE DEF d
  <2>3. /\ c \in Seq(Call) /\ Len(c) = Len(W) + 1 /\ Len(W) \in Nat
        /\ c[1] = d /\ \A k \in 2..Len(c) : k - 1 \in 1..Len(W) /\ c[k] = W[k - 1]
    BY <1>2, <2>1
  <2>4. mailbox' = mailbox \o c
    BY <1>7 DEF d
  <2> HIDE DEF c
  <2>5. \A k \in 1..Len(c) :
          /\ \A s \in Slave : ~Changes(c[k], s)
          /\ IsAnswer(c[k]) => \E j \in 1..Len(offers) : c[k].offer = offers[j]
    <3> TAKE k \in 1..Len(c)
    <3>1. k = 1 \/ k \in 2..Len(c)
      BY <2>3
    <3> QED BY <2>1, <2>2, <2>3, <3>1
  <2> QED BY <1>0, <1>1, <1>3, <1>6, <1>7, <2>3, <2>4, <2>5, DispatchKeeps
<1>8. ASSUME NEW name \in {"activateFramework", "reviveOffers", "updateFramework"},
             mailbox' = mailbox \o << [call |-> name, framework |-> f] >>, offers' = offers
      PROVE  IInv'
  <2> DEFINE d == [call |-> name, framework |-> f]
             c == <<d>>
  <2>1. d \in Call /\ ~IsAnswer(d) /\ \A s \in Slave : ~Changes(d, s)
    BY DEF Call, IsAnswer, Changes
  <2> HIDE DEF d
  <2>2. c \in Seq(Call) /\ \A k \in 1..Len(c) : c[k] = d
    BY <2>1
  <2>3. mailbox' = mailbox \o c
    BY <1>8 DEF d
  <2> HIDE DEF c
  <2>4. \A k \in 1..Len(c) :
          /\ \A s \in Slave : ~Changes(c[k], s)
          /\ IsAnswer(c[k]) => \E j \in 1..Len(offers) : c[k].offer = offers[j]
    BY <2>1, <2>2
  <2> QED BY <1>0, <1>1, <1>5, <1>6, <1>8, <2>2, <2>3, <2>4, DispatchKeeps
<1> QED BY <1>1, <1>7, <1>8

\* An agent that comes back appends a call that no schedule depends on.
LEMMA MasterUpdatesSlaveKeeps ==
  ASSUME IInv, NEW s \in Slave, MasterUpdatesSlave(s)
  PROVE  IInv'
<1>0. filters \subseteq Filter /\ offers \in Seq(Offer) /\ mailbox \in Seq(Call)
  BY DEF IInv, Types
<1> DEFINE d == [call |-> "updateSlave", slave |-> s]
           c == <<d>>
<1>1. d \in Call /\ ~IsAnswer(d) /\ \A t \in Slave : ~Changes(d, t)
  BY DEF Call, IsAnswer, Changes
<1>2. mailbox' = mailbox \o <<d>>
  BY DEF MasterUpdatesSlave, Dispatch
<1> HIDE DEF d
<1>3. c \in Seq(Call) /\ \A k \in 1..Len(c) : c[k] = d
  BY <1>1
<1>4. mailbox' = mailbox \o c
  BY <1>2
<1> HIDE DEF c
<1>5. /\ offers' = offers /\ filters' = filters
      /\ UNCHANGED <<active, maintenance, allocationCandidates, callbacks, schedule, late>>
  BY DEF MasterUpdatesSlave, Dispatch, masterVars
<1>6. \A z \in filters' : \E w \in filters : /\ w.framework = z.framework
                                             /\ w.slave = z.slave /\ w.version = z.version
  BY <1>5
<1> QED BY <1>0, <1>1, <1>3, <1>4, <1>5, <1>6, DispatchKeeps

\* An inverse offer is passed on while its agent is scheduled; then it is for what is
\* scheduled, or it is late.
LEMMA MasterReceivesKeeps ==
  ASSUME IInv, MasterReceives
  PROVE  IInv'
<1> DEFINE o == Head(callbacks)
<1>0. /\ mailbox \in Seq(Call) /\ offers \in Seq(Offer) /\ callbacks \in Seq(Offer)
      /\ schedule \in Plans /\ Types /\ Timing /\ FrameworksReassess
  BY DEF IInv, Types
<1>1. /\ callbacks # <<>> /\ callbacks' = Tail(callbacks)
      /\ \/ /\ schedule[o.slave].on /\ offers' = Append(offers, o)
            /\ late' = IF schedule[o.slave].version = o.version THEN late ELSE late \cup {o}
         \/ UNCHANGED <<offers, late>>
      /\ UNCHANGED <<mailbox, active, maintenance, filters, allocationCandidates, schedule>>
  BY DEF MasterReceives
<1>2. o \in Offer /\ Tail(callbacks) \in Seq(Offer)
  BY <1>0, <1>1, TailOf
<1> HIDE DEF o
<1>a. Append(offers, o) \in Seq(Offer)
      /\ Len(Append(offers, o)) = Len(offers) + 1 /\ Len(offers) \in Nat
      /\ \A i \in 1..Len(offers) : Append(offers, o)[i] = offers[i]
      /\ Append(offers, o)[Len(offers) + 1] = o
  BY <1>0, <1>2
<1>3. late \subseteq late' /\ offers' \in Seq(Offer)
  <2>1. late \subseteq late'
    BY <1>1
  <2>2. offers' = offers \/ offers' = Append(offers, o)
    BY <1>1
  <2> QED BY <1>0, <1>a, <2>1, <2>2
<1>4. Types'
  BY <1>0, <1>1, <1>2, <1>3 DEF Types
<1>5. FrameworksReassess'
  BY <1>0, <1>1, <1>3, ReassessKept
<1>6. AnswersInTime(mailbox, maintenance, late')
  BY <1>0, <1>3 DEF Timing, AnswersInTime
<1>7. OffersInTime(offers', schedule, late')
  <2> SUFFICES ASSUME NEW i \in 1..Len(offers') PROVE InTime(offers'[i], schedule, late')
    BY DEF OffersInTime
  <2>1. CASE i \in 1..Len(offers) /\ offers'[i] = offers[i]
    <3>1. InTime(offers[i], schedule, late)
      BY <1>0, <2>1 DEF Timing, OffersInTime
    <3> QED BY <1>3, <2>1, <3>1 DEF InTime
  <2>2. CASE offers' = Append(offers, o) /\ i = Len(offers) + 1
    <3>1. offers'[i] = o
      BY <1>0, <1>2, <2>2
    <3>2. schedule[o.slave].on /\ (o.version = schedule[o.slave].version \/ o \in late')
      <4>1. offers # offers'
        BY <1>a, <2>2
      <4> QED BY <1>1, <4>1
    <3> QED BY <3>1, <3>2 DEF InTime
  <2>3. \/ i \in 1..Len(offers) /\ offers'[i] = offers[i]
        \/ offers' = Append(offers, o) /\ i = Len(offers) + 1
    <3>1. CASE offers' = offers
      BY <3>1
    <3>2. CASE offers' = Append(offers, o)
      <4>1. i \in 1..Len(offers) \/ i = Len(offers) + 1
        BY <1>a, <3>2
      <4> QED BY <1>a, <3>2, <4>1
    <3> QED BY <1>1, <3>1, <3>2
  <2> QED BY <2>1, <2>2, <2>3
<1>8. Timing'
  BY <1>0, <1>1, <1>6, <1>7 DEF Timing
<1> QED BY <1>4, <1>5, <1>8 DEF IInv

\* What is left of a queue from which one element is taken out.
LEMMA WithoutOne ==
  ASSUME NEW S, NEW q \in Seq(S), NEW i \in 1..Len(q)
  PROVE  /\ RemoveAt(q, i) \in Seq(S) /\ Len(RemoveAt(q, i)) = Len(q) - 1 /\ Len(q) \in Nat
         /\ \A j \in 1..(Len(q) - 1) : RemoveAt(q, i)[j] = IF j < i THEN q[j] ELSE q[j + 1]
<1> DEFINE a == SubSeq(q, 1, i - 1)
           b == SubSeq(q, i + 1, Len(q))
<1>1. /\ Len(q) \in Nat
      /\ a \in Seq(S) /\ Len(a) = i - 1 /\ \A j \in 1..(i - 1) : a[j] = q[j]
      /\ b \in Seq(S) /\ Len(b) = Len(q) - i
      /\ \A j \in 1..(Len(q) - i) : b[j] = q[j + i]
  OBVIOUS
<1> HIDE DEF a, b
<1>2. /\ a \o b \in Seq(S) /\ Len(a \o b) = Len(q) - 1
      /\ \A j \in 1..(i - 1) : (a \o b)[j] = a[j]
      /\ \A j \in 1..(Len(q) - i) : (a \o b)[(i - 1) + j] = b[j]
  <2>1. /\ a \o b \in Seq(S) /\ Len(a \o b) = Len(a) + Len(b)
        /\ \A j \in 1..Len(a) : (a \o b)[j] = a[j]
        /\ \A j \in 1..Len(b) : (a \o b)[Len(a) + j] = b[j]
    <3>1. a \in Seq(S) /\ b \in Seq(S)
      BY <1>1
    <3> QED BY ONLY <3>1, Concatenated
  <2>2. (i - 1) + (Len(q) - i) = Len(q) - 1
    BY <1>1
  <2> QED BY <1>1, <2>1, <2>2
<1>3. ASSUME NEW j \in 1..(Len(q) - 1)
      PROVE  (a \o b)[j] = IF j < i THEN q[j] ELSE q[j + 1]
  <2>1. CASE j < i
    BY <1>1, <1>2, <2>1
  <2>2. CASE ~(j < i)
    <3> DEFINE k == j - (i - 1)
    <3>1. /\ k \in 1..(Len(q) - i) /\ (i - 1) + k = j /\ k + i = j + 1
      BY <1>1, <2>2
    <3> HIDE DEF k
    <3> QED BY <1>1, <1>2, <2>2, <3>1
  <2> QED BY <2>1, <2>2
<1>4. RemoveAt(q, i) = a \o b
  BY DEF RemoveAt, a, b
<1> QED BY <1>1, <1>2, <1>3, <1>4

\* An answer is about an inverse offer that the framework had.
LEMMA MasterAnswersKeeps ==
  ASSUME IInv, MasterAnswers
  PROVE  IInv'
<1>0. Types /\ offers \in Seq(Offer) /\ filters \subseteq Filter
  BY DEF IInv, Types
<1>1. PICK i \in 1..Len(offers) :
        /\ \E status \in {"none", "accept", "decline"}, refuse \in {NoRefusal} \cup FilterId :
             mailbox' = mailbox \o << Answer(offers[i], status, refuse) >>
        /\ offers' = RemoveAt(offers, i)
        /\ UNCHANGED <<active, maintenance, filters, allocationCandidates>>
        /\ UNCHANGED <<callbacks, schedule, late>>
  <2>1. DOMAIN offers = 1..Len(offers)
    BY <1>0
  <2>2. PICK i \in 1..Len(offers) :
          /\ \/ \E status \in {"none", "accept", "decline"} :
                  Dispatch(<< Answer(offers[i], status, NoRefusal) >>)
             \/ /\ FilterId \ UnderWay # {}
                /\ LET id == CHOOSE j \in FilterId \ UnderWay :
                               \A k \in FilterId \ UnderWay : j <= k
                   IN  Dispatch(<< Answer(offers[i], "decline", id) >>)
          /\ offers' = RemoveAt(offers, i)
          /\ UNCHANGED <<callbacks, schedule, late>>
    BY <2>1 DEF MasterAnswers
  <2>3. CASE \E status \in {"none", "accept", "decline"} :
               Dispatch(<< Answer(offers[i], status, NoRefusal) >>)
    BY <2>2, <2>3 DEF Dispatch
  <2>4. CASE /\ FilterId \ UnderWay # {}
             /\ LET id == CHOOSE j \in FilterId \ UnderWay :
                            \A k \in FilterId \ UnderWay : j <= k
                IN  Dispatch(<< Answer(offers[i], "decline", id) >>)
    <3>1. PICK id \in FilterId : Dispatch(<< Answer(offers[i], "decline", id) >>)
      <4> DEFINE free == FilterId \ UnderWay
      <4>1. free # {} /\ free \in SUBSET Nat
        BY <2>4 DEF FilterId
      <4>2. \E j \in free : \A k \in free : j <= k
        <5>1. PICK j \in free : \A k \in free : ~(k < j)
          BY <4>1, LeastNumber
        <5>2. \A k \in free : j <= k
          BY <4>1, <5>1
        <5> QED BY <5>2
      <4> QED BY <2>4, <4>2
    <3> QED BY <2>2, <3>1 DEF Dispatch
  <2> QED BY <2>2, <2>3, <2>4
<1>2. PICK status \in {"none", "accept", "decline"}, refuse \in {NoRefusal} \cup FilterId :
        mailbox' = mailbox \o << Answer(offers[i], status, refuse) >>
  BY <1>1
<1> DEFINE d == Answer(offers[i], status, refuse)
           c == <<d>>
<1>3. d \in Call /\ d.offer = offers[i] /\ \A s \in Slave : ~Changes(d, s)
  BY <1>0 DEF Answer, Call, Changes
<1> HIDE DEF d
<1>4. c \in Seq(Call) /\ \A k \in 1..Len(c) : c[k] = d
  BY <1>3
<1>5. mailbox' = mailbox \o c
  BY <1>2 DEF d
<1> HIDE DEF c
<1>6. \A k \in 1..Len(c) :
        /\ \A s \in Slave : ~Changes(c[k], s)
        /\ IsAnswer(c[k]) => \E j \in 1..Len(offers) : c[k].offer = offers[j]
  BY <1>3, <1>4
<1>7. /\ offers' \in Seq(Offer)
      /\ \A k \in 1..Len(offers') : \E j \in 1..Len(offers) : offers'[k] = offers[j]
  <2>1. /\ RemoveAt(offers, i) \in Seq(Offer) /\ Len(RemoveAt(offers, i)) = Len(offers) - 1
        /\ Len(offers) \in Nat
        /\ \A j \in 1..(Len(offers) - 1) :
             RemoveAt(offers, i)[j] = IF j < i THEN offers[j] ELSE offers[j + 1]
    BY <1>0, WithoutOne
  <2>2. ASSUME NEW k \in 1..(Len(offers) - 1)
        PROVE  \E j \in 1..Len(offers) : RemoveAt(offers, i)[k] = offers[j]
    <3>1. k \in 1..Len(offers) /\ k + 1 \in 1..Len(offers)
      BY <2>1
    <3> QED BY <2>1, <3>1
  <2> QED BY <1>1, <2>1, <2>2
<1>8. \A x \in filters' : \E y \in filters : /\ y.framework = x.framework
                                             /\ y.slave = x.slave /\ y.version = x.version
  BY <1>1
<1> QED BY <1>0, <1>1, <1>4, <1>5, <1>6, <1>7, <1>8, DispatchKeeps
-----------------------------------------------------------------------------
(* The allocator's steps.                                                  *)

\* A timer appends a call to expire(); its filter is still there, no longer pending.
LEMMA TimerFiresKeeps ==
  ASSUME IInv, NEW id \in FilterId, TimerFires(id)
  PROVE  IInv'
<1>0. filters \subseteq Filter /\ offers \in Seq(Offer) /\ mailbox \in Seq(Call)
  BY DEF IInv, Types
<1>1. PICK x \in filters :
        /\ filters' = (filters \ {x}) \cup {[x EXCEPT !.pending = FALSE]}
        /\ mailbox' = Append(mailbox, [call |-> "expire", id |-> id])
        /\ UNCHANGED <<callbacks, active, maintenance, allocationCandidates, masterVars>>
  BY DEF TimerFires
<1> DEFINE y == [x EXCEPT !.pending = FALSE]
           d == [call |-> "expire", id |-> id]
           c == <<d>>
<1>2. y \in Filter /\ y.framework = x.framework /\ y.slave = x.slave /\ y.version = x.version
  BY <1>0 DEF Filter
<1>3. d \in Call /\ ~IsAnswer(d) /\ \A s \in Slave : ~Changes(d, s)
  BY DEF Call, IsAnswer, Changes
<1> HIDE DEF y
<1>4. /\ filters' \subseteq Filter
      /\ \A z \in filters' : \E w \in filters : /\ w.framework = z.framework
                                                /\ w.slave = z.slave /\ w.version = z.version
  <2>1. filters' = (filters \ {x}) \cup {y}
    BY <1>1 DEF y
  <2> QED BY <1>0, <1>2, <2>1
<1>5. mailbox' = mailbox \o <<d>>
  BY <1>0, <1>1, <1>3
<1> HIDE DEF d
<1>6. c \in Seq(Call) /\ \A k \in 1..Len(c) : c[k] = d
  BY <1>3
<1>7. mailbox' = mailbox \o c
  BY <1>5
<1> HIDE DEF c
<1>8. /\ offers' = offers
      /\ UNCHANGED <<active, maintenance, allocationCandidates, callbacks, schedule, late>>
  BY <1>1 DEF masterVars
<1> QED BY <1>0, <1>3, <1>4, <1>6, <1>7, <1>8, DispatchKeeps

\* The periodic loop appends a call.
LEMMA LoopFiresKeeps ==
  ASSUME IInv, LoopFires
  PROVE  IInv'
<1>0. filters \subseteq Filter /\ offers \in Seq(Offer) /\ mailbox \in Seq(Call)
  BY DEF IInv, Types
<1>1. /\ mailbox' = Append(mailbox, [call |-> "allocate"])
      /\ UNCHANGED <<callbacks, active, maintenance, filters, allocationCandidates, masterVars>>
  BY DEF LoopFires
<1> DEFINE d == [call |-> "allocate"]
           c == <<d>>
<1>2. d \in Call /\ ~IsAnswer(d) /\ \A s \in Slave : ~Changes(d, s)
  BY DEF Call, IsAnswer, Changes
<1>3. mailbox' = mailbox \o <<d>>
  BY <1>0, <1>1, <1>2
<1> HIDE DEF d
<1>4. c \in Seq(Call) /\ \A k \in 1..Len(c) : c[k] = d
  BY <1>2
<1>5. mailbox' = mailbox \o c
  BY <1>3
<1> HIDE DEF c
<1>6. /\ offers' = offers /\ filters' = filters
      /\ UNCHANGED <<active, maintenance, allocationCandidates, callbacks, schedule, late>>
  BY <1>1 DEF masterVars
<1>7. \A z \in filters' : \E w \in filters : /\ w.framework = z.framework
                                             /\ w.slave = z.slave /\ w.version = z.version
  BY <1>6
<1> QED BY <1>0, <1>2, <1>4, <1>5, <1>6, <1>7, DispatchKeeps

\* Who holds resources is not looked at.
LEMMA HoldersChangeKeeps ==
  ASSUME IInv, NEW f \in Framework, NEW s \in Slave, HoldersChange(f, s)
  PROVE  IInv'
<1>1. UNCHANGED <<mailbox, callbacks, active, maintenance, filters, allocationCandidates,
                  schedule, offers, late>>
  BY DEF HoldersChange, masterVars
<1>2. \A z \in filters' : \E w \in filters : /\ w.framework = z.framework
                                             /\ w.slave = z.slave /\ w.version = z.version
  BY <1>1
<1>3. FrameworksReassess'
  BY <1>1, <1>2, ReassessKept DEF IInv
<1> QED BY <1>1, <1>3 DEF IInv, Types, Timing

\* A handler takes the first call, and appends one to _allocate() or none.
LEMMA Handled ==
  ASSUME mailbox \in Seq(Call), mailbox # <<>>, NEW D, Allocate(D) \/ NoAllocate
  PROVE  \E c \in Seq(Call) :
           /\ mailbox' = Tail(mailbox) \o c
           /\ \A k \in 1..Len(c) : ~IsAnswer(c[k]) /\ \A s \in Slave : ~Changes(c[k], s)
<1>1. CASE mailbox' = Tail(mailbox) \o << [call |-> "_allocate"] >>
  <2> DEFINE d == [call |-> "_allocate"]
             c == <<d>>
  <2>1. d \in Call /\ ~IsAnswer(d) /\ \A s \in Slave : ~Changes(d, s)
    BY DEF Call, IsAnswer, Changes
  <2>2. mailbox' = Tail(mailbox) \o <<d>>
    BY <1>1
  <2> HIDE DEF d
  <2>3. c \in Seq(Call) /\ \A k \in 1..Len(c) : c[k] = d
    BY <2>1
  <2> QED BY <2>1, <2>2, <2>3
<1>2. CASE mailbox' = Tail(mailbox) \/ mailbox' = Tail(mailbox) \o <<>>
  <2> DEFINE c == <<>>
  <2>1. mailbox' = Tail(mailbox) \o c
    BY <1>2
  <2>2. c \in Seq(Call) /\ \A k \in 1..Len(c) : FALSE
    OBVIOUS
  <2> QED BY <2>1, <2>2
<1> QED BY <1>1, <1>2 DEF Allocate, NoAllocate

\* What handlers have in common: what an agent's version becomes is what the call says.
LEMMA HandlerKeeps ==
  ASSUME IInv, mailbox # <<>>, NEW c \in Seq(Call), mailbox' = Tail(mailbox) \o c,
         \A k \in 1..Len(c) : ~IsAnswer(c[k]) /\ \A s \in Slave : ~Changes(c[k], s),
         maintenance' \in [Slave -> Maintenance \cup {None}],
         \A s \in Slave : maintenance'[s].version =
           IF Changes(mailbox[1], s) THEN mailbox[1].version ELSE maintenance[s].version,
         callbacks' \in Seq(Offer), active' \subseteq Framework, filters' \subseteq Filter,
         allocationCandidates' \subseteq Slave, UNCHANGED masterVars
  PROVE  Types' /\ Timing'
<1>0. /\ mailbox \in Seq(Call) /\ offers \in Seq(Offer) /\ schedule \in Plans
      /\ AnswersInTime(mailbox, maintenance, late) /\ Outlook(mailbox, maintenance, schedule)
      /\ OffersInTime(offers, schedule, late)
      /\ schedule' = schedule /\ offers' = offers /\ late' = late
  BY DEF IInv, Types, Timing, masterVars
<1>1. Tail(mailbox) \o c \in Seq(Call)
  <2>1. Tail(mailbox) \in Seq(Call)
    BY <1>0, TailOf
  <2> QED BY <2>1
<1>2. Types'
  BY <1>0, <1>1 DEF Types
<1>3. Timing'
  <2> DEFINE n == maintenance'
  <2>1. \A s \in Slave :
          n[s].version = IF Changes(mailbox[1], s) THEN mailbox[1].version
                         ELSE maintenance[s].version
    OBVIOUS
  <2> HIDE DEF n
  <2>2. /\ AnswersInTime(Tail(mailbox) \o c, n, late)
        /\ Outlook(Tail(mailbox) \o c, n, schedule)
    BY <1>0, <2>1, HandleKeepsTiming
  <2> QED BY <1>0, <2>2 DEF Timing, n
<1> QED BY <1>2, <1>3

\* Handlers that leave maintenance alone and add no filter.
LEMMA PlainHandlerKeeps ==
  ASSUME IInv, mailbox # <<>>, NEW D \in SUBSET Slave,
         \/ Allocate(D)
         \/ NoAllocate,
         Head(mailbox).call # "updateUnavailability", maintenance' = maintenance,
         callbacks' = callbacks, active' \subseteq Framework, filters' \subseteq filters,
         UNCHANGED masterVars
  PROVE  IInv'
<1>0. Types /\ mailbox \in Seq(Call)
  BY DEF IInv, Types
<1>1. PICK c \in Seq(Call) :
        /\ mailbox' = Tail(mailbox) \o c
        /\ \A k \in 1..Len(c) : ~IsAnswer(c[k]) /\ \A s \in Slave : ~Changes(c[k], s)
  BY <1>0, Handled
<1>2. mailbox[1] = Head(mailbox) /\ \A s \in Slave : ~Changes(mailbox[1], s)
  BY <1>0 DEF Changes
<1>3. allocationCandidates' \subseteq Slave
  BY <1>0 DEF Types, Allocate, NoAllocate
<1>4. Types' /\ Timing'
  BY <1>0, <1>1, <1>2, <1>3, HandlerKeeps DEF Types
<1>5. FrameworksReassess'
  <2>1. late \subseteq late'
    BY DEF masterVars
  <2> QED BY <2>1, ReassessKept DEF IInv
<1> QED BY <1>4, <1>5 DEF IInv

\* The handlers of frameworks, filters and the periodic loop are such.
LEMMA PlainHandlersKeep ==
  ASSUME IInv,
         \/ ActivateFramework \/ DeactivateFramework \/ ReviveOffers \/ UpdateFramework
         \/ UpdateSlave \/ Expire \/ PeriodicAllocate
  PROVE  IInv'
<1>0. Types /\ mailbox \in Seq(Call)
  BY DEF IInv, Types
<1>1. CASE ActivateFramework
  <2>1. /\ mailbox # <<>> /\ Head(mailbox).call = "activateFramework"
        /\ active' = active \cup {Head(mailbox).framework} /\ Allocate(Slave)
        /\ callbacks' = callbacks /\ maintenance' = maintenance /\ filters' = filters
        /\ UNCHANGED masterVars
    BY <1>1 DEF ActivateFramework, NextIs
  <2>2. Head(mailbox) \in Call
    BY <1>0, <2>1, TailOf
  <2>3. active' \subseteq Framework
    BY <1>0, <2>1, <2>2 DEF Call, Types
  <2> QED BY <2>1, <2>3, PlainHandlerKeeps
<1>2. CASE DeactivateFramework
  <2>1. /\ mailbox # <<>> /\ Head(mailbox).call = "deactivateFramework" /\ NoAllocate
        /\ active' \subseteq active /\ callbacks' = callbacks /\ maintenance' = maintenance
        /\ filters' \subseteq filters /\ UNCHANGED masterVars
    BY <1>2 DEF DeactivateFramework, NextIs
  <2>2. active' \subseteq Framework
    BY <1>0, <2>1 DEF Types
  <2> QED BY <2>1, <2>2, PlainHandlerKeeps
<1>3. CASE ReviveOffers
  <2>1. /\ mailbox # <<>> /\ Head(mailbox).call = "reviveOffers" /\ Allocate(Slave)
        /\ active' = active /\ callbacks' = callbacks /\ maintenance' = maintenance
        /\ filters' \subseteq filters /\ UNCHANGED masterVars
    BY <1>3 DEF ReviveOffers, NextIs
  <2>2. active' \subseteq Framework
    BY <1>0, <2>1 DEF Types
  <2> QED BY <2>1, <2>2, PlainHandlerKeeps
<1>4. CASE Expire
  <2>1. /\ mailbox # <<>> /\ Head(mailbox).call = "expire" /\ NoAllocate
        /\ active' = active /\ callbacks' = callbacks /\ maintenance' = maintenance
        /\ filters' \subseteq filters /\ UNCHANGED masterVars
    BY <1>4 DEF Expire, NextIs
  <2>2. active' \subseteq Framework
    BY <1>0, <2>1 DEF Types
  <2> QED BY <2>1, <2>2, PlainHandlerKeeps
<1>5. CASE PeriodicAllocate
  <2>1. /\ mailbox # <<>> /\ Head(mailbox).call = "allocate" /\ Allocate(Slave)
        /\ active' = active /\ callbacks' = callbacks /\ maintenance' = maintenance
        /\ filters' \subseteq filters /\ UNCHANGED masterVars
    BY <1>5 DEF PeriodicAllocate, NextIs
  <2>2. active' \subseteq Framework
    BY <1>0, <2>1 DEF Types
  <2> QED BY <2>1, <2>2, PlainHandlerKeeps
<1>6. CASE UpdateFramework
  <2>1. /\ mailbox # <<>> /\ Head(mailbox).call = "updateFramework" /\ NoAllocate
        /\ active' = active /\ callbacks' = callbacks /\ maintenance' = maintenance
        /\ filters' \subseteq filters /\ UNCHANGED masterVars
    BY <1>6 DEF UpdateFramework, NextIs
  <2>2. active' \subseteq Framework
    BY <1>0, <2>1 DEF Types
  <2> QED BY <2>1, <2>2, PlainHandlerKeeps
<1>7. CASE UpdateSlave
  <2> DEFINE s == Head(mailbox).slave
  <2>1. /\ mailbox # <<>> /\ Head(mailbox).call = "updateSlave"
        /\ Allocate({s}) \/ NoAllocate
        /\ active' = active /\ callbacks' = callbacks /\ maintenance' = maintenance
        /\ filters' \subseteq filters /\ UNCHANGED masterVars
    BY <1>7 DEF UpdateSlave, NextIs
  <2>2. Head(mailbox) \in Call
    BY <1>0, <2>1, TailOf
  <2>3. {s} \in SUBSET Slave /\ active' \subseteq Framework
    BY <1>0, <2>1, <2>2 DEF Call, Types
  <2> HIDE DEF s
  <2> QED BY <2>1, <2>3, PlainHandlerKeeps
<1> QED BY <1>1, <1>2, <1>3, <1>4, <1>5, <1>6, <1>7

\* A new schedule: answers to the old one, and the agent's filters, are dropped.
LEMMA UpdateUnavailabilityKeeps ==
  ASSUME IInv, UpdateUnavailability
  PROVE  IInv'
<1> DEFINE c == Head(mailbox)
           e == IF c.version = 0 THEN None
                ELSE [version |-> c.version, offersOutstanding |-> {}, statuses |-> << >>]
<1>0. Types /\ mailbox \in Seq(Call) /\ maintenance \in [Slave -> Maintenance \cup {None}]
  BY DEF IInv, Types
<1>1. /\ mailbox # <<>> /\ c.call = "updateUnavailability"
      /\ filters' = {x \in filters : x.slave # c.slave}
      /\ maintenance' = [maintenance EXCEPT ![c.slave] = e]
      /\ Allocate({c.slave})
      /\ UNCHANGED <<callbacks, active, holders, masterVars>>
  BY DEF UpdateUnavailability, NextIs
<1>2. c \in Call /\ mailbox[1] = c
  BY <1>0, <1>1, TailOf
<1> HIDE DEF c
<1>3. c.slave \in Slave /\ c.version \in 0..MaxVersion
  BY <1>1, <1>2 DEF Call
<1>4. e \in Maintenance \cup {None} /\ e.version = c.version
  <2>1. << >> \in Statuses
    <3>1. << >> \in [{} -> [status : {"accept", "decline"}, of : Offer]]
      OBVIOUS
    <3> QED BY <3>1 DEF Statuses
  <2>2. CASE c.version = 0
    BY <2>2 DEF None
  <2>3. CASE c.version # 0
    <3>1. c.version \in 1..MaxVersion
      BY <1>3, <2>3, BoundsAssumption
    <3> QED BY <2>1, <2>3, <3>1 DEF Maintenance
  <2> QED BY <2>2, <2>3
<1>5. e = None \/ DOMAIN e.statuses = {}
  OBVIOUS
<1> HIDE DEF e
<1>6. /\ maintenance' \in [Slave -> Maintenance \cup {None}]
      /\ \A s \in Slave : maintenance'[s] = IF s = c.slave THEN e ELSE maintenance[s]
  BY <1>0, <1>1, <1>3, <1>4
<1>7. \A s \in Slave : maintenance'[s].version =
        IF Changes(mailbox[1], s) THEN mailbox[1].version ELSE maintenance[s].version
  BY <1>1, <1>2, <1>4, <1>6 DEF Changes
<1>8. PICK r \in Seq(Call) :
        /\ mailbox' = Tail(mailbox) \o r
        /\ \A k \in 1..Len(r) : ~IsAnswer(r[k]) /\ \A s \in Slave : ~Changes(r[k], s)
  BY <1>0, <1>1, Handled
<1>9. Types' /\ Timing'
  <2>1. /\ callbacks' \in Seq(Offer) /\ active' \subseteq Framework /\ filters' \subseteq Filter
        /\ allocationCandidates' \subseteq Slave /\ UNCHANGED masterVars
    BY <1>0, <1>1, <1>3 DEF Types, Allocate
  <2> QED BY <1>1, <1>6, <1>7, <1>8, <2>1, HandlerKeeps
<1>10. FrameworksReassess'
  <2> SUFFICES ASSUME NEW s \in Slave, maintenance'[s] # None
               PROVE  /\ \A f \in DOMAIN maintenance'[s].statuses :
                           LET o == maintenance'[s].statuses[f].of
                           IN  o.version = maintenance'[s].version \/ o \in late
                      /\ \A x \in filters' : x.slave = s =>
                           x.version = maintenance'[s].version \/ Late(x.framework, s)
    BY <1>1 DEF FrameworksReassess, Late, masterVars
  <2>1. CASE s = c.slave
    BY <1>1, <1>5, <1>6, <2>1
  <2>2. CASE s # c.slave
    <3>1. maintenance'[s] = maintenance[s] /\ filters' \subseteq filters
      BY <1>1, <1>6, <2>2
    <3> QED BY <3>1 DEF IInv, FrameworksReassess
  <2> QED BY <2>1, <2>2
<1> QED BY <1>9, <1>10 DEF IInv

\* An answer comes while its agent is scheduled, and is about that schedule or late.
LEMMA AnswerFindsSchedule ==
  ASSUME IInv, NextIs("updateInverseOffer")
  PROVE  LET o == Head(mailbox).offer
         IN  /\ Head(mailbox) \in Call /\ Head(mailbox) = mailbox[1] /\ o \in Offer
             /\ Head(mailbox).status \in {"none", "accept", "decline"}
             /\ Head(mailbox).refuse \in {NoRefusal} \cup FilterId
             /\ maintenance[o.slave] \in Maintenance
             /\ o.version = maintenance[o.slave].version \/ o \in late
<1> DEFINE c == Head(mailbox)
           o == c.offer
<1>0. /\ mailbox \in Seq(Call) /\ maintenance \in [Slave -> Maintenance \cup {None}]
      /\ AnswersInTime(mailbox, maintenance, late)
      /\ mailbox # <<>> /\ c.call = "updateInverseOffer"
  BY DEF IInv, Types, Timing, NextIs
<1>1. c \in Call /\ mailbox[1] = c /\ 1 \in 1..Len(mailbox)
  BY <1>0, TailOf
<1> HIDE DEF c
<1>2. /\ o \in Offer /\ c.status \in {"none", "accept", "decline"}
      /\ c.refuse \in {NoRefusal} \cup FilterId
  BY <1>0, <1>1 DEF Call
<1>3. PICK v \in 1..MaxVersion : /\ VersionAt(mailbox, maintenance[o.slave].version, o.slave, 1, v)
                                 /\ o.version = v \/ o \in late
  BY <1>0, <1>1 DEF AnswersInTime, IsAnswer
<1>4. maintenance[o.slave].version = v
  BY <1>3 DEF VersionAt
<1>5. maintenance[o.slave] \in Maintenance
  <2>1. o.slave \in Slave /\ v # 0
    BY <1>2 DEF Offer
  <2>2. maintenance[o.slave] # None
    BY <1>4, <2>1 DEF None
  <2> QED BY <1>0, <2>1, <2>2
<1> QED BY <1>1, <1>2, <1>3, <1>4, <1>5 DEF c

\* The answer is recorded and the inverse offer is not outstanding any more.
LEMMA AnswerRecorded ==
  ASSUME IInv, UpdateInverseOffer
  PROVE  LET o == Head(mailbox).offer
             m == maintenance[o.slave]
         IN  \E e \in Maintenance :
               /\ maintenance' = [maintenance EXCEPT ![o.slave] = e]
               /\ e.version = m.version
               /\ \/ e.statuses = m.statuses
                  \/ e.statuses = Recorded(m.statuses, o.framework,
                                          [status |-> Head(mailbox).status, of |-> o])
               /\ m.offersOutstanding \ {o.framework} \subseteq e.offersOutstanding
<1> DEFINE c == Head(mailbox)
           o == c.offer
           f == o.framework
           s == o.slave
           m == maintenance[s]
           entry == [status |-> c.status, of |-> o]
<1>0. /\ Types /\ mailbox \in Seq(Call) /\ maintenance \in [Slave -> Maintenance \cup {None}]
      /\ filters \subseteq Filter /\ active \subseteq Framework /\ callbacks \in Seq(Offer)
  BY DEF IInv, Types
<1>1. /\ NextIs("updateInverseOffer") /\ mailbox # <<>> /\ c.call = "updateInverseOffer"
      /\ maintenance' =
           IF f \notin m.offersOutstanding THEN maintenance
           ELSE IF c.status = "none"
           THEN [maintenance EXCEPT ![s].offersOutstanding = @ \ {f}]
           ELSE [maintenance EXCEPT
                   ![s].offersOutstanding = @ \ {f},
                   ![s].statuses = Recorded(@, f, [status |-> c.status, of |-> c.offer])]
      /\ filters' = filters \cup Refused(c)
      /\ NoAllocate
      /\ UNCHANGED <<callbacks, active, holders, masterVars>>
  BY DEF UpdateInverseOffer, NextIs
<1>2. /\ c = mailbox[1] /\ o \in Offer /\ c.status \in {"none", "accept", "decline"}
      /\ c.refuse \in {NoRefusal} \cup FilterId
      /\ m \in Maintenance /\ (o.version = m.version \/ o \in late)
  BY <1>1, AnswerFindsSchedule
<1> HIDE DEF c
<1>3. f \in Framework /\ s \in Slave
  BY <1>2 DEF Offer
<1>4. \E e \in Maintenance :
        /\ maintenance' = [maintenance EXCEPT ![s] = e]
        /\ e.version = m.version
        /\ e.statuses = m.statuses \/ e.statuses = Recorded(m.statuses, f, entry)
        /\ m.offersOutstanding \ {f} \subseteq e.offersOutstanding
  <2> HIDE DEF o, f, s
  <2>1. CASE f \notin m.offersOutstanding
    BY <1>0, <1>1, <1>2, <1>3, <2>1
  <2>2. CASE f \in m.offersOutstanding /\ c.status = "none"
    <3> DEFINE e == [m EXCEPT !.offersOutstanding = @ \ {f}]
    <3>1. /\ e \in Maintenance /\ e.version = m.version /\ e.statuses = m.statuses
          /\ e.offersOutstanding = m.offersOutstanding \ {f}
      BY <1>2 DEF Maintenance
    <3>2. maintenance' = [maintenance EXCEPT ![s] = e]
      BY <1>1, <2>2
    <3> QED BY <3>1, <3>2
  <2>3. CASE f \in m.offersOutstanding /\ c.status # "none"
    <3> DEFINE R == Recorded(m.statuses, f, entry)
               e == [m EXCEPT !.offersOutstanding = @ \ {f}, !.statuses = R]
    <3>1. R \in Statuses
      <4> DEFINE Entry == [status : {"accept", "decline"}, of : Offer]
      <4>1. PICK F \in SUBSET Framework : m.statuses \in [F -> Entry]
        BY <1>2 DEF Maintenance, Statuses
      <4>2. entry \in Entry
        BY <1>2, <2>3
      <4>3. R \in [F \cup {f} -> Entry]
        BY <4>1, <4>2 DEF Recorded
      <4> QED BY <1>3, <4>3 DEF Statuses
    <3> HIDE DEF R
    <3>2. /\ e \in Maintenance /\ e.version = m.version /\ e.statuses = R
          /\ e.offersOutstanding = m.offersOutstanding \ {f}
      BY <1>2, <3>1 DEF Maintenance
    <3>3. maintenance' = [maintenance EXCEPT ![s] = e]
      BY <1>0, <1>1, <1>3, <2>3 DEF R, o
    <3> QED BY <3>2, <3>3 DEF R
  <2> QED BY <2>1, <2>2, <2>3
<1> QED BY <1>4 DEF c

\* So what is recorded, and what filters, is about that schedule or late.
LEMMA UpdateInverseOfferKeeps ==
  ASSUME IInv, UpdateInverseOffer
  PROVE  IInv'
<1> DEFINE c == Head(mailbox)
           o == c.offer
           f == o.framework
           s == o.slave
           m == maintenance[s]
           entry == [status |-> c.status, of |-> o]
<1>0. /\ Types /\ mailbox \in Seq(Call) /\ maintenance \in [Slave -> Maintenance \cup {None}]
      /\ filters \subseteq Filter /\ active \subseteq Framework /\ callbacks \in Seq(Offer)
  BY DEF IInv, Types
<1>1. /\ NextIs("updateInverseOffer") /\ mailbox # <<>> /\ c.call = "updateInverseOffer"
      /\ maintenance' =
           IF f \notin m.offersOutstanding THEN maintenance
           ELSE IF c.status = "none"
           THEN [maintenance EXCEPT ![s].offersOutstanding = @ \ {f}]
           ELSE [maintenance EXCEPT
                   ![s].offersOutstanding = @ \ {f},
                   ![s].statuses = Recorded(@, f, [status |-> c.status, of |-> c.offer])]
      /\ filters' = filters \cup Refused(c)
      /\ NoAllocate
      /\ UNCHANGED <<callbacks, active, holders, masterVars>>
  BY DEF UpdateInverseOffer, NextIs
<1>2. /\ c = mailbox[1] /\ o \in Offer /\ c.status \in {"none", "accept", "decline"}
      /\ c.refuse \in {NoRefusal} \cup FilterId
      /\ m \in Maintenance /\ (o.version = m.version \/ o \in late)
  BY <1>1, AnswerFindsSchedule
<1> HIDE DEF c
<1>3. f \in Framework /\ s \in Slave
  BY <1>2 DEF Offer
<1>4. PICK e \in Maintenance :
        /\ maintenance' = [maintenance EXCEPT ![s] = e]
        /\ e.version = m.version
        /\ \/ e.statuses = m.statuses
           \/ e.statuses = Recorded(m.statuses, f, entry)
  BY <1>3, AnswerRecorded DEF c
<1>5. /\ maintenance' \in [Slave -> Maintenance \cup {None}]
      /\ \A t \in Slave : maintenance'[t] = IF t = s THEN e ELSE maintenance[t]
  BY <1>0, <1>3, <1>4
<1>6. \A t \in Slave : maintenance'[t].version =
        IF Changes(mailbox[1], t) THEN mailbox[1].version ELSE maintenance[t].version
  BY <1>1, <1>2, <1>4, <1>5 DEF Changes
<1>7. PICK r \in Seq(Call) :
        /\ mailbox' = Tail(mailbox) \o r
        /\ \A k \in 1..Len(r) : ~IsAnswer(r[k]) /\ \A t \in Slave : ~Changes(r[k], t)
  BY <1>0, <1>1, Handled
<1>8. \A x \in Refused(c) : /\ x \in Filter /\ x.framework = f /\ x.slave = s
                            /\ x.version = o.version
  <2> DEFINE x == [id |-> c.refuse, framework |-> o.framework, slave |-> o.slave,
                   version |-> o.version, pending |-> TRUE]
  <2>1. CASE c.refuse = NoRefusal
    BY <2>1 DEF Refused
  <2>2. CASE c.refuse # NoRefusal
    <3>1. Refused(c) = {x} /\ c.refuse \in FilterId
      BY <1>2, <2>2 DEF Refused
    <3> HIDE DEF o
    <3>2. x \in Filter
      BY <1>2, <3>1 DEF Filter, Offer
    <3>3. x.framework = f /\ x.slave = s /\ x.version = o.version
      OBVIOUS
    <3> HIDE DEF x
    <3> QED BY <3>1, <3>2, <3>3
  <2> QED BY <2>1, <2>2
<1>9. Types' /\ Timing'
  <2>1. /\ callbacks' \in Seq(Offer) /\ active' \subseteq Framework /\ filters' \subseteq Filter
        /\ allocationCandidates' \subseteq Slave /\ UNCHANGED masterVars
    BY <1>0, <1>1, <1>8 DEF Types, NoAllocate
  <2> QED BY <1>1, <1>5, <1>6, <1>7, <2>1, HandlerKeeps
<1>10. FrameworksReassess'
  <2> SUFFICES ASSUME NEW t \in Slave, maintenance'[t] # None
               PROVE  /\ \A g \in DOMAIN maintenance'[t].statuses :
                           LET old == maintenance'[t].statuses[g].of
                           IN  old.version = maintenance'[t].version \/ old \in late
                      /\ \A x \in filters' : x.slave = t =>
                           x.version = maintenance'[t].version \/ Late(x.framework, t)
    <3> HIDE DEF c, o, f, s, m, entry
    <3>1. late' = late
      BY <1>1 DEF masterVars
    <3> QED BY <3>1 DEF FrameworksReassess, Late
  <2>1. CASE t = s
    <3>1. m # None /\ maintenance'[t] = e
      BY <1>2, <1>5, <2>1 DEF Maintenance, None
    <3>2. /\ \A g \in DOMAIN m.statuses :
               LET old == m.statuses[g].of IN old.version = m.version \/ old \in late
          /\ \A x \in filters : x.slave = s => x.version = m.version \/ Late(x.framework, s)
      BY <1>3, <3>1 DEF IInv, FrameworksReassess
    <3>3. \A g \in DOMAIN e.statuses :
            LET old == e.statuses[g].of IN old.version = e.version \/ old \in late
      <4>1. CASE e.statuses = m.statuses
        BY <1>4, <3>2, <4>1
      <4>2. CASE e.statuses = Recorded(m.statuses, f, entry)
        <5> HIDE DEF o, f, m
        <5>1. ASSUME NEW g \in DOMAIN e.statuses
              PROVE  \/ g = f /\ e.statuses[g].of = o
                     \/ g \in DOMAIN m.statuses /\ e.statuses[g] = m.statuses[g]
          BY <4>2 DEF Recorded
        <5> QED BY <1>2, <1>4, <3>2, <5>1
      <4> QED BY <1>4, <4>1, <4>2
    <3>4. \A x \in filters' : x.slave = t => x.version = e.version \/ Late(x.framework, s)
      <4>1. ASSUME NEW x \in Refused(c)
            PROVE  x.version = e.version \/ Late(x.framework, s)
        BY <1>2, <1>4, <1>8 DEF Late
      <4> QED BY <1>1, <1>4, <2>1, <3>2, <4>1
    <3> QED BY <2>1, <3>1, <3>3, <3>4
  <2>2. CASE t # s
    <3>1. maintenance'[t] = maintenance[t] /\ \A x \in filters' : x.slave = t => x \in filters
      BY <1>1, <1>5, <1>8, <2>2
    <3> QED BY <3>1 DEF IInv, FrameworksReassess
  <2> QED BY <2>1, <2>2
<1> QED BY <1>9, <1>10 DEF IInv

\* A run sends inverse offers for what is scheduled, each once, to frameworks that have
\* none outstanding; they have one then.
LEMMA RunSends ==
  ASSUME Types, Run
  PROVE  /\ \E order \in Seq(Offer) :
              /\ callbacks' = callbacks \o order
              /\ \A i, j \in 1..Len(order) : order[i] = order[j] => i = j
              /\ \A i \in 1..Len(order) :
                   LET o == order[i]
                   IN  /\ maintenance[o.slave] # None
                       /\ o.version = maintenance[o.slave].version
                       /\ o.framework \notin maintenance[o.slave].offersOutstanding
                       /\ o.framework \in maintenance'[o.slave].offersOutstanding
         /\ maintenance' \in [Slave -> Maintenance \cup {None}]
         /\ \A s \in Slave :
              /\ maintenance'[s].version = maintenance[s].version
              /\ maintenance[s] = None <=> maintenance'[s] = None
              /\ maintenance[s] # None =>
                   /\ maintenance'[s].statuses = maintenance[s].statuses
                   /\ maintenance[s].offersOutstanding \subseteq maintenance'[s].offersOutstanding
<1> DEFINE asked == {k \in Framework \X allocationCandidates : k[1] \in Offerable(k[2])}
           offer(k) == [framework |-> k[1], slave |-> k[2], version |-> maintenance[k[2]].version]
           S == {offer(k) : k \in asked}
           to(s) == {f \in Framework : <<f, s>> \in asked}
<1>0. /\ maintenance \in [Slave -> Maintenance \cup {None}] /\ allocationCandidates \subseteq Slave
      /\ callbacks \in Seq(Offer)
  BY DEF Types
<1>1. /\ maintenance' = [s \in Slave |->
           IF \E f \in Framework : <<f, s>> \in asked
           THEN [maintenance[s] EXCEPT !.offersOutstanding =
                   @ \cup {f \in Framework : <<f, s>> \in asked}]
           ELSE maintenance[s]]
      /\ \E order \in SetToSeqs(S) : callbacks' = callbacks \o order
  BY DEF Run
<1>2. \A k \in asked : /\ k[1] \in Framework /\ k[2] \in Slave
                       /\ maintenance[k[2]] \in Maintenance
                       /\ k[1] \notin maintenance[k[2]].offersOutstanding
                       /\ <<k[1], k[2]>> \in asked
  BY <1>0 DEF Offerable
<1>3. IsFiniteSet(S) /\ S \subseteq Offer
  <2>1. IsFiniteSet(asked)
    <3>1. IsFiniteSet(Framework \X allocationCandidates)
      BY <1>0, FiniteAssumption, FS_Subset, FS_Product
    <3> QED BY <3>1, FS_Subset
  <2>2. [k \in asked |-> offer(k)] \in Surjection(asked, S)
    BY DEF Surjection
  <2>3. ASSUME NEW k \in asked PROVE offer(k) \in Offer
    <3>1. maintenance[k[2]].version \in 1..MaxVersion
      BY <1>2 DEF Maintenance
    <3> QED BY <1>2, <3>1 DEF Offer
  <2> HIDE DEF asked, offer
  <2>4. IsFiniteSet(S)
    BY <2>1, <2>2, FS_Surjection
  <2> QED BY <2>3, <2>4
<1>4. \A s \in Slave :
        /\ maintenance[s] = None => to(s) = {}
        /\ to(s) = {} => maintenance'[s] = maintenance[s]
        /\ to(s) # {} => maintenance'[s] =
             [maintenance[s] EXCEPT !.offersOutstanding = @ \cup to(s)]
  <2> TAKE s \in Slave
  <2>1. maintenance[s] = None => to(s) = {}
    BY DEF Offerable
  <2> HIDE DEF asked
  <2> QED BY <1>1, <2>1
<1>5. ASSUME NEW s \in Slave
      PROVE  /\ maintenance'[s] \in Maintenance \cup {None}
             /\ maintenance'[s].version = maintenance[s].version
             /\ maintenance[s] = None <=> maintenance'[s] = None
             /\ maintenance[s] # None =>
                  /\ maintenance'[s].statuses = maintenance[s].statuses
                  /\ maintenance[s].offersOutstanding \subseteq maintenance'[s].offersOutstanding
                  /\ to(s) \subseteq maintenance'[s].offersOutstanding
  <2> HIDE DEF asked
  <2>1. CASE to(s) = {}
    <3> HIDE DEF to
    <3> QED BY <1>0, <1>4, <2>1
  <2>2. CASE to(s) # {}
    <3>1. to(s) \subseteq Framework
      OBVIOUS
    <3> HIDE DEF to
    <3>2. maintenance[s] \in Maintenance
      BY <1>0, <1>4, <2>2
    <3>3. maintenance'[s] = [maintenance[s] EXCEPT !.offersOutstanding = @ \cup to(s)]
      BY <1>4, <2>2
    <3>4. /\ maintenance'[s] \in Maintenance
          /\ maintenance'[s].version = maintenance[s].version
          /\ maintenance'[s].statuses = maintenance[s].statuses
          /\ maintenance'[s].offersOutstanding = maintenance[s].offersOutstanding \cup to(s)
      BY <3>1, <3>2, <3>3 DEF Maintenance
    <3>5. maintenance[s] # None /\ maintenance'[s] # None
      BY <3>2, <3>4 DEF Maintenance, None
    <3> QED BY <3>4, <3>5
  <2> QED BY <2>1, <2>2
<1>6. maintenance' \in [Slave -> Maintenance \cup {None}]
  <2> HIDE DEF asked, to
  <2> QED BY <1>1, <1>5
<1>7. PICK order \in SetToSeqs(S) : callbacks' = callbacks \o order
  BY <1>1
<1>8. ASSUME NEW x \in S
      PROVE  /\ maintenance[x.slave] # None
             /\ x.version = maintenance[x.slave].version
             /\ x.framework \notin maintenance[x.slave].offersOutstanding
             /\ x.framework \in maintenance'[x.slave].offersOutstanding
  <2>1. PICK k \in asked : x = offer(k)
    OBVIOUS
  <2>2. /\ x.framework = k[1] /\ x.slave = k[2] /\ x.version = maintenance[k[2]].version
    BY <2>1
  <2>3. k[1] \in to(k[2]) /\ k[2] \in Slave
    BY <1>2
  <2>4. maintenance[k[2]] # None
    BY <1>2 DEF Maintenance, None
  <2> HIDE DEF asked, to, offer
  <2> QED BY <1>2, <1>5, <2>2, <2>3, <2>4
<1> HIDE DEF S
<1>9. /\ order \in Seq(Offer)
      /\ \A i \in 1..Len(order) : order[i] \in S
      /\ \A i, j \in 1..Len(order) : order[i] = order[j] => i = j
  <2>1. Cardinality(S) \in Nat
    BY <1>3, FS_CardinalityType
  <2>2. /\ order \in [1..Cardinality(S) -> S]
        /\ \A i, j \in 1..Cardinality(S) : i # j => order[i] # order[j]
    BY <1>7 DEF SetToSeqs
  <2>3. order \in Seq(S) /\ Len(order) = Cardinality(S)
    BY <2>1, <2>2
  <2>4. order \in Seq(Offer)
    BY <1>3, <2>3
  <2> QED BY <2>2, <2>3, <2>4
<1> HIDE DEF asked, to, offer
<1> QED BY <1>5, <1>6, <1>7, <1>8, <1>9

\* Runs record no answer and install no filter.
LEMMA RunKeeps ==
  ASSUME IInv, Run
  PROVE  IInv'
<1>0. Types /\ mailbox \in Seq(Call) /\ callbacks \in Seq(Offer)
  BY DEF IInv, Types
<1>1. /\ mailbox # <<>> /\ Head(mailbox).call = "_allocate" /\ mailbox' = Tail(mailbox)
      /\ allocationCandidates' = {} /\ UNCHANGED <<active, filters, holders, masterVars>>
  BY DEF Run, NextIs
<1>2. PICK order \in Seq(Offer) : callbacks' = callbacks \o order
  BY <1>0, RunSends
<1>3. /\ maintenance' \in [Slave -> Maintenance \cup {None}]
      /\ \A s \in Slave :
           /\ maintenance'[s].version = maintenance[s].version
           /\ maintenance[s] = None <=> maintenance'[s] = None
           /\ maintenance[s] # None => maintenance'[s].statuses = maintenance[s].statuses
  BY <1>0, RunSends
<1>4. PICK c \in Seq(Call) : c = <<>>
  <2>1. <<>> \in Seq(Call)
    OBVIOUS
  <2> QED BY <2>1
<1>5. /\ mailbox' = Tail(mailbox) \o c
      /\ \A k \in 1..Len(c) : ~IsAnswer(c[k]) /\ \A s \in Slave : ~Changes(c[k], s)
  <2>1. Tail(mailbox) \in Seq(Call)
    BY <1>0, <1>1, TailOf
  <2> QED BY <1>1, <1>4, <2>1
<1>6. Head(mailbox) = mailbox[1] /\ \A s \in Slave : ~Changes(mailbox[1], s)
  BY <1>0, <1>1 DEF Changes
<1>7. Types' /\ Timing'
  <2>1. /\ callbacks' \in Seq(Offer) /\ active' \subseteq Framework /\ filters' \subseteq Filter
        /\ allocationCandidates' \subseteq Slave /\ UNCHANGED masterVars
    BY <1>0, <1>1, <1>2 DEF Types
  <2> QED BY <1>1, <1>3, <1>5, <1>6, <2>1, HandlerKeeps
<1>8. FrameworksReassess'
  <2> SUFFICES ASSUME NEW s \in Slave, maintenance'[s] # None
               PROVE  /\ \A f \in DOMAIN maintenance'[s].statuses :
                           LET o == maintenance'[s].statuses[f].of
                           IN  o.version = maintenance'[s].version \/ o \in late
                      /\ \A x \in filters : x.slave = s =>
                           x.version = maintenance'[s].version \/ Late(x.framework, s)
    BY <1>1 DEF FrameworksReassess, Late, masterVars
  <2>1. /\ maintenance[s] # None /\ maintenance'[s].statuses = maintenance[s].statuses
        /\ maintenance'[s].version = maintenance[s].version
    BY <1>3
  <2> QED BY <2>1 DEF IInv, FrameworksReassess
<1> QED BY <1>7, <1>8 DEF IInv

\* Nothing is scheduled at first.
LEMMA InitIInv ==
  ASSUME Init
  PROVE  IInv
<1>1. Types
  <2>1. 0 \in 0..MaxVersion
    BY BoundsAssumption
  <2>2. schedule \in Plans
    BY <2>1 DEF Init, Plans
  <2>3. mailbox \in Seq(Call) /\ callbacks \in Seq(Offer) /\ offers \in Seq(Offer)
    BY DEF Init
  <2>4. maintenance \in [Slave -> Maintenance \cup {None}]
    BY DEF Init
  <2> QED BY <2>2, <2>3, <2>4 DEF Init, Types
<1>2. Timing
  <2>1. Len(mailbox) = 0 /\ Len(offers) = 0
    BY DEF Init
  <2>2. AnswersInTime(mailbox, maintenance, late) /\ OffersInTime(offers, schedule, late)
    BY <2>1 DEF AnswersInTime, OffersInTime
  <2>3. Outlook(mailbox, maintenance, schedule)
    <3> SUFFICES ASSUME NEW s \in Slave
                 PROVE  VersionAt(mailbox, maintenance[s].version, s, 1, Scheduled(schedule[s]))
      BY <2>1 DEF Outlook
    <3>1. maintenance[s].version = 0 /\ Scheduled(schedule[s]) = 0
      BY DEF Init, None, Scheduled
    <3> QED BY <3>1 DEF VersionAt
  <2> QED BY <2>2, <2>3 DEF Timing
<1>3. FrameworksReassess
  BY DEF Init, FrameworksReassess
<1> QED BY <1>1, <1>2, <1>3 DEF IInv

\* Every step keeps the invariant.
LEMMA NextKeeps ==
  ASSUME IInv, [Next]_vars
  PROVE  IInv'
<1>1. CASE \E s \in Slave : MasterSchedules(s)
  BY <1>1, MasterSchedulesKeeps
<1>2. CASE \E f \in Framework : MasterFramework(f)
  BY <1>2, MasterFrameworkKeeps
<1>3. CASE \E s \in Slave : MasterUpdatesSlave(s)
  BY <1>3, MasterUpdatesSlaveKeeps
<1>4. CASE MasterReceives
  BY <1>4, MasterReceivesKeeps
<1>5. CASE MasterAnswers
  BY <1>5, MasterAnswersKeeps
<1>6. CASE \E id \in FilterId : TimerFires(id)
  BY <1>6, TimerFiresKeeps
<1>7. CASE LoopFires
  BY <1>7, LoopFiresKeeps
<1>8. CASE \E f \in Framework, s \in Slave : HoldersChange(f, s)
  BY <1>8, HoldersChangeKeeps
<1>9. CASE Handle
  BY <1>9, UpdateUnavailabilityKeeps, UpdateInverseOfferKeeps, PlainHandlersKeep, RunKeeps
     DEF Handle
<1>10. CASE UNCHANGED vars
  <2>1. FrameworksReassess'
    BY <1>10 DEF vars, IInv, FrameworksReassess, Late
  <2> QED BY <1>10, <2>1 DEF vars, IInv, Types, Timing
<1> QED BY <1>1, <1>2, <1>3, <1>4, <1>5, <1>6, <1>7, <1>8, <1>9, <1>10 DEF Next

\* What the invariant says of the mailbox, the callbacks, the marks and the answers holds in
\* every state, of any number of frameworks and agents.
THEOREM Invariance == Spec => []IInv
BY InitIInv, NextKeeps, PTL DEF Spec

\* What is recorded of an agent's maintenance, and what filters it, are answers about the
\* unavailability that it is scheduled for, but for those about inverse offers that
\* reached the master outdated.
THEOREM Reassessed == Spec => []FrameworksReassess
BY Invariance, PTL DEF IInv

\* CHECK(slave.maintenance.isSome()) in updateInverseOffer (:1292) never fails: an answer is
\* handled before the agent's unavailability is cancelled.
THEOREM AnswersFindMaintenance ==
  Spec => [](NextIs("updateInverseOffer") => maintenance[Head(mailbox).offer.slave] # None)
<1>1. ASSUME IInv
      PROVE  NextIs("updateInverseOffer") => maintenance[Head(mailbox).offer.slave] # None
  BY <1>1, AnswerFindsSchedule DEF Maintenance, None
<1> QED BY <1>1, Invariance, PTL
-----------------------------------------------------------------------------
(* No second inverse offer.  Inverse offers move from the callbacks to the *)
(* frameworks and into the mailbox; a step takes those it leaves from      *)
(* places of their own (Moved).  A new one is sent only if the framework   *)
(* has none outstanding, and then none with the agent's current version is *)
(* anywhere (Known); a new version is one that no inverse offer has, since *)
(* versions grow from the agent to the mailbox to the master (Fresh).      *)

\* Places and OfferAt, of callbacks cb, offers of and mailbox q.
Spots(cb, of, q) ==
  ({"callbacks"} \X (1..Len(cb))) \cup ({"offers"} \X (1..Len(of)))
    \cup ({"mailbox"} \X {i \in 1..Len(q) : IsAnswer(q[i])})

At(cb, of, q, p) ==
  IF p[1] = "callbacks" THEN cb[p[2]] ELSE IF p[1] = "offers" THEN of[p[2]] ELSE q[p[2]].offer

\* Each inverse offer of cb1, of1 and q1 has, with h, a place of its own in cb, of and q.
Moved(cb, of, q, cb1, of1, q1, h) ==
  /\ \A p \in Spots(cb1, of1, q1) :
       h[p] \in Spots(cb, of, q) /\ At(cb, of, q, h[p]) = At(cb1, of1, q1, p)
  /\ \A p, r \in Spots(cb1, of1, q1) : h[p] = h[r] => p = r

LateIn(old, o) == \E x \in old : x.framework = o.framework /\ x.slave = o.slave

\* No two inverse offers are alike.
Single(cb, of, q, old) ==
  \A p, r \in Spots(cb, of, q) :
    At(cb, of, q, p) = At(cb, of, q, r) => p = r \/ LateIn(old, At(cb, of, q, p))

\* The framework of an inverse offer for the current schedule has it outstanding.
Known(cb, of, q, m, old) ==
  \A p \in Spots(cb, of, q) :
    LET o == At(cb, of, q, p)
    IN  o.version = m[o.slave].version =>
          o.framework \in m[o.slave].offersOutstanding \/ LateIn(old, o)

\* The schedules that are still to be told are newer than what inverse offers are for.
FreshOffers(cb, of, q, plan) ==
  \A p \in Spots(cb, of, q) :
    LET o == At(cb, of, q, p)
    IN  /\ o.version <= plan[o.slave].version
        /\ \A j \in 1..Len(q) :
             Changes(q[j], o.slave) /\ q[j].version # 0 => o.version < q[j].version

\* They are newer than the agent's, and each than those before it.
FreshChanges(q, m, plan) ==
  \A s \in Slave :
    /\ m[s].version <= plan[s].version
    /\ \A j \in 1..Len(q) : Changes(q[j], s) /\ q[j].version # 0 =>
         /\ m[s].version < q[j].version /\ q[j].version <= plan[s].version
         /\ \A i \in 1..(j - 1) : Changes(q[i], s) => q[i].version < q[j].version

\* The inverse offers of cb1, of1 and q1 are in cb, of or q.
ComeFrom(cb, of, q, cb1, of1, q1) ==
  \A p \in Spots(cb1, of1, q1) :
    /\ At(cb1, of1, q1, p) \in Offer
    /\ \E r \in Spots(cb, of, q) : At(cb, of, q, r) = At(cb1, of1, q1, p)

\* A place is one of three.
LEMMA Spot ==
  ASSUME NEW cb, NEW of, NEW q
  PROVE  /\ \A i \in 1..Len(cb) : <<"callbacks", i>> \in Spots(cb, of, q)
         /\ \A i \in 1..Len(of) : <<"offers", i>> \in Spots(cb, of, q)
         /\ \A i \in 1..Len(q) : IsAnswer(q[i]) => <<"mailbox", i>> \in Spots(cb, of, q)
         /\ \A i : /\ At(cb, of, q, <<"callbacks", i>>) = cb[i]
                   /\ At(cb, of, q, <<"offers", i>>) = of[i]
                   /\ At(cb, of, q, <<"mailbox", i>>) = q[i].offer
         /\ \A p \in Spots(cb, of, q) :
              \/ \E i \in 1..Len(cb) : p = <<"callbacks", i>>
              \/ \E i \in 1..Len(of) : p = <<"offers", i>>
              \/ \E i \in 1..Len(q) : IsAnswer(q[i]) /\ p = <<"mailbox", i>>
BY DEF Spots, At

\* There are inverse offers at places.
LEMMA SpotType ==
  ASSUME NEW cb \in Seq(Offer), NEW of \in Seq(Offer), NEW q \in Seq(Call),
         NEW p \in Spots(cb, of, q)
  PROVE  At(cb, of, q, p) \in Offer
<1>1. ASSUME NEW i \in 1..Len(q), IsAnswer(q[i])
      PROVE  q[i].offer \in Offer
  <2>1. q[i] \in Call
    OBVIOUS
  <2> QED BY <1>1, <2>1 DEF Call, IsAnswer
<1>2. CASE \E i \in 1..Len(cb) : p = <<"callbacks", i>>
  BY <1>2 DEF At
<1>3. CASE \E i \in 1..Len(of) : p = <<"offers", i>>
  BY <1>3 DEF At
<1>4. CASE \E i \in 1..Len(q) : IsAnswer(q[i]) /\ p = <<"mailbox", i>>
  BY <1>1, <1>4 DEF At
<1> QED BY <1>2, <1>3, <1>4, Spot

\* What moves stays single.
LEMMA MovedKeeps ==
  ASSUME NEW cb, NEW of, NEW q, NEW cb1, NEW of1, NEW q1, NEW h, NEW old, NEW older,
         Moved(cb, of, q, cb1, of1, q1, h), Single(cb, of, q, old), old \subseteq older
  PROVE  /\ Single(cb1, of1, q1, older)
         /\ \A p \in Spots(cb1, of1, q1) :
              \E r \in Spots(cb, of, q) : At(cb, of, q, r) = At(cb1, of1, q1, p)
BY DEF Moved, Single, LateIn

\* Calls that change no schedule are appended, and places keep their inverse offers.
LEMMA AppendKeepsFresh ==
  ASSUME NEW cb, NEW of, NEW q \in Seq(Call), NEW cb1, NEW of1, NEW c \in Seq(Call),
         NEW m, NEW plan,
         \A k \in 1..Len(c) : \A s \in Slave : ~Changes(c[k], s),
         ComeFrom(cb, of, q, cb1, of1, q \o c),
         FreshOffers(cb, of, q, plan), FreshChanges(q, m, plan)
  PROVE  FreshOffers(cb1, of1, q \o c, plan) /\ FreshChanges(q \o c, m, plan)
<1> DEFINE r1 == q \o c
<1>1. /\ Len(q) \in Nat
      /\ \A i \in 1..Len(q) : r1[i] = q[i]
      /\ \A i \in 1..Len(r1) : i \in 1..Len(q) \/ i - Len(q) \in 1..Len(c)
      /\ \A i \in 1..Len(c) : r1[Len(q) + i] = c[i]
  BY Concatenated
<1>2. ASSUME NEW s \in Slave, NEW j \in 1..Len(r1), Changes(r1[j], s)
      PROVE  j \in 1..Len(q) /\ r1[j] = q[j] /\ \A i \in 1..(j - 1) : r1[i] = q[i]
  <2>1. j \in 1..Len(q)
    <3> SUFFICES ASSUME j - Len(q) \in 1..Len(c) PROVE FALSE
      BY <1>1
    <3>1. Len(q) + (j - Len(q)) = j
      BY <1>1
    <3> QED BY <1>1, <1>2, <3>1
  <2>2. \A i \in 1..(j - 1) : i \in 1..Len(q)
    BY <1>1, <2>1
  <2> QED BY <1>1, <2>1, <2>2
<1> HIDE DEF r1
<1>3. FreshOffers(cb1, of1, r1, plan)
  <2> SUFFICES ASSUME NEW p \in Spots(cb1, of1, r1), NEW o, o = At(cb1, of1, r1, p)
               PROVE  /\ o.version <= plan[o.slave].version
                      /\ \A j \in 1..Len(r1) : Changes(r1[j], o.slave) /\ r1[j].version # 0 =>
                           o.version < r1[j].version
    BY DEF FreshOffers
  <2>1. o.slave \in Slave
    BY DEF r1, Offer, ComeFrom
  <2>2. PICK r \in Spots(cb, of, q) : At(cb, of, q, r) = o
    BY DEF r1, ComeFrom
  <2> QED BY <1>2, <2>1, <2>2 DEF FreshOffers
<1>4. FreshChanges(r1, m, plan)
  <2> SUFFICES ASSUME NEW s \in Slave
               PROVE  /\ m[s].version <= plan[s].version
                      /\ \A j \in 1..Len(r1) : Changes(r1[j], s) /\ r1[j].version # 0 =>
                           /\ m[s].version < r1[j].version
                           /\ r1[j].version <= plan[s].version
                           /\ \A i \in 1..(j - 1) : Changes(r1[i], s) =>
                                r1[i].version < r1[j].version
    BY DEF FreshChanges
  <2> QED BY <1>2 DEF FreshChanges
<1> QED BY <1>3, <1>4 DEF r1

\* The master tells of a new schedule of s, newer than every inverse offer, or of none.
LEMMA NewScheduleFresh ==
  ASSUME NEW cb \in Seq(Offer), NEW of \in Seq(Offer), NEW q \in Seq(Call), NEW c \in Call,
         NEW m \in [Slave -> Maintenance \cup {None}], NEW plan \in Plans, NEW next \in Plans,
         NEW s \in Slave,
         FreshOffers(cb, of, q, plan), FreshChanges(q, m, plan), Changes(c, s),
         \A t \in Slave \ {s} : next[t] = plan[t],
         plan[s].version <= next[s].version,
         c.version # 0 => c.version = next[s].version /\ next[s].version = plan[s].version + 1
  PROVE  FreshOffers(cb, of, q \o <<c>>, next) /\ FreshChanges(q \o <<c>>, m, next)
<1> DEFINE r == q \o <<c>>
<1>1. /\ r \in Seq(Call) /\ Len(r) = Len(q) + 1 /\ Len(q) \in Nat
      /\ \A i \in 1..Len(q) : r[i] = q[i]
      /\ r[Len(q) + 1] = c /\ ~IsAnswer(c)
  BY DEF Changes, IsAnswer
<1> HIDE DEF r
<1>2. \A j \in 1..Len(r) : \/ j \in 1..Len(q) /\ r[j] = q[j]
                           \/ j = Len(q) + 1 /\ r[j] = c
  BY <1>1
<1>3. \A t \in Slave : /\ plan[t].version \in Nat /\ next[t].version \in Nat
                       /\ m[t].version \in Nat /\ plan[t].version <= next[t].version
  <2> TAKE t \in Slave
  <2>1. plan[t].version \in Nat /\ next[t].version \in Nat
    BY DEF Plans
  <2>2. m[t].version \in Nat
    <3>1. m[t] \in Maintenance \/ m[t] = None
      OBVIOUS
    <3> QED BY <3>1 DEF Maintenance, None
  <2>3. plan[t].version <= next[t].version
    <3>1. CASE t = s
      BY <3>1
    <3>2. CASE t # s
      BY <2>1, <3>2
    <3> QED BY <3>1, <3>2
  <2> QED BY <2>1, <2>2, <2>3
<1>4. \A j \in 1..Len(r) : \A t \in Slave : Changes(r[j], t) => r[j].version \in Nat
  <2> SUFFICES ASSUME NEW j \in 1..Len(r), r[j].call = "updateUnavailability"
               PROVE  r[j].version \in Nat
    BY DEF Changes
  <2>1. r[j] \in Call
    BY <1>1
  <2> QED BY <2>1 DEF Call
<1>5. FreshOffers(cb, of, r, next)
  <2> SUFFICES ASSUME NEW p \in Spots(cb, of, r), NEW o, o = At(cb, of, r, p)
               PROVE  /\ o.version <= next[o.slave].version
                      /\ \A j \in 1..Len(r) : Changes(r[j], o.slave) /\ r[j].version # 0 =>
                           o.version < r[j].version
    BY DEF FreshOffers
  <2>1. p \in Spots(cb, of, q) /\ At(cb, of, q, p) = o
    <3>1. CASE \E i \in 1..Len(r) : IsAnswer(r[i]) /\ p = <<"mailbox", i>>
      <4>1. PICK i \in 1..Len(r) : IsAnswer(r[i]) /\ p = <<"mailbox", i>>
        BY <3>1
      <4>2. i \in 1..Len(q) /\ r[i] = q[i]
        BY <1>1, <1>2, <4>1
      <4> QED BY <4>1, <4>2 DEF Spots, At
    <3>2. CASE \E i \in 1..Len(cb) : p = <<"callbacks", i>>
      BY <3>2 DEF Spots, At
    <3>3. CASE \E i \in 1..Len(of) : p = <<"offers", i>>
      BY <3>3 DEF Spots, At
    <3> QED BY <3>1, <3>2, <3>3, Spot
  <2>2. o \in Offer /\ o.slave \in Slave /\ o.version \in Nat
    <3>1. o \in Offer
      BY <2>1, SpotType
    <3> QED BY <3>1 DEF Offer
  <2>3. /\ o.version <= plan[o.slave].version
        /\ \A j \in 1..Len(q) : Changes(q[j], o.slave) /\ q[j].version # 0 =>
             o.version < q[j].version
    BY <2>1 DEF FreshOffers
  <2>4. o.version <= next[o.slave].version
    <3>1. plan[o.slave].version <= next[o.slave].version
      BY <1>3, <2>2
    <3> QED BY <1>3, <2>2, <2>3, <3>1
  <2>5. ASSUME NEW j \in 1..Len(r), Changes(r[j], o.slave), r[j].version # 0
        PROVE  o.version < r[j].version
    <3>1. CASE r[j] = c
      <4>1. o.slave = s
        BY <2>5, <3>1 DEF Changes
      <4> QED BY <1>3, <2>2, <2>3, <2>5, <3>1, <4>1
    <3> QED BY <1>2, <2>3, <2>5, <3>1
  <2> QED BY <2>4, <2>5
<1>6. FreshChanges(r, m, next)
  <2> SUFFICES ASSUME NEW t \in Slave
               PROVE  /\ m[t].version <= next[t].version
                      /\ \A j \in 1..Len(r) : Changes(r[j], t) /\ r[j].version # 0 =>
                           /\ m[t].version < r[j].version
                           /\ r[j].version <= next[t].version
                           /\ \A i \in 1..(j - 1) : Changes(r[i], t) =>
                                r[i].version < r[j].version
    BY DEF FreshChanges
  <2>1. /\ m[t].version <= plan[t].version
        /\ \A j \in 1..Len(q) : Changes(q[j], t) /\ q[j].version # 0 =>
             /\ m[t].version < q[j].version /\ q[j].version <= plan[t].version
             /\ \A i \in 1..(j - 1) : Changes(q[i], t) => q[i].version < q[j].version
    BY DEF FreshChanges
  <2>2. m[t].version <= next[t].version
    BY <1>3, <2>1
  <2>3. ASSUME NEW j \in 1..Len(r), Changes(r[j], t), r[j].version # 0
        PROVE  /\ m[t].version < r[j].version
               /\ r[j].version <= next[t].version
               /\ \A i \in 1..(j - 1) : Changes(r[i], t) => r[i].version < r[j].version
    <3>1. CASE j = Len(q) + 1 /\ r[j] = c
      <4>1. t = s
        BY <2>3, <3>1 DEF Changes
      <4>2. c.version = plan[t].version + 1 /\ c.version = next[t].version
        BY <2>3, <3>1, <4>1
      <4>3. ASSUME NEW i \in 1..(j - 1), Changes(r[i], t)
            PROVE  r[i].version < r[j].version
        <5>1. i \in 1..Len(q) /\ i \in 1..Len(r) /\ r[i] = q[i]
          BY <1>1, <3>1
        <5>2. r[i].version \in Nat
          BY <1>4, <4>3, <5>1
        <5>3. r[i].version = 0 \/ r[i].version <= plan[t].version
          BY <2>1, <4>3, <5>1
        <5> QED BY <1>3, <3>1, <4>2, <5>2, <5>3
      <4>4. m[t].version < r[j].version /\ r[j].version <= next[t].version
        BY <1>3, <2>1, <3>1, <4>2
      <4> QED BY <4>3, <4>4
    <3>2. CASE j \in 1..Len(q) /\ r[j] = q[j]
      <4>1. \A i \in 1..(j - 1) : i \in 1..Len(q) /\ r[i] = q[i]
        BY <1>1, <3>2
      <4>2. r[j].version \in Nat /\ plan[t].version <= next[t].version
        BY <1>3, <1>4, <2>3
      <4>3. r[j].version <= plan[t].version
        BY <2>1, <2>3, <3>2
      <4>4. r[j].version <= next[t].version
        BY <1>3, <4>2, <4>3
      <4> QED BY <2>1, <2>3, <3>2, <4>1, <4>4
    <3> QED BY <1>2, <3>1, <3>2
  <2> QED BY <2>2, <2>3
<1> QED BY <1>5, <1>6 DEF r

\* When the first call has been handled, what it told of is the agent's schedule.
LEMMA HandleKeepsFresh ==
  ASSUME NEW cb \in Seq(Offer), NEW of \in Seq(Offer), NEW q \in Seq(Call), q # <<>>,
         NEW m \in [Slave -> Maintenance \cup {None}], NEW n, NEW plan \in Plans,
         FreshOffers(cb, of, q, plan), FreshChanges(q, m, plan),
         \A s \in Slave :
           n[s].version = IF Changes(q[1], s) THEN q[1].version ELSE m[s].version,
         ComeFrom(cb, of, q, cb, of, Tail(q))
  PROVE  FreshOffers(cb, of, Tail(q), plan) /\ FreshChanges(Tail(q), n, plan)
<1> DEFINE t == Tail(q)
<1>1. /\ t \in Seq(Call) /\ Len(q) \in Nat \ {0} /\ Len(t) = Len(q) - 1
      /\ q[1] \in Call /\ \A i \in 1..(Len(q) - 1) : t[i] = q[i + 1]
  BY TailOf
<1> HIDE DEF t
<1>2. \A i \in 1..Len(t) : i + 1 \in 1..Len(q) /\ t[i] = q[i + 1]
  BY <1>1
<1>3. FreshOffers(cb, of, t, plan)
  <2> SUFFICES ASSUME NEW p \in Spots(cb, of, t), NEW o, o = At(cb, of, t, p)
               PROVE  /\ o.version <= plan[o.slave].version
                      /\ \A j \in 1..Len(t) : Changes(t[j], o.slave) /\ t[j].version # 0 =>
                           o.version < t[j].version
    BY DEF FreshOffers
  <2>1. o \in Offer /\ o.slave \in Slave
    BY DEF t, Offer, ComeFrom
  <2>2. \E r \in Spots(cb, of, q) : At(cb, of, q, r) = o
    BY DEF t, ComeFrom
  <2> QED BY <1>2, <2>2 DEF FreshOffers
<1>4. FreshChanges(t, n, plan)
  <2> SUFFICES ASSUME NEW s \in Slave
               PROVE  /\ n[s].version <= plan[s].version
                      /\ \A j \in 1..Len(t) : Changes(t[j], s) /\ t[j].version # 0 =>
                           /\ n[s].version < t[j].version
                           /\ t[j].version <= plan[s].version
                           /\ \A i \in 1..(j - 1) : Changes(t[i], s) =>
                                t[i].version < t[j].version
    BY DEF FreshChanges
  <2>1. /\ m[s].version <= plan[s].version
        /\ \A j \in 1..Len(q) : Changes(q[j], s) /\ q[j].version # 0 =>
             /\ m[s].version < q[j].version /\ q[j].version <= plan[s].version
             /\ \A i \in 1..(j - 1) : Changes(q[i], s) => q[i].version < q[j].version
    BY DEF FreshChanges
  <2>2. n[s].version <= plan[s].version
    <3>1. CASE Changes(q[1], s)
      <4>1. q[1].version \in Nat /\ plan[s].version \in Nat /\ 1 \in 1..Len(q)
        BY <1>1, <3>1 DEF Call, Changes, Plans
      <4> QED BY <2>1, <3>1, <4>1
    <3>2. CASE ~Changes(q[1], s)
      BY <2>1, <3>2
    <3> QED BY <3>1, <3>2
  <2>3. ASSUME NEW j \in 1..Len(t), Changes(t[j], s), t[j].version # 0
        PROVE  /\ n[s].version < t[j].version
               /\ t[j].version <= plan[s].version
               /\ \A i \in 1..(j - 1) : Changes(t[i], s) => t[i].version < t[j].version
    <3> DEFINE k == j + 1
    <3>1. /\ k \in 1..Len(q) /\ t[j] = q[k] /\ 1 \in 1..(k - 1)
          /\ \A i \in 1..(j - 1) : i + 1 \in 1..(k - 1) /\ t[i] = q[i + 1]
      <4>1. \A i \in 1..(j - 1) : i \in 1..Len(t)
        BY <1>1
      <4> QED BY <1>1, <1>2, <4>1
    <3> HIDE DEF k
    <3>2. /\ m[s].version < q[k].version /\ q[k].version <= plan[s].version
          /\ \A i \in 1..(k - 1) : Changes(q[i], s) => q[i].version < q[k].version
      BY <2>1, <2>3, <3>1
    <3> QED BY <3>1, <3>2
  <2> QED BY <2>2, <2>3
<1> QED BY <1>3, <1>4 DEF t
-----------------------------------------------------------------------------
(* Where steps take inverse offers from.                                   *)

\* Of the offers of, the master keeps of1, from the indices in keep, and the answers in c are
\* to others, at the indices in gone.
Parts(of, of1, c, keep, gone) ==
  /\ \A i \in 1..Len(of1) : keep[i] \in 1..Len(of) /\ of1[i] = of[keep[i]]
  /\ \A k \in 1..Len(c) :
       IsAnswer(c[k]) => gone[k] \in 1..Len(of) /\ c[k].offer = of[gone[k]]
  /\ \A i, j \in 1..Len(of1) : keep[i] = keep[j] => i = j
  /\ \A i, j \in 1..Len(c) :
       IsAnswer(c[i]) /\ IsAnswer(c[j]) /\ gone[i] = gone[j] => i = j
  /\ \A i \in 1..Len(of1), k \in 1..Len(c) : IsAnswer(c[k]) => keep[i] # gone[k]

\* The master keeps some offers and dispatches the answers to others.
LEMMA DispatchMoves ==
  ASSUME NEW cb \in Seq(Offer), NEW of \in Seq(Offer), NEW of1 \in Seq(Offer),
         NEW q \in Seq(Call), NEW c \in Seq(Call), NEW keep, NEW gone,
         Parts(of, of1, c, keep, gone)
  PROVE  \E h : Moved(cb, of, q, cb, of1, q \o c, h)
<1>0. /\ \A i \in 1..Len(of1) : keep[i] \in 1..Len(of) /\ of1[i] = of[keep[i]]
      /\ \A k \in 1..Len(c) :
           IsAnswer(c[k]) => gone[k] \in 1..Len(of) /\ c[k].offer = of[gone[k]]
      /\ \A i, j \in 1..Len(of1) : keep[i] = keep[j] => i = j
      /\ \A i, j \in 1..Len(c) :
           IsAnswer(c[i]) /\ IsAnswer(c[j]) /\ gone[i] = gone[j] => i = j
      /\ \A i \in 1..Len(of1), k \in 1..Len(c) : IsAnswer(c[k]) => keep[i] # gone[k]
  BY DEF Parts
<1> USE <1>0
<1> DEFINE q1 == q \o c
           h == [p \in Spots(cb, of1, q1) |->
                   IF p[1] = "offers" THEN <<"offers", keep[p[2]]>>
                   ELSE IF p[1] = "mailbox" /\ p[2] > Len(q) THEN <<"offers", gone[p[2] - Len(q)]>>
                   ELSE p]
<1>1. /\ q1 \in Seq(Call) /\ Len(q1) = Len(q) + Len(c) /\ Len(q) \in Nat /\ Len(c) \in Nat
      /\ \A i \in 1..Len(q) : q1[i] = q[i]
      /\ \A i \in 1..Len(c) : q1[Len(q) + i] = c[i]
      /\ \A i \in 1..Len(q1) : i \in 1..Len(q) \/ i - Len(q) \in 1..Len(c)
  BY Concatenated
<1> HIDE DEF q1
<1> DEFINE A(p) == \E i \in 1..Len(cb) : p = <<"callbacks", i>> /\ h[p] = p
           B(p) == \E i \in 1..Len(of1) : p = <<"offers", i>> /\ h[p] = <<"offers", keep[i]>>
           C(p) == \E i \in 1..Len(q) : /\ IsAnswer(q[i]) /\ q1[i] = q[i]
                                        /\ p = <<"mailbox", i>> /\ h[p] = p
           D(p) == \E k \in 1..Len(c) : /\ IsAnswer(c[k]) /\ q1[Len(q) + k] = c[k]
                                        /\ p = <<"mailbox", Len(q) + k>>
                                        /\ h[p] = <<"offers", gone[k]>>
<1>2. ASSUME NEW p \in Spots(cb, of1, q1)
      PROVE  A(p) \/ B(p) \/ C(p) \/ D(p)
  <2>1. CASE \E i \in 1..Len(cb) : p = <<"callbacks", i>>
    BY <2>1
  <2>2. CASE \E i \in 1..Len(of1) : p = <<"offers", i>>
    BY <2>2
  <2>3. CASE \E i \in 1..Len(q1) : IsAnswer(q1[i]) /\ p = <<"mailbox", i>>
    <3>1. PICK i \in 1..Len(q1) : IsAnswer(q1[i]) /\ p = <<"mailbox", i>>
      BY <2>3
    <3>2. CASE i \in 1..Len(q)
      <4>1. ~(i > Len(q)) /\ q1[i] = q[i]
        BY <1>1, <3>2
      <4>2. h[p] = p
        BY <3>1, <4>1
      <4> HIDE DEF h
      <4> QED BY <3>1, <3>2, <4>1, <4>2
    <3>3. CASE i - Len(q) \in 1..Len(c)
      <4> DEFINE k == i - Len(q)
      <4>1. k \in 1..Len(c) /\ i = Len(q) + k /\ i > Len(q) /\ q1[Len(q) + k] = c[k]
        BY <1>1, <3>3
      <4>2. h[p] = <<"offers", gone[k]>>
        BY <3>1, <4>1
      <4> HIDE DEF h, k
      <4> QED BY <3>1, <4>1, <4>2
    <3> QED BY <1>1, <3>2, <3>3
  <2>4. \/ \E i \in 1..Len(cb) : p = <<"callbacks", i>>
        \/ \E i \in 1..Len(of1) : p = <<"offers", i>>
        \/ \E i \in 1..Len(q1) : IsAnswer(q1[i]) /\ p = <<"mailbox", i>>
    BY Spot
  <2> HIDE DEF A, B, C, D
  <2> QED BY <2>1, <2>2, <2>3, <2>4
<1> HIDE DEF h
<1>3. ASSUME NEW p \in Spots(cb, of1, q1)
      PROVE  h[p] \in Spots(cb, of, q) /\ At(cb, of, q, h[p]) = At(cb, of1, q1, p)
  <2>1. CASE A(p)
    BY <2>1 DEF Spots, At
  <2>2. CASE B(p)
    BY <2>2 DEF Spots, At
  <2>3. CASE C(p)
    BY <2>3 DEF Spots, At
  <2>4. CASE D(p)
    BY <2>4 DEF Spots, At
  <2> QED BY <1>2, <2>1, <2>2, <2>3, <2>4
<1>4. ASSUME NEW p \in Spots(cb, of1, q1), NEW r \in Spots(cb, of1, q1), h[p] = h[r]
      PROVE  p = r
  <2>0. /\ A(p) \/ B(p) \/ C(p) \/ D(p)
        /\ A(r) \/ B(r) \/ C(r) \/ D(r)
    BY <1>2
  <2>1. CASE A(p)
    BY <1>4, <2>0, <2>1
  <2>2. CASE B(p)
    BY <1>4, <2>0, <2>2
  <2>3. CASE C(p)
    BY <1>4, <2>0, <2>3
  <2>4. CASE D(p)
    <3>1. PICK k \in 1..Len(c) : /\ IsAnswer(c[k]) /\ p = <<"mailbox", Len(q) + k>>
                                 /\ h[p] = <<"offers", gone[k]>>
      BY <2>4
    <3>2. CASE A(r) \/ B(r) \/ C(r)
      BY <1>4, <3>1, <3>2
    <3>3. CASE D(r)
      <4>1. PICK i \in 1..Len(c) : /\ IsAnswer(c[i]) /\ r = <<"mailbox", Len(q) + i>>
                                   /\ h[r] = <<"offers", gone[i]>>
        BY <3>3
      <4>2. gone[k] = gone[i]
        BY <1>4, <3>1, <4>1
      <4> QED BY <3>1, <4>1, <4>2
    <3> QED BY <2>0, <3>2, <3>3
  <2> QED BY <2>0, <2>1, <2>2, <2>3, <2>4
<1> QED BY <1>3, <1>4 DEF Moved, q1

\* The master passes the first inverse offer on, or drops it.
LEMMA ReceiveMoves ==
  ASSUME NEW cb \in Seq(Offer), cb # <<>>, NEW of \in Seq(Offer), NEW of1 \in Seq(Offer),
         NEW q \in Seq(Call), of1 = of \/ of1 = Append(of, Head(cb))
  PROVE  \E h : Moved(cb, of, q, Tail(cb), of1, q, h)
<1> DEFINE t == Tail(cb)
           h == [p \in Spots(t, of1, q) |->
                   IF p[1] = "callbacks" THEN <<"callbacks", p[2] + 1>>
                   ELSE IF p[1] = "offers" /\ p[2] > Len(of) THEN <<"callbacks", 1>>
                   ELSE p]
<1>1. /\ t \in Seq(Offer) /\ Len(cb) \in Nat \ {0} /\ Len(t) = Len(cb) - 1 /\ Head(cb) = cb[1]
      /\ \A i \in 1..Len(t) : i + 1 \in 2..Len(cb) /\ t[i] = cb[i + 1]
  BY TailOf
<1>2. /\ Len(of) \in Nat
      /\ \A i \in 1..Len(of1) : \/ i \in 1..Len(of) /\ of1[i] = of[i]
                                \/ i = Len(of) + 1 /\ of1[i] = cb[1]
  <2>1. cb[1] \in Offer
    BY TailOf
  <2>2. CASE of1 = of
    BY <2>2
  <2>3. CASE of1 = Append(of, cb[1])
    BY <2>1, <2>3
  <2> QED BY <1>1, <2>2, <2>3
<1> HIDE DEF t
<1> DEFINE A(p) == \E i \in 1..Len(t) : p = <<"callbacks", i>> /\ h[p] = <<"callbacks", i + 1>>
           B(p) == \E i \in 1..Len(of) : of1[i] = of[i] /\ p = <<"offers", i>> /\ h[p] = p
           C(p) == p = <<"offers", Len(of) + 1>> /\ of1[Len(of) + 1] = cb[1] /\ h[p] = <<"callbacks", 1>>
           D(p) == \E i \in 1..Len(q) : IsAnswer(q[i]) /\ p = <<"mailbox", i>> /\ h[p] = p
<1>3. ASSUME NEW p \in Spots(t, of1, q)
      PROVE  A(p) \/ B(p) \/ C(p) \/ D(p)
  <2>1. CASE \E i \in 1..Len(t) : p = <<"callbacks", i>>
    BY <2>1
  <2>2. CASE \E i \in 1..Len(of1) : p = <<"offers", i>>
    <3>1. PICK i \in 1..Len(of1) : p = <<"offers", i>>
      BY <2>2
    <3>2. CASE i \in 1..Len(of) /\ of1[i] = of[i]
      <4>1. ~(i > Len(of))
        BY <1>2, <3>2
      <4>2. h[p] = p
        BY <3>1, <4>1
      <4> HIDE DEF h
      <4> QED BY <3>1, <3>2, <4>2
    <3>3. CASE i = Len(of) + 1 /\ of1[i] = cb[1]
      <4>1. i > Len(of)
        BY <1>2, <3>3
      <4>2. h[p] = <<"callbacks", 1>>
        BY <3>1, <4>1
      <4> HIDE DEF h
      <4> QED BY <3>1, <3>3, <4>2
    <3> QED BY <1>2, <3>2, <3>3
  <2>3. CASE \E i \in 1..Len(q) : IsAnswer(q[i]) /\ p = <<"mailbox", i>>
    <3>1. PICK i \in 1..Len(q) : IsAnswer(q[i]) /\ p = <<"mailbox", i>>
      BY <2>3
    <3>2. h[p] = p
      BY <3>1
    <3> HIDE DEF h
    <3> QED BY <3>1, <3>2
  <2>4. \/ \E i \in 1..Len(t) : p = <<"callbacks", i>>
        \/ \E i \in 1..Len(of1) : p = <<"offers", i>>
        \/ \E i \in 1..Len(q) : IsAnswer(q[i]) /\ p = <<"mailbox", i>>
    BY Spot
  <2> HIDE DEF A, B, C, D
  <2> QED BY <2>1, <2>2, <2>3, <2>4
<1> HIDE DEF h
<1>4. ASSUME NEW p \in Spots(t, of1, q)
      PROVE  h[p] \in Spots(cb, of, q) /\ At(cb, of, q, h[p]) = At(t, of1, q, p)
  <2>1. CASE A(p)
    <3>1. PICK i \in 1..Len(t) : p = <<"callbacks", i>> /\ h[p] = <<"callbacks", i + 1>>
      BY <2>1
    <3>2. i + 1 \in 1..Len(cb) /\ t[i] = cb[i + 1]
      BY <1>1
    <3> QED BY <3>1, <3>2 DEF Spots, At
  <2>2. CASE B(p)
    BY <2>2 DEF Spots, At
  <2>3. CASE C(p)
    <3>1. 1 \in 1..Len(cb)
      BY <1>1
    <3> QED BY <2>3, <3>1 DEF Spots, At
  <2>4. CASE D(p)
    BY <2>4 DEF Spots, At
  <2> QED BY <1>3, <2>1, <2>2, <2>3, <2>4
<1>5. ASSUME NEW p \in Spots(t, of1, q), NEW r \in Spots(t, of1, q), h[p] = h[r]
      PROVE  p = r
  <2>0. /\ A(p) \/ B(p) \/ C(p) \/ D(p)
        /\ A(r) \/ B(r) \/ C(r) \/ D(r)
    BY <1>3
  <2>1. CASE A(p)
    BY <1>1, <1>5, <2>0, <2>1
  <2>2. CASE B(p)
    BY <1>5, <2>0, <2>2
  <2>3. CASE C(p)
    BY <1>1, <1>5, <2>0, <2>3
  <2>4. CASE D(p)
    BY <1>5, <2>0, <2>4
  <2> QED BY <2>0, <2>1, <2>2, <2>3, <2>4
<1> QED BY <1>4, <1>5 DEF Moved, t

\* Handling a call shifts the mailbox; what is appended is not an answer.
LEMMA HandleMoves ==
  ASSUME NEW cb \in Seq(Offer), NEW of \in Seq(Offer), NEW q \in Seq(Call), q # <<>>,
         NEW c \in Seq(Call), \A k \in 1..Len(c) : ~IsAnswer(c[k])
  PROVE  \E h : /\ Moved(cb, of, q, cb, of, Tail(q) \o c, h)
                /\ \A p \in Spots(cb, of, Tail(q) \o c) : h[p] # <<"mailbox", 1>>
<1> DEFINE t == Tail(q)
           q1 == t \o c
           h == [p \in Spots(cb, of, q1) |->
                   IF p[1] = "mailbox" THEN <<"mailbox", p[2] + 1>> ELSE p]
<1>1. /\ t \in Seq(Call) /\ Len(q) \in Nat \ {0} /\ Len(t) = Len(q) - 1
      /\ \A i \in 1..Len(t) : i + 1 \in 2..Len(q) /\ t[i] = q[i + 1]
  BY TailOf
<1> HIDE DEF t
<1>2. \A i \in 1..Len(q1) : IsAnswer(q1[i]) => i \in 1..Len(t) /\ q1[i] = t[i]
  <2>1. /\ Len(t) \in Nat
        /\ \A i \in 1..Len(t) : q1[i] = t[i]
        /\ \A i \in 1..Len(c) : q1[Len(t) + i] = c[i]
        /\ \A i \in 1..Len(q1) : i \in 1..Len(t) \/ i - Len(t) \in 1..Len(c)
    <3>1. t \in Seq(Call)
      BY <1>1
    <3> QED BY ONLY <3>1, c \in Seq(Call), Concatenated
  <2> HIDE DEF q1
  <2> TAKE i \in 1..Len(q1)
  <2>2. CASE i \in 1..Len(t)
    BY <2>1, <2>2
  <2>3. CASE i - Len(t) \in 1..Len(c)
    <3>1. Len(t) + (i - Len(t)) = i
      BY <2>1
    <3> QED BY <2>1, <2>3, <3>1
  <2> QED BY <2>1, <2>2, <2>3
<1> HIDE DEF q1
<1> DEFINE A(p) == \E i \in 1..Len(cb) : p = <<"callbacks", i>> /\ h[p] = p
           B(p) == \E i \in 1..Len(of) : p = <<"offers", i>> /\ h[p] = p
           C(p) == \E i \in 1..Len(t) : /\ IsAnswer(q[i + 1]) /\ q1[i] = q[i + 1]
                                        /\ p = <<"mailbox", i>> /\ h[p] = <<"mailbox", i + 1>>
<1>3. ASSUME NEW p \in Spots(cb, of, q1)
      PROVE  A(p) \/ B(p) \/ C(p)
  <2>1. CASE \E i \in 1..Len(cb) : p = <<"callbacks", i>>
    <3>1. PICK i \in 1..Len(cb) : p = <<"callbacks", i>>
      BY <2>1
    <3>2. h[p] = p
      BY <3>1
    <3> HIDE DEF h
    <3> QED BY <3>1, <3>2
  <2>2. CASE \E i \in 1..Len(of) : p = <<"offers", i>>
    <3>1. PICK i \in 1..Len(of) : p = <<"offers", i>>
      BY <2>2
    <3>2. h[p] = p
      BY <3>1
    <3> HIDE DEF h
    <3> QED BY <3>1, <3>2
  <2>3. CASE \E i \in 1..Len(q1) : IsAnswer(q1[i]) /\ p = <<"mailbox", i>>
    <3>1. PICK i \in 1..Len(q1) : IsAnswer(q1[i]) /\ p = <<"mailbox", i>>
      BY <2>3
    <3>2. h[p] = <<"mailbox", i + 1>>
      BY <3>1
    <3> HIDE DEF h
    <3>3. i \in 1..Len(t) /\ q1[i] = q[i + 1] /\ IsAnswer(q[i + 1])
      BY <1>1, <1>2, <3>1
    <3> QED BY <3>1, <3>2, <3>3
  <2>4. \/ \E i \in 1..Len(cb) : p = <<"callbacks", i>>
        \/ \E i \in 1..Len(of) : p = <<"offers", i>>
        \/ \E i \in 1..Len(q1) : IsAnswer(q1[i]) /\ p = <<"mailbox", i>>
    BY Spot
  <2> HIDE DEF A, B, C
  <2> QED BY <2>1, <2>2, <2>3, <2>4
<1> HIDE DEF h
<1>4. ASSUME NEW p \in Spots(cb, of, q1)
      PROVE  /\ h[p] \in Spots(cb, of, q) /\ At(cb, of, q, h[p]) = At(cb, of, q1, p)
             /\ h[p] # <<"mailbox", 1>>
  <2>1. CASE A(p)
    BY <2>1 DEF Spots, At
  <2>2. CASE B(p)
    BY <2>2 DEF Spots, At
  <2>3. CASE C(p)
    <3>1. PICK i \in 1..Len(t) : /\ IsAnswer(q[i + 1]) /\ q1[i] = q[i + 1]
                                 /\ p = <<"mailbox", i>> /\ h[p] = <<"mailbox", i + 1>>
      BY <2>3
    <3>2. i + 1 \in 1..Len(q) /\ i + 1 # 1
      BY <1>1
    <3> QED BY <3>1, <3>2 DEF Spots, At
  <2> QED BY <1>3, <2>1, <2>2, <2>3
<1>5. ASSUME NEW p \in Spots(cb, of, q1), NEW r \in Spots(cb, of, q1), h[p] = h[r]
      PROVE  p = r
  <2>0. /\ A(p) \/ B(p) \/ C(p)
        /\ A(r) \/ B(r) \/ C(r)
    BY <1>3
  <2>1. CASE A(p)
    BY <1>5, <2>0, <2>1
  <2>2. CASE B(p)
    BY <1>5, <2>0, <2>2
  <2>3. CASE C(p)
    BY <1>5, <2>0, <2>3
  <2> QED BY <2>0, <2>1, <2>2, <2>3
<1> QED BY <1>4, <1>5 DEF Moved, q1, t

\* A run leaves inverse offers where they are and sends others.
LEMMA RunSpots ==
  ASSUME NEW cb \in Seq(Offer), NEW of \in Seq(Offer), NEW q \in Seq(Call),
         NEW order \in Seq(Offer), NEW p \in Spots(cb \o order, of, q)
  PROVE  \/ /\ p \in Spots(cb, of, q)
            /\ At(cb \o order, of, q, p) = At(cb, of, q, p)
         \/ \E i \in 1..Len(order) : /\ p = <<"callbacks", Len(cb) + i>>
                                     /\ At(cb \o order, of, q, p) = order[i]
<1> DEFINE cb1 == cb \o order
<1>1. /\ Len(cb) \in Nat
      /\ \A i \in 1..Len(cb) : cb1[i] = cb[i]
      /\ \A i \in 1..Len(order) : cb1[Len(cb) + i] = order[i]
      /\ \A i \in 1..Len(cb1) : i \in 1..Len(cb) \/ i - Len(cb) \in 1..Len(order)
  BY ONLY cb \in Seq(Offer), order \in Seq(Offer), Concatenated
<1> HIDE DEF cb1
<1>2. p \in Spots(cb1, of, q)
  BY DEF cb1
<1>3. CASE \E i \in 1..Len(cb1) : p = <<"callbacks", i>>
  <2>1. PICK i \in 1..Len(cb1) : p = <<"callbacks", i>>
    BY <1>3
  <2>2. CASE i \in 1..Len(cb)
    <3>1. At(cb1, of, q, p) = At(cb, of, q, p) /\ p \in Spots(cb, of, q)
      BY <1>1, <2>1, <2>2 DEF Spots, At
    <3> QED BY <3>1 DEF cb1
  <2>3. CASE i - Len(cb) \in 1..Len(order)
    <3>1. i = Len(cb) + (i - Len(cb))
      BY <1>1
    <3>2. At(cb1, of, q, p) = order[i - Len(cb)]
      BY <1>1, <2>1, <2>3, <3>1 DEF At
    <3> QED BY <2>1, <2>3, <3>1, <3>2 DEF cb1
  <2> QED BY <1>1, <2>2, <2>3
<1>4. CASE \/ \E i \in 1..Len(of) : p = <<"offers", i>>
           \/ \E i \in 1..Len(q) : IsAnswer(q[i]) /\ p = <<"mailbox", i>>
  BY <1>4 DEF Spots, At
<1> QED BY <1>2, <1>3, <1>4, Spot
-----------------------------------------------------------------------------
(* What the steps do to them.                                              *)

SecondOf(cb, of, q, m, plan, old) ==
  /\ Single(cb, of, q, old) /\ Known(cb, of, q, m, old)
  /\ FreshOffers(cb, of, q, plan) /\ FreshChanges(q, m, plan)

Second == SecondOf(callbacks, offers, mailbox, maintenance, schedule, late)

\* What moves stays known if what is outstanding stays so.
LEMMA MovedStaysKnown ==
  ASSUME NEW cb \in Seq(Offer), NEW of \in Seq(Offer), NEW q \in Seq(Call),
         NEW cb1 \in Seq(Offer), NEW of1 \in Seq(Offer), NEW q1 \in Seq(Call),
         NEW h, NEW m, NEW n, NEW old, NEW older,
         Moved(cb, of, q, cb1, of1, q1, h), Known(cb, of, q, m, old), old \subseteq older,
         \A s \in Slave : n[s].version = m[s].version,
         \A s \in Slave, f \in Framework :
           f \in m[s].offersOutstanding => f \in n[s].offersOutstanding
  PROVE  Known(cb1, of1, q1, n, older)
<1> SUFFICES ASSUME NEW p \in Spots(cb1, of1, q1), NEW o, o = At(cb1, of1, q1, p),
                    o.version = n[o.slave].version
             PROVE  o.framework \in n[o.slave].offersOutstanding \/ LateIn(older, o)
  BY DEF Known
<1>1. o \in Offer
  BY SpotType
<1>2. o.slave \in Slave /\ o.framework \in Framework
  BY <1>1 DEF Offer
<1>3. h[p] \in Spots(cb, of, q) /\ At(cb, of, q, h[p]) = o
  BY DEF Moved
<1>4. o.framework \in m[o.slave].offersOutstanding \/ LateIn(old, o)
  BY <1>2, <1>3 DEF Known
<1> QED BY <1>2, <1>4 DEF LateIn

\* The master dispatches calls that change no schedule.
LEMMA AppendKeepsSecond ==
  ASSUME NEW cb \in Seq(Offer), NEW of \in Seq(Offer), NEW of1 \in Seq(Offer),
         NEW q \in Seq(Call), NEW c \in Seq(Call), NEW m, NEW plan, NEW old, NEW keep, NEW gone,
         SecondOf(cb, of, q, m, plan, old),
         \A k \in 1..Len(c) : \A s \in Slave : ~Changes(c[k], s),
         Parts(of, of1, c, keep, gone)
  PROVE  SecondOf(cb, of1, q \o c, m, plan, old)
<1> DEFINE q1 == q \o c
<1>1. PICK h : Moved(cb, of, q, cb, of1, q1, h)
  BY DispatchMoves
<1>2. q1 \in Seq(Call)
  OBVIOUS
<1>3. Single(cb, of, q, old) /\ Known(cb, of, q, m, old)
  BY DEF SecondOf
<1>4. FreshOffers(cb, of1, q1, plan) /\ FreshChanges(q1, m, plan)
  <2>1. ComeFrom(cb, of, q, cb, of1, q1)
    <3> HIDE DEF q1
    <3>1. \A p \in Spots(cb, of1, q1) : At(cb, of1, q1, p) \in Offer
      BY <1>2, SpotType
    <3> QED BY <1>1, <3>1 DEF Moved, ComeFrom
  <2> QED BY <2>1, AppendKeepsFresh DEF SecondOf
<1> HIDE DEF q1
<1>5. Single(cb, of1, q1, old)
  BY <1>1, <1>3, MovedKeeps
<1>6. Known(cb, of1, q1, m, old)
  BY <1>1, <1>2, <1>3, MovedStaysKnown
<1> QED BY <1>4, <1>5, <1>6 DEF SecondOf, q1

\* The master tells of a new schedule.
LEMMA NewScheduleKeepsSecond ==
  ASSUME NEW cb \in Seq(Offer), NEW of \in Seq(Offer), NEW q \in Seq(Call), NEW c \in Call,
         NEW m \in [Slave -> Maintenance \cup {None}], NEW plan \in Plans, NEW next \in Plans,
         NEW s \in Slave, NEW old, SecondOf(cb, of, q, m, plan, old), Changes(c, s),
         \A t \in Slave \ {s} : next[t] = plan[t],
         plan[s].version <= next[s].version,
         c.version # 0 => c.version = next[s].version /\ next[s].version = plan[s].version + 1
  PROVE  SecondOf(cb, of, q \o <<c>>, m, next, old)
<1> DEFINE d == <<c>>
           q1 == q \o d
           keep == [i \in 1..Len(of) |-> i]
<1>1. FreshOffers(cb, of, q1, next) /\ FreshChanges(q1, m, next)
  BY NewScheduleFresh DEF SecondOf
<1>2. PICK h : Moved(cb, of, q, cb, of, q1, h)
  <2>1. d \in Seq(Call) /\ \A k \in 1..Len(d) : ~IsAnswer(d[k])
    BY DEF Changes, IsAnswer
  <2>2. Parts(of, of, d, keep, keep)
    BY <2>1 DEF Parts
  <2> HIDE DEF d, keep
  <2> QED BY <2>1, <2>2, DispatchMoves
<1>3. Single(cb, of, q, old) /\ Known(cb, of, q, m, old) /\ q1 \in Seq(Call)
  BY DEF SecondOf
<1> HIDE DEF q1
<1>4. Single(cb, of, q1, old)
  BY <1>2, <1>3, MovedKeeps
<1>5. Known(cb, of, q1, m, old)
  BY <1>2, <1>3, MovedStaysKnown
<1> QED BY <1>1, <1>4, <1>5 DEF SecondOf, q1

\* Where in the offers those that are withdrawn and those that are kept are from.
LEMMA Parted ==
  ASSUME Types, NEW old
  PROVE  \E keep, gone :
           Parts(offers, Among(offers, ToSet(offers) \ old), Withdraw(old), keep, gone)
<1> DEFINE rest == ToSet(offers) \ old
           kept == Among(offers, rest)
           left == Among(offers, old)
           W == Withdraw(old)
<1>0. offers \in Seq(Offer)
  BY DEF Types
<1>1. kept \in Seq(Offer) /\ left \in Seq(Offer)
  BY <1>0, AmongPicks
<1>2. PICK keep : Picks(kept, offers, Len(offers), rest, keep)
  BY <1>0, AmongPicks
<1>3. /\ Len(W) = Len(left)
      /\ \A i \in 1..Len(W) : W[i].offer = left[i]
  BY Withdrawn
<1>4. PICK gone : Picks(left, offers, Len(offers), old, gone)
  BY <1>0, AmongPicks
<1> HIDE DEF kept, left, W
<1>5. \A i, j \in 1..Len(kept) : keep[i] = keep[j] => i = j
  <2>1. \A i, j \in 1..Len(kept) : i = j \/ i < j \/ j < i
    BY <1>1
  <2>2. \A i \in 1..Len(kept) : keep[i] \in Nat
    BY <1>2 DEF Picks
  <2> QED BY <1>2, <2>1, <2>2 DEF Picks
<1>6. \A i, j \in 1..Len(W) : gone[i] = gone[j] => i = j
  <2>1. \A i, j \in 1..Len(left) : i = j \/ i < j \/ j < i
    BY <1>1
  <2>2. \A i \in 1..Len(left) : gone[i] \in Nat
    BY <1>4 DEF Picks
  <2> QED BY <1>3, <1>4, <2>1, <2>2 DEF Picks
<1>7. /\ \A i \in 1..Len(kept) : /\ keep[i] \in 1..Len(offers) /\ kept[i] = offers[keep[i]]
                                 /\ offers[keep[i]] \notin old
      /\ \A k \in 1..Len(W) : /\ gone[k] \in 1..Len(offers) /\ W[k].offer = offers[gone[k]]
                              /\ offers[gone[k]] \in old
  BY <1>2, <1>3, <1>4 DEF Picks, rest
<1>8. \A i \in 1..Len(kept), k \in 1..Len(W) : keep[i] # gone[k]
  BY <1>7
<1>9. Parts(offers, kept, W, keep, gone)
  BY <1>5, <1>6, <1>7, <1>8 DEF Parts
<1> QED BY <1>9 DEF kept, W, rest

\* Calls that are no answers leave inverse offers where they are.
LEMMA PlainAppendKeepsSecond ==
  ASSUME NEW cb \in Seq(Offer), NEW of \in Seq(Offer),
         NEW q \in Seq(Call), NEW c \in Seq(Call), NEW m, NEW plan, NEW old,
         SecondOf(cb, of, q, m, plan, old),
         \A k \in 1..Len(c) : ~IsAnswer(c[k]) /\ \A s \in Slave : ~Changes(c[k], s)
  PROVE  SecondOf(cb, of, q \o c, m, plan, old)
<1> DEFINE keep == [i \in 1..Len(of) |-> i]
<1>1. Parts(of, of, c, keep, keep)
  BY DEF Parts
<1> HIDE DEF keep
<1> QED BY <1>1, AppendKeepsSecond

\* The offers of an agent are withdrawn; then its new schedule follows.
LEMMA MasterSchedulesSecond ==
  ASSUME IInv, Second, NEW s \in Slave, MasterSchedules(s), schedule' \in Plans
  PROVE  Second'
<1> DEFINE old == {o \in ToSet(offers) : o.slave = s}
           c == [call |-> "updateUnavailability", slave |-> s,
                 version |-> IF schedule'[s].on THEN schedule'[s].version ELSE 0]
           W == Withdraw(old)
           kept == Among(offers, ToSet(offers) \ old)
           next == schedule'
<1>0. /\ mailbox \in Seq(Call) /\ offers \in Seq(Offer) /\ callbacks \in Seq(Offer)
      /\ schedule \in Plans /\ Types /\ maintenance \in [Slave -> Maintenance \cup {None}]
      /\ next \in Plans
  BY DEF IInv, Types
<1>1. /\ \/ next = [schedule EXCEPT ![s] = [version |-> @.version + 1, on |-> TRUE]]
         \/ next = [schedule EXCEPT ![s].on = FALSE]
      /\ mailbox' = mailbox \o (W \o <<c>>)
      /\ offers' = kept
      /\ UNCHANGED <<maintenance, callbacks, late>>
  BY DEF MasterSchedules, Dispatch
<1>2. c \in Call /\ Changes(c, s) /\ c.version = Scheduled(next[s])
  <2>1. schedule'[s].version \in 0..MaxVersion
    BY <1>0 DEF Plans
  <2>2. c.version \in 0..MaxVersion
    BY <2>1, BoundsAssumption
  <2> QED BY <2>2 DEF Call, Changes, Scheduled
<1> HIDE DEF c, next
<1>3. /\ \A t \in Slave \ {s} : next[t] = schedule[t]
      /\ schedule[s].version <= next[s].version
      /\ c.version # 0 =>
           c.version = next[s].version /\ next[s].version = schedule[s].version + 1
  <2>1. /\ schedule \in [Slave -> [version : 0..MaxVersion, on : BOOLEAN]]
        /\ schedule[s].version \in Nat
    BY <1>0 DEF Plans
  <2>2. CASE next = [schedule EXCEPT ![s] = [version |-> @.version + 1, on |-> TRUE]]
    <3>1. next[s] = [version |-> schedule[s].version + 1, on |-> TRUE]
      BY <2>1, <2>2
    <3>2. \A t \in Slave \ {s} : next[t] = schedule[t]
      BY <2>1, <2>2
    <3> QED BY <1>2, <2>1, <3>1, <3>2 DEF Scheduled
  <2>3. CASE next = [schedule EXCEPT ![s].on = FALSE]
    <3>1. next[s] = [schedule[s] EXCEPT !.on = FALSE]
      BY <2>1, <2>3
    <3>2. next[s].version = schedule[s].version /\ next[s].on = FALSE
      BY <2>1, <3>1
    <3>3. \A t \in Slave \ {s} : next[t] = schedule[t]
      BY <2>1, <2>3
    <3> QED BY <1>2, <2>1, <3>2, <3>3 DEF Scheduled
  <2> QED BY <1>1, <2>2, <2>3
<1>4. /\ W \in Seq(Call) /\ kept \in Seq(Offer)
      /\ \A i \in 1..Len(W) : W[i].call = "updateInverseOffer"
  BY <1>0, Withdrawn, KeptOffers
<1>5. PICK keep, gone : Parts(offers, kept, W, keep, gone)
  BY <1>0, Parted
<1> HIDE DEF W, kept
<1>6. SecondOf(callbacks, kept, mailbox \o W, maintenance, schedule, late)
  <2>1. \A k \in 1..Len(W) : \A t \in Slave : ~Changes(W[k], t)
    BY <1>4 DEF Changes
  <2> QED BY <1>0, <1>4, <1>5, <2>1, AppendKeepsSecond DEF Second
<1>7. mailbox \o W \in Seq(Call) /\ mailbox \o (W \o <<c>>) = (mailbox \o W) \o <<c>>
  BY <1>0, <1>2, <1>4
<1>8. SecondOf(callbacks, kept, (mailbox \o W) \o <<c>>, maintenance, next, late)
  BY <1>0, <1>2, <1>3, <1>4, <1>6, <1>7, NewScheduleKeepsSecond
<1> QED BY <1>1, <1>7, <1>8 DEF Second, next

\* The offers of a framework are withdrawn.
LEMMA MasterFrameworkSecond ==
  ASSUME IInv, Second, NEW f \in Framework, MasterFramework(f)
  PROVE  Second'
<1> DEFINE old == {o \in ToSet(offers) : o.framework = f}
           W == Withdraw(old)
           kept == Among(offers, ToSet(offers) \ old)
<1>0. /\ mailbox \in Seq(Call) /\ offers \in Seq(Offer) /\ callbacks \in Seq(Offer) /\ Types
  BY DEF IInv, Types
<1>1. /\ UNCHANGED <<maintenance, callbacks, schedule, late>>
      /\ \/ /\ mailbox' = mailbox \o (<< [call |-> "deactivateFramework", framework |-> f] >> \o W)
            /\ offers' = kept
         \/ /\ mailbox' = mailbox \o << [call |-> "activateFramework", framework |-> f] >>
            /\ offers' = offers
         \/ /\ mailbox' = mailbox \o << [call |-> "reviveOffers", framework |-> f] >>
            /\ offers' = offers
         \/ /\ mailbox' = mailbox \o << [call |-> "updateFramework", framework |-> f] >>
            /\ offers' = offers
  BY DEF MasterFramework, Dispatch
<1>2. ASSUME NEW name \in {"activateFramework", "deactivateFramework", "reviveOffers",
                           "updateFramework"},
             NEW c, c = << [call |-> name, framework |-> f] >>
      PROVE  /\ c \in Seq(Call)
             /\ SecondOf(callbacks, offers, mailbox \o c, maintenance, schedule, late)
  <2> DEFINE d == [call |-> name, framework |-> f]
  <2>1. d \in Call /\ ~IsAnswer(d) /\ \A s \in Slave : ~Changes(d, s)
    BY DEF Call, IsAnswer, Changes
  <2>2. c = <<d>>
    BY <1>2
  <2> HIDE DEF d
  <2>3. c \in Seq(Call) /\ \A k \in 1..Len(c) : c[k] = d
    BY <2>1, <2>2
  <2>4. \A k \in 1..Len(c) : ~IsAnswer(c[k]) /\ \A s \in Slave : ~Changes(c[k], s)
    BY <2>1, <2>3
  <2> QED BY <1>0, <2>3, <2>4, PlainAppendKeepsSecond DEF Second
<1>3. CASE /\ mailbox' = mailbox \o (<< [call |-> "deactivateFramework", framework |-> f] >> \o W)
           /\ offers' = kept
  <2>1. PICK c \in Seq(Call) :
          /\ c = << [call |-> "deactivateFramework", framework |-> f] >>
          /\ SecondOf(callbacks, offers, mailbox \o c, maintenance, schedule, late)
    BY <1>2
  <2>2. /\ W \in Seq(Call) /\ kept \in Seq(Offer)
        /\ \A i \in 1..Len(W) : W[i].call = "updateInverseOffer"
    BY <1>0, Withdrawn, KeptOffers
  <2>3. PICK keep, gone : Parts(offers, kept, W, keep, gone)
    BY <1>0, Parted
  <2> HIDE DEF W, kept
  <2>4. mailbox \o c \in Seq(Call) /\ mailbox \o (c \o W) = (mailbox \o c) \o W
    BY <1>0, <2>2
  <2>5. \A k \in 1..Len(W) : \A s \in Slave : ~Changes(W[k], s)
    BY <2>2 DEF Changes
  <2>6. SecondOf(callbacks, kept, (mailbox \o c) \o W, maintenance, schedule, late)
    BY <1>0, <2>1, <2>2, <2>3, <2>4, <2>5, AppendKeepsSecond
  <2> QED BY <1>1, <1>3, <2>1, <2>4, <2>6 DEF Second
<1> QED BY <1>1, <1>2, <1>3 DEF Second

\* An inverse offer that is passed on or dropped moves; what is late is exempt.
LEMMA MasterReceivesSecond ==
  ASSUME IInv, Second, MasterReceives, Types'
  PROVE  Second'
<1> DEFINE cb1 == callbacks'
           of1 == offers'
           older == late'
<1>0. /\ mailbox \in Seq(Call) /\ offers \in Seq(Offer) /\ callbacks \in Seq(Offer)
      /\ cb1 \in Seq(Offer) /\ of1 \in Seq(Offer)
  BY DEF IInv, Types
<1>1. /\ callbacks # <<>> /\ cb1 = Tail(callbacks)
      /\ of1 = offers \/ of1 = Append(offers, Head(callbacks))
      /\ late \subseteq older
      /\ UNCHANGED <<mailbox, maintenance, schedule>>
  BY DEF MasterReceives
<1> HIDE DEF cb1, of1, older
<1>2. PICK h : Moved(callbacks, offers, mailbox, cb1, of1, mailbox, h)
  BY <1>0, <1>1, ReceiveMoves
<1>3. /\ Single(callbacks, offers, mailbox, late)
      /\ Known(callbacks, offers, mailbox, maintenance, late)
      /\ FreshOffers(callbacks, offers, mailbox, schedule)
      /\ FreshChanges(mailbox, maintenance, schedule)
  BY DEF Second, SecondOf
<1>4. Single(cb1, of1, mailbox, older)
  BY <1>1, <1>2, <1>3, MovedKeeps
<1>5. Known(cb1, of1, mailbox, maintenance, older)
  <2>1. late \subseteq older
    BY <1>1
  <2>2. Known(callbacks, offers, mailbox, maintenance, late)
    BY <1>3
  <2> QED BY <1>0, <1>2, <2>1, <2>2, MovedStaysKnown
<1>6. FreshOffers(cb1, of1, mailbox, schedule)
  BY <1>2, <1>3 DEF FreshOffers, Moved
<1> QED BY <1>1, <1>3, <1>4, <1>5, <1>6 DEF Second, SecondOf, cb1, of1, older

\* An answer takes the place of the inverse offer it is to.
LEMMA MasterAnswersSecond ==
  ASSUME IInv, Second, MasterAnswers, Types'
  PROVE  Second'
<1>0. /\ mailbox \in Seq(Call) /\ offers \in Seq(Offer) /\ callbacks \in Seq(Offer)
      /\ mailbox' \in Seq(Call) /\ offers' \in Seq(Offer)
  BY DEF IInv, Types
<1>1. PICK i \in 1..Len(offers) :
        /\ \E status, refuse : mailbox' = mailbox \o << Answer(offers[i], status, refuse) >>
        /\ offers' = RemoveAt(offers, i)
        /\ UNCHANGED <<maintenance, callbacks, schedule, late>>
  <2>1. DOMAIN offers = 1..Len(offers)
    BY <1>0
  <2> QED BY <2>1 DEF MasterAnswers, Dispatch
<1>a. PICK status, refuse : mailbox' = mailbox \o << Answer(offers[i], status, refuse) >>
  BY <1>1
<1> DEFINE d == Answer(offers[i], status, refuse)
           c == <<d>>
           of1 == offers'
           keep == [j \in 1..Len(of1) |-> IF j < i THEN j ELSE j + 1]
           gone == [j \in {1} |-> i]
<1>2. d.offer = offers[i] /\ \A s \in Slave : ~Changes(d, s)
  BY DEF Answer, Changes
<1>3. mailbox' = mailbox \o <<d>>
  BY <1>a
<1> HIDE DEF d
<1>4. Len(c) = 1 /\ c[1] = d /\ c \in Seq({d})
  OBVIOUS
<1>5. c \in Seq(Call)
  <2>1. Len(mailbox) \in Nat /\ mailbox'[Len(mailbox) + 1] = d /\ Len(mailbox') = Len(mailbox) + 1
    BY <1>0, <1>3
  <2>2. d \in Call
    BY <1>0, <2>1
  <2> QED BY <2>2
<1>6. mailbox' = mailbox \o c
  BY <1>3
<1>7. /\ Len(offers) \in Nat /\ Len(of1) = Len(offers) - 1
      /\ \A j \in 1..(Len(offers) - 1) : of1[j] = IF j < i THEN offers[j] ELSE offers[j + 1]
  BY <1>0, <1>1, WithoutOne
<1> HIDE DEF c, of1
<1>8. Parts(offers, of1, c, keep, gone)
  BY <1>2, <1>4, <1>7 DEF Parts
<1>9. SecondOf(callbacks, of1, mailbox \o c, maintenance, schedule, late)
  <2>1. of1 \in Seq(Offer)
    BY <1>0 DEF of1
  <2>2. \A k \in 1..Len(c) : \A s \in Slave : ~Changes(c[k], s)
    BY <1>2, <1>4
  <2> HIDE DEF keep, gone
  <2> QED BY <1>0, <1>5, <1>8, <2>1, <2>2, AppendKeepsSecond DEF Second
<1> QED BY <1>1, <1>6, <1>9 DEF Second, of1

\* Handling a call, whatever it does to maintenance.
LEMMA HandledSecond ==
  ASSUME NEW cb \in Seq(Offer), NEW of \in Seq(Offer), NEW q \in Seq(Call), q # <<>>,
         NEW c \in Seq(Call),
         \A k \in 1..Len(c) : ~IsAnswer(c[k]) /\ \A s \in Slave : ~Changes(c[k], s),
         NEW m \in [Slave -> Maintenance \cup {None}], NEW n, NEW plan \in Plans, NEW old,
         SecondOf(cb, of, q, m, plan, old),
         \A s \in Slave :
           n[s].version = IF Changes(q[1], s) THEN q[1].version ELSE m[s].version
  PROVE  /\ \E h : /\ Moved(cb, of, q, cb, of, Tail(q) \o c, h)
                   /\ \A p \in Spots(cb, of, Tail(q) \o c) : h[p] # <<"mailbox", 1>>
         /\ Single(cb, of, Tail(q) \o c, old)
         /\ FreshOffers(cb, of, Tail(q) \o c, plan)
         /\ FreshChanges(Tail(q) \o c, n, plan)
<1> DEFINE t == Tail(q)
           q1 == t \o c
<1>0. t \in Seq(Call) /\ q1 \in Seq(Call)
  <2>1. t \in Seq(Call)
    BY TailOf
  <2> HIDE DEF t
  <2> QED BY <2>1
<1>1. PICK h : /\ Moved(cb, of, q, cb, of, q1, h)
               /\ \A p \in Spots(cb, of, q1) : h[p] # <<"mailbox", 1>>
  BY HandleMoves
<1>2. FreshOffers(cb, of, t, plan) /\ FreshChanges(t, n, plan)
  <2> DEFINE none == <<>>
  <2>1. none \in Seq(Call) /\ \A k \in 1..Len(none) : ~IsAnswer(none[k])
    OBVIOUS
  <2>2. t \o none = t
    BY <1>0
  <2> HIDE DEF none
  <2>3. \E g : Moved(cb, of, q, cb, of, Tail(q) \o none, g)
    BY <2>1, HandleMoves
  <2>4. PICK g : Moved(cb, of, q, cb, of, t, g)
    BY <2>2, <2>3
  <2>5. \A p \in Spots(cb, of, t) : At(cb, of, t, p) \in Offer
    <3> HIDE DEF t
    <3> QED BY <1>0, SpotType
  <2>6. ComeFrom(cb, of, q, cb, of, Tail(q))
    BY <2>4, <2>5 DEF Moved, ComeFrom
  <2>7. FreshOffers(cb, of, q, plan) /\ FreshChanges(q, m, plan)
    BY DEF SecondOf
  <2> QED BY <2>6, <2>7, HandleKeepsFresh
<1> HIDE DEF t
<1>3. FreshOffers(cb, of, q1, plan) /\ FreshChanges(q1, n, plan)
  <2>1. \A k \in 1..Len(c) : \A s \in Slave : ~Changes(c[k], s)
    OBVIOUS
  <2>2. ComeFrom(cb, of, t, cb, of, q1)
    <3> DEFINE keep == [i \in 1..Len(of) |-> i]
    <3>1. Parts(of, of, c, keep, keep)
      BY DEF Parts
    <3> HIDE DEF keep
    <3>2. PICK g : Moved(cb, of, t, cb, of, q1, g)
      BY <1>0, <3>1, DispatchMoves
    <3> HIDE DEF q1
    <3>3. \A p \in Spots(cb, of, q1) : At(cb, of, q1, p) \in Offer
      BY <1>0, SpotType
    <3> QED BY <3>2, <3>3 DEF Moved, ComeFrom
  <2> QED BY <1>0, <1>2, <2>1, <2>2, AppendKeepsFresh
<1> HIDE DEF q1
<1>4. Single(cb, of, q1, old)
  BY <1>1, MovedKeeps DEF SecondOf
<1> QED BY <1>1, <1>3, <1>4 DEF q1, t

\* Handling a call that leaves maintenance alone.
LEMMA PlainHandledSecond ==
  ASSUME NEW cb \in Seq(Offer), NEW of \in Seq(Offer), NEW q \in Seq(Call), q # <<>>,
         NEW c \in Seq(Call),
         \A k \in 1..Len(c) : ~IsAnswer(c[k]) /\ \A s \in Slave : ~Changes(c[k], s),
         NEW m \in [Slave -> Maintenance \cup {None}], NEW plan \in Plans, NEW old,
         SecondOf(cb, of, q, m, plan, old), \A s \in Slave : ~Changes(q[1], s)
  PROVE  SecondOf(cb, of, Tail(q) \o c, m, plan, old)
<1> DEFINE q1 == Tail(q) \o c
<1>1. /\ \E h : Moved(cb, of, q, cb, of, q1, h)
      /\ Single(cb, of, q1, old) /\ FreshOffers(cb, of, q1, plan) /\ FreshChanges(q1, m, plan)
  BY HandledSecond
<1>2. PICK h : Moved(cb, of, q, cb, of, q1, h)
  BY <1>1
<1>3. q1 \in Seq(Call)
  <2>1. Tail(q) \in Seq(Call)
    BY TailOf
  <2> QED BY <2>1
<1> HIDE DEF q1
<1>4. Known(cb, of, q, m, old)
  BY DEF SecondOf
<1>5. Known(cb, of, q1, m, old)
  BY <1>2, <1>3, <1>4, MovedStaysKnown
<1> QED BY <1>1, <1>5 DEF SecondOf, q1

\* Inverse offers are sent to frameworks that have none outstanding.
LEMMA SentSecond ==
  ASSUME NEW cb \in Seq(Offer), NEW of \in Seq(Offer), NEW q \in Seq(Call),
         NEW m, NEW n, NEW plan \in Plans, NEW old, NEW order \in Seq(Offer),
         SecondOf(cb, of, q, m, plan, old),
         \A i, j \in 1..Len(order) : order[i] = order[j] => i = j,
         \A i \in 1..Len(order) :
           LET o == order[i] IN /\ o.version = m[o.slave].version
                                /\ o.framework \notin m[o.slave].offersOutstanding
                                /\ o.framework \in n[o.slave].offersOutstanding,
         \A s \in Slave : n[s].version = m[s].version,
         \A s \in Slave, f \in Framework :
           f \in m[s].offersOutstanding /\ m[s].version # 0 => f \in n[s].offersOutstanding
  PROVE  SecondOf(cb \o order, of, q, n, plan, old)
<1> DEFINE cb1 == cb \o order
           New(p, i) == p = <<"callbacks", Len(cb) + i>> /\ At(cb1, of, q, p) = order[i]
           Old(p) == p \in Spots(cb, of, q) /\ At(cb1, of, q, p) = At(cb, of, q, p)
<1>1. \A p \in Spots(cb1, of, q) : Old(p) \/ \E i \in 1..Len(order) : New(p, i)
  BY RunSpots
<1>2. cb1 \in Seq(Offer)
  OBVIOUS
<1> HIDE DEF cb1
<1>3. /\ Single(cb, of, q, old) /\ Known(cb, of, q, m, old)
      /\ FreshOffers(cb, of, q, plan) /\ FreshChanges(q, m, plan)
  BY DEF SecondOf
<1>4. ASSUME NEW p \in Spots(cb1, of, q), NEW i \in 1..Len(order), New(p, i),
             NEW r \in Spots(cb1, of, q), Old(r), At(cb1, of, q, p) = At(cb1, of, q, r)
      PROVE  LateIn(old, At(cb1, of, q, p))
  BY <1>3, <1>4 DEF Known
<1>5. Single(cb1, of, q, old)
  <2> SUFFICES ASSUME NEW p \in Spots(cb1, of, q), NEW r \in Spots(cb1, of, q),
                      At(cb1, of, q, p) = At(cb1, of, q, r)
               PROVE  p = r \/ LateIn(old, At(cb1, of, q, p))
    BY DEF Single
  <2>1. CASE Old(p) /\ Old(r)
    BY <1>3, <2>1 DEF Single
  <2>2. CASE Old(p) /\ \E i \in 1..Len(order) : New(r, i)
    <3>1. PICK i \in 1..Len(order) : New(r, i)
      BY <2>2
    <3>2. Old(p)
      BY <2>2
    <3> HIDE DEF Old, New
    <3>3. LateIn(old, At(cb1, of, q, r))
      BY <1>4, <3>1, <3>2
    <3> QED BY <3>3
  <2>3. CASE Old(r) /\ \E i \in 1..Len(order) : New(p, i)
    <3>1. PICK i \in 1..Len(order) : New(p, i)
      BY <2>3
    <3>2. Old(r)
      BY <2>3
    <3> HIDE DEF Old, New
    <3> QED BY <1>4, <3>1, <3>2
  <2>4. CASE (\E i \in 1..Len(order) : New(p, i)) /\ (\E i \in 1..Len(order) : New(r, i))
    BY <2>4
  <2> HIDE DEF Old, New
  <2> QED BY <1>1, <2>1, <2>2, <2>3, <2>4
<1>6. Known(cb1, of, q, n, old)
  <2> SUFFICES ASSUME NEW p \in Spots(cb1, of, q), NEW o, o = At(cb1, of, q, p),
                      o.version = n[o.slave].version
               PROVE  o.framework \in n[o.slave].offersOutstanding \/ LateIn(old, o)
    BY DEF Known
  <2>1. o \in Offer
    BY <1>2, SpotType
  <2>2. o.slave \in Slave /\ o.framework \in Framework /\ o.version # 0
    BY <2>1 DEF Offer
  <2>3. CASE Old(p)
    BY <1>3, <2>2, <2>3 DEF Known
  <2>4. CASE \E i \in 1..Len(order) : New(p, i)
    BY <2>4
  <2> QED BY <1>1, <2>3, <2>4
<1>7. FreshOffers(cb1, of, q, plan)
  <2> SUFFICES ASSUME NEW p \in Spots(cb1, of, q), NEW o, o = At(cb1, of, q, p)
               PROVE  /\ o.version <= plan[o.slave].version
                      /\ \A j \in 1..Len(q) : Changes(q[j], o.slave) /\ q[j].version # 0 =>
                           o.version < q[j].version
    BY DEF FreshOffers
  <2>1. o \in Offer
    BY <1>2, SpotType
  <2>2. o.slave \in Slave
    BY <2>1 DEF Offer
  <2>3. CASE Old(p)
    BY <1>3, <2>3 DEF FreshOffers
  <2>4. CASE \E i \in 1..Len(order) : New(p, i)
    <3>1. o.version = m[o.slave].version
      BY <2>4
    <3> QED BY <1>3, <2>2, <3>1 DEF FreshChanges
  <2> QED BY <1>1, <2>3, <2>4
<1>8. FreshChanges(q, n, plan)
  BY <1>3 DEF FreshChanges
<1> QED BY <1>5, <1>6, <1>7, <1>8 DEF SecondOf, cb1

\* Steps that append a call of no answer, or change nothing of inverse offers.
LEMMA TimersSecond ==
  ASSUME IInv, Second,
         \/ \E s \in Slave : MasterUpdatesSlave(s)
         \/ \E id \in FilterId : TimerFires(id)
         \/ LoopFires
         \/ \E f \in Framework, s \in Slave : HoldersChange(f, s)
         \/ UNCHANGED vars
  PROVE  Second'
<1>0. mailbox \in Seq(Call) /\ offers \in Seq(Offer) /\ callbacks \in Seq(Offer)
  BY DEF IInv, Types
<1>1. ASSUME NEW d \in Call, ~IsAnswer(d), \A s \in Slave : ~Changes(d, s),
             mailbox' = Append(mailbox, d),
             UNCHANGED <<callbacks, offers, maintenance, schedule, late>>
      PROVE  Second'
  <2> DEFINE c == <<d>>
  <2>1. c \in Seq(Call) /\ \A k \in 1..Len(c) : c[k] = d
    OBVIOUS
  <2>2. mailbox' = mailbox \o c
    BY <1>0, <1>1
  <2> HIDE DEF c
  <2>3. \A k \in 1..Len(c) : ~IsAnswer(c[k]) /\ \A s \in Slave : ~Changes(c[k], s)
    BY <1>1, <2>1
  <2>4. SecondOf(callbacks, offers, mailbox \o c, maintenance, schedule, late)
    BY <1>0, <2>1, <2>3, PlainAppendKeepsSecond DEF Second
  <2> QED BY <1>1, <2>2, <2>4 DEF Second
<1>2. CASE \E id \in FilterId : TimerFires(id)
  <2>1. PICK id \in FilterId : TimerFires(id)
    BY <1>2
  <2> DEFINE d == [call |-> "expire", id |-> id]
  <2>2. d \in Call /\ ~IsAnswer(d) /\ \A s \in Slave : ~Changes(d, s)
    BY DEF Call, IsAnswer, Changes
  <2>3. mailbox' = Append(mailbox, d) /\ UNCHANGED <<callbacks, maintenance, masterVars>>
    BY <2>1 DEF TimerFires
  <2> HIDE DEF d
  <2> QED BY <1>1, <2>2, <2>3 DEF masterVars
<1>3. CASE LoopFires
  <2> DEFINE d == [call |-> "allocate"]
  <2>1. d \in Call /\ ~IsAnswer(d) /\ \A s \in Slave : ~Changes(d, s)
    BY DEF Call, IsAnswer, Changes
  <2>2. mailbox' = Append(mailbox, d) /\ UNCHANGED <<callbacks, maintenance, masterVars>>
    BY <1>3 DEF LoopFires
  <2> HIDE DEF d
  <2> QED BY <1>1, <2>1, <2>2 DEF masterVars
<1>4. CASE \/ \E f \in Framework, s \in Slave : HoldersChange(f, s)
           \/ UNCHANGED vars
  <2>1. UNCHANGED <<mailbox, callbacks, offers, maintenance, schedule, late>>
    BY <1>4 DEF HoldersChange, masterVars, vars
  <2> QED BY <2>1 DEF Second
<1>5. CASE \E s \in Slave : MasterUpdatesSlave(s)
  <2>1. PICK s \in Slave : MasterUpdatesSlave(s)
    BY <1>5
  <2> DEFINE d == [call |-> "updateSlave", slave |-> s]
  <2>2. d \in Call /\ ~IsAnswer(d) /\ \A t \in Slave : ~Changes(d, t)
    BY DEF Call, IsAnswer, Changes
  <2>3. mailbox' = mailbox \o <<d>> /\ UNCHANGED <<callbacks, maintenance, masterVars>>
    BY <2>1 DEF MasterUpdatesSlave, Dispatch
  <2> HIDE DEF d
  <2>4. mailbox' = Append(mailbox, d)
    BY <1>0, <2>2, <2>3
  <2> QED BY <1>1, <2>2, <2>3, <2>4 DEF masterVars
<1> QED BY <1>2, <1>3, <1>4, <1>5

\* Handlers that leave maintenance alone.
LEMMA PlainHandlersSecond ==
  ASSUME IInv, Second,
         \/ ActivateFramework \/ DeactivateFramework \/ ReviveOffers \/ UpdateFramework
         \/ UpdateSlave \/ Expire \/ PeriodicAllocate
  PROVE  Second'
<1>0. /\ mailbox \in Seq(Call) /\ offers \in Seq(Offer) /\ callbacks \in Seq(Offer)
      /\ maintenance \in [Slave -> Maintenance \cup {None}] /\ schedule \in Plans
  BY DEF IInv, Types
<1>1. /\ mailbox # <<>> /\ Head(mailbox).call # "updateUnavailability"
      /\ \E D \in {Slave, {Head(mailbox).slave}} : Allocate(D) \/ NoAllocate
      /\ UNCHANGED <<callbacks, maintenance, masterVars>>
  BY DEF ActivateFramework, DeactivateFramework, ReviveOffers, UpdateFramework, UpdateSlave,
         Expire, PeriodicAllocate, NextIs
<1>2. PICK c \in Seq(Call) :
        /\ mailbox' = Tail(mailbox) \o c
        /\ \A k \in 1..Len(c) : ~IsAnswer(c[k]) /\ \A s \in Slave : ~Changes(c[k], s)
  <2>1. PICK D \in {Slave, {Head(mailbox).slave}} : Allocate(D) \/ NoAllocate
    BY <1>1
  <2> QED BY <1>0, <1>1, <2>1, Handled
<1>3. \A s \in Slave : ~Changes(mailbox[1], s)
  <2>1. Head(mailbox) = mailbox[1]
    BY <1>0, <1>1, TailOf
  <2> QED BY <1>1, <2>1 DEF Changes
<1>4. SecondOf(callbacks, offers, Tail(mailbox) \o c, maintenance, schedule, late)
  <2>1. mailbox # <<>>
    BY <1>1
  <2> QED BY <1>0, <1>2, <1>3, <2>1, PlainHandledSecond DEF Second
<1> QED BY <1>1, <1>2, <1>4 DEF Second, masterVars

\* No inverse offer is for the new schedule.
LEMMA UpdateUnavailabilitySecond ==
  ASSUME IInv, Second, UpdateUnavailability
  PROVE  Second'
<1> DEFINE d == Head(mailbox)
           e == IF d.version = 0 THEN None
                ELSE [version |-> d.version, offersOutstanding |-> {}, statuses |-> << >>]
           n == maintenance'
<1>0. /\ mailbox \in Seq(Call) /\ offers \in Seq(Offer) /\ callbacks \in Seq(Offer)
      /\ maintenance \in [Slave -> Maintenance \cup {None}] /\ schedule \in Plans
  BY DEF IInv, Types
<1>1. /\ mailbox # <<>> /\ d.call = "updateUnavailability"
      /\ n = [maintenance EXCEPT ![d.slave] = e]
      /\ Allocate({d.slave})
      /\ UNCHANGED <<callbacks, masterVars>>
  BY DEF UpdateUnavailability, NextIs
<1>2. mailbox[1] = d /\ 1 \in 1..Len(mailbox) /\ d \in Call
  BY <1>0, <1>1, TailOf
<1> HIDE DEF d
<1>3. e.version = d.version /\ d.slave \in Slave
  BY <1>1, <1>2 DEF None, Call
<1> HIDE DEF e
<1>4. \A s \in Slave : n[s] = IF s = d.slave THEN e ELSE maintenance[s]
  BY <1>0, <1>1
<1> HIDE DEF n
<1>5. \A s \in Slave : n[s].version =
        IF Changes(mailbox[1], s) THEN mailbox[1].version ELSE maintenance[s].version
  BY <1>1, <1>2, <1>3, <1>4 DEF Changes
<1>6. PICK c \in Seq(Call) :
        /\ mailbox' = Tail(mailbox) \o c
        /\ \A k \in 1..Len(c) : ~IsAnswer(c[k]) /\ \A s \in Slave : ~Changes(c[k], s)
  BY <1>0, <1>1, Handled
<1> DEFINE q1 == Tail(mailbox) \o c
<1>7. SecondOf(callbacks, offers, mailbox, maintenance, schedule, late) /\ mailbox # <<>>
  BY <1>1 DEF Second
<1>8. /\ \E h : /\ Moved(callbacks, offers, mailbox, callbacks, offers, q1, h)
                /\ \A p \in Spots(callbacks, offers, q1) : h[p] # <<"mailbox", 1>>
      /\ Single(callbacks, offers, q1, late)
      /\ FreshOffers(callbacks, offers, q1, schedule)
      /\ FreshChanges(q1, n, schedule)
  BY <1>0, <1>5, <1>6, <1>7, HandledSecond
<1>9. q1 \in Seq(Call)
  <2>1. Tail(mailbox) \in Seq(Call)
    BY <1>0, <1>1, TailOf
  <2> QED BY <2>1
<1>10. mailbox' = q1
  BY <1>6
<1> HIDE DEF q1
<1>11. Known(callbacks, offers, q1, n, late)
  <2> SUFFICES ASSUME NEW p \in Spots(callbacks, offers, q1),
                      NEW o, o = At(callbacks, offers, q1, p),
                      o.version = n[o.slave].version
               PROVE  o.framework \in n[o.slave].offersOutstanding \/ LateIn(late, o)
    BY DEF Known
  <2>1. o \in Offer
    BY <1>0, <1>9, SpotType
  <2>2. o.slave \in Slave /\ o.version \in Nat /\ o.version # 0
    BY <2>1 DEF Offer
  <2>3. PICK r \in Spots(callbacks, offers, mailbox) : At(callbacks, offers, mailbox, r) = o
    BY <1>8 DEF Moved
  <2>4. CASE o.slave = d.slave
    <3>1. Changes(mailbox[1], o.slave) /\ mailbox[1].version = o.version
      BY <1>1, <1>2, <1>3, <1>4, <2>2, <2>4 DEF Changes
    <3>2. o.version < mailbox[1].version
      BY <1>2, <1>7, <2>2, <2>3, <3>1 DEF SecondOf, FreshOffers
    <3> QED BY <2>2, <3>1, <3>2
  <2>5. CASE o.slave # d.slave
    <3>1. n[o.slave] = maintenance[o.slave]
      BY <1>4, <2>2, <2>5
    <3> QED BY <1>7, <2>3, <3>1 DEF SecondOf, Known
  <2> QED BY <2>4, <2>5
<1> QED BY <1>1, <1>8, <1>10, <1>11 DEF Second, SecondOf, masterVars, n

\* The inverse offer that was answered was the only one for the schedule.
LEMMA UpdateInverseOfferSecond ==
  ASSUME IInv, Second, UpdateInverseOffer
  PROVE  Second'
<1> DEFINE d == Head(mailbox)
           a == d.offer
           n == maintenance'
<1>0. /\ mailbox \in Seq(Call) /\ offers \in Seq(Offer) /\ callbacks \in Seq(Offer)
      /\ maintenance \in [Slave -> Maintenance \cup {None}] /\ schedule \in Plans
  BY DEF IInv, Types
<1>1. /\ NextIs("updateInverseOffer") /\ mailbox # <<>> /\ d.call = "updateInverseOffer"
      /\ NoAllocate /\ UNCHANGED <<callbacks, masterVars>>
  BY DEF UpdateInverseOffer, NextIs
<1>2. /\ mailbox[1] = d /\ a \in Offer /\ 1 \in 1..Len(mailbox)
      /\ a.version = maintenance[a.slave].version \/ a \in late
  BY <1>0, <1>1, AnswerFindsSchedule, TailOf
<1>3. PICK e \in Maintenance :
        /\ n = [maintenance EXCEPT ![a.slave] = e]
        /\ e.version = maintenance[a.slave].version
        /\ maintenance[a.slave].offersOutstanding \ {a.framework} \subseteq e.offersOutstanding
  BY AnswerRecorded
<1> HIDE DEF d, n
<1>4. a.slave \in Slave /\ a.framework \in Framework
  BY <1>2 DEF Offer
<1>5. \A s \in Slave : n[s] = IF s = a.slave THEN e ELSE maintenance[s]
  BY <1>0, <1>3, <1>4
<1>6. \A s \in Slave : ~Changes(mailbox[1], s) /\ n[s].version = maintenance[s].version
  BY <1>1, <1>2, <1>3, <1>5 DEF Changes
<1>7. PICK c \in Seq(Call) :
        /\ mailbox' = Tail(mailbox) \o c
        /\ \A k \in 1..Len(c) : ~IsAnswer(c[k]) /\ \A s \in Slave : ~Changes(c[k], s)
  BY <1>0, <1>1, Handled
<1> DEFINE q1 == Tail(mailbox) \o c
<1>8. SecondOf(callbacks, offers, mailbox, maintenance, schedule, late) /\ mailbox # <<>>
  BY <1>1 DEF Second
<1>9. \A s \in Slave : n[s].version =
        IF Changes(mailbox[1], s) THEN mailbox[1].version ELSE maintenance[s].version
  BY <1>6
<1>10. /\ \E h : /\ Moved(callbacks, offers, mailbox, callbacks, offers, q1, h)
                 /\ \A p \in Spots(callbacks, offers, q1) : h[p] # <<"mailbox", 1>>
       /\ Single(callbacks, offers, q1, late)
       /\ FreshOffers(callbacks, offers, q1, schedule)
       /\ FreshChanges(q1, n, schedule)
  BY <1>0, <1>7, <1>8, <1>9, HandledSecond
<1>11. q1 \in Seq(Call)
  <2>1. Tail(mailbox) \in Seq(Call)
    BY <1>0, <1>1, TailOf
  <2> QED BY <2>1
<1>12. mailbox' = q1
  BY <1>7
<1> HIDE DEF q1
<1>13. Known(callbacks, offers, q1, n, late)
  <2> SUFFICES ASSUME NEW p \in Spots(callbacks, offers, q1),
                      NEW o, o = At(callbacks, offers, q1, p),
                      o.version = n[o.slave].version
               PROVE  o.framework \in n[o.slave].offersOutstanding \/ LateIn(late, o)
    BY DEF Known
  <2>1. o \in Offer
    BY <1>0, <1>11, SpotType
  <2>2. o.slave \in Slave /\ o.version = maintenance[o.slave].version
    BY <1>6, <2>1 DEF Offer
  <2>3. PICK r \in Spots(callbacks, offers, mailbox) :
          At(callbacks, offers, mailbox, r) = o /\ r # <<"mailbox", 1>>
    BY <1>10 DEF Moved
  <2>4. o.framework \in maintenance[o.slave].offersOutstanding \/ LateIn(late, o)
    BY <1>8, <2>2, <2>3 DEF SecondOf, Known
  <2>5. CASE o.slave = a.slave /\ o.framework = a.framework
    <3>1. CASE a \in late
      BY <2>5, <3>1 DEF LateIn
    <3>2. CASE a.version = maintenance[a.slave].version
      <4>1. a = o
        <5>1. a.version = o.version
          BY <2>2, <2>5, <3>2
        <5> HIDE DEF a
        <5> QED BY <1>2, <2>1, <2>5, <5>1 DEF Offer
      <4>2. /\ <<"mailbox", 1>> \in Spots(callbacks, offers, mailbox)
            /\ At(callbacks, offers, mailbox, <<"mailbox", 1>>) = a
        BY <1>1, <1>2 DEF Spots, At, IsAnswer
      <4> HIDE DEF a
      <4> QED BY <1>8, <2>3, <4>1, <4>2 DEF SecondOf, Single
    <3> QED BY <1>2, <3>1, <3>2
  <2>6. CASE ~(o.slave = a.slave /\ o.framework = a.framework)
    BY <1>3, <1>5, <2>2, <2>4, <2>6
  <2> QED BY <2>5, <2>6
<1> QED BY <1>1, <1>10, <1>12, <1>13 DEF Second, SecondOf, masterVars, n

\* A run sends inverse offers only where none is outstanding.
LEMMA RunSecond ==
  ASSUME IInv, Second, Run
  PROVE  Second'
<1> DEFINE n == maintenance'
           q1 == Tail(mailbox)
<1>0. /\ mailbox \in Seq(Call) /\ offers \in Seq(Offer) /\ callbacks \in Seq(Offer)
      /\ maintenance \in [Slave -> Maintenance \cup {None}] /\ schedule \in Plans /\ Types
  BY DEF IInv, Types
<1>1. /\ mailbox # <<>> /\ Head(mailbox).call = "_allocate" /\ mailbox' = q1
      /\ UNCHANGED masterVars
  BY DEF Run, NextIs
<1>2. \A s \in Slave : ~Changes(mailbox[1], s)
  <2>1. Head(mailbox) = mailbox[1]
    BY <1>0, <1>1, TailOf
  <2> QED BY <1>1, <2>1 DEF Changes
<1>3. q1 \in Seq(Call)
  BY <1>0, <1>1, TailOf
<1>4. SecondOf(callbacks, offers, q1, maintenance, schedule, late)
  <2> DEFINE none == <<>>
  <2>1. none \in Seq(Call) /\ \A k \in 1..Len(none) : ~IsAnswer(none[k]) /\ \A s \in Slave : ~Changes(none[k], s)
    OBVIOUS
  <2>2. q1 \o none = q1
    BY <1>3
  <2> HIDE DEF none
  <2>3. mailbox # <<>> /\ SecondOf(callbacks, offers, mailbox, maintenance, schedule, late)
    BY <1>1 DEF Second
  <2>4. SecondOf(callbacks, offers, Tail(mailbox) \o none, maintenance, schedule, late)
    BY <1>0, <1>2, <2>1, <2>3, PlainHandledSecond
  <2> QED BY <2>2, <2>4
<1> HIDE DEF q1
<1>5. PICK order \in Seq(Offer) :
        /\ callbacks' = callbacks \o order
        /\ \A i, j \in 1..Len(order) : order[i] = order[j] => i = j
        /\ \A i \in 1..Len(order) :
             LET o == order[i]
             IN  /\ maintenance[o.slave] # None
                 /\ o.version = maintenance[o.slave].version
                 /\ o.framework \notin maintenance[o.slave].offersOutstanding
                 /\ o.framework \in n[o.slave].offersOutstanding
  BY <1>0, RunSends
<1>6. \A s \in Slave :
        /\ n[s].version = maintenance[s].version
        /\ maintenance[s] # None =>
             maintenance[s].offersOutstanding \subseteq n[s].offersOutstanding
  BY <1>0, RunSends
<1> HIDE DEF n
<1>7. /\ \A s \in Slave : n[s].version = maintenance[s].version
      /\ \A s \in Slave, f \in Framework :
           f \in maintenance[s].offersOutstanding /\ maintenance[s].version # 0
             => f \in n[s].offersOutstanding
      /\ \A i \in 1..Len(order) :
           LET o == order[i] IN /\ o.version = maintenance[o.slave].version
                                /\ o.framework \notin maintenance[o.slave].offersOutstanding
                                /\ o.framework \in n[o.slave].offersOutstanding
  <2>1. \A s \in Slave : maintenance[s].version # 0 => maintenance[s] # None
    BY DEF None
  <2> QED BY <1>5, <1>6, <2>1
<1>8. SecondOf(callbacks \o order, offers, q1, n, schedule, late)
  <2>1. \A i, j \in 1..Len(order) : order[i] = order[j] => i = j
    BY <1>5
  <2> QED BY <1>0, <1>3, <1>4, <1>7, <2>1, SentSecond
<1> QED BY <1>1, <1>5, <1>8 DEF Second, masterVars, n

\* Nothing is anywhere at first.
LEMMA InitSecond ==
  ASSUME Init
  PROVE  Second
<1>1. Len(callbacks) = 0 /\ Len(offers) = 0 /\ Len(mailbox) = 0
  BY DEF Init
<1>2. Spots(callbacks, offers, mailbox) = {}
  <2>1. \A i : i \notin 1..0
    OBVIOUS
  <2> QED BY <1>1, <2>1 DEF Spots
<1>3. FreshChanges(mailbox, maintenance, schedule)
  BY <1>1 DEF FreshChanges, Init, None
<1> QED BY <1>2, <1>3 DEF Second, SecondOf, Single, Known, FreshOffers

\* Every step keeps inverse offers single.
LEMMA NextKeepsSecond ==
  ASSUME IInv, IInv', Second, [Next]_vars
  PROVE  Second'
<1>0. Types' /\ schedule' \in Plans
  BY DEF IInv, Types
<1>1. CASE \E s \in Slave : MasterSchedules(s)
  BY <1>0, <1>1, MasterSchedulesSecond
<1>2. CASE \E f \in Framework : MasterFramework(f)
  BY <1>2, MasterFrameworkSecond
<1>3. CASE MasterReceives
  BY <1>0, <1>3, MasterReceivesSecond
<1>4. CASE MasterAnswers
  BY <1>0, <1>4, MasterAnswersSecond
<1>5. CASE \/ \E s \in Slave : MasterUpdatesSlave(s)
           \/ \E id \in FilterId : TimerFires(id)
           \/ LoopFires
           \/ \E f \in Framework, s \in Slave : HoldersChange(f, s)
           \/ UNCHANGED vars
  BY <1>5, TimersSecond
<1>6. CASE Handle
  BY <1>6, UpdateUnavailabilitySecond, UpdateInverseOfferSecond, PlainHandlersSecond, RunSecond
     DEF Handle
<1> QED BY <1>1, <1>2, <1>3, <1>4, <1>5, <1>6 DEF Next

\* Any two of a set of the inverse offers for one unavailability are the same.
LEMMA SingleMeansOne ==
  ASSUME Types, Second
  PROVE  OneInverseOffer
<1>0. /\ mailbox \in Seq(Call) /\ offers \in Seq(Offer) /\ callbacks \in Seq(Offer)
      /\ Single(callbacks, offers, mailbox, late)
  BY DEF Types, Second, SecondOf
<1>1. /\ Places = Spots(callbacks, offers, mailbox)
      /\ \A p \in Places : OfferAt(p) = At(callbacks, offers, mailbox, p)
  <2>1. /\ DOMAIN callbacks = 1..Len(callbacks) /\ DOMAIN offers = 1..Len(offers)
        /\ DOMAIN mailbox = 1..Len(mailbox)
    BY <1>0
  <2>2. Places = Spots(callbacks, offers, mailbox)
    BY <2>1 DEF Places, Spots, IsAnswer
  <2>3. \A p \in Places : p[1] = "callbacks" \/ p[1] = "offers" \/ p[1] = "mailbox"
    BY DEF Places
  <2>4. \A p \in Places : OfferAt(p) = At(callbacks, offers, mailbox, p)
    BY <2>3 DEF OfferAt, At
  <2> QED BY <2>2, <2>4
<1>2. \A p \in Places : OfferAt(p) \in Offer
  BY <1>0, <1>1, SpotType
<1> SUFFICES ASSUME NEW f \in Framework, NEW s \in Slave, ~Late(f, s), NEW v \in 1..MaxVersion
             PROVE  Cardinality({p \in Asked(f, s) : OfferAt(p).version = v}) <= 1
  BY DEF OneInverseOffer
<1> DEFINE T == {p \in Asked(f, s) : OfferAt(p).version = v}
<1>3. ASSUME NEW p \in T, NEW r \in T
      PROVE  p = r
  <2>1. /\ p \in Places /\ OfferAt(p) \in Offer /\ OfferAt(p).framework = f
        /\ OfferAt(p).slave = s /\ OfferAt(p).version = v
        /\ r \in Places /\ OfferAt(r) \in Offer /\ OfferAt(r).framework = f
        /\ OfferAt(r).slave = s /\ OfferAt(r).version = v
    BY <1>2 DEF Asked
  <2>2. OfferAt(p) = OfferAt(r)
    BY <2>1 DEF Offer
  <2>3. ~LateIn(late, OfferAt(p))
    BY <2>1 DEF LateIn, Late
  <2> QED BY <1>0, <1>1, <2>1, <2>2, <2>3 DEF Single
<1> HIDE DEF T
<1>4. CASE T = {}
  <2>1. Cardinality(T) = 0
    BY <1>4, FS_EmptySet
  <2> QED BY <2>1 DEF T
<1>5. CASE T # {}
  <2>1. PICK p \in T : T = {p}
    BY <1>3, <1>5
  <2>2. Cardinality(T) = 1
    BY <2>1, FS_Singleton
  <2> QED BY <2>2 DEF T
<1> QED BY <1>4, <1>5

\* A framework never has, or is about to get, two inverse offers for the same
\* unavailability, and none is outstanding for good because an answer to an earlier one took
\* its place; frameworks that got an outdated one are the exception.
THEOREM OnlyOne == Spec => []OneInverseOffer
<1>1. Init => Second
  BY InitSecond
<1>2. IInv /\ IInv' /\ Second /\ [Next]_vars => Second'
  BY NextKeepsSecond
<1>3. IInv /\ Second => OneInverseOffer
  BY SingleMeansOne DEF IInv
<1> QED BY <1>1, <1>2, <1>3, Invariance, PTL DEF Spec
=============================================================================
