-------------------------------- MODULE Sorter --------------------------------
(***************************************************************************)
(* What the Sorter interface (src/src/sorter/sorter.hpp) promises of every *)
(* sorter: which clients it has, which of them are in the sort, what each  *)
(* was allocated on every agent, the total pool, and that sort() returns   *)
(* the clients that are in the sort, each once, in an order that is the    *)
(* sorter's own.                                                           *)
(***************************************************************************)
EXTENDS Integers, SequencesExt

CONSTANTS Client, Slave,
          Quantity           \* amounts of resources that are allocated or added

VARIABLES
  clients,                   \* client -> is it in the sort, and SlaveID -> quantities it holds
  total,                     \* SlaveID -> quantities
  sorted                     \* what sort() returned, until the next call

vars == <<clients, total, sorted>>

Init ==
  /\ clients = << >>
  /\ total = << >>
  /\ sorted = <<>>

\* Entries with more of an agent, and with less; one that becomes empty is dropped.
More(entries, s, x) ==
  [t \in DOMAIN entries \cup {s} |->
     IF t = s /\ s \in DOMAIN entries THEN [k \in DOMAIN x |-> entries[s][k] + x[k]]
     ELSE IF t = s THEN x ELSE entries[t]]

Less(entries, s, x) ==
  IF entries[s] = x THEN Restrict(entries, DOMAIN entries \ {s})
  ELSE [entries EXCEPT ![s] = [k \in DOMAIN x |-> @[k] - x[k]]]

Has(entries, s, x) == s \in DOMAIN entries /\ \A k \in DOMAIN x : x[k] <= entries[s][k]

\* What entries may become in one call.
Changes(entries) ==
  {More(entries, s, x) : s \in Slave, x \in Quantity} \cup
  {Less(entries, y[1], y[2]) : y \in {z \in Slave \X Quantity : Has(entries, z[1], z[2])}}

\* What a call may make of the clients cs.  "This function will not activate the client."
Added(cs) ==
  {[d \in DOMAIN cs \cup {c} |-> IF d = c THEN [active |-> FALSE, held |-> << >>] ELSE cs[d]] :
     c \in Client \ DOMAIN cs}

Removed(cs) == {Restrict(cs, DOMAIN cs \ {c}) : c \in DOMAIN cs}

\* activate, deactivate.
Switched(cs) == {[cs EXCEPT ![c].active = TRUE] : c \in DOMAIN cs} \cup
                {[cs EXCEPT ![c].active = FALSE] : c \in DOMAIN cs}

\* allocated, unallocated, and update, which takes resources away or keeps the amounts.
Booked(cs) == UNION {{[cs EXCEPT ![c].held = h] : h \in Changes(cs[c].held)} : c \in DOMAIN cs}

\* A call for one client leaves the others as they are.
ChangeClient ==
  /\ clients' \in UNION {Added(clients), Removed(clients), Switched(clients), Booked(clients)}
  /\ UNCHANGED total

\* Totals come and go.  A weight, or an update that keeps the amounts, changes nothing here.
ChangeTotal ==
  /\ total' \in {total} \cup Changes(total)
  /\ UNCHANGED clients

Sort ==
  /\ sorted' \in SetToSeqs({c \in DOMAIN clients : clients[c].active})
  /\ UNCHANGED <<clients, total>>

Next ==
  \/ sorted' = <<>> /\ (ChangeTotal \/ ChangeClient)
  \/ Sort

Spec == Init /\ [][Next]_vars
=============================================================================
