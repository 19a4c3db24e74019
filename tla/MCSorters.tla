------------------------------- MODULE MCSorters -------------------------------
(* Sorters with a client above another, and one beside them. *)
EXTENDS Sorters

A == <<"a">>
AB == <<"a", "b">>
C == <<"c">>

MCClient == {A, AB, C}
MCWeighted == {A}
MCServed == {A, C}
MCPathOrder ==
  LET strings == <<Root, A, Virtual(A), AB, Virtual(AB), C, Virtual(C)>>
  IN  UNION {{<<strings[i], strings[j]>> : i \in 1..j-1} : j \in DOMAIN strings}
MCQuantity == {("cpus" :> 1)}
=============================================================================
