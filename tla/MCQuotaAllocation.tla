-------------------------- MODULE MCQuotaAllocation --------------------------
(***************************************************************************)
(* Instances of QuotaAllocation for TLC.                                   *)
(***************************************************************************)
EXTENDS QuotaAllocation, TLC

CONSTANTS s1, s2, a, b, c

\* The roles of the flat tree are alike, agents of different sizes are not.
Symmetry == Permutations(Role)

OneUnit == [s \in Slave |-> 1]

TwoAndOne == [s \in Slave |-> IF s = s1 THEN 2 ELSE 1]

\* The roles side by side, and c below a.
Flat == [r \in Role |-> Root]
Nested == [r \in Role |-> IF r = c THEN a ELSE Root]

Guarantee == [guarantee |-> 1, limit |-> NoLimit]
GuaranteeAndLimit == [guarantee |-> 1, limit |-> 1]
Limit == [guarantee |-> 0, limit |-> 1]

SomeQuotas == {DefaultQuota, Guarantee, GuaranteeAndLimit, Limit}
=============================================================================
