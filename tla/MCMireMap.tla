----------------------------- MODULE MCMireMap -----------------------------
EXTENDS MireMap
CONSTANTS m1, m2, k1, k2, k3, v1, v2

MCTexts == {k1, k2, k3, v1, v2}
\* v2 needs a larger block than the other texts.
MCSize  == [t \in MCTexts |-> IF t = v2 THEN 2 ELSE 1]
\* k1 and k2 have one hash; k3 parts from them with the second bucket.
MCHash  == [k \in Keys |-> IF k = k3 THEN 1 ELSE 0]

MCMaxEntries == (m1 :> 3) @@ (m2 :> 2)
CollidingKeys == Permutations({k1, k2})
=============================================================================
