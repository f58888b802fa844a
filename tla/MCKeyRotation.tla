----------------------------- MODULE MCKeyRotation -----------------------------
(* Small accounts for TLC. *)
EXTENDS KeyRotationProps, TLC

CONSTANTS o1, o2, note, wrap, body, file, s1, s2, w1, w2, c1, t1, t2, n1, n2, k0, k1, k2

MCWrapperOf == [i \in SealItems |-> CHOOSE s \in Wrappers : TRUE]
MCSidOf     == [w \in Workers |-> IF w = w1 \/ Cardinality(Sids) = 1 THEN s1 ELSE s2]
MCFirst     == [f \in Files |-> k0]

\* Nonces, the objects nothing points to at first, and the tabs of one session are alike.
Symmetry == Permutations(IVs) \cup Permutations(Objects \ {k0}) \cup Permutations(Workers)
=============================================================================
