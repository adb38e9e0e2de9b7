------------------------------ MODULE MCMemory ------------------------------
(***************************************************************************)
(* A small memory: a trusted record of one tenant, a doubtful one and one  *)
(* of another tenant.                                                      *)
(***************************************************************************)
EXTENDS Memory, TLC

Trusted  == [tenant |-> "a", content |-> "x", tier |-> "short",
             confidence |-> 10, trust |-> 10, ttl |-> NoTtl]
Doubted  == [Trusted EXCEPT !.confidence = 2, !.ttl = 1]
Foreign  == [Trusted EXCEPT !.tenant = "b"]

MCTemplates == {Trusted, Doubted, Foreign}
MCTenants  == {"a", "b"}
MCContents == {"x", "y"}
MCQueries  == {"q"}
MCMatches  == [t \in MCContents |-> MCQueries]
MCWeight   == [t \in Tiers |-> IF t = "short" THEN 11 ELSE IF t = "archive" THEN 9 ELSE 10]

Symmetry == Permutations(Ids) \cup Permutations(Callers)
=============================================================================
