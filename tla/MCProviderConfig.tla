--------------------------- MODULE MCProviderConfig ---------------------------
(* Two configurations of one tenant, each with its own discovery_url; the   *)
(* first URL's document may change.                                         *)
EXTENDS ProviderConfig, TLC

CONSTANTS x1, x2, slug1, old, new, url1, url2, doc1, doc2, doc3

MCUrlOf == old :> url1 @@ new :> url2

MCMayAnswer ==
    {<<slug1, old>>, <<slug1, new>>, <<slug1, Failure>>,
     <<url1, doc1>>, <<url1, doc3>>, <<url2, doc2>>}

MCTtl == [k \in Key |-> 2]

Symmetry == Permutations({x1, x2})
=============================================================================
