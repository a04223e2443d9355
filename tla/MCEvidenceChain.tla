--------------------------- MODULE MCEvidenceChain ---------------------------
EXTENDS EvidenceChain

AllPairsAndTriples == {{1, 2, 3}, {3, 4, 5}, {5, 6}, {7, 8}}

(* the second change of a shared file breaks what every validator asks of it *)
SecondChange ==
    {<<s, plain>> : s \in Stages, plain \in {f \in [Plain -> 0..MaxEdits] :
                                              \E p \in Shared : f[p] = 2}}
=============================================================================
