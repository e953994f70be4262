----------------------------- MODULE MCBatchRun -----------------------------
(* One height with one existing block, and one receipt of each             *)
(* kind that meets the batch differently.                                  *)
EXTENDS BatchRun

CONSTANTS r1, r2

MCBlocks   == {[height |-> 1, root |-> r1, time |-> 1]}
MCRoots    == {r1, r2}

Tsa(refuted, unable) ==
  [kind |-> "rfc3161", refuted |-> refuted, unable |-> unable, proof |-> NoProof]
Ots(root) ==
  [kind |-> "bitcoin_ots", refuted |-> FALSE, unable |-> TRUE,
   proof |-> [height |-> 1, root |-> root, claim |-> 2]]

Sound == [hashMatches |-> TRUE, findings |-> {}, proofsHold |-> TRUE]

Shape(checks, facts, genesis, size) ==
  [checks |-> checks, facts |-> facts, genesis |-> genesis, size |-> size]

MCItemShapes ==
  {Shape(Sound, <<Tsa(FALSE, FALSE)>>, 2, 2),
   Shape(Sound, <<Tsa(FALSE, FALSE), Ots(r1)>>, 2, 1),
   Shape(Sound, <<Tsa(TRUE, FALSE), Tsa(FALSE, FALSE)>>, 1, 1),
   Shape(Sound, <<Ots(r2)>>, 1, 2),
   Shape(Sound, << >>, NoSuperTree, 0),
   Shape([Sound EXCEPT !.hashMatches = FALSE], <<Ots(r1)>>, 2, 1),
   Shape([Sound EXCEPT !.proofsHold = FALSE], <<Tsa(FALSE, FALSE)>>, 2, 1),
   Shape([Sound EXCEPT !.findings = {"Inability"}], <<Tsa(FALSE, FALSE)>>, NoSuperTree, 0)}
=============================================================================
