---------------------------- MODULE MCSingleRun ----------------------------
(* Two anchors at most, one block at each of two heights, and a world in   *)
(* which 2 nanoseconds make a second and 3 are the most that fit: a block  *)
(* time of 1 second can be compared, one of 3 overflows.                   *)
EXTENDS SingleRun

CONSTANTS r1, r2

Header(h, r, t) == [height |-> h, root |-> r, time |-> t]
MCBlocks   == {Header(1, r1, 1), Header(2, r1, 3)}
MCRoots    == {r1, r2}
MCInstants == {2, 3}

Tsa(refuted, unable) ==
  [kind |-> "rfc3161", refuted |-> refuted, unable |-> unable, proof |-> NoProof]
Ots(refuted, proof) ==
  [kind |-> "bitcoin_ots", refuted |-> refuted, unable |-> TRUE, proof |-> proof]

(* A sound, an unconfirmed and a refuted TSA anchor; a refuted Bitcoin     *)
(* anchor whose proof a block would confirm, one with nothing to look up,  *)
(* and every one that can be looked up.                                    *)
MCAnchorShapes ==
  {Tsa(FALSE, FALSE), Tsa(FALSE, TRUE), Tsa(TRUE, TRUE),
   Ots(TRUE, [height |-> 1, root |-> r1, claim |-> 2]), Ots(FALSE, NoProof)}
  \cup {Ots(FALSE, p) : p \in Proofs}

Checks(hashMatches, findings, proofsHold) ==
  [hashMatches |-> hashMatches, findings |-> findings, proofsHold |-> proofsHold]

MCReceiptShapes ==
  {Checks(TRUE, {}, TRUE), Checks(FALSE, {}, TRUE), Checks(TRUE, {"Deferred"}, TRUE),
   Checks(TRUE, {"Inability"}, TRUE), Checks(TRUE, {"Inability", "Refutation"}, TRUE),
   Checks(TRUE, {}, FALSE), Checks(FALSE, {"Refutation", "Inability"}, FALSE)}
=============================================================================
