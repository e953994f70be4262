--------------------------- MODULE MCBlockLookup ---------------------------
(* BlockLookup with the three configured endpoints (two two-step, one      *)
(* single-step) and a small world of blocks: two that compete for height   *)
(* 1, and one at height 2.                                                 *)
EXTENDS LookupService

CONSTANTS blockstream, mempool, blockchain, h1, h2, h3, r1, r2

Block(h, n, r, t) == [hash |-> h, height |-> n, root |-> r, time |-> t]

MCTwoStep    == {blockstream, mempool}
MCSingleStep == {blockchain}
MCHashes     == {h1, h2, h3}
MCRoots      == {r1, r2}
MCBlocks     == {Block(h1, 1, r1, 2), Block(h2, 1, r2, 2), Block(h3, 2, r2, 2)}
=============================================================================
