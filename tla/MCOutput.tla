------------------------------ MODULE MCOutput ------------------------------
(* One block, and proofs that it confirms, that it contradicts in root or  *)
(* in time, and whose time is unreadable.                                  *)
EXTENDS Output

CONSTANTS r1, r2

Header(h, r, t) == [height |-> h, root |-> r, time |-> t]
MCBlocks   == {Header(1, r1, 1)}
MCRoots    == {r1, r2}
MCInstants == {2, 3}

Tsa(findings, stated) ==
  [kind |-> "rfc3161", findings |-> findings, stated |-> stated, says |-> {}, attests |-> {},
   proof |-> NoProof, lookup |-> NotLookedUp]
Ots(findings, height, time, attests, proof, lookup) ==
  [kind |-> "bitcoin_ots", findings |-> findings, stated |-> NoTime,
   says |-> {[height |-> height, time |-> time]}, attests |-> attests,
   proof |-> proof, lookup |-> lookup]

Commits(root, claim) == [height |-> 1, root |-> root, claim |-> claim]
Pending(root, claim, lookup) ==
  Ots(<<"BitcoinBlockNotChecked">>, 1, claim, {1, 2}, Commits(root, claim), lookup)

Tokens ==
  {Tsa(<<>>, 3), Tsa(<<"TsaRootNotTrusted">>, 3), Tsa(<<"TsaChainIncomplete">>, 2),
   Tsa(<<"TsaChainIndeterminate", "TsaImprintMismatch">>, 2),
   Tsa(<<"CmsSignatureIndeterminate">>, 2), Tsa(<<"TsaTokenUnparsable">>, 2),
   Tsa(<<"TsaImprintIndeterminate">>, 2), Tsa(<<"TsaTimestampingEkuNotChecked">>, 2),
   Tsa(<<"AnchorTargetInvalid">>, NoTime)}

(* Its proof attests to another block than the receipt states.             *)
Contradicted ==
  Ots(<<"BitcoinClaimedHeightContradictsProof", "BitcoinBlockNotChecked">>,
      1, 2, {2}, NoProof, NotLookedUp)

Undecodable == Ots(<<"BitcoinOtsProofInvalid">>, 1, Unreadable, {}, NoProof, NotLookedUp)

MCAnchors ==
  Tokens \cup {Contradicted, Undecodable} \cup
  {Pending(p.root, p.claim, l) : p \in Proofs, l \in Lookups(1) \cup {NotLookedUp}}

Checks(hashMatches, findings, proofsHold) ==
  [hashMatches |-> hashMatches, findings |-> findings, proofsHold |-> proofsHold]

Row(entry, checks, anchors) == [entry |-> entry, checks |-> checks, anchors |-> anchors]

BatchAnchors ==
  {Tsa(<<>>, 3), Tsa(<<"TsaRootNotTrusted">>, 3), Contradicted,
   Pending(r1, 2, NotLookedUp), Pending(r1, 2, Lookup("Corroborated", Header(1, r1, 1))),
   Pending(r2, 2, Lookup("Corroborated", Header(1, r1, 1)))}

(* Those an anchor of a single file may stand beside.                      *)
Others ==
  BatchAnchors \cup
  {Tsa(<<"CmsSignatureIndeterminate">>, 2), Undecodable,
   Pending(r1, 2, Lookup("Disagreement", NoHeader)),
   Pending(r1, 2, Lookup("Uncorroborated", Header(1, r2, 1))),
   Pending(r1, Unreadable, Lookup("Corroborated", Header(1, r1, 1)))}

MCSingleItems ==
  {Row("Receipt", c, anchors) :
     c \in {Checks(TRUE, {}, TRUE), Checks(FALSE, {}, TRUE), Checks(TRUE, {"Inability"}, TRUE),
            Checks(TRUE, {"Deferred"}, FALSE)},
     anchors \in {<< >>} \cup {<<a>> : a \in MCAnchors} \cup
                 {<<a, b>> : a \in MCAnchors, b \in Others} \cup
                 {<<b, a>> : a \in MCAnchors, b \in Others}}

MCBatchRows ==
  {Row("Receipt", c, anchors) :
     c \in {Checks(TRUE, {}, TRUE), Checks(FALSE, {}, TRUE)},
     anchors \in UNION {[1..n -> BatchAnchors] : n \in 0..2}}
  \cup {Row(e, Checks(TRUE, {}, TRUE), << >>) : e \in {"Error", "NoReceipt", "NoSource"}}
=============================================================================
