------------------------------ MODULE Verdicts ------------------------------
(***************************************************************************)
(* How atl-cli judges one receipt (verify/anchor.rs, verify/online.rs,     *)
(* verify/policy.rs, verify/single.rs).  Three layers, none of which has   *)
(* state of its own:                                                       *)
(*                                                                         *)
(*   an anchor's facts, with or without a block lookup  -> its verdict     *)
(*   the verdicts of all anchors, under a quorum        -> the three axes  *)
(*   the receipt's own checks, and the axes             -> the status      *)
(*                                                                         *)
(* The facts themselves are atl-core's.  A receipt's anchors occupy the    *)
(* places of an array; here they are a function from places, and what is   *)
(* tallied over them depends on no order.                                  *)
(***************************************************************************)
EXTENDS Integers

CONSTANTS
  Heights, Roots, Seconds,  \* what a block header is made of
  Blocks,                   \* the headers of blocks that exist
  NoHeader,                 \* a lookup that reports none
  Instants,                 \* the times a receipt can state, in nanoseconds
  Unreadable,               \* a stated time that no parser of this build reads
  NanosPerSecond,
  MaxNanos,                 \* the largest count of nanoseconds, u64::MAX
  NoProof                   \* no attestation, or no root computed from it

Headers == [height : Heights, root : Roots, time : Seconds]

Claims == Instants \cup {Unreadable}

(* What an OTS proof commits to, and the block time the receipt states.    *)
Proofs == [height : Heights, root : Roots, claim : Claims]

ASSUME BlocksAssumption == Blocks \subseteq Headers /\ NoHeader \notin Headers

ASSUME ProofAssumption == NoProof \notin Proofs

ASSUME TimeAssumption ==
  /\ Seconds \subseteq Nat
  /\ NanosPerSecond \in Nat \ {0}
  /\ MaxNanos \in Nat
  /\ Instants \subseteq 0..MaxNanos
  /\ Unreadable \notin Instants

-----------------------------------------------------------------------------
(* One anchor.                                                             *)

Kinds          == {"rfc3161", "bitcoin_ots"}
AnchorVerdicts == {"Valid", "Invalid", "Untrusted"}

(* What atl-core establishes without a network: whether some finding       *)
(* refutes the anchor, whether some check could not be finished, and the   *)
(* proof.  A Bitcoin anchor always lacks its block header.                 *)
FactSets ==
  {f \in [kind : Kinds, refuted : BOOLEAN, unable : BOOLEAN,
          proof : Proofs \cup {NoProof}] :
     /\ f.kind = "rfc3161" => f.proof = NoProof
     /\ f.kind = "bitcoin_ots" /\ ~f.refuted => f.unable}

(* Any refutation outranks every inability.                                *)
VerdictFromFacts(f) ==
  IF f.refuted THEN "Invalid" ELSE IF f.unable THEN "Untrusted" ELSE "Valid"

(* A mutant of Prepared: an anchor that is refuted is looked up as well.   *)
PreparedAnyway(f) == f.kind = "bitcoin_ots" /\ f.proof # NoProof

(* The network has something left to settle for this anchor.               *)
Prepared(f) == f.kind = "bitcoin_ots" /\ ~f.refuted /\ f.proof # NoProof

(* What a block lookup answers: a header two sources agree on, the word of *)
(* one source, contradiction, or nothing.                                  *)
LookupKinds == {"Corroborated", "Uncorroborated", "Disagreement", "Unavailable"}

Lookup(kind, header) == [kind |-> kind, header |-> header]

(* The answers net/bitcoin.rs can give about height h: a corroborated      *)
(* header is the header of a block of that height (BlockLookup's           *)
(* LoneFaultNeverForges); an uncorroborated one is anything.               *)
Lookups(h) ==
  {Lookup("Corroborated", b) : b \in {c \in Blocks : c.height = h}} \cup
  {Lookup("Uncorroborated", c) : c \in {d \in Headers : d.height = h}} \cup
  {Lookup(k, NoHeader) : k \in {"Disagreement", "Unavailable"}}

(* A mutant of CheckClaimedTime: whole seconds are compared.               *)
CheckWholeSeconds(claim, seconds) ==
  IF claim = Unreadable \/ seconds * NanosPerSecond > MaxNanos THEN "Unreadable"
  ELSE IF claim \div NanosPerSecond = seconds THEN "Matches"
  ELSE "Contradicted"

(* A mutant of CheckClaimedTime: the multiplication wraps.                 *)
CheckWrapping(claim, seconds) ==
  IF claim = Unreadable THEN "Unreadable"
  ELSE IF claim = (seconds * NanosPerSecond) % (MaxNanos + 1) THEN "Matches"
  ELSE "Contradicted"

(* Instants are compared, in nanoseconds; a header time that does not fit  *)
(* is not comparable.                                                      *)
CheckClaimedTime(claim, seconds) ==
  IF claim = Unreadable \/ seconds * NanosPerSecond > MaxNanos THEN "Unreadable"
  ELSE IF claim = seconds * NanosPerSecond THEN "Matches"
  ELSE "Contradicted"

(* What a header says of a proof: a root that differs refutes it, then a   *)
(* stated time that differs; a time that cannot be compared leaves it open. *)
Compared(p, header) ==
  LET time == CheckClaimedTime(p.claim, header.time)
  IN IF p.root # header.root \/ time = "Contradicted" THEN "Invalid"
     ELSE IF time = "Unreadable" THEN "Untrusted"
     ELSE "Valid"

(* A mutant of AnchorFromLookup: one endpoint's word is enough to accuse.  *)
AccuseOnHearsay(p, lookup) ==
  IF lookup.header = NoHeader THEN "Untrusted"
  ELSE IF lookup.kind = "Corroborated" THEN Compared(p, lookup.header)
  ELSE IF Compared(p, lookup.header) = "Invalid" THEN "Invalid"
  ELSE "Untrusted"

(* Only a corroborated header is compared with anything.                   *)
AnchorFromLookup(p, lookup) ==
  IF lookup.kind = "Corroborated" THEN Compared(p, lookup.header) ELSE "Untrusted"

(* An anchor's result, and the header it was compared with, if any.        *)
Result(verdict, header) == [verdict |-> verdict, header |-> header]

Results == [verdict : AnchorVerdicts, header : Headers \cup {NoHeader}]

(* A mutant of OfflineResults: a refuted anchor is dropped from the array. *)
SurvivingResults(F) ==
  [i \in {j \in DOMAIN F : ~F[j].refuted} |-> Result(VerdictFromFacts(F[i]), NoHeader)]

(* F maps the places of a receipt's anchors to their facts.                *)
OfflineResults(F) == [i \in DOMAIN F |-> Result(VerdictFromFacts(F[i]), NoHeader)]

OnlineResult(p, lookup) ==
  Result(AnchorFromLookup(p, lookup),
         IF lookup.kind = "Corroborated" THEN lookup.header ELSE NoHeader)

VerdictsIn(results) == [i \in DOMAIN results |-> results[i].verdict]

(* The places the network can still settle: the work list of the online    *)
(* pass, and the reason to go online at all.                               *)
PreparedPlaces(F) == {i \in DOMAIN F : Prepared(F[i])}

(* What a verified anchor stands for: its own facts are complete, or a     *)
(* block that exists confirms both the root and the time it commits to.    *)
Holds(f) ==
  \/ f.kind = "rfc3161" /\ ~f.refuted /\ ~f.unable
  \/ /\ Prepared(f)
     /\ \E b \in Blocks : /\ b.height = f.proof.height
                          /\ b.root = f.proof.root
                          /\ b.time * NanosPerSecond = f.proof.claim

-----------------------------------------------------------------------------
(* The receipt.  R maps the places of the anchors it presents to their     *)
(* verdicts.                                                               *)

Policies == {"AllAnchors", "SingleAnchor"}

(* What was found about the receipt itself: whether the source file has    *)
(* the hash it states, how atl-core's receipt-level errors are classified, *)
(* and whether the inclusion and Super-Tree proofs hold.                   *)
CoreFindings == {"Refutation", "Inability", "Deferred"}

ReceiptChecks == [hashMatches : BOOLEAN, findings : SUBSET CoreFindings,
                  proofsHold : BOOLEAN]

Refutations == {"FileHashMismatch", "CoreRefutation", "ProofInvalid"}

(* The file's hash first, then what the core reports, then the proofs.     *)
ReceiptRefutation(c) ==
  IF ~c.hashMatches THEN "FileHashMismatch"
  ELSE IF "Refutation" \in c.findings THEN "CoreRefutation"
  ELSE IF ~c.proofsHold THEN "ProofInvalid"
  ELSE "None"

ReceiptRefuted(c) == ReceiptRefutation(c) \in Refutations

ReceiptInability(c) == "Inability" \in c.findings

Verified(R) == {i \in DOMAIN R : R[i] = "Valid"}

(* A mutant of EvidenceEstablished: the receipt's own checks do not gate   *)
(* what its anchors establish.                                             *)
EvidenceRegardless(c, R) == Verified(R) # {}

(* Evidence axis.                                                          *)
EvidenceEstablished(c, R) == Verified(R) # {} /\ ~ReceiptRefuted(c)

(* Coverage axis: every anchor came through.                               *)
CoverageComplete(c, R) == Verified(R) = DOMAIN R /\ ~ReceiptRefuted(c)

(* Both anchor types verified; two of one type do not add up.              *)
MaxTrustProfile(c, F, R) ==
  /\ \A kind \in Kinds : \E i \in Verified(R) : F[i].kind = kind
  /\ ~ReceiptRefuted(c)

(* Policy axis.  No quorum is met by no anchors.                           *)
PolicySatisfied(c, R, policy) ==
  /\ ~ReceiptRefuted(c)
  /\ DOMAIN R # {}
  /\ IF policy = "AllAnchors" THEN Verified(R) = DOMAIN R ELSE Verified(R) # {}

AcceptedWithGaps(c, R, policy) ==
  PolicySatisfied(c, R, policy) /\ ~CoverageComplete(c, R)

UnsatisfiedReason(R) ==
  IF Verified(R) = {} THEN "ReceiptUnanchored" ELSE "AnchorQuorumUnmet"

Statuses == {"Valid", "Invalid", "Untrusted", "Error"}

Judgement(status, reason) == [status |-> status, reason |-> reason]

(* A mutant of Verdict: a refuted anchor refutes the receipt.              *)
VerdictByAnchors(c, R, policy) ==
  IF ReceiptRefuted(c) THEN Judgement("Invalid", ReceiptRefutation(c))
  ELSE IF \E i \in DOMAIN R : R[i] = "Invalid" THEN Judgement("Invalid", "AnchorRefuted")
  ELSE IF ReceiptInability(c) THEN Judgement("Untrusted", "ReceiptCheckIncomplete")
  ELSE IF PolicySatisfied(c, R, policy) THEN Judgement("Valid", "None")
  ELSE Judgement("Untrusted", UnsatisfiedReason(R))

(* A refutation of the receipt, then a check that did not finish, then the *)
(* quorum.  A refuted anchor refutes nothing but itself.                   *)
Verdict(c, R, policy) ==
  IF ReceiptRefuted(c) THEN Judgement("Invalid", ReceiptRefutation(c))
  ELSE IF ReceiptInability(c) THEN Judgement("Untrusted", "ReceiptCheckIncomplete")
  ELSE IF PolicySatisfied(c, R, policy) THEN Judgement("Valid", "None")
  ELSE Judgement("Untrusted", UnsatisfiedReason(R))

(* The tally without the anchor at place i.                                *)
Without(R, i) == [j \in DOMAIN R \ {i} |-> R[j]]
=============================================================================
