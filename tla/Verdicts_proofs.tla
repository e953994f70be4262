--------------------------- MODULE Verdicts_proofs ---------------------------
(* What the verdict operators, and those of the command, guarantee for any *)
(* blocks, any anchors and any receipt.                                    *)
EXTENDS VerifyCommand, TLAPS

(* A lookup's answer is a block of the height asked about, or it is not    *)
(* corroborated.                                                           *)
LEMMA LookupAnswers ==
  ASSUME NEW h \in Heights, NEW lookup \in Lookups(h)
  PROVE  /\ lookup.kind \in LookupKinds
         /\ lookup.kind = "Corroborated" =>
              lookup.header \in Blocks /\ lookup.header.height = h
BY DEF Lookups, Lookup, LookupKinds

(* The comparison of times is one of three outcomes, and a match is an     *)
(* equality of nanosecond counts that fit.                                 *)
LEMMA TimeComparison ==
  ASSUME NEW claim \in Claims, NEW seconds \in Seconds
  PROVE  /\ CheckClaimedTime(claim, seconds) \in {"Unreadable", "Matches", "Contradicted"}
         /\ CheckClaimedTime(claim, seconds) = "Matches" =>
              claim = seconds * NanosPerSecond /\ seconds * NanosPerSecond <= MaxNanos
         /\ CheckClaimedTime(claim, seconds) = "Contradicted" =>
              claim # seconds * NanosPerSecond
BY TimeAssumption DEF CheckClaimedTime, Claims

(* What a lookup makes of an anchor: a verified one is confirmed in root   *)
(* and time by an existing block of its height, a refuted one contradicted *)
(* by one.                                                                 *)
LEMMA LookupDecides ==
  ASSUME NEW p \in Proofs, NEW lookup \in Lookups(p.height)
  PROVE  /\ OnlineResult(p, lookup) \in Results
         /\ AnchorFromLookup(p, lookup) # "Untrusted" =>
              lookup.kind = "Corroborated" /\ lookup.header \in Blocks
              /\ lookup.header.height = p.height
         /\ AnchorFromLookup(p, lookup) = "Valid" =>
              /\ lookup.header.root = p.root
              /\ lookup.header.time * NanosPerSecond = p.claim
              /\ lookup.header.time * NanosPerSecond <= MaxNanos
         /\ AnchorFromLookup(p, lookup) = "Invalid" =>
              \/ lookup.header.root # p.root
              \/ lookup.header.time * NanosPerSecond # p.claim
<1>1. p.height \in Heights /\ p.claim \in Claims
  BY DEF Proofs
<1>2. /\ lookup.kind = "Corroborated" =>
           lookup.header \in Blocks /\ lookup.header.height = p.height
  BY <1>1, LookupAnswers
<1>3. CASE lookup.kind # "Corroborated"
  <2>1. AnchorFromLookup(p, lookup) = "Untrusted"
    BY <1>3 DEF AnchorFromLookup
  <2>2. OnlineResult(p, lookup) = [verdict |-> "Untrusted", header |-> NoHeader]
    BY <1>3, <2>1 DEF OnlineResult, Result
  <2> QED BY <2>1, <2>2 DEF Results, AnchorVerdicts
<1>4. CASE lookup.kind = "Corroborated"
  <2> DEFINE time == CheckClaimedTime(p.claim, lookup.header.time)
  <2>1. lookup.header \in Headers /\ lookup.header.time \in Seconds
    BY <1>2, <1>4, BlocksAssumption DEF Headers
  <2>2. time \in {"Unreadable", "Matches", "Contradicted"}
    BY <1>1, <2>1, TimeComparison
  <2>3. time = "Matches" =>
          /\ lookup.header.time * NanosPerSecond = p.claim
          /\ lookup.header.time * NanosPerSecond <= MaxNanos
    BY <1>1, <2>1, TimeComparison
  <2>4. time = "Contradicted" => lookup.header.time * NanosPerSecond # p.claim
    BY <1>1, <2>1, TimeComparison
  <2>5. AnchorFromLookup(p, lookup) =
          IF p.root # lookup.header.root \/ time = "Contradicted" THEN "Invalid"
          ELSE IF time = "Unreadable" THEN "Untrusted"
          ELSE "Valid"
    BY <1>4 DEF AnchorFromLookup, Compared
  <2> HIDE DEF time
  <2>6. AnchorFromLookup(p, lookup) \in AnchorVerdicts
    BY <2>5 DEF AnchorVerdicts
  <2>7. OnlineResult(p, lookup) \in Results
    BY <1>4, <2>1, <2>6 DEF OnlineResult, Result, Results
  <2>8. AnchorFromLookup(p, lookup) = "Valid" =>
          p.root = lookup.header.root /\ time = "Matches"
    BY <2>2, <2>5
  <2>9. AnchorFromLookup(p, lookup) = "Invalid" =>
          p.root # lookup.header.root \/ time = "Contradicted"
    BY <2>5
  <2> QED BY <1>2, <1>4, <2>3, <2>4, <2>7, <2>8, <2>9
<1> QED BY <1>3, <1>4

(* Offline, only facts of its own decide an anchor, and a Bitcoin anchor   *)
(* is never verified.                                                      *)
LEMMA FactsDecide ==
  ASSUME NEW f \in FactSets
  PROVE  /\ VerdictFromFacts(f) \in AnchorVerdicts
         /\ Result(VerdictFromFacts(f), NoHeader) \in Results
         /\ VerdictFromFacts(f) = "Valid" => Holds(f) /\ f.kind = "rfc3161"
         /\ VerdictFromFacts(f) = "Invalid" => f.refuted
         /\ Prepared(f) => f.proof \in Proofs
<1>1. /\ f.refuted \in BOOLEAN /\ f.unable \in BOOLEAN
      /\ f.kind \in {"rfc3161", "bitcoin_ots"}
      /\ f.proof \in Proofs \cup {NoProof}
      /\ f.kind = "bitcoin_ots" /\ ~f.refuted => f.unable
  BY DEF FactSets, Kinds
<1>2. VerdictFromFacts(f) \in AnchorVerdicts
  BY <1>1 DEF VerdictFromFacts, AnchorVerdicts
<1>3. Result(VerdictFromFacts(f), NoHeader) \in Results
  BY <1>2 DEF Result, Results
<1>4. VerdictFromFacts(f) = "Valid" => ~f.refuted /\ ~f.unable
  BY <1>1 DEF VerdictFromFacts
<1>5. VerdictFromFacts(f) = "Invalid" => f.refuted
  BY <1>1 DEF VerdictFromFacts
<1> QED BY <1>1, <1>2, <1>3, <1>4, <1>5 DEF Holds, Prepared

(* A verified anchor holds in fact, whether its own facts verified it or   *)
(* some answer that its lookup can have.                                   *)
LEMMA VerifiedHolds ==
  ASSUME NEW f \in FactSets, NEW result,
         \/ result = Result(VerdictFromFacts(f), NoHeader)
         \/ /\ Prepared(f)
            /\ \E lookup \in Lookups(f.proof.height) : result = OnlineResult(f.proof, lookup),
         result.verdict = "Valid"
  PROVE  Holds(f)
<1>1. CASE result = Result(VerdictFromFacts(f), NoHeader)
  BY <1>1, FactsDecide DEF Result
<1>2. ASSUME Prepared(f), NEW lookup \in Lookups(f.proof.height),
             result = OnlineResult(f.proof, lookup)
      PROVE  Holds(f)
  <2>1. f.proof \in Proofs
    BY <1>2, FactsDecide
  <2>2. AnchorFromLookup(f.proof, lookup) = "Valid"
    BY <1>2 DEF OnlineResult, Result
  <2>3. /\ lookup.header \in Blocks /\ lookup.header.height = f.proof.height
        /\ lookup.header.root = f.proof.root
        /\ lookup.header.time * NanosPerSecond = f.proof.claim
    BY <2>1, <2>2, LookupDecides
  <2> QED BY <1>2, <2>3 DEF Holds
<1> QED BY <1>1, <1>2

-----------------------------------------------------------------------------
(* The receipt's status, taken apart.                                      *)
LEMMA StatusMeans ==
  ASSUME NEW c \in ReceiptChecks, NEW R, NEW policy \in Policies
  PROVE  /\ Verdict(c, R, policy).status \in {"Valid", "Invalid", "Untrusted"}
         /\ Verdict(c, R, policy).status = "Invalid" <=> ReceiptRefuted(c)
         /\ Verdict(c, R, policy).status = "Valid" <=>
              ~ReceiptRefuted(c) /\ ~ReceiptInability(c) /\ PolicySatisfied(c, R, policy)
<1>1. CASE ReceiptRefuted(c)
  BY <1>1 DEF Verdict, Judgement
<1>2. CASE ~ReceiptRefuted(c) /\ ReceiptInability(c)
  BY <1>2 DEF Verdict, Judgement
<1>3. CASE ~ReceiptRefuted(c) /\ ~ReceiptInability(c)
  BY <1>3 DEF Verdict, Judgement
<1> QED BY <1>1, <1>2, <1>3

(* A receipt is refuted by its file's hash, by the core or by its proofs.  *)
LEMMA RefutedMeans ==
  ASSUME NEW c \in ReceiptChecks
  PROVE  ReceiptRefuted(c) <=>
           ~c.hashMatches \/ "Refutation" \in c.findings \/ ~c.proofsHold
BY DEF ReceiptRefuted, ReceiptRefutation, Refutations, ReceiptChecks

(* More verified anchors never cost a receipt its acceptance.              *)
LEMMA AcceptanceIsMonotone ==
  ASSUME NEW c \in ReceiptChecks, NEW policy \in Policies, NEW R, NEW S,
         DOMAIN R = DOMAIN S, Verified(R) \subseteq Verified(S),
         Verdict(c, R, policy).status = "Valid"
  PROVE  Verdict(c, S, policy).status = "Valid"
<1>1. ~ReceiptRefuted(c) /\ ~ReceiptInability(c) /\ PolicySatisfied(c, R, policy)
  BY StatusMeans
<1>2. Verified(S) \subseteq DOMAIN S
  BY DEF Verified
<1>3. PolicySatisfied(c, S, policy)
  BY <1>1, <1>2 DEF PolicySatisfied
<1> QED BY <1>1, <1>3, StatusMeans

(* Taking away an anchor that is not verified takes away nothing that was  *)
(* verified.                                                               *)
LEMMA SameVerified ==
  ASSUME NEW R, NEW i \in DOMAIN R, R[i] # "Valid"
  PROVE  /\ Verified(Without(R, i)) = Verified(R)
         /\ i \notin Verified(R)
         /\ DOMAIN Without(R, i) = DOMAIN R \ {i}
BY DEF Verified, Without

(* An anchor that fails moves neither status nor reason, except that under *)
(* the strict quorum it can leave a met one unmet; and no trust axis.      *)
LEMMA FailedAnchorIsInert ==
  ASSUME NEW c \in ReceiptChecks, NEW policy \in Policies, NEW F,
         NEW R, NEW i \in DOMAIN R, R[i] # "Valid"
  PROVE  /\ \/ Verdict(c, R, policy) = Verdict(c, Without(R, i), policy)
            \/ /\ policy = "AllAnchors"
               /\ Verdict(c, Without(R, i), policy).status = "Valid"
               /\ Verdict(c, R, policy) = Judgement("Untrusted", "AnchorQuorumUnmet")
         /\ EvidenceEstablished(c, R) = EvidenceEstablished(c, Without(R, i))
         /\ MaxTrustProfile(c, F, R) = MaxTrustProfile(c, F, Without(R, i))
<1> DEFINE W == Without(R, i)
<1>1. /\ Verified(W) = Verified(R)
      /\ i \notin Verified(R)
      /\ DOMAIN W = DOMAIN R \ {i}
  BY SameVerified
<1> HIDE DEF W
<1>2. EvidenceEstablished(c, R) = EvidenceEstablished(c, W)
  BY <1>1 DEF EvidenceEstablished
<1>3. MaxTrustProfile(c, F, R) = MaxTrustProfile(c, F, W)
  BY <1>1 DEF MaxTrustProfile
<1>4. UnsatisfiedReason(R) = UnsatisfiedReason(W)
  BY <1>1 DEF UnsatisfiedReason
<1>5. CASE PolicySatisfied(c, R, policy) <=> PolicySatisfied(c, W, policy)
  <2>1. Verdict(c, R, policy) = Verdict(c, W, policy)
    BY <1>4, <1>5 DEF Verdict
  <2> QED BY <1>2, <1>3, <2>1 DEF W
<1>6. CASE ~(PolicySatisfied(c, R, policy) <=> PolicySatisfied(c, W, policy))
  <2>1. ~ReceiptRefuted(c)
    BY <1>6 DEF PolicySatisfied
  <2>2. policy = "AllAnchors" /\ ~PolicySatisfied(c, R, policy) /\ PolicySatisfied(c, W, policy)
    <3>1. policy = "AllAnchors"
      <4> SUFFICES ASSUME policy = "SingleAnchor" PROVE FALSE
        BY DEF Policies
      <4>1. PolicySatisfied(c, R, policy) <=> Verified(R) # {}
        BY <2>1 DEF PolicySatisfied
      <4>2. Verified(W) # {} => DOMAIN W # {}
        BY DEF Verified
      <4>3. PolicySatisfied(c, W, policy) <=> Verified(W) # {}
        BY <2>1, <4>2 DEF PolicySatisfied
      <4> QED BY <1>1, <1>6, <4>1, <4>3
    <3>2. ~PolicySatisfied(c, R, policy)
      BY <1>1, <3>1 DEF PolicySatisfied
    <3> QED BY <1>6, <3>1, <3>2 DEF PolicySatisfied
  <2>3. Verified(R) # {}
    BY <1>1, <2>2 DEF PolicySatisfied
  <2>4. CASE ReceiptInability(c)
    <3>1. Verdict(c, R, policy) = Verdict(c, W, policy)
      BY <2>1, <2>4 DEF Verdict
    <3> QED BY <1>2, <1>3, <3>1 DEF W
  <2>5. CASE ~ReceiptInability(c)
    <3>1. Verdict(c, R, policy) = Judgement("Untrusted", "AnchorQuorumUnmet")
      BY <2>1, <2>2, <2>3, <2>5 DEF Verdict, UnsatisfiedReason
    <3>2. Verdict(c, W, policy).status = "Valid"
      BY <2>1, <2>2, <2>5, StatusMeans
    <3> QED BY <1>2, <1>3, <2>2, <3>1, <3>2 DEF W
  <2> QED BY <2>4, <2>5
<1> QED BY <1>5, <1>6

-----------------------------------------------------------------------------
(* Exit 0 takes a valid status and nothing deferred; exit 1 is exactly a   *)
(* refutation.                                                             *)
LEMMA ExitMeans ==
  ASSUME NEW status \in Statuses, NEW d \in Deferrals
  PROVE  /\ ExitCode(status, d) \in ExitCodes
         /\ ExitCode(status, d) = 0 <=> status = "Valid" /\ d = "None"
         /\ ExitCode(status, d) = 1 <=> status = "Invalid"
         /\ \/ ExitCode(status, d) = ExitOf(status)
            \/ ExitCode(status, d) = 2 /\ status = "Valid" /\ d # "None"
BY DEF ExitCode, ExitOf, ExitCodes, Statuses

(* A network pass is entered only on an answered probe.                    *)
LEMMA SettledMeans ==
  ASSUME NEW f \in Flags, NEW needs \in BOOLEAN,
         NEW connected \in BOOLEAN, NEW runtime \in BOOLEAN
  PROVE  /\ Settled(f, needs, connected, runtime).mode \in Modes
         /\ Settled(f, needs, connected, runtime).deferred \in Deferrals
         /\ Settled(f, needs, connected, runtime).mode = "Online" => Probes(f, needs)
BY DEF Settled, Modes, Deferrals
=============================================================================
