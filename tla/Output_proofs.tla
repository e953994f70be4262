--------------------------- MODULE Output_proofs ---------------------------
(* What a run's report guarantees for any anchors, any receipts and any    *)
(* number of rows: what each reason means, that nothing is published as    *)
(* established that is not, and that the two renderers never part.         *)
EXTENDS Output, Verdicts_proofs, FiniteSetTheorems, WellFoundedInduction

-----------------------------------------------------------------------------
(* The reasons.                                                            *)

(* The tables' domains and entries, written out.                           *)
LEMMA StateTable ==
  /\ Inabilities = TokenInabilities \cup
       {"BitcoinBlockNotChecked", "BitcoinBlockUnavailable", "BitcoinSingleSourceOnly",
        "BitcoinProvidersDisagree", "BitcoinClaimedTimeUnreadable"}
  /\ StateOf["TsaRootNotTrusted"] = "CryptographicallyConsistent"
  /\ StateOf["TsaChainIncomplete"] = "Incomplete"
  /\ \A r \in {"TsaChainIndeterminate", "TsaImprintIndeterminate", "CmsSignatureIndeterminate",
               "TsaTimestampingEkuNotChecked", "BitcoinClaimedTimeUnreadable"} :
       StateOf[r] = "Unevaluable"
  /\ StateOf["BitcoinBlockNotChecked"] = "NotChecked"
  /\ StateOf["BitcoinBlockUnavailable"] = "Unavailable"
  /\ StateOf["BitcoinSingleSourceOnly"] = "Uncorroborated"
  /\ StateOf["BitcoinProvidersDisagree"] = "Contested"
BY DEF Inabilities, StateOf, TokenInabilities

(* No reason is both a refutation and an inability, and "None" is neither. *)
LEMMA ReasonsApart ==
  /\ Inabilities \cap RefutingReasons = {}
  /\ "None" \notin Inabilities \cup RefutingReasons
  /\ RefutingFindings \subseteq RefutingReasons
BY StateTable DEF RefutingReasons, RefutingFindings, TokenInabilities

(* A non-empty set of positions has a first.                               *)
LEMMA FirstExists ==
  ASSUME NEW S \in SUBSET Nat, S # {}
  PROVE  \E k \in S : \A l \in S : k <= l
<1>1. \E k \in S : \A l \in S : ~(<<l, k>> \in OpToRel(<, Nat))
  BY NatLessThanWellFounded, WFMin
<1>2. PICK k \in S : \A l \in S : ~(<<l, k>> \in OpToRel(<, Nat))
  BY <1>1
<1>3. \A l \in S : ~(l < k)
  BY <1>2 DEF OpToRel
<1> QED BY <1>3

(* The first finding of a class is of that class.                          *)
LEMMA FirstIsFound ==
  ASSUME NEW a, WellFormed(a), NEW class, FoundAt(a, class) # {}
  PROVE  FirstOf(a, class) \in class
<1> DEFINE places == FoundAt(a, class)
<1>1. places \in SUBSET Nat
  BY DEF WellFormed, FoundAt
<1>2. \A k \in places : a.findings[k] \in class
  BY DEF FoundAt
<1>3. places # {}
  OBVIOUS
<1>4. FirstOf(a, class) = a.findings[CHOOSE k \in places : \A l \in places : k <= l]
  BY DEF FirstOf
<1> HIDE DEF places
<1>5. \E k \in places : \A l \in places : k <= l
  BY <1>1, <1>3, FirstExists
<1>6. (CHOOSE k \in places : \A l \in places : k <= l) \in places
  BY <1>5
<1> QED BY <1>2, <1>4, <1>6

(* An anchor nobody looked up: what its reason and its verdict say.        *)
LEMMA OfflineOutcome ==
  ASSUME NEW a, WellFormed(a), a.lookup = NotLookedUp
  PROVE  /\ ResultOf(a).verdict = VerdictFromFacts(Facts(a))
         /\ ResultOf(a).header = NoHeader
         /\ ResultOf(a).verdict = "Valid" => Reason(a) = "None"
         /\ ResultOf(a).verdict = "Invalid" => Reason(a) \in RefutingFindings
         /\ ResultOf(a).verdict = "Untrusted" =>
              /\ Reason(a) \in Inabilities
              /\ a.kind = "rfc3161" => Reason(a) \in TokenInabilities
<1>1. /\ ResultOf(a).verdict = VerdictFromFacts(Facts(a))
      /\ ResultOf(a).header = NoHeader
  BY DEF ResultOf, Result
<1>2. Reason(a) = ReasonFromFacts(a)
  BY DEF Reason
<1>3. CASE FoundAt(a, RefutingFindings) # {}
  <2>1. ResultOf(a).verdict = "Invalid"
    BY <1>1, <1>3 DEF VerdictFromFacts, Facts
  <2>2. Reason(a) \in RefutingFindings
    BY <1>2, <1>3, FirstIsFound DEF ReasonFromFacts
  <2> QED BY <1>1, <2>1, <2>2
<1>4. CASE FoundAt(a, RefutingFindings) = {} /\ FoundAt(a, Inabilities) # {}
  <2>1. ResultOf(a).verdict = "Untrusted"
    BY <1>1, <1>4 DEF VerdictFromFacts, Facts
  <2>2. Reason(a) = FirstOf(a, Inabilities)
    BY <1>2, <1>4 DEF ReasonFromFacts
  <2>3. Reason(a) \in Inabilities
    BY <1>4, <2>2, FirstIsFound
  <2>4. ASSUME a.kind = "rfc3161" PROVE Reason(a) \in TokenInabilities
    <3>1. FoundAt(a, Inabilities) = FoundAt(a, TokenInabilities)
      BY <2>4 DEF WellFormed
    <3>2. FirstOf(a, Inabilities) = FirstOf(a, TokenInabilities)
      BY <3>1 DEF FirstOf
    <3> QED BY <1>4, <2>2, <3>1, <3>2, FirstIsFound
  <2> QED BY <1>1, <2>1, <2>3, <2>4
<1>5. CASE FoundAt(a, RefutingFindings) = {} /\ FoundAt(a, Inabilities) = {}
  BY <1>1, <1>2, <1>5 DEF VerdictFromFacts, Facts, ReasonFromFacts
<1> QED BY <1>3, <1>4, <1>5

(* The facts an anchor carries, and that only an anchor with a proof and   *)
(* no refutation is looked up.                                             *)
LEMMA FactsOfAnchor ==
  ASSUME NEW a, WellFormed(a)
  PROVE  /\ Facts(a) \in FactSets /\ Facts(a).kind = a.kind /\ Facts(a).proof = a.proof
         /\ a.kind \in Kinds /\ a.proof \in Proofs \cup {NoProof}
         /\ a.kind = "rfc3161" => a.proof = NoProof /\ a.lookup = NotLookedUp
         /\ a.lookup # NotLookedUp =>
              /\ a.kind = "bitcoin_ots" /\ ~Facts(a).refuted
              /\ a.proof \in Proofs /\ a.lookup \in Lookups(a.proof.height)
<1>1. Facts(a) \in FactSets
  BY DEF WellFormed
<1>2. Facts(a).kind = a.kind /\ Facts(a).proof = a.proof
  BY DEF Facts
<1>3. /\ Facts(a).kind \in Kinds /\ Facts(a).proof \in Proofs \cup {NoProof}
      /\ Facts(a).kind = "rfc3161" => Facts(a).proof = NoProof
  BY <1>1 DEF FactSets
<1>4. a.lookup # NotLookedUp => Prepared(Facts(a)) /\ a.lookup \in Lookups(a.proof.height)
  BY DEF WellFormed
<1> QED BY <1>1, <1>2, <1>3, <1>4 DEF Prepared

(* An anchor whose sources agreed on a block: what the comparison makes of *)
(* it, in root and in time.                                                *)
LEMMA ComparedOutcome ==
  ASSUME NEW a, WellFormed(a), a.lookup # NotLookedUp, a.lookup.kind = "Corroborated",
         NEW time, time = CheckClaimedTime(a.proof.claim, a.lookup.header.time)
  PROVE  /\ a.lookup.header \in Blocks /\ a.lookup.header.height = a.proof.height
         /\ ResultOf(a).header = a.lookup.header
         /\ time \in {"Unreadable", "Matches", "Contradicted"}
         /\ ResultOf(a).verdict =
              IF a.proof.root # a.lookup.header.root \/ time = "Contradicted" THEN "Invalid"
              ELSE IF time = "Unreadable" THEN "Untrusted"
              ELSE "Valid"
         /\ Reason(a) =
              IF a.proof.root # a.lookup.header.root THEN "BitcoinMerkleRootMismatch"
              ELSE IF time = "Contradicted" THEN "BitcoinClaimedTimeContradictsBlock"
              ELSE IF time = "Unreadable" THEN "BitcoinClaimedTimeUnreadable"
              ELSE "None"
<1>1. a.proof \in Proofs /\ a.lookup \in Lookups(a.proof.height)
  BY FactsOfAnchor
<1>2. a.proof.height \in Heights /\ a.proof.claim \in Claims
  BY <1>1 DEF Proofs
<1>3. a.lookup.header \in Blocks /\ a.lookup.header.height = a.proof.height
  BY <1>1, <1>2, LookupAnswers
<1>4. a.lookup.header.time \in Seconds
  BY <1>3, BlocksAssumption DEF Headers
<1>5. time \in {"Unreadable", "Matches", "Contradicted"}
  BY <1>2, <1>4, TimeComparison
<1>6. ResultOf(a) = OnlineResult(a.proof, a.lookup)
  BY DEF ResultOf
<1>7. /\ ResultOf(a).header = a.lookup.header
      /\ ResultOf(a).verdict = Compared(a.proof, a.lookup.header)
  BY <1>6 DEF OnlineResult, Result, AnchorFromLookup
<1>8. Compared(a.proof, a.lookup.header) =
        IF a.proof.root # a.lookup.header.root \/ time = "Contradicted" THEN "Invalid"
        ELSE IF time = "Unreadable" THEN "Untrusted"
        ELSE "Valid"
  BY DEF Compared
<1>9. Reason(a) =
        IF a.proof.root # a.lookup.header.root THEN "BitcoinMerkleRootMismatch"
        ELSE TimeReason[time]
  <2>1. a.lookup.kind \notin DOMAIN ShortfallReason
    BY DEF ShortfallReason
  <2> QED BY <2>1 DEF Reason, ReasonFromLookup
<1>10. TimeReason[time] =
         IF time = "Contradicted" THEN "BitcoinClaimedTimeContradictsBlock"
         ELSE IF time = "Unreadable" THEN "BitcoinClaimedTimeUnreadable"
         ELSE "None"
  BY <1>5 DEF TimeReason
<1> QED BY <1>3, <1>5, <1>7, <1>8, <1>9, <1>10

(* An anchor whose lookup gave no block to compare with stays open, for    *)
(* one of three reasons.                                                   *)
LEMMA ShortfallOutcome ==
  ASSUME NEW a, WellFormed(a), a.lookup # NotLookedUp, a.lookup.kind # "Corroborated"
  PROVE  /\ ResultOf(a).verdict = "Untrusted" /\ ResultOf(a).header = NoHeader
         /\ Reason(a) \in {"BitcoinBlockUnavailable", "BitcoinProvidersDisagree",
                           "BitcoinSingleSourceOnly"}
<1>1. a.proof \in Proofs /\ a.lookup \in Lookups(a.proof.height)
  BY FactsOfAnchor
<1>2. a.lookup.kind \in LookupKinds
  BY <1>1, LookupAnswers DEF Proofs
<1>3. a.lookup.kind \in {"Unavailable", "Disagreement", "Uncorroborated"}
  BY <1>2 DEF LookupKinds
<1>4. ResultOf(a).verdict = "Untrusted" /\ ResultOf(a).header = NoHeader
  BY DEF ResultOf, OnlineResult, AnchorFromLookup, Result
<1>5. a.lookup.kind \in DOMAIN ShortfallReason
  BY <1>3 DEF ShortfallReason
<1>6. Reason(a) = ShortfallReason[a.lookup.kind]
  BY <1>5 DEF Reason, ReasonFromLookup
<1> QED BY <1>3, <1>4, <1>6 DEF ShortfallReason

(* Verdict, reason and state of an anchor say the same thing.              *)
LEMMA AnchorOutcome ==
  ASSUME NEW a, WellFormed(a)
  PROVE  /\ ResultOf(a).verdict \in AnchorVerdicts
         /\ ResultOf(a).verdict = "Valid" <=> Reason(a) = "None"
         /\ ResultOf(a).verdict = "Invalid" <=> Reason(a) \in RefutingReasons
         /\ ResultOf(a).verdict = "Untrusted" <=> Reason(a) \in Inabilities
         /\ a.kind = "rfc3161" /\ ResultOf(a).verdict = "Untrusted" =>
              Reason(a) \in TokenInabilities
<1>1. CASE a.lookup = NotLookedUp
  <2>1. Facts(a) \in FactSets
    BY FactsOfAnchor
  <2>2. ResultOf(a).verdict \in AnchorVerdicts
    BY <1>1, <2>1, OfflineOutcome, FactsDecide
  <2> QED BY <1>1, <2>2, OfflineOutcome, ReasonsApart DEF AnchorVerdicts
<1>2. CASE a.lookup # NotLookedUp /\ a.lookup.kind = "Corroborated"
  <2> DEFINE time == CheckClaimedTime(a.proof.claim, a.lookup.header.time)
  <2>1. /\ time \in {"Unreadable", "Matches", "Contradicted"}
        /\ ResultOf(a).verdict =
             IF a.proof.root # a.lookup.header.root \/ time = "Contradicted" THEN "Invalid"
             ELSE IF time = "Unreadable" THEN "Untrusted"
             ELSE "Valid"
        /\ Reason(a) =
             IF a.proof.root # a.lookup.header.root THEN "BitcoinMerkleRootMismatch"
             ELSE IF time = "Contradicted" THEN "BitcoinClaimedTimeContradictsBlock"
             ELSE IF time = "Unreadable" THEN "BitcoinClaimedTimeUnreadable"
             ELSE "None"
    BY <1>2, ComparedOutcome
  <2> HIDE DEF time
  <2>2. /\ "BitcoinMerkleRootMismatch" \in RefutingReasons
        /\ "BitcoinClaimedTimeContradictsBlock" \in RefutingReasons
        /\ "BitcoinClaimedTimeUnreadable" \in Inabilities
    BY StateTable DEF RefutingReasons
  <2>3. a.kind # "rfc3161"
    BY <1>2, FactsOfAnchor
  <2> QED BY <2>1, <2>2, <2>3, ReasonsApart DEF AnchorVerdicts
<1>3. CASE a.lookup # NotLookedUp /\ a.lookup.kind # "Corroborated"
  <2>1. /\ ResultOf(a).verdict = "Untrusted"
        /\ Reason(a) \in {"BitcoinBlockUnavailable", "BitcoinProvidersDisagree",
                          "BitcoinSingleSourceOnly"}
    BY <1>3, ShortfallOutcome
  <2>2. Reason(a) \in Inabilities
    BY <2>1, StateTable
  <2>3. a.kind # "rfc3161"
    BY <1>3, FactsOfAnchor
  <2> QED BY <2>1, <2>2, <2>3, ReasonsApart DEF AnchorVerdicts
<1> QED BY <1>1, <1>2, <1>3

(* The state an anchor is reported in follows from its verdict and, where  *)
(* that is open, from its reason.                                          *)
LEMMA StateMeans ==
  ASSUME NEW a, WellFormed(a)
  PROVE  /\ State(a) \in AnchorStates
         /\ State(a) = "Verified" <=> ResultOf(a).verdict = "Valid"
         /\ State(a) = "Refuted" <=> ResultOf(a).verdict = "Invalid"
         /\ ResultOf(a).verdict = "Untrusted" => State(a) = StateOf[Reason(a)]
<1>1. ResultOf(a).verdict \in {"Valid", "Invalid", "Untrusted"}
  BY AnchorOutcome DEF AnchorVerdicts
<1>2. ResultOf(a).verdict = "Untrusted" => Reason(a) \in Inabilities
  BY AnchorOutcome
<1>3. \A r \in Inabilities : StateOf[r] \notin {"Verified", "Refuted"}
  BY StateTable DEF TokenInabilities
<1>4. State(a) =
        IF ResultOf(a).verdict = "Valid" THEN "Verified"
        ELSE IF ResultOf(a).verdict = "Invalid" THEN "Refuted"
        ELSE StateOf[Reason(a)]
  BY DEF State, IsVerified
<1>5. State(a) \in AnchorStates
  BY <1>1, <1>2, <1>4 DEF AnchorStates
<1> QED BY <1>1, <1>2, <1>3, <1>4, <1>5

(* The label of a token that was read is the state under another name.     *)
LEMMA LabelIsState ==
  ASSUME NEW a, WellFormed(a), TrustState(a) # {}
  PROVE  \/ TrustState(a) = {"trusted"} /\ State(a) = "Verified"
         \/ TrustState(a) = {"failed"} /\ State(a) = "Refuted"
         \/ TrustState(a) = {"assumed"} /\ State(a) = "CryptographicallyConsistent"
         \/ TrustState(a) = {"indeterminate"} /\ State(a) = "Unevaluable"
         \/ TrustState(a) = {"incomplete"} /\ State(a) = "Incomplete"
<1>1. a.kind = "rfc3161" /\ IsRead(a)
  BY DEF TrustState
<1>2. CASE ResultOf(a).verdict = "Valid"
  <2>1. TrustState(a) = {"trusted"}
    BY <1>1, <1>2 DEF TrustState, IsVerified
  <2> QED BY <1>2, <2>1, StateMeans
<1>3. CASE ResultOf(a).verdict = "Invalid"
  <2>1. TrustState(a) = {"failed"}
    BY <1>1, <1>3 DEF TrustState, IsVerified
  <2> QED BY <1>3, <2>1, StateMeans
<1>4. CASE ResultOf(a).verdict = "Untrusted"
  <2>1. Reason(a) \in TokenInabilities /\ State(a) = StateOf[Reason(a)]
    BY <1>1, <1>4, AnchorOutcome, StateMeans
  <2>2. CASE Reason(a) = "TsaRootNotTrusted"
    <3>1. TrustState(a) = {"assumed"}
      BY <1>1, <1>4, <2>2 DEF TrustState, IsVerified
    <3> QED BY <2>1, <2>2, <3>1, StateTable
  <2>3. CASE Reason(a) = "TsaChainIncomplete"
    <3>1. TrustState(a) = {"incomplete"}
      BY <1>1, <1>4, <2>3 DEF TrustState, IsVerified
    <3> QED BY <2>1, <2>3, <3>1, StateTable
  <2>4. CASE Reason(a) \in {"TsaChainIndeterminate", "CmsSignatureIndeterminate",
                            "TsaImprintIndeterminate", "TsaTimestampingEkuNotChecked"}
    <3>1. TrustState(a) = {"indeterminate"}
      BY <1>1, <1>4, <2>4 DEF TrustState, IsVerified
    <3> QED BY <2>1, <2>4, <3>1, StateTable
  <2> QED BY <2>1, <2>2, <2>3, <2>4 DEF TokenInabilities
<1> QED BY <1>2, <1>3, <1>4, AnchorOutcome DEF AnchorVerdicts

(* The three names of an anchor's outcome never part.                      *)
LEMMA NamesAgree ==
  ASSUME NEW a, WellFormed(a)
  PROVE  ReasonAgrees(a) /\ LabelsAgree(a)
<1>1. ReasonAgrees(a)
  BY AnchorOutcome DEF ReasonAgrees, IsVerified
<1> DEFINE o == AnchorJson(a)
           name == [Verified |-> "trusted", CryptographicallyConsistent |-> "assumed",
                    Incomplete |-> "incomplete", Unevaluable |-> "indeterminate",
                    Refuted |-> "failed"]
<1>2. /\ o.trustState = TrustState(a)
      /\ o.state = State(a)
      /\ o.verified = (ResultOf(a).verdict = "Valid")
  BY DEF AnchorJson, IsVerified
<1>3. ResultOf(a).verdict \in {"Valid", "Invalid", "Untrusted"}
  BY AnchorOutcome DEF AnchorVerdicts
<1>4. CASE TrustState(a) = {}
  <2>1. StatusLine(a) =
          IF ResultOf(a).verdict = "Valid" THEN "VALID"
          ELSE IF ResultOf(a).verdict = "Untrusted" THEN "NOT CONFIRMED"
          ELSE "FAILED"
    BY <1>3, <1>4 DEF StatusLine, IsVerified
  <2> QED BY <1>1, <1>2, <1>3, <1>4, <2>1, StateMeans DEF LabelsAgree
<1>5. CASE TrustState(a) # {}
  <2>1. o.trustState = {name[o.state]}
    BY <1>2, <1>5, LabelIsState
  <2>2. /\ StatusLine(a) \in {"TRUSTED", "VALID"} <=> TrustState(a) = {"trusted"}
        /\ StatusLine(a) = "FAILED" <=> TrustState(a) = {"failed"}
    <3>1. CASE TrustState(a) = {"trusted"}
      BY <3>1 DEF StatusLine
    <3>2. CASE TrustState(a) = {"assumed"}
      BY <3>2 DEF StatusLine
    <3>3. CASE TrustState(a) = {"incomplete"}
      BY <3>3 DEF StatusLine
    <3>4. CASE TrustState(a) = {"indeterminate"}
      BY <3>4 DEF StatusLine
    <3>5. CASE TrustState(a) = {"failed"} /\ State(a) = "Refuted"
      <4>1. ResultOf(a).verdict = "Invalid"
        BY <3>5, StateMeans
      <4>2. StatusLine(a) = "FAILED"
        BY <3>5, <4>1 DEF StatusLine, IsVerified
      <4> QED BY <3>5, <4>2
    <3> QED BY <1>5, <3>1, <3>2, <3>3, <3>4, <3>5, LabelIsState
  <2>3. /\ TrustState(a) = {"trusted"} <=> State(a) = "Verified"
        /\ TrustState(a) = {"failed"} <=> State(a) = "Refuted"
    BY <1>5, LabelIsState
  <2> QED BY <1>1, <1>2, <2>1, <2>2, <2>3, StateMeans DEF LabelsAgree
<1> QED BY <1>4, <1>5

-----------------------------------------------------------------------------
(* What is shown beside a verdict.                                         *)

(* A header is there exactly when the sources agreed on one; it is that of *)
(* a block.                                                                *)
LEMMA HeaderMeans ==
  ASSUME NEW a, WellFormed(a)
  PROVE  /\ ResultOf(a).header # NoHeader <=>
              a.lookup # NotLookedUp /\ a.lookup.kind = "Corroborated"
         /\ ResultOf(a).header # NoHeader =>
              /\ a.kind = "bitcoin_ots" /\ a.proof \in Proofs
              /\ ResultOf(a).header = a.lookup.header
              /\ ResultOf(a).header \in Blocks /\ ResultOf(a).header \in Headers
              /\ ResultOf(a).header.height = a.proof.height
<1>1. CASE a.lookup = NotLookedUp
  BY <1>1, OfflineOutcome
<1>2. CASE a.lookup # NotLookedUp /\ a.lookup.kind # "Corroborated"
  BY <1>2, ShortfallOutcome
<1>3. CASE a.lookup # NotLookedUp /\ a.lookup.kind = "Corroborated"
  <2>1. /\ a.lookup.header \in Blocks /\ a.lookup.header.height = a.proof.height
        /\ ResultOf(a).header = a.lookup.header
    BY <1>3, ComparedOutcome
  <2>2. a.kind = "bitcoin_ots" /\ a.proof \in Proofs
    BY <1>3, FactsOfAnchor
  <2> QED BY <1>3, <2>1, <2>2, BlocksAssumption
<1> QED BY <1>1, <1>2, <1>3

(* The facts shown, one by one: none about a block without a header that   *)
(* was compared, all of them with one.                                     *)
LEMMA DetailsMean ==
  ASSUME NEW a
  PROVE  /\ Details(a).said = a.says /\ Details(a).attests = a.attests
         /\ Details(a).proofHeight = IF a.proof = NoProof THEN {} ELSE {a.proof.height}
         /\ Details(a).computedRoot = IF a.proof = NoProof THEN {} ELSE {a.proof.root}
         /\ Details(a).sources = SourcesOf(a.lookup)
         /\ ResultOf(a).header = NoHeader =>
              /\ Details(a).timeCheck = "NotCompared" /\ Details(a).rootsMatch = {}
              /\ Details(a).blockTime = {} /\ Details(a).blockRoot = {}
         /\ ResultOf(a).header # NoHeader =>
              /\ Details(a).timeCheck =
                   CheckClaimedTime(a.proof.claim, ResultOf(a).header.time)
              /\ Details(a).rootsMatch = {a.proof.root = ResultOf(a).header.root}
              /\ Details(a).blockTime = {ResultOf(a).header.time}
              /\ Details(a).blockRoot = {ResultOf(a).header.root}
         /\ DOMAIN Details(a) =
              {"said", "attests", "proofHeight", "computedRoot", "timeCheck", "blockTime",
               "blockRoot", "rootsMatch", "sources"}
<1>1. CASE ResultOf(a).header = NoHeader
  <2>1. Details(a) = BitcoinDetails(a)
    BY <1>1 DEF Details
  <2> QED BY <1>1, <2>1 DEF BitcoinDetails
<1>2. CASE ResultOf(a).header # NoHeader
  <2> DEFINE h == ResultOf(a).header
             d == BitcoinDetails(a)
             c == CheckClaimedTime(a.proof.claim, h.time)
             m == (a.proof.root = h.root)
  <2>1. Details(a) = [d EXCEPT !.timeCheck = c, !.blockTime = {h.time},
                               !.blockRoot = {h.root}, !.rootsMatch = {m}]
    BY <1>2 DEF Details
  <2>2. d = [said |-> a.says, attests |-> a.attests,
             proofHeight |-> IF a.proof = NoProof THEN {} ELSE {a.proof.height},
             computedRoot |-> IF a.proof = NoProof THEN {} ELSE {a.proof.root},
             timeCheck |-> "NotCompared", blockTime |-> {}, blockRoot |-> {},
             rootsMatch |-> {}, sources |-> SourcesOf(a.lookup)]
    BY DEF BitcoinDetails
  <2> HIDE DEF c, d, m
  <2>3. /\ Details(a).said = a.says /\ Details(a).attests = a.attests
        /\ Details(a).proofHeight = IF a.proof = NoProof THEN {} ELSE {a.proof.height}
        /\ Details(a).computedRoot = IF a.proof = NoProof THEN {} ELSE {a.proof.root}
        /\ Details(a).sources = SourcesOf(a.lookup)
        /\ Details(a).timeCheck = c /\ Details(a).rootsMatch = {m}
        /\ Details(a).blockTime = {h.time} /\ Details(a).blockRoot = {h.root}
        /\ DOMAIN Details(a) = DOMAIN d
    BY <2>1, <2>2
  <2>4. DOMAIN d =
          {"said", "attests", "proofHeight", "computedRoot", "timeCheck", "blockTime",
           "blockRoot", "rootsMatch", "sources"}
    BY <2>2
  <2> QED BY <1>2, <2>3, <2>4 DEF c, m
<1> QED BY <1>1, <1>2

(* The number of sources named is what the answer's kind implies.          *)
LEMMA SourcesMean ==
  ASSUME NEW a, WellFormed(a)
  PROVE  /\ SourcesOf(a.lookup) \in 0..2
         /\ a.lookup # NotLookedUp /\ a.lookup.kind = "Corroborated" => SourcesOf(a.lookup) = 2
<1>1. CASE a.lookup = NotLookedUp
  BY <1>1 DEF SourcesOf
<1>2. CASE a.lookup # NotLookedUp
  <2>1. a.lookup.kind \in LookupKinds
    BY <1>2, FactsOfAnchor, LookupAnswers DEF Proofs
  <2> QED BY <1>2, <2>1 DEF SourcesOf, LookupKinds
<1> QED BY <1>1, <1>2

(* The facts of a Bitcoin anchor are of the right kinds.                   *)
LEMMA DetailsTyped ==
  ASSUME NEW a, WellFormed(a)
  PROVE  Details(a) \in BitcoinFacts
<1> DEFINE d == Details(a)
<1>1. d.said \in SUBSET [height : Heights, time : Claims] /\ d.attests \in SUBSET Nat
  <2>1. d.said = a.says /\ d.attests = a.attests
    BY DetailsMean
  <2> QED BY <2>1 DEF WellFormed
<1>2. d.proofHeight \in SUBSET Heights /\ d.computedRoot \in SUBSET Roots
  <2>1. /\ d.proofHeight = IF a.proof = NoProof THEN {} ELSE {a.proof.height}
        /\ d.computedRoot = IF a.proof = NoProof THEN {} ELSE {a.proof.root}
    BY DetailsMean
  <2>2. a.proof = NoProof \/ (a.proof.height \in Heights /\ a.proof.root \in Roots)
    BY FactsOfAnchor DEF Proofs
  <2> QED BY <2>1, <2>2
<1>3. d.sources \in 0..2
  <2>1. d.sources = SourcesOf(a.lookup)
    BY DetailsMean
  <2> QED BY <2>1, SourcesMean
<1>4. /\ d.timeCheck \in {"Matches", "Contradicted", "NotCompared", "Unreadable"}
      /\ d.blockTime \in SUBSET Seconds /\ d.blockRoot \in SUBSET Roots
      /\ d.rootsMatch \in SUBSET BOOLEAN
  <2>1. CASE ResultOf(a).header = NoHeader
    BY <2>1, DetailsMean
  <2>2. CASE ResultOf(a).header # NoHeader
    <3>1. ResultOf(a).header.time \in Seconds /\ ResultOf(a).header.root \in Roots
      BY <2>2, HeaderMeans DEF Headers
    <3>2. a.proof.claim \in Claims
      BY <2>2, HeaderMeans DEF Proofs
    <3>3. CheckClaimedTime(a.proof.claim, ResultOf(a).header.time)
            \in {"Unreadable", "Matches", "Contradicted"}
      BY <3>1, <3>2, TimeComparison
    <3>4. /\ d.timeCheck = CheckClaimedTime(a.proof.claim, ResultOf(a).header.time)
          /\ d.rootsMatch = {a.proof.root = ResultOf(a).header.root}
          /\ d.blockTime = {ResultOf(a).header.time}
          /\ d.blockRoot = {ResultOf(a).header.root}
      BY <2>2, DetailsMean
    <3> QED BY <3>1, <3>3, <3>4
  <2> QED BY <2>1, <2>2
<1>5. d = [said |-> d.said, attests |-> d.attests, proofHeight |-> d.proofHeight,
           computedRoot |-> d.computedRoot, timeCheck |-> d.timeCheck,
           blockTime |-> d.blockTime, blockRoot |-> d.blockRoot,
           rootsMatch |-> d.rootsMatch, sources |-> d.sources]
  <2>1. CASE ResultOf(a).header = NoHeader
    BY <2>1 DEF Details, BitcoinDetails
  <2>2. CASE ResultOf(a).header # NoHeader
    BY <2>2 DEF Details, BitcoinDetails
  <2> QED BY <2>1, <2>2
<1> HIDE DEF d
<1> QED BY <1>1, <1>2, <1>3, <1>4, <1>5 DEF BitcoinFacts, d

(* Seconds are natural numbers, in nanoseconds as well.                    *)
LEMMA NanosTyped ==
  ASSUME NEW S \in SUBSET Seconds
  PROVE  /\ Nanos(S) \in SUBSET Nat
         /\ {s * NanosPerSecond : s \in S} \in SUBSET Nat
<1>1. \A s \in S : s * NanosPerSecond \in Nat
  BY TimeAssumption
<1> QED BY <1>1 DEF Nanos

(* The times of an anchor are natural numbers; those of a Bitcoin anchor   *)
(* are its block's, and only once it is verified.                          *)
LEMMA TimesMean ==
  ASSUME NEW a, WellFormed(a)
  PROVE  /\ TimesOf(a) \in SUBSET Nat
         /\ a.kind = "bitcoin_ots" =>
              TimesOf(a) = IF IsVerified(a) THEN Nanos(Details(a).blockTime) ELSE {}
         /\ Details(a).blockTime \in SUBSET Seconds
<1>1. Details(a).blockTime \in SUBSET Seconds
  BY DetailsTyped DEF BitcoinFacts
<1>2. a.kind \in {"rfc3161", "bitcoin_ots"}
  BY FactsOfAnchor DEF Kinds
<1>3. CASE a.kind = "rfc3161"
  <2>1. TimesOf(a) = {a.stated} \ {NoTime}
    BY <1>3 DEF TimesOf
  <2>2. a.stated \in Instants \cup {NoTime}
    BY DEF WellFormed
  <2>3. Instants \subseteq Nat
    BY TimeAssumption
  <2> QED BY <1>1, <1>3, <2>1, <2>2, <2>3
<1>4. CASE a.kind = "bitcoin_ots"
  <2>1. TimesOf(a) = IF IsVerified(a) THEN Nanos(Details(a).blockTime) ELSE {}
    BY <1>4 DEF TimesOf, Only, Nanos
  <2>2. Nanos(Details(a).blockTime) \in SUBSET Nat
    BY <1>1, NanosTyped
  <2> QED BY <1>1, <1>4, <2>1, <2>2
<1> QED BY <1>2, <1>3, <1>4

(* The anchor object of the JSON document is of the right kind.            *)
LEMMA ObjectTyped ==
  ASSUME NEW a, WellFormed(a)
  PROVE  AnchorJson(a) \in AnchorObjects
<1> DEFINE v == IsVerified(a)
           d == Details(a)
           checks == {"Matches", "Contradicted", "NotCompared", "Unreadable"}
           labels == {"trusted", "assumed", "incomplete", "indeterminate", "failed"}
           claims == [height : Heights, time : Claims]
           objects == [blockHeight : SUBSET Heights, blockTimestamp : SUBSET Seconds,
                       proofHeight : SUBSET Heights, reportedTimestamp : SUBSET Seconds,
                       said : SUBSET claims, attests : SUBSET Nat,
                       timeCheck : SUBSET checks, computedRoot : SUBSET Roots,
                       blockRoot : SUBSET Roots, rootsMatch : SUBSET BOOLEAN,
                       sources : 0..2]
           b == IF a.kind = "bitcoin_ots" THEN BitcoinJson(a) ELSE NoBitcoin
<1>1. v \in BOOLEAN /\ State(a) \in AnchorStates
  BY StateMeans DEF IsVerified
<1>2. Only(~v, {Reason(a)}) \in SUBSET (Inabilities \cup RefutingReasons)
  <2>1. ~v => Reason(a) \in Inabilities \cup RefutingReasons
    BY AnchorOutcome DEF IsVerified, AnchorVerdicts
  <2> QED BY <2>1 DEF Only
<1>3. Only(v, TimesOf(a)) \in SUBSET Nat /\ Only(~v, TimesOf(a)) \in SUBSET Nat
  BY TimesMean DEF Only
<1>4. TrustState(a) \in SUBSET labels
  BY LabelIsState
<1>5. b \in objects
  <2>1. CASE a.kind = "bitcoin_ots"
    <3>1. /\ d.said \in SUBSET claims /\ d.attests \in SUBSET Nat
          /\ d.proofHeight \in SUBSET Heights /\ d.computedRoot \in SUBSET Roots
          /\ d.timeCheck \in checks /\ d.blockTime \in SUBSET Seconds
          /\ d.blockRoot \in SUBSET Roots /\ d.rootsMatch \in SUBSET BOOLEAN
          /\ d.sources \in 0..2
      BY DetailsTyped DEF BitcoinFacts
    <3>2. b = [blockHeight       |-> Only(v, d.proofHeight),
               blockTimestamp    |-> Only(v, d.blockTime),
               proofHeight       |-> Only(~v, d.proofHeight),
               reportedTimestamp |-> Only(~v, d.blockTime),
               said |-> d.said, attests |-> d.attests, timeCheck |-> {d.timeCheck},
               computedRoot |-> d.computedRoot, blockRoot |-> d.blockRoot,
               rootsMatch |-> d.rootsMatch, sources |-> d.sources]
      BY <2>1 DEF BitcoinJson
    <3> HIDE DEF d, v, claims, checks, b
    <3>3. /\ Only(v, d.proofHeight) \in SUBSET Heights /\ Only(~v, d.proofHeight) \in SUBSET Heights
          /\ Only(v, d.blockTime) \in SUBSET Seconds /\ Only(~v, d.blockTime) \in SUBSET Seconds
          /\ {d.timeCheck} \in SUBSET checks
      BY <3>1 DEF Only
    <3> QED BY <3>1, <3>2, <3>3
  <2>2. CASE a.kind # "bitcoin_ots"
    BY <2>2 DEF NoBitcoin
  <2> QED BY <2>1, <2>2
<1>6. AnchorJson(a) =
        [verified |-> v, state |-> State(a), reason |-> Only(~v, {Reason(a)}),
         timestamp |-> Only(v, TimesOf(a)), claimedTimestamp |-> Only(~v, TimesOf(a)),
         trustState |-> TrustState(a), bitcoin |-> b]
  BY DEF AnchorJson
<1>7. AnchorObjects =
        [verified : BOOLEAN, state : AnchorStates,
         reason : SUBSET (Inabilities \cup RefutingReasons),
         timestamp : SUBSET Nat, claimedTimestamp : SUBSET Nat,
         trustState : SUBSET labels, bitcoin : objects]
  BY DEF AnchorObjects
<1> DEFINE reason == Only(~v, {Reason(a)})
           sure   == Only(v, TimesOf(a))
           said   == Only(~v, TimesOf(a))
           state  == State(a)
           label  == TrustState(a)
           reasons == SUBSET (Inabilities \cup RefutingReasons)
           dates  == SUBSET Nat
           names  == SUBSET labels
<1>8. /\ v \in BOOLEAN /\ state \in AnchorStates /\ reason \in reasons
      /\ sure \in dates /\ said \in dates /\ label \in names /\ b \in objects
  BY <1>1, <1>2, <1>3, <1>4, <1>5
<1> HIDE DEF v, b, objects, labels, reason, sure, said, state, label, reasons, dates, names
<1>9. [verified |-> v, state |-> state, reason |-> reason, timestamp |-> sure,
       claimedTimestamp |-> said, trustState |-> label, bitcoin |-> b]
        \in [verified : BOOLEAN, state : AnchorStates, reason : reasons, timestamp : dates,
            claimedTimestamp : dates, trustState : names, bitcoin : objects]
  BY <1>8
<1> QED BY <1>6, <1>7, <1>9 DEF reason, sure, said, state, label, reasons, dates, names

-----------------------------------------------------------------------------
(* A time that is published as established.                                *)

(* A verified anchor holds in fact.                                        *)
LEMMA VerifiedAnchorHolds ==
  ASSUME NEW a, WellFormed(a), IsVerified(a)
  PROVE  Holds(Facts(a)) /\ IsRead(a)
<1>1. ResultOf(a).verdict = "Valid"
  BY DEF IsVerified
<1>2. Facts(a) \in FactSets /\ Facts(a).proof = a.proof
  BY FactsOfAnchor
<1>3. \/ ResultOf(a) = Result(VerdictFromFacts(Facts(a)), NoHeader)
      \/ /\ Prepared(Facts(a))
         /\ \E lookup \in Lookups(Facts(a).proof.height) :
              ResultOf(a) = OnlineResult(Facts(a).proof, lookup)
  <2>1. CASE a.lookup = NotLookedUp
    BY <2>1 DEF ResultOf
  <2>2. CASE a.lookup # NotLookedUp
    <3>1. Prepared(Facts(a)) /\ a.lookup \in Lookups(a.proof.height)
      BY <2>2 DEF WellFormed
    <3>2. ResultOf(a) = OnlineResult(a.proof, a.lookup)
      BY <2>2 DEF ResultOf
    <3> QED BY <1>2, <3>1, <3>2
  <2> QED BY <2>1, <2>2
<1>4. Holds(Facts(a))
  BY <1>1, <1>2, <1>3, VerifiedHolds
<1>5. ~Facts(a).refuted
  BY <1>4 DEF Holds, Prepared
<1>6. FoundAt(a, RefutingFindings) = {}
  BY <1>5 DEF Facts
<1>7. \A k \in DOMAIN a.findings : a.findings[k] \notin RefutingFindings
  BY <1>6 DEF FoundAt
<1>8. Unread \subseteq RefutingFindings
  BY DEF Unread, RefutingFindings
<1> QED BY <1>4, <1>7, <1>8 DEF IsRead

(* The times of the anchor object, by what they are offered as.            *)
LEMMA ObjectTimes ==
  ASSUME NEW a, WellFormed(a)
  PROVE  /\ AnchorJson(a).timestamp \cup Nanos(AnchorJson(a).bitcoin.blockTimestamp) =
              IF IsVerified(a) THEN TimesOf(a) ELSE {}
         /\ AnchorJson(a).claimedTimestamp \cup Nanos(AnchorJson(a).bitcoin.reportedTimestamp) =
              IF IsVerified(a) THEN {}
              ELSE IF a.kind = "bitcoin_ots" THEN Nanos(Details(a).blockTime)
              ELSE TimesOf(a)
<1> DEFINE o == AnchorJson(a)
           blocks == Details(a).blockTime
<1>1. Nanos({}) = {}
  BY DEF Nanos
<1>2. /\ o.timestamp = IF IsVerified(a) THEN TimesOf(a) ELSE {}
      /\ o.claimedTimestamp = IF IsVerified(a) THEN {} ELSE TimesOf(a)
      /\ o.bitcoin = IF a.kind = "bitcoin_ots" THEN BitcoinJson(a) ELSE NoBitcoin
  BY DEF AnchorJson, Only
<1>3. CASE a.kind = "bitcoin_ots"
  <2>1. /\ o.bitcoin.blockTimestamp = IF IsVerified(a) THEN blocks ELSE {}
        /\ o.bitcoin.reportedTimestamp = IF IsVerified(a) THEN {} ELSE blocks
    BY <1>2, <1>3 DEF BitcoinJson, Only
  <2>2. TimesOf(a) = IF IsVerified(a) THEN Nanos(blocks) ELSE {}
    BY <1>3, TimesMean
  <2> HIDE DEF o, blocks
  <2>3. CASE IsVerified(a)
    BY <1>1, <1>2, <2>1, <2>2, <2>3 DEF o
  <2>4. CASE ~IsVerified(a)
    BY <1>1, <1>2, <1>3, <2>1, <2>2, <2>4 DEF o, blocks
  <2> QED BY <2>3, <2>4
<1>4. CASE a.kind # "bitcoin_ots"
  <2>1. o.bitcoin.blockTimestamp = {} /\ o.bitcoin.reportedTimestamp = {}
    BY <1>2, <1>4 DEF NoBitcoin
  <2> HIDE DEF o
  <2> QED BY <1>1, <1>2, <1>4, <2>1 DEF o
<1> QED BY <1>3, <1>4

(* The human report offers no time the document does not, and the same     *)
(* ones as established.                                                    *)
LEMMA HumanTimesMean ==
  ASSUME NEW a, WellFormed(a)
  PROVE  /\ IsVerified(a) => HumanTimes(a) = TimesOf(a)
         /\ ~IsVerified(a) =>
              HumanTimes(a) \subseteq
                IF a.kind = "bitcoin_ots" THEN Nanos(Details(a).blockTime) ELSE TimesOf(a)
         /\ HumanTimes(a) \in SUBSET Nat
<1>1. CASE a.kind = "bitcoin_ots"
  <2>1. HumanTimes(a) = Nanos(Details(a).blockTime)
    BY <1>1 DEF HumanTimes
  <2>2. IsVerified(a) => TimesOf(a) = Nanos(Details(a).blockTime)
    BY <1>1, TimesMean
  <2>3. Nanos(Details(a).blockTime) \in SUBSET Nat
    BY TimesMean, NanosTyped
  <2> QED BY <1>1, <2>1, <2>2, <2>3
<1>2. CASE a.kind # "bitcoin_ots"
  <2>1. HumanTimes(a) = IF IsRead(a) THEN TimesOf(a) ELSE {}
    BY <1>2 DEF HumanTimes, Only
  <2>2. TimesOf(a) \in SUBSET Nat
    BY TimesMean
  <2> QED BY <1>2, <2>1, <2>2, VerifiedAnchorHolds
<1> QED BY <1>1, <1>2

(* The time of a verified Bitcoin anchor is that of an existing block with *)
(* the height and the root its proof commits to.                           *)
LEMMA EstablishedTime ==
  ASSUME NEW a, WellFormed(a), IsVerified(a), a.kind = "bitcoin_ots", NEW t \in TimesOf(a)
  PROVE  \E b \in Blocks : /\ b.height = a.proof.height
                           /\ b.root = a.proof.root
                           /\ b.time * NanosPerSecond = t
<1> DEFINE h == ResultOf(a).header
<1>1. PICK s \in Details(a).blockTime : t = s * NanosPerSecond
  BY TimesMean DEF Nanos
<1>2. h # NoHeader
  BY <1>1, DetailsMean
<1>3. Details(a).blockTime = {h.time}
  BY <1>2, DetailsMean
<1>4. h \in Blocks /\ h.height = a.proof.height /\ h = a.lookup.header
  BY <1>2, HeaderMeans
<1>5. a.lookup # NotLookedUp /\ a.lookup.kind = "Corroborated"
  BY <1>2, HeaderMeans
<1>6. a.proof.root = h.root
  BY <1>4, <1>5, ComparedOutcome DEF IsVerified
<1> HIDE DEF h
<1> QED BY <1>1, <1>3, <1>4, <1>6

-----------------------------------------------------------------------------
(* What the anchor object lets a reader recompute.                         *)

(* The receipt's height is attested exactly where the anchor was not       *)
(* refuted before anybody was asked.                                       *)
LEMMA HeightClaimMeans ==
  ASSUME NEW a, WellFormed(a), a.kind = "bitcoin_ots"
  PROVE  HeightClaim(a) = "Attested" <=> ~Facts(a).refuted
<1>1. Facts(a).refuted <=> \A said \in a.says : said.height \notin a.attests
  BY DEF WellFormed
<1>2. Facts(a).refuted \in BOOLEAN
  BY DEF Facts
<1> QED BY <1>1, <1>2 DEF HeightClaim

(* Without a header there is nothing to compare: the anchor is refuted, if *)
(* at all, by what its proof attests to, and it is not verified.           *)
LEMMA UncomparedOutcome ==
  ASSUME NEW a, WellFormed(a), a.kind = "bitcoin_ots", ResultOf(a).header = NoHeader
  PROVE  /\ ResultOf(a).verdict # "Valid"
         /\ ResultOf(a).verdict = "Invalid" <=> Facts(a).refuted
<1>1. Facts(a) \in FactSets /\ Facts(a).kind = "bitcoin_ots" /\ Facts(a).refuted \in BOOLEAN
  BY FactsOfAnchor DEF Facts
<1>2. CASE a.lookup = NotLookedUp
  <2>1. ResultOf(a).verdict = VerdictFromFacts(Facts(a))
    BY <1>2, OfflineOutcome
  <2>2. VerdictFromFacts(Facts(a)) # "Valid"
    BY <1>1, FactsDecide
  <2> QED BY <1>1, <2>1, <2>2 DEF VerdictFromFacts
<1>3. CASE a.lookup # NotLookedUp
  <2>1. ~Facts(a).refuted
    BY <1>3, FactsOfAnchor
  <2>2. a.lookup.kind # "Corroborated"
    BY <1>3, HeaderMeans
  <2> QED BY <1>3, <2>1, <2>2, ShortfallOutcome
<1> QED BY <1>2, <1>3

(* The object's comparisons decide its anchor.                             *)
LEMMA ComparisonsDecide ==
  ASSUME NEW a, WellFormed(a), a.kind = "bitcoin_ots"
  PROVE  LET d == Details(a)
         IN /\ IsVerified(a) <=> d.rootsMatch = {TRUE} /\ d.timeCheck = "Matches"
            /\ State(a) = "Refuted" <=>
                 \/ d.rootsMatch = {FALSE} \/ d.timeCheck = "Contradicted"
                 \/ HeightClaim(a) # "Attested"
            /\ d.blockRoot # {} <=> d.timeCheck # "NotCompared"
            /\ d.blockRoot # {} => d.rootsMatch # {} /\ d.sources >= 2
            /\ IsVerified(a) =>
                 \E said \in a.says : said.height \in d.proofHeight
<1> DEFINE d == Details(a)
           h == ResultOf(a).header
           same == (a.proof.root = h.root)
           time == CheckClaimedTime(a.proof.claim, h.time)
<1>1. /\ IsVerified(a) <=> ResultOf(a).verdict = "Valid"
      /\ State(a) = "Refuted" <=> ResultOf(a).verdict = "Invalid"
      /\ HeightClaim(a) = "Attested" <=> ~Facts(a).refuted
      /\ Facts(a).refuted \in BOOLEAN
  BY StateMeans, HeightClaimMeans DEF IsVerified, Facts
<1>2. CASE h = NoHeader
  <2>1. /\ d.timeCheck = "NotCompared" /\ d.rootsMatch = {} /\ d.blockRoot = {}
    BY <1>2, DetailsMean
  <2>2. /\ ResultOf(a).verdict # "Valid"
        /\ ResultOf(a).verdict = "Invalid" <=> Facts(a).refuted
    BY <1>2, UncomparedOutcome
  <2> HIDE DEF d
  <2> QED BY <1>1, <2>1, <2>2 DEF d
<1>3. CASE h # NoHeader
  <2>1. a.lookup # NotLookedUp /\ a.lookup.kind = "Corroborated" /\ h = a.lookup.header
    BY <1>3, HeaderMeans
  <2>2. /\ d.timeCheck = time /\ d.rootsMatch = {same} /\ d.blockRoot = {h.root}
    BY <1>3, DetailsMean
  <2>3. d.sources = 2
    <3>1. d.sources = SourcesOf(a.lookup)
      BY DetailsMean
    <3> QED BY <2>1, <3>1, SourcesMean
  <2>4. /\ time \in {"Unreadable", "Matches", "Contradicted"}
        /\ ResultOf(a).verdict =
             IF ~same \/ time = "Contradicted" THEN "Invalid"
             ELSE IF time = "Unreadable" THEN "Untrusted"
             ELSE "Valid"
    BY <2>1, ComparedOutcome
  <2>5. ~Facts(a).refuted
    BY <2>1, FactsOfAnchor
  <2>6. \E said \in a.says : said.height \in d.proofHeight
    <3>1. a.proof # NoProof
      BY <2>1, FactsOfAnchor, ProofAssumption
    <3>2. a.says = {[height |-> a.proof.height, time |-> a.proof.claim]}
      BY <3>1 DEF WellFormed
    <3>3. d.proofHeight = {a.proof.height}
      BY <3>1, DetailsMean
    <3> QED BY <3>2, <3>3
  <2>7. same \in BOOLEAN
    OBVIOUS
  <2> HIDE DEF d, same, time
  <2>8. /\ d.rootsMatch = {TRUE} <=> same
        /\ d.rootsMatch = {FALSE} <=> ~same
    BY <2>2, <2>7
  <2>9. /\ ResultOf(a).verdict = "Valid" <=> same /\ time = "Matches"
        /\ ResultOf(a).verdict = "Invalid" <=> ~same \/ time = "Contradicted"
    BY <2>4, <2>7
  <2>10. /\ d.blockRoot # {} /\ d.rootsMatch # {} /\ d.timeCheck # "NotCompared"
         /\ d.sources >= 2
    BY <2>2, <2>3, <2>4
  <2>11. /\ IsVerified(a) <=> d.rootsMatch = {TRUE} /\ d.timeCheck = "Matches"
         /\ State(a) = "Refuted" <=>
              \/ d.rootsMatch = {FALSE} \/ d.timeCheck = "Contradicted"
              \/ HeightClaim(a) # "Attested"
    BY <1>1, <2>2, <2>5, <2>8, <2>9
  <2> QED BY <2>6, <2>10, <2>11 DEF d
<1> QED BY <1>2, <1>3

(* The same of the object's own fields.                                    *)
LEMMA ObjectDecides ==
  ASSUME NEW a, WellFormed(a), a.kind = "bitcoin_ots"
  PROVE  LET o == AnchorJson(a)
             b == o.bitcoin
         IN /\ o.verified <=> b.rootsMatch = {TRUE} /\ b.timeCheck = {"Matches"}
            /\ o.state = "Refuted" <=>
                 \/ b.rootsMatch = {FALSE} \/ b.timeCheck = {"Contradicted"}
                 \/ HeightClaim(a) # "Attested"
            /\ b.blockRoot # {} <=> b.timeCheck # {"NotCompared"}
            /\ b.blockRoot # {} => b.rootsMatch # {} /\ b.sources >= 2
            /\ b.blockHeight # {} => \E said \in b.said : said.height \in b.blockHeight
<1> DEFINE o == AnchorJson(a)
           b == o.bitcoin
           d == Details(a)
<1>1. /\ o.verified = IsVerified(a) /\ o.state = State(a)
      /\ b = BitcoinJson(a)
  BY DEF AnchorJson
<1>2. /\ b.rootsMatch = d.rootsMatch /\ b.timeCheck = {d.timeCheck}
      /\ b.blockRoot = d.blockRoot /\ b.sources = d.sources /\ b.said = d.said
      /\ b.blockHeight = IF IsVerified(a) THEN d.proofHeight ELSE {}
  BY <1>1 DEF BitcoinJson, Only
<1>3. d.said = a.says
  BY DetailsMean
<1>4. /\ IsVerified(a) <=> d.rootsMatch = {TRUE} /\ d.timeCheck = "Matches"
      /\ State(a) = "Refuted" <=>
           \/ d.rootsMatch = {FALSE} \/ d.timeCheck = "Contradicted"
           \/ HeightClaim(a) # "Attested"
      /\ d.blockRoot # {} <=> d.timeCheck # "NotCompared"
      /\ d.blockRoot # {} => d.rootsMatch # {} /\ d.sources >= 2
      /\ IsVerified(a) => \E said \in a.says : said.height \in d.proofHeight
  BY ComparisonsDecide
<1> HIDE DEF o, b, d
<1>5. \A x : b.timeCheck = {x} <=> d.timeCheck = x
  BY <1>2
<1> QED BY <1>1, <1>2, <1>3, <1>4, <1>5 DEF o, b

-----------------------------------------------------------------------------
(* One row.                                                                *)

(* The anchors of a row, by what became of them.                           *)
LEMMA RowShape ==
  ASSUME NEW row, WellFormedRow(row)
  PROVE  /\ DOMAIN row.anchors \in SUBSET Nat /\ IsFiniteSet(DOMAIN row.anchors)
         /\ DOMAIN VerdictsOf(row) = DOMAIN row.anchors
         /\ \A i \in DOMAIN row.anchors :
              /\ WellFormed(row.anchors[i])
              /\ VerdictsOf(row)[i] = ResultOf(row.anchors[i]).verdict
         /\ Verified(VerdictsOf(row)) =
              {i \in DOMAIN row.anchors : IsVerified(row.anchors[i])}
         /\ Refuted(row) =
              {i \in DOMAIN row.anchors : ResultOf(row.anchors[i]).verdict = "Invalid"}
         /\ Unresolved(row) =
              {i \in DOMAIN row.anchors : ResultOf(row.anchors[i]).verdict = "Untrusted"}
         /\ Unresolved(row) \cup Refuted(row) = DOMAIN row.anchors \ Verified(VerdictsOf(row))
<1> DEFINE places == DOMAIN row.anchors
           R == VerdictsOf(row)
<1>1. row.anchors \in Seq(Range(row.anchors))
  BY DEF WellFormedRow
<1>2. places = 1..Len(row.anchors) /\ Len(row.anchors) \in Nat
  BY <1>1
<1>3. places \in SUBSET Nat /\ IsFiniteSet(places)
  BY <1>2, FS_Interval
<1>4. \A i \in places : WellFormed(row.anchors[i])
  BY DEF WellFormedRow
<1>5. DOMAIN R = places /\ \A i \in places : R[i] = ResultOf(row.anchors[i]).verdict
  BY DEF VerdictsOf
<1>6. \A i \in places :
        /\ ResultOf(row.anchors[i]).verdict \in {"Valid", "Invalid", "Untrusted"}
        /\ State(row.anchors[i]) = "Refuted" <=> ResultOf(row.anchors[i]).verdict = "Invalid"
  BY <1>4, AnchorOutcome, StateMeans DEF AnchorVerdicts
<1>7. Verified(R) = {i \in places : IsVerified(row.anchors[i])}
  <2> HIDE DEF R
  <2> QED BY <1>5 DEF Verified, IsVerified
<1>8. Refuted(row) = {i \in places : ResultOf(row.anchors[i]).verdict = "Invalid"}
  BY <1>6 DEF Refuted
<1>9. Unresolved(row) = places \ (Verified(R) \cup Refuted(row))
  BY DEF Unresolved
<1>10. Unresolved(row) = {i \in places : ResultOf(row.anchors[i]).verdict = "Untrusted"}
  <2> HIDE DEF R, places
  <2> QED BY <1>6, <1>7, <1>8, <1>9 DEF IsVerified
<1>11. Unresolved(row) \cup Refuted(row) = places \ Verified(R)
  <2> HIDE DEF R, places
  <2> QED BY <1>6, <1>7, <1>8, <1>10 DEF IsVerified
<1> QED BY <1>3, <1>4, <1>5, <1>7, <1>8, <1>10, <1>11

(* What is listed of an anchor that did not verify is a state and a reason *)
(* that fit it.                                                            *)
LEMMA ListedTyped ==
  ASSUME NEW row, WellFormedRow(row), NEW places, places \subseteq Unresolved(row) \cup Refuted(row)
  PROVE  Listed(row, places) \in ToldAnchors
<1> DEFINE kinds == [place : Nat, state : AnchorStates \ {"Verified"},
                     reason : Inabilities \cup RefutingReasons]
           entry(i) == [place |-> i, state |-> State(row.anchors[i]),
                        reason |-> Reason(row.anchors[i])]
<1>1. \A i \in places :
        /\ i \in Nat /\ WellFormed(row.anchors[i])
        /\ ResultOf(row.anchors[i]).verdict \in {"Invalid", "Untrusted"}
  BY RowShape
<1>2. \A i \in places : entry(i) \in kinds
  <2> TAKE i \in places
  <2> DEFINE a == row.anchors[i]
  <2>1. /\ i \in Nat /\ WellFormed(a) /\ ResultOf(a).verdict \in {"Invalid", "Untrusted"}
    BY <1>1
  <2> HIDE DEF a
  <2>2. State(a) \in AnchorStates \ {"Verified"}
    BY <2>1, StateMeans
  <2>3. Reason(a) \in Inabilities \cup RefutingReasons
    BY <2>1, AnchorOutcome
  <2> QED BY <2>1, <2>2, <2>3 DEF a
<1>3. Listed(row, places) = {entry(i) : i \in places}
  BY DEF Listed
<1>4. ToldAnchors = SUBSET kinds
  BY DEF ToldAnchors
<1> HIDE DEF kinds, entry
<1> QED BY <1>2, <1>3, <1>4

(* A row's judgement is a status and a reason.                             *)
LEMMA JudgedTyped ==
  ASSUME NEW row, WellFormedRow(row), NEW p \in Policies
  PROVE  /\ JudgedRow(row, p).status \in Statuses
         /\ JudgedRow(row, p).reason \in RowReasons
         /\ JudgedRow(row, p) = Judgement(JudgedRow(row, p).status, JudgedRow(row, p).reason)
<1>1. row.checks \in ReceiptChecks
  BY DEF WellFormedRow
<1>2. CASE row.entry = "Receipt"
  <2>1. ReceiptRefuted(row.checks) => ReceiptRefutation(row.checks) \in RowReasons
    BY DEF ReceiptRefuted, RowReasons
  <2>2. JudgedRow(row, p) = Verdict(row.checks, VerdictsOf(row), p)
    BY <1>2 DEF JudgedRow
  <2>3. UnsatisfiedReason(VerdictsOf(row)) \in RowReasons
    BY DEF UnsatisfiedReason, RowReasons
  <2>4. "ReceiptCheckIncomplete" \in RowReasons /\ "None" \in RowReasons
    BY DEF RowReasons
  <2> QED BY <2>1, <2>2, <2>3, <2>4 DEF Verdict, Judgement, Statuses
<1>3. CASE row.entry # "Receipt"
  BY <1>3 DEF JudgedRow, Judgement, Statuses, RowReasons
<1> QED BY <1>2, <1>3

(* Whether a row was accepted with gaps is a question for receipts.        *)
LEMMA GapsTyped ==
  ASSUME NEW row, NEW p
  PROVE  Gaps(row, p) \in BOOLEAN
BY DEF Gaps

(* A date has a place, a standing and a time.                              *)
LEMMA DatesTyped ==
  ASSUME NEW row, WellFormedRow(row)
  PROVE  /\ HumanDates(row) \in SUBSET [place : Nat, plain : BOOLEAN, time : Nat]
         /\ JsonDates(row) \in SUBSET [place : Nat, plain : BOOLEAN, time : Nat]
<1>1. \A i \in DOMAIN row.anchors : i \in Nat /\ WellFormed(row.anchors[i])
  BY RowShape
<1>2. HumanDates(row) \in SUBSET [place : Nat, plain : BOOLEAN, time : Nat]
  <2>1. \A i \in DOMAIN row.anchors :
          /\ HumanTimes(row.anchors[i]) \in SUBSET Nat
          /\ IsVerified(row.anchors[i]) \in BOOLEAN
    BY <1>1, HumanTimesMean DEF IsVerified
  <2> QED BY <1>1, <2>1 DEF HumanDates, Date
<1>3. JsonDates(row) \in SUBSET [place : Nat, plain : BOOLEAN, time : Nat]
  <2> DEFINE o(i) == AnchorJson(row.anchors[i])
             sure(i) == o(i).timestamp \cup Nanos(o(i).bitcoin.blockTimestamp)
             said(i) == o(i).claimedTimestamp \cup Nanos(o(i).bitcoin.reportedTimestamp)
  <2>1. \A i \in DOMAIN row.anchors : sure(i) \in SUBSET Nat /\ said(i) \in SUBSET Nat
    <3> TAKE i \in DOMAIN row.anchors
    <3> DEFINE a == row.anchors[i]
    <3>1. WellFormed(a)
      BY <1>1
    <3> HIDE DEF a
    <3>2. TimesOf(a) \in SUBSET Nat /\ Nanos(Details(a).blockTime) \in SUBSET Nat
      BY <3>1, TimesMean, NanosTyped
    <3>3. /\ AnchorJson(a).timestamp \cup Nanos(AnchorJson(a).bitcoin.blockTimestamp) \in SUBSET Nat
          /\ AnchorJson(a).claimedTimestamp \cup Nanos(AnchorJson(a).bitcoin.reportedTimestamp)
               \in SUBSET Nat
      BY <3>1, <3>2, ObjectTimes
    <3> QED BY <3>3 DEF a
  <2>2. JsonDates(row) =
          UNION {{Date(i, TRUE, t) : t \in sure(i)} \cup {Date(i, FALSE, t) : t \in said(i)} :
                   i \in DOMAIN row.anchors}
    BY DEF JsonDates
  <2> HIDE DEF sure, said
  <2>3. ASSUME NEW i \in DOMAIN row.anchors,
               NEW d \in {Date(i, TRUE, t) : t \in sure(i)} \cup {Date(i, FALSE, t) : t \in said(i)}
        PROVE  d \in [place : Nat, plain : BOOLEAN, time : Nat]
    <3>1. i \in Nat /\ sure(i) \in SUBSET Nat /\ said(i) \in SUBSET Nat
      BY <1>1, <2>1
    <3>2. CASE d \in {Date(i, TRUE, t) : t \in sure(i)}
      <4>1. PICK t \in sure(i) : d = Date(i, TRUE, t)
        BY <3>2
      <4> QED BY <3>1, <4>1 DEF Date
    <3>3. CASE d \in {Date(i, FALSE, t) : t \in said(i)}
      <4>1. PICK t \in said(i) : d = Date(i, FALSE, t)
        BY <3>3
      <4> QED BY <3>1, <4>1 DEF Date
    <3> QED BY <2>3, <3>2, <3>3
  <2> QED BY <2>2, <2>3
<1> QED BY <1>2, <1>3

(* The three axes of a row are of the right kind.                          *)
LEMMA AxesTyped ==
  ASSUME NEW row, WellFormedRow(row), NEW p \in Policies
  PROVE  Axes(row, p) \in
           SUBSET [evidence : EvidenceAxis, quorum : QuorumAxis, coverage : CoverageAxis]
<1> DEFINE R == VerdictsOf(row)
           F == [i \in DOMAIN row.anchors |-> Facts(row.anchors[i])]
           places == DOMAIN row.anchors
           c == row.checks
           e == [established |-> EvidenceEstablished(c, R), verified |-> Cardinality(Verified(R)),
                 refuted |-> Cardinality(Refuted(row)), presented |-> Cardinality(places),
                 refutedBy |-> RefutedBy(row)]
           q == [satisfied |-> PolicySatisfied(c, R, p), maxTrust |-> MaxTrustProfile(c, F, R)]
           g == [complete |-> CoverageComplete(c, R), acceptedWithGaps |-> Gaps(row, p),
                 unresolved |-> Listed(row, Unresolved(row)),
                 refuted |-> Listed(row, Refuted(row))]
<1>1. /\ Cardinality(Verified(R)) \in Nat /\ Cardinality(Refuted(row)) \in Nat
      /\ Cardinality(places) \in Nat
  <2>1. /\ IsFiniteSet(places)
        /\ Verified(R) \subseteq places /\ Refuted(row) \subseteq places
    BY RowShape
  <2> HIDE DEF R, places
  <2>2. IsFiniteSet(Verified(R)) /\ IsFiniteSet(Refuted(row))
    BY <2>1, FS_Subset
  <2> QED BY <2>1, <2>2, FS_CardinalityType
<1>2. RefutedBy(row) \in SUBSET Refutations
  BY DEF RefutedBy, Only, ReceiptRefuted
<1>3. /\ EvidenceEstablished(c, R) \in BOOLEAN /\ PolicySatisfied(c, R, p) \in BOOLEAN
      /\ CoverageComplete(c, R) \in BOOLEAN /\ MaxTrustProfile(c, F, R) \in BOOLEAN
      /\ Gaps(row, p) \in BOOLEAN
  <2> HIDE DEF R, F, c
  <2> QED BY GapsTyped DEF EvidenceEstablished, PolicySatisfied, CoverageComplete, MaxTrustProfile
<1>4. /\ Listed(row, Unresolved(row)) \in ToldAnchors
      /\ Listed(row, Refuted(row)) \in ToldAnchors
  BY ListedTyped
<1>5. e \in EvidenceAxis
  <2> HIDE DEF R, F, c, places
  <2> QED BY <1>1, <1>2, <1>3 DEF EvidenceAxis
<1>6. q \in QuorumAxis
  <2> HIDE DEF R, F, c, places
  <2> QED BY <1>3 DEF QuorumAxis
<1>7. g \in CoverageAxis
  <2> HIDE DEF R, F, c, places
  <2> QED BY <1>3, <1>4 DEF CoverageAxis
<1>8. Assessment(row, p) = [evidence |-> e, quorum |-> q, coverage |-> g]
  BY DEF Assessment
<1> HIDE DEF e, q, g
<1>9. Axes(row, p) = IF row.entry = "Receipt" THEN {Assessment(row, p)} ELSE {}
  BY DEF Axes, Only
<1> QED BY <1>5, <1>6, <1>7, <1>8, <1>9

(* What either renderer tells of a row is of the right kind.               *)
LEMMA ToldTyped ==
  ASSUME NEW row, WellFormedRow(row), NEW p \in Policies
  PROVE  /\ HumanSingle(row, p) \in ToldRow /\ JsonSingle(row, p) \in ToldRow
         /\ HumanRow(row, p) \in ToldRow /\ JsonRow(row, p) \in ToldRow
<1> DEFINE axes == SUBSET [evidence : EvidenceAxis, quorum : QuorumAxis, coverage : CoverageAxis]
           dates == SUBSET [place : Nat, plain : BOOLEAN, time : Nat]
           j == JudgedRow(row, p)
           g == Gaps(row, p)
           failed == Unresolved(row) \cup Refuted(row)
<1>1. /\ j.status \in Statuses /\ j.reason \in RowReasons /\ g \in BOOLEAN
  BY JudgedTyped, GapsTyped
<1>2. /\ Listed(row, failed) \in ToldAnchors /\ Listed(row, Unresolved(row)) \in ToldAnchors
      /\ {} \in ToldAnchors
  BY ListedTyped DEF ToldAnchors
<1>3. /\ HumanDates(row) \in dates /\ JsonDates(row) \in dates /\ {} \in dates
  BY DatesTyped
<1>4. Axes(row, p) \in axes /\ {} \in axes
  BY AxesTyped
<1>5. ASSUME NEW l \in ToldAnchors, NEW d \in dates, NEW x \in axes
      PROVE  Told(j, g, l, d, x) \in ToldRow
  <2>1. Told(j, g, l, d, x) =
          [status |-> j.status, reason |-> j.reason, qualified |-> g, listed |-> l,
           dates |-> d, axes |-> x]
    BY DEF Told
  <2>2. ToldRow = [status : Statuses, reason : RowReasons, qualified : BOOLEAN,
                   listed : ToldAnchors, dates : dates, axes : axes]
    BY DEF ToldRow
  <2> HIDE DEF j, g, axes, dates
  <2> QED BY <1>1, <2>1, <2>2
<1>6. /\ JsonSingle(row, p) = Told(j, g, Listed(row, failed), JsonDates(row), Axes(row, p))
      /\ HumanRow(row, p) = Told(j, g, Listed(row, Unresolved(row)), {}, {})
      /\ JsonRow(row, p) = Told(j, g, Listed(row, failed), {}, Axes(row, p))
      /\ \/ HumanSingle(row, p) = Told(j, g, Listed(row, failed), HumanDates(row), Axes(row, p))
         \/ HumanSingle(row, p) = Told(j, g, Listed(row, {}), {}, {})
  BY DEF JsonSingle, HumanRow, JsonRow, HumanSingle
<1>7. Listed(row, {}) \in ToldAnchors
  BY ListedTyped
<1> HIDE DEF axes, dates, j, g, failed
<1> QED BY <1>2, <1>3, <1>4, <1>5, <1>6, <1>7

-----------------------------------------------------------------------------
(* What is said to be missing.                                             *)

(* Every inability has a hint, and the hint fits the state it leads to.    *)
LEMMA HintTable ==
  /\ DOMAIN HintOn = Inabilities
  /\ \A r \in Inabilities :
       \/ HintOn[r] = "TrustMaterial" /\ StateOf[r] \in {"CryptographicallyConsistent", "Incomplete"}
       \/ HintOn[r] = "Verifier" /\ StateOf[r] = "Unevaluable"
       \/ HintOn[r] = "Network" /\ StateOf[r] \in {"NotChecked", "Unavailable", "Uncorroborated"}
       \/ HintOn[r] = "Sources" /\ StateOf[r] = "Contested"
<1>1. DOMAIN HintOn = Inabilities
  BY StateTable DEF HintOn, TokenInabilities
<1>2. /\ HintOn["TsaRootNotTrusted"] = "TrustMaterial"
      /\ HintOn["TsaChainIncomplete"] = "TrustMaterial"
      /\ \A r \in {"TsaChainIndeterminate", "TsaImprintIndeterminate", "CmsSignatureIndeterminate",
                   "TsaTimestampingEkuNotChecked", "BitcoinClaimedTimeUnreadable"} :
           HintOn[r] = "Verifier"
      /\ \A r \in {"BitcoinBlockNotChecked", "BitcoinBlockUnavailable", "BitcoinSingleSourceOnly"} :
           HintOn[r] = "Network"
      /\ HintOn["BitcoinProvidersDisagree"] = "Sources"
  BY DEF HintOn
<1>3. ASSUME NEW r \in Inabilities
      PROVE  r \in {"TsaRootNotTrusted", "TsaChainIncomplete", "TsaChainIndeterminate",
                    "TsaImprintIndeterminate", "CmsSignatureIndeterminate",
                    "TsaTimestampingEkuNotChecked", "BitcoinBlockNotChecked",
                    "BitcoinBlockUnavailable", "BitcoinSingleSourceOnly",
                    "BitcoinProvidersDisagree", "BitcoinClaimedTimeUnreadable"}
  BY StateTable DEF TokenInabilities
<1> QED BY <1>1, <1>2, <1>3, StateTable

(* What an unresolved anchor is said to lack is what its state lacks.      *)
LEMMA AnchorHintIsTruthful ==
  ASSUME NEW row, WellFormedRow(row), NEW p \in Policies, NEW i \in Unresolved(row)
  PROVE  /\ Advice(HintOn, Reason(row.anchors[i])) \in Missing
         /\ Lacks(row, p, Advice(HintOn, Reason(row.anchors[i])))
<1> DEFINE a == row.anchors[i]
           m == Advice(HintOn, Reason(a))
<1>1. i \in DOMAIN row.anchors /\ WellFormed(a) /\ ResultOf(a).verdict = "Untrusted"
  BY RowShape
<1>2. Reason(a) \in Inabilities /\ State(a) = StateOf[Reason(a)]
  BY <1>1, AnchorOutcome, StateMeans
<1>3. m = HintOn[Reason(a)]
  BY <1>2, HintTable DEF Advice
<1>4. \/ m = "TrustMaterial" /\ State(a) \in {"CryptographicallyConsistent", "Incomplete"}
      \/ m = "Verifier" /\ State(a) = "Unevaluable"
      \/ m = "Network" /\ State(a) \in {"NotChecked", "Unavailable", "Uncorroborated"}
      \/ m = "Sources" /\ State(a) = "Contested"
  BY <1>2, <1>3, HintTable
<1>5. m \in Missing
  BY <1>4 DEF Missing
<1>6. Lacks(row, p, m)
  <2> HIDE DEF m
  <2> QED BY <1>1, <1>4 DEF Lacks
<1> QED BY <1>5, <1>6

(* The hint of a receipt that is not accepted names only what it lacks.    *)
LEMMA HintMeans ==
  ASSUME NEW row, WellFormedRow(row), NEW p \in Policies, row.entry = "Receipt",
         JudgedRow(row, p).status = "Untrusted",
         NEW m \in {Headline(JudgedRow(row, p).reason)} \cup Hint(row, p)
  PROVE  Lacks(row, p, m)
<1> DEFINE R == VerdictsOf(row)
           c == row.checks
           j == JudgedRow(row, p)
<1>1. /\ ~ReceiptRefuted(c)
      /\ \/ ReceiptInability(c) /\ j.reason = "ReceiptCheckIncomplete"
         \/ ~PolicySatisfied(c, R, p) /\ j.reason = UnsatisfiedReason(R)
  <2>1. j = Verdict(c, R, p)
    BY DEF JudgedRow
  <2> HIDE DEF R, c
  <2> QED BY <2>1 DEF Verdict, Judgement
<1>2. /\ DOMAIN R = DOMAIN row.anchors
      /\ Unresolved(row) \cup Refuted(row) = DOMAIN row.anchors \ Verified(R)
      /\ Verified(R) \subseteq DOMAIN R
  BY RowShape DEF Verified
<1>3. ASSUME j.reason = "AnchorQuorumUnmet" PROVE Lacks(row, p, "Quorum")
  <2>1. Verified(R) # {} /\ ~PolicySatisfied(c, R, p)
    BY <1>1, <1>3 DEF UnsatisfiedReason
  <2>2. DOMAIN R # {}
    BY <1>2, <2>1
  <2>3. p = "AllAnchors" /\ Verified(R) # DOMAIN R
    BY <1>1, <2>1, <2>2 DEF PolicySatisfied, Policies
  <2>4. Unresolved(row) \cup Refuted(row) # {}
    BY <1>2, <2>3
  <2> QED BY <2>1, <2>3, <2>4 DEF Lacks
<1>4. ASSUME m = Headline(j.reason) PROVE Lacks(row, p, m)
  <2>1. CASE j.reason = "ReceiptCheckIncomplete" /\ ReceiptInability(c)
    <3>1. m = "Verifier"
      BY <1>4, <2>1 DEF Headline, Advice
    <3> QED BY <2>1, <3>1 DEF Lacks
  <2>2. CASE j.reason = "ReceiptUnanchored" /\ Verified(R) = {}
    <3>1. m = "NoneVerified"
      BY <1>4, <2>2 DEF Headline, Advice
    <3> QED BY <2>2, <3>1 DEF Lacks
  <2>3. CASE j.reason = "AnchorQuorumUnmet"
    <3>1. m = "Quorum"
      BY <1>4, <2>3 DEF Headline, Advice
    <3> QED BY <1>3, <2>3, <3>1
  <2> QED BY <1>1, <2>1, <2>2, <2>3 DEF UnsatisfiedReason
<1>5. ASSUME m \in Hint(row, p) PROVE Lacks(row, p, m)
  <2>1. CASE j.reason = "AnchorQuorumUnmet"
    <3>1. m = "Quorum"
      BY <1>5, <2>1 DEF Hint, HintBy
    <3> QED BY <1>3, <2>1, <3>1
  <2>2. CASE j.reason # "AnchorQuorumUnmet" /\ DOMAIN row.anchors = {}
    <3>1. m = "NoAnchors"
      BY <1>5, <2>2 DEF Hint, HintBy
    <3> QED BY <2>2, <3>1 DEF Lacks
  <2>3. CASE j.reason # "AnchorQuorumUnmet" /\ DOMAIN row.anchors # {}
    <3>1. PICK i \in Unresolved(row) : m = Advice(HintOn, Reason(row.anchors[i]))
      BY <1>5, <2>3 DEF Hint, HintBy
    <3> QED BY <3>1, AnchorHintIsTruthful
  <2> QED BY <2>1, <2>2, <2>3
<1> QED BY <1>4, <1>5

(* Whatever is said to be missing is one of the things that can be.        *)
LEMMA MissingTyped ==
  ASSUME NEW row, WellFormedRow(row), NEW p \in Policies, NEW reason
  PROVE  /\ Headline(reason) \in Missing /\ BatchDetail(reason) \in Missing
         /\ Hint(row, p) \subseteq Missing /\ ErrorHint(row, p) \subseteq Missing
<1>1. Headline(reason) \in Missing /\ BatchDetail(reason) \in Missing
  BY DEF Headline, Advice, BatchDetail, Missing
<1>2. /\ "Quorum" \in Missing /\ "NoAnchors" \in Missing /\ "TrustMaterial" \in Missing
  BY DEF Missing
<1>3. Hint(row, p) \subseteq Missing
  BY <1>2, AnchorHintIsTruthful DEF Hint, HintBy
<1>4. \A r : Advice(ErrorHintOn, r) \in Missing
  <2> TAKE r
  <2>1. CASE r \in DOMAIN HintOn \ {"BitcoinClaimedTimeUnreadable"}
    <3>1. Advice(ErrorHintOn, r) = HintOn[r]
      BY <2>1 DEF Advice, ErrorHintOn, Restrict
    <3>2. HintOn[r] \in Missing
      BY <2>1, HintTable DEF Missing
    <3> QED BY <3>1, <3>2
  <2>2. CASE r \notin DOMAIN HintOn \ {"BitcoinClaimedTimeUnreadable"}
    <3>1. Advice(ErrorHintOn, r) = "TrustMaterial"
      BY <2>2 DEF Advice, ErrorHintOn, Restrict
    <3> QED BY <1>2, <3>1
  <2> QED BY <2>1, <2>2
<1>5. HintBy(ErrorHintOn, row, p) \subseteq Missing
  BY <1>2, <1>4 DEF HintBy
<1> QED BY <1>1, <1>2, <1>3, <1>5 DEF ErrorHint

-----------------------------------------------------------------------------
(* The two renderers.                                                      *)

(* A date of the human report, and one of the document.                    *)
LEMMA DatesMean ==
  ASSUME NEW row, WellFormedRow(row)
  PROVE  /\ HumanDates(row) \subseteq JsonDates(row)
         /\ \A d \in HumanDates(row) \cup JsonDates(row) : d.plain =>
              /\ d.place \in DOMAIN row.anchors
              /\ IsVerified(row.anchors[d.place])
              /\ d.time \in TimesOf(row.anchors[d.place])
         /\ {d \in HumanDates(row) : d.plain} = {d \in JsonDates(row) : d.plain}
<1> DEFINE a(i) == row.anchors[i]
           sure(i) == IF IsVerified(a(i)) THEN TimesOf(a(i)) ELSE {}
           said(i) == IF IsVerified(a(i)) THEN {}
                      ELSE IF a(i).kind = "bitcoin_ots" THEN Nanos(Details(a(i)).blockTime)
                      ELSE TimesOf(a(i))
           shown(i) == HumanTimes(a(i))
           places == DOMAIN row.anchors
<1>1. \A i \in places : WellFormed(a(i))
  BY RowShape
<1>2. \A d : d \in JsonDates(row) <=>
        \E i \in places :
          \/ \E t \in sure(i) : d = Date(i, TRUE, t)
          \/ \E t \in said(i) : d = Date(i, FALSE, t)
  <2> DEFINE o(i) == AnchorJson(a(i))
             s(i) == o(i).timestamp \cup Nanos(o(i).bitcoin.blockTimestamp)
             c(i) == o(i).claimedTimestamp \cup Nanos(o(i).bitcoin.reportedTimestamp)
             dates(i) == {Date(i, TRUE, t) : t \in s(i)} \cup {Date(i, FALSE, t) : t \in c(i)}
             made(i, d) == \/ \E t \in sure(i) : d = Date(i, TRUE, t)
                           \/ \E t \in said(i) : d = Date(i, FALSE, t)
  <2>1. \A i \in places : s(i) = sure(i) /\ c(i) = said(i)
    BY <1>1, ObjectTimes
  <2>2. JsonDates(row) = UNION {dates(i) : i \in places}
    BY DEF JsonDates
  <2> HIDE DEF s, c, sure, said, places
  <2>3. \A i \in places : \A d : d \in dates(i) <=> made(i, d)
    <3> TAKE i \in places
    <3>1. dates(i) = {Date(i, TRUE, t) : t \in sure(i)} \cup {Date(i, FALSE, t) : t \in said(i)}
      BY <2>1
    <3> HIDE DEF dates
    <3> QED BY <3>1
  <2> HIDE DEF dates
  <2>4. \A d : d \in JsonDates(row) <=> \E i \in places : d \in dates(i)
    BY <2>2
  <2> HIDE DEF made
  <2>5. \A d : d \in JsonDates(row) <=> \E i \in places : made(i, d)
    BY <2>3, <2>4
  <2> QED BY <2>5 DEF made
<1>3. \A i \in places :
        /\ IsVerified(a(i)) => shown(i) = sure(i)
        /\ ~IsVerified(a(i)) => shown(i) \subseteq said(i) /\ sure(i) = {}
        /\ IsVerified(a(i)) \in BOOLEAN
        /\ sure(i) \subseteq TimesOf(a(i))
  <2> TAKE i \in places
  <2> DEFINE x == a(i)
  <2>1. WellFormed(x)
    BY <1>1
  <2> HIDE DEF x
  <2>2. /\ IsVerified(x) => HumanTimes(x) = TimesOf(x)
        /\ ~IsVerified(x) =>
             HumanTimes(x) \subseteq
               IF x.kind = "bitcoin_ots" THEN Nanos(Details(x).blockTime) ELSE TimesOf(x)
    BY <2>1, HumanTimesMean
  <2>3. IsVerified(x) \in BOOLEAN
    BY DEF IsVerified
  <2> QED BY <2>2, <2>3 DEF x
<1>4. \A d : d \in HumanDates(row) <=>
        \E i \in places : \E t \in shown(i) : d = Date(i, IsVerified(a(i)), t)
  <2> DEFINE dates(i) == {Date(i, IsVerified(a(i)), t) : t \in shown(i)}
  <2>1. HumanDates(row) = UNION {dates(i) : i \in places}
    BY DEF HumanDates
  <2>2. \A i \in places : \A d : d \in dates(i) <=>
          \E t \in shown(i) : d = Date(i, IsVerified(a(i)), t)
    OBVIOUS
  <2> HIDE DEF dates, shown, places
  <2>3. \A d : d \in HumanDates(row) <=> \E i \in places : d \in dates(i)
    BY <2>1
  <2> QED BY <2>2, <2>3
<1>5. ASSUME NEW d \in HumanDates(row)
      PROVE  /\ d \in JsonDates(row)
             /\ d.plain => d.place \in places /\ IsVerified(a(d.place)) /\ d.time \in TimesOf(a(d.place))
  <2> HIDE DEF sure, said, shown, places, a
  <2>1. PICK i \in places : \E t \in shown(i) : d = Date(i, IsVerified(a(i)), t)
    BY <1>4
  <2>2. PICK t \in shown(i) : d = Date(i, IsVerified(a(i)), t)
    BY <2>1
  <2>3. CASE IsVerified(a(i))
    <3>1. t \in sure(i) /\ IsVerified(a(i)) = TRUE /\ t \in TimesOf(a(i))
      BY <1>3, <2>3
    <3>2. d = Date(i, TRUE, t)
      BY <2>2, <3>1
    <3>3. d.place = i /\ d.time = t
      BY <3>2 DEF Date
    <3>4. d \in JsonDates(row)
      BY <1>2, <3>1, <3>2
    <3> QED BY <2>3, <3>1, <3>3, <3>4
  <2>4. CASE ~IsVerified(a(i))
    <3>1. t \in said(i) /\ IsVerified(a(i)) = FALSE
      BY <1>3, <2>4
    <3>2. d = Date(i, FALSE, t)
      BY <2>2, <3>1
    <3>3. ~d.plain
      BY <3>2 DEF Date
    <3>4. d \in JsonDates(row)
      BY <1>2, <3>1, <3>2
    <3> QED BY <3>3, <3>4
  <2> QED BY <2>3, <2>4
<1>6. ASSUME NEW d \in JsonDates(row), d.plain
      PROVE  /\ d \in HumanDates(row)
             /\ d.place \in places /\ IsVerified(a(d.place)) /\ d.time \in TimesOf(a(d.place))
  <2> HIDE DEF sure, said, shown, places, a
  <2>1. PICK i \in places : \/ \E t \in sure(i) : d = Date(i, TRUE, t)
                            \/ \E t \in said(i) : d = Date(i, FALSE, t)
    BY <1>2
  <2>2. ~\E t \in said(i) : d = Date(i, FALSE, t)
    BY <1>6 DEF Date
  <2>3. PICK t \in sure(i) : d = Date(i, TRUE, t)
    BY <2>1, <2>2
  <2>4. IsVerified(a(i)) = TRUE /\ t \in shown(i) /\ t \in TimesOf(a(i))
    BY <1>3
  <2>5. d = Date(i, IsVerified(a(i)), t)
    BY <2>3, <2>4
  <2>6. d.place = i /\ d.time = t
    BY <2>3 DEF Date
  <2>7. d \in HumanDates(row)
    BY <1>4, <2>4, <2>5
  <2> QED BY <2>4, <2>6, <2>7
<1>7. HumanDates(row) \subseteq JsonDates(row)
  BY <1>5
<1>8. {d \in HumanDates(row) : d.plain} = {d \in JsonDates(row) : d.plain}
  BY <1>5, <1>6
<1>9. \A d \in HumanDates(row) \cup JsonDates(row) : d.plain =>
        d.place \in places /\ IsVerified(a(d.place)) /\ d.time \in TimesOf(a(d.place))
  BY <1>5, <1>6
<1> QED BY <1>7, <1>8, <1>9

(* What is told of a row, with one part of it replaced.                    *)
LEMMA Amended ==
  ASSUME NEW j, NEW g, NEW l, NEW d, NEW x, NEW y
  PROVE  /\ [Told(j, g, l, d, x) EXCEPT !.listed = y] = Told(j, g, y, d, x)
         /\ [Told(j, g, l, d, x) EXCEPT !.dates = y] = Told(j, g, l, y, x)
         /\ [Told(j, g, l, d, x) EXCEPT !.axes = y] = Told(j, g, l, d, y)
         /\ Told(j, g, l, d, x).listed = l /\ Told(j, g, l, d, x).dates = d
         /\ Told(j, g, l, d, x).axes = x
BY DEF Told

(* A row of the table says less than the row of the document, nothing else. *)
LEMMA RowsAgree ==
  ASSUME NEW row, NEW p
  PROVE  LET human == HumanRow(row, p)
             json  == JsonRow(row, p)
         IN /\ human.listed \subseteq json.listed
            /\ [human EXCEPT !.listed = json.listed, !.axes = json.axes] = json
<1> DEFINE j == JudgedRow(row, p)
           g == Gaps(row, p)
           some == Listed(row, Unresolved(row))
           all == Listed(row, Unresolved(row) \cup Refuted(row))
           axes == Axes(row, p)
           human == HumanRow(row, p)
           json == JsonRow(row, p)
<1>1. some \subseteq all
  BY DEF Listed
<1>2. human = Told(j, g, some, {}, {}) /\ json = Told(j, g, all, {}, axes)
  BY DEF HumanRow, JsonRow
<1> HIDE DEF j, g, some, all, axes, human, json
<1>3. human.listed = some /\ json.listed = all /\ json.axes = axes
  BY <1>2, Amended
<1>4. [human EXCEPT !.listed = all] = Told(j, g, all, {}, {})
  BY <1>2, Amended
<1> DEFINE fuller == [human EXCEPT !.listed = all]
<1> HIDE DEF fuller
<1>5. [fuller EXCEPT !.axes = axes] = json
  <2>1. fuller = Told(j, g, all, {}, {})
    BY <1>4 DEF fuller
  <2> QED BY <1>2, <2>1, Amended
<1> QED BY <1>1, <1>3, <1>5 DEF human, json, fuller

(* The two reports of one file part only where the human one stops early   *)
(* and in the times of anchors that date nothing.                          *)
LEMMA SinglesAgree ==
  ASSUME NEW row, WellFormedRow(row), NEW p
  PROVE  LET human == HumanSingle(row, p)
             json  == JsonSingle(row, p)
             plain(dates) == {d \in dates : d.plain}
         IN /\ human.dates \subseteq json.dates
            /\ IF row.checks.hashMatches
               THEN /\ [human EXCEPT !.dates = json.dates] = json
                    /\ plain(human.dates) = plain(json.dates)
               ELSE [human EXCEPT !.listed = json.listed, !.dates = json.dates,
                                  !.axes = json.axes] = json
<1> DEFINE j == JudgedRow(row, p)
           g == Gaps(row, p)
           all == Listed(row, Unresolved(row) \cup Refuted(row))
           axes == Axes(row, p)
           dates == JsonDates(row)
           shown == HumanDates(row)
           human == HumanSingle(row, p)
           json == JsonSingle(row, p)
<1>1. shown \subseteq dates /\ {d \in shown : d.plain} = {d \in dates : d.plain}
  BY DatesMean
<1>2. json = Told(j, g, all, dates, axes)
  BY DEF JsonSingle
<1>3. json.listed = all /\ json.dates = dates /\ json.axes = axes
  <2> HIDE DEF j, g, all, axes, dates, shown, human, json
  <2> QED BY <1>2, Amended
<1>4. CASE row.checks.hashMatches
  <2>1. human = Told(j, g, all, shown, axes)
    BY <1>4 DEF HumanSingle
  <2> HIDE DEF j, g, all, axes, dates, shown, human, json
  <2>2. [human EXCEPT !.dates = dates] = json /\ human.dates = shown
    BY <1>2, <2>1, Amended
  <2> QED BY <1>1, <1>3, <1>4, <2>2 DEF human, json
<1>5. CASE ~row.checks.hashMatches
  <2>1. human = Told(j, g, Listed(row, {}), {}, {})
    BY <1>5 DEF HumanSingle
  <2> HIDE DEF j, g, all, axes, dates, shown, human, json
  <2>2. [human EXCEPT !.listed = all] = Told(j, g, all, {}, {}) /\ human.dates = {}
    BY <2>1, Amended
  <2> DEFINE fuller == [human EXCEPT !.listed = all]
             dated == [fuller EXCEPT !.dates = dates]
  <2>3. fuller = Told(j, g, all, {}, {})
    BY <2>2
  <2> HIDE DEF fuller
  <2>4. dated = Told(j, g, all, dates, {})
    BY <2>3, Amended
  <2> HIDE DEF dated
  <2>5. [dated EXCEPT !.axes = axes] = json
    BY <1>2, <2>4, Amended
  <2> QED BY <1>3, <1>5, <2>2, <2>5 DEF human, json, fuller, dated
<1> QED BY <1>4, <1>5

-----------------------------------------------------------------------------
(* What is left unqualified, and what an appended anchor can do.           *)

(* A receipt that is accepted without gaps has nothing but verified        *)
(* anchors, and only a receipt is accepted.                                *)
LEMMA UnqualifiedMeans ==
  ASSUME NEW row, WellFormedRow(row), NEW p \in Policies,
         JudgedRow(row, p).status = "Valid", ~Gaps(row, p)
  PROVE  row.entry = "Receipt" /\ Verified(VerdictsOf(row)) = DOMAIN row.anchors
<1> DEFINE R == VerdictsOf(row)
           c == row.checks
<1>1. row.entry = "Receipt"
  BY DEF JudgedRow, Judgement
<1>2. Verdict(c, R, p).status = "Valid" /\ c \in ReceiptChecks
  BY <1>1 DEF JudgedRow, WellFormedRow
<1>3. PolicySatisfied(c, R, p)
  <2> HIDE DEF R, c
  <2> QED BY <1>2, StatusMeans
<1>4. CoverageComplete(c, R)
  BY <1>1, <1>3 DEF Gaps, AcceptedWithGaps
<1>5. DOMAIN R = DOMAIN row.anchors
  BY DEF VerdictsOf
<1> QED BY <1>1, <1>4, <1>5 DEF CoverageComplete

(* A batch is accepted when every row of it is, and only receipts are.     *)
LEMMA AcceptedBatch ==
  ASSUME NEW p \in Policies, NEW rs, \A k \in DOMAIN rs : WellFormedRow(rs[k]),
         JudgedBatch(rs, p).status = "Valid"
  PROVE  \A k \in DOMAIN rs : JudgedRow(rs[k], p).status = "Valid"
<1> DEFINE judged == {JudgedRow(rs[k], p) : k \in DOMAIN rs}
           statuses == {j.status : j \in judged}
           reasons == {j.reason : j \in judged}
<1>1. JudgedBatch(rs, p) =
        IF "Invalid" \in statuses THEN Judgement("Invalid", "BatchItemsInvalid")
        ELSE IF "Error" \in statuses THEN Judgement("Error", "BatchItemsErrored")
        ELSE IF "BatchItemsUnmatched" \in reasons
        THEN Judgement("Untrusted", "BatchItemsUnmatched")
        ELSE IF "Untrusted" \in statuses THEN Judgement("Untrusted", "BatchItemsUntrusted")
        ELSE Judgement("Valid", "None")
  BY DEF JudgedBatch
<1>2. \A k \in DOMAIN rs :
        JudgedRow(rs[k], p).status \in statuses /\ JudgedRow(rs[k], p).status \in Statuses
  BY JudgedTyped
<1> HIDE DEF statuses, reasons, judged
<1>3. statuses \cap {"Invalid", "Error", "Untrusted"} = {}
  BY <1>1 DEF Judgement
<1> QED BY <1>2, <1>3 DEF Statuses

(* The row without the anchor at place i.                                  *)
Shorter(row, i) == [row EXCEPT !.anchors = Without(@, i)]

(* The shorter row is the row in everything but that anchor.               *)
LEMMA ShorterShape ==
  ASSUME NEW row, WellFormedRow(row), NEW i \in Unresolved(row) \cup Refuted(row)
  PROVE  /\ Shorter(row, i).entry = row.entry /\ Shorter(row, i).checks = row.checks
         /\ DOMAIN Shorter(row, i).anchors = DOMAIN row.anchors \ {i}
         /\ \A j \in DOMAIN row.anchors \ {i} : Shorter(row, i).anchors[j] = row.anchors[j]
         /\ VerdictsOf(Shorter(row, i)) = Without(VerdictsOf(row), i)
         /\ Verified(VerdictsOf(Shorter(row, i))) = Verified(VerdictsOf(row))
         /\ Refuted(Shorter(row, i)) = Refuted(row) \ {i}
         /\ Unresolved(Shorter(row, i)) = Unresolved(row) \ {i}
         /\ i \in DOMAIN VerdictsOf(row) /\ VerdictsOf(row)[i] # "Valid"
<1> DEFINE s == Shorter(row, i)
           R == VerdictsOf(row)
<1>1. s.entry = row.entry /\ s.checks = row.checks /\ s.anchors = Without(row.anchors, i)
  BY DEF Shorter, WellFormedRow
<1>2. /\ DOMAIN s.anchors = DOMAIN row.anchors \ {i}
      /\ \A j \in DOMAIN row.anchors \ {i} : s.anchors[j] = row.anchors[j]
  BY <1>1 DEF Without
<1>3. DOMAIN R = DOMAIN row.anchors /\ i \in DOMAIN R /\ R[i] # "Valid"
  BY RowShape DEF Verified
<1> HIDE DEF s
<1>4. VerdictsOf(s) = Without(R, i)
  <2>1. VerdictsOf(s) = [j \in DOMAIN row.anchors \ {i} |-> ResultOf(row.anchors[j]).verdict]
    BY <1>2 DEF VerdictsOf
  <2>2. Without(R, i) = [j \in DOMAIN row.anchors \ {i} |-> ResultOf(row.anchors[j]).verdict]
    BY DEF Without, VerdictsOf
  <2> QED BY <2>1, <2>2
<1>5. Verified(VerdictsOf(s)) = Verified(R)
  <2> HIDE DEF R
  <2> QED BY <1>3, <1>4, SameVerified
<1>6. Refuted(s) = Refuted(row) \ {i}
  BY <1>2 DEF Refuted
<1>7. Unresolved(s) = Unresolved(row) \ {i}
  BY <1>2, <1>3, <1>5, <1>6 DEF Unresolved, Verified
<1> QED BY <1>1, <1>2, <1>3, <1>4, <1>5, <1>6, <1>7 DEF s

(* The errors of the shorter row are among those of the row.               *)
LEMMA ErrorsGrow ==
  ASSUME NEW row, WellFormedRow(row), row.entry = "Receipt", NEW p \in Policies,
         NEW i \in Unresolved(row) \cup Refuted(row)
  PROVE  /\ JsonErrors(Shorter(row, i), p).lead \subseteq JsonErrors(row, p).lead
         /\ JsonErrors(Shorter(row, i), p).details \subseteq JsonErrors(row, p).details
<1> DEFINE s == Shorter(row, i)
           R == VerdictsOf(row)
           c == row.checks
           some == Listed(s, Unresolved(s) \cup Refuted(s))
           all == Listed(row, Unresolved(row) \cup Refuted(row))
           short == JudgedRow(s, p)
           long == JudgedRow(row, p)
<1>1. long = Verdict(c, R, p) /\ short = Verdict(c, Without(R, i), p)
  BY ShorterShape DEF JudgedRow
<1>2. short = long \/ (short.status = "Valid" /\ long.status # "Valid")
  <2>1. i \in DOMAIN R /\ R[i] # "Valid" /\ c \in ReceiptChecks
    BY ShorterShape DEF WellFormedRow
  <2> HIDE DEF R, c, short, long
  <2>2. \/ Verdict(c, R, p) = Verdict(c, Without(R, i), p)
        \/ /\ Verdict(c, Without(R, i), p).status = "Valid"
           /\ Verdict(c, R, p) = Judgement("Untrusted", "AnchorQuorumUnmet")
    BY <2>1, FailedAnchorIsInert
  <2> QED BY <1>1, <2>2 DEF Judgement
<1>3. some \subseteq all
  <2>1. /\ \A j \in DOMAIN row.anchors \ {i} : s.anchors[j] = row.anchors[j]
        /\ Refuted(s) = Refuted(row) \ {i} /\ Unresolved(s) = Unresolved(row) \ {i}
    BY ShorterShape
  <2>2. Unresolved(row) \cup Refuted(row) \subseteq DOMAIN row.anchors
    BY RowShape
  <2> HIDE DEF s
  <2> QED BY <2>1, <2>2 DEF Listed
<1>4. /\ JsonErrors(s, p) = IF short.status = "Valid" THEN NoErrors
                            ELSE [lead |-> {short.reason},
                                  details |-> {<<f.place, f.reason>> : f \in some}]
      /\ JsonErrors(row, p) = IF long.status = "Valid" THEN NoErrors
                              ELSE [lead |-> {long.reason},
                                    details |-> {<<f.place, f.reason>> : f \in all}]
  BY DEF JsonErrors
<1>5. NoErrors.lead = {} /\ NoErrors.details = {}
  BY DEF NoErrors
<1> HIDE DEF s, short, long, some, all
<1>6. CASE short.status = "Valid"
  BY <1>4, <1>5, <1>6 DEF s
<1>7. CASE short.status # "Valid"
  <2>1. short = long
    BY <1>2, <1>7
  <2>2. /\ JsonErrors(s, p).lead = {long.reason} /\ JsonErrors(row, p).lead = {long.reason}
        /\ JsonErrors(s, p).details = {<<f.place, f.reason>> : f \in some}
        /\ JsonErrors(row, p).details = {<<f.place, f.reason>> : f \in all}
    BY <1>4, <1>7, <2>1
  <2>3. {<<f.place, f.reason>> : f \in some} \subseteq {<<f.place, f.reason>> : f \in all}
    BY <1>3
  <2> QED BY <2>2, <2>3 DEF s
<1> QED BY <1>6, <1>7

(* Nothing that describes the trust in the receipt differs; one anchor     *)
(* more is presented.                                                      *)
LEMMA TrustUnmoved ==
  ASSUME NEW row, WellFormedRow(row), NEW p \in Policies,
         NEW i \in Unresolved(row) \cup Refuted(row)
  PROVE  LET s == Shorter(row, i)
             short == Assessment(s, p)
             long == Assessment(row, p)
         IN /\ AnchorStatus(s).state = AnchorStatus(row).state
            /\ AnchorStatus(s).verified = AnchorStatus(row).verified
            /\ short.evidence.established = long.evidence.established
            /\ short.evidence.verified = long.evidence.verified
            /\ short.evidence.refutedBy = long.evidence.refutedBy
            /\ short.quorum.maxTrust = long.quorum.maxTrust
            /\ long.evidence.presented = short.evidence.presented + 1
<1> DEFINE s == Shorter(row, i)
           R == VerdictsOf(row)
           W == VerdictsOf(s)
           c == row.checks
           F == [j \in DOMAIN row.anchors |-> Facts(row.anchors[j])]
           G == [j \in DOMAIN s.anchors |-> Facts(s.anchors[j])]
<1>1. /\ s.checks = c /\ W = Without(R, i) /\ Verified(W) = Verified(R)
      /\ DOMAIN s.anchors = DOMAIN row.anchors \ {i}
      /\ \A j \in DOMAIN row.anchors \ {i} : s.anchors[j] = row.anchors[j]
      /\ i \in DOMAIN R /\ R[i] # "Valid"
  BY ShorterShape
<1>2. DOMAIN R = DOMAIN row.anchors /\ IsFiniteSet(DOMAIN row.anchors)
  BY RowShape
<1>3. c \in ReceiptChecks
  BY DEF WellFormedRow
<1>4. /\ AnchorStatus(s).state = AnchorStatus(row).state
      /\ AnchorStatus(s).verified = AnchorStatus(row).verified
  <2>1. Verified(VerdictsOf(s)) = Verified(VerdictsOf(row))
    BY <1>1
  <2> HIDE DEF s
  <2> QED BY <2>1 DEF AnchorStatus
<1>5. EvidenceEstablished(c, W) = EvidenceEstablished(c, R)
  <2> HIDE DEF R, W, c
  <2> QED BY <1>1 DEF EvidenceEstablished
<1>6. MaxTrustProfile(c, G, W) = MaxTrustProfile(c, F, R)
  <2>1. \A j \in Verified(R) : F[j].kind = G[j].kind
    <3>1. Verified(R) \subseteq DOMAIN row.anchors \ {i}
      <4> HIDE DEF R
      <4> QED BY <1>1, <1>2 DEF Verified
    <3> HIDE DEF s, R
    <3> QED BY <1>1, <3>1
  <2> HIDE DEF R, W, c, F, G
  <2> QED BY <1>1, <2>1 DEF MaxTrustProfile
<1>7. Cardinality(DOMAIN row.anchors) = Cardinality(DOMAIN s.anchors) + 1
  <2>1. i \in DOMAIN row.anchors
    BY <1>1, <1>2
  <2>2. /\ Cardinality(DOMAIN row.anchors \ {i}) = Cardinality(DOMAIN row.anchors) - 1
        /\ Cardinality(DOMAIN row.anchors) \in Nat
    BY <1>2, <2>1, FS_RemoveElement, FS_CardinalityType
  <2> HIDE DEF s
  <2> QED BY <1>1, <2>2
<1>8. RefutedBy(s) = RefutedBy(row)
  <2> HIDE DEF s
  <2> QED BY <1>1 DEF RefutedBy, c
<1>9. /\ Assessment(s, p).evidence =
           [established |-> EvidenceEstablished(s.checks, W), verified |-> Cardinality(Verified(W)),
            refuted |-> Cardinality(Refuted(s)), presented |-> Cardinality(DOMAIN s.anchors),
            refutedBy |-> RefutedBy(s)]
      /\ Assessment(s, p).quorum.maxTrust = MaxTrustProfile(s.checks, G, W)
  <2> HIDE DEF s
  <2> QED BY DEF Assessment
<1>10. /\ Assessment(row, p).evidence =
            [established |-> EvidenceEstablished(c, R), verified |-> Cardinality(Verified(R)),
             refuted |-> Cardinality(Refuted(row)), presented |-> Cardinality(DOMAIN row.anchors),
             refutedBy |-> RefutedBy(row)]
       /\ Assessment(row, p).quorum.maxTrust = MaxTrustProfile(c, F, R)
  BY DEF Assessment
<1> HIDE DEF s, R, W, c, F, G
<1> QED BY <1>1, <1>4, <1>5, <1>6, <1>7, <1>8, <1>9, <1>10 DEF s

-----------------------------------------------------------------------------
(* The run.                                                                *)

(* Every row of a run is well formed, and a single file's is a receipt.    *)
LEMMA RowsWellFormed ==
  ASSUME InputsInv
  PROVE  /\ \A k \in DOMAIN rows : WellFormedRow(rows[k])
         /\ policy \in Policies
         /\ ~directory =>
              /\ DOMAIN rows = {1} /\ WellFormedRow(rows[1])
              /\ rows[1].entry = "Receipt"
<1>1. CASE directory
  <2>1. PICK n \in 1..MaxRows : rows \in [1..n -> BatchRows]
    BY <1>1 DEF InputsInv
  <2>2. \A k \in DOMAIN rows : rows[k] \in BatchRows
    BY <2>1
  <2> QED BY <1>1, <2>2, RowsAssumption DEF InputsInv
<1>2. CASE ~directory
  <2>1. rows \in [1..1 -> SingleItems]
    BY <1>2 DEF InputsInv
  <2>2. DOMAIN rows = {1} /\ rows[1] \in SingleItems
    BY <2>1
  <2>3. \A k \in DOMAIN rows : rows[k] \in SingleItems
    BY <2>2
  <2> QED BY <2>2, <2>3, RowsAssumption DEF InputsInv
<1> QED BY <1>1, <1>2

(* What a run exits with, when it fails, is no success.                    *)
LEMMA FailureTyped ==
  ASSUME NEW judged, judged.status \in Statuses \ {"Valid"},
         NEW missing, missing \subseteq Missing
  PROVE  /\ Failure(judged, missing).code \in 1..3
         /\ Failure(judged, missing).missing \subseteq Missing
BY DEF Failure, ExitOf, Statuses

(* A batch's judgement is a status.                                        *)
LEMMA BatchTyped ==
  ASSUME NEW rs, NEW p
  PROVE  JudgedBatch(rs, p).status \in Statuses
BY DEF JudgedBatch, Judgement, Statuses

(* A run starts with nothing told.                                         *)
LEMMA InitIsSafe == Init => IInv
<1> SUFFICES ASSUME Init PROVE IInv
  OBVIOUS
<1>1. InputsInv
  <2>1. CASE directory
    <3>1. rows \in UNION {[1..n -> BatchRows] : n \in 1..MaxRows}
      BY <2>1 DEF Init
    <3> QED BY <2>1, <3>1 DEF Init, InputsInv
  <2>2. CASE ~directory
    BY <2>2 DEF Init, InputsInv
  <2> QED BY <2>1, <2>2
<1>2. told = {} /\ failure = {}
  BY DEF Init
<1> QED BY <1>1, <1>2 DEF IInv, ToldInv, FailureInv

(* Every step leaves the inputs alone and tells nothing but the report.    *)
LEMMA StepIsSafe == IInv /\ [Next]_vars => IInv'
<1> SUFFICES ASSUME IInv, [Next]_vars PROVE IInv'
  OBVIOUS
<1> USE DEF IInv
<1>1. CASE PrintSingle
  <2>1. /\ UNCHANGED <<form, policy, directory, rows, failure>> /\ phase' = "judge" /\ ~directory
    BY <1>1 DEF PrintSingle, inputs
  <2>2. InputsInv' /\ FailureInv'
    BY <2>1 DEF InputsInv, FailureInv
  <2>3. ToldInv'
    <3>1. /\ form = "quiet" => told' = {}
          /\ form = "json" => told' = {JsonSingleReport(rows[1])}
          /\ form = "human" => told' = {HumanSingleReport(rows[1])}
      BY <1>1 DEF PrintSingle
    <3>2. /\ JsonSingleReport(rows[1])' = JsonSingleReport(rows[1])
          /\ HumanSingleReport(rows[1])' = HumanSingleReport(rows[1])
      BY <2>1 DEF JsonSingleReport, HumanSingleReport
    <3>3. form \in {"human", "json", "quiet"}
      BY DEF InputsInv, Forms
    <3> QED BY <2>1, <3>1, <3>2, <3>3 DEF ToldInv
  <2> QED BY <2>2, <2>3
<1>2. CASE PrintBatch
  <2>1. /\ UNCHANGED <<form, policy, directory, rows, failure>> /\ phase' = "judge" /\ directory
    BY <1>2 DEF PrintBatch, inputs
  <2>2. InputsInv' /\ FailureInv'
    BY <2>1 DEF InputsInv, FailureInv
  <2>3. ToldInv'
    <3>1. /\ form = "quiet" => told' = {}
          /\ form = "json" => told' = {JsonBatchReport}
          /\ form = "human" => told' = {HumanBatchReport}
      BY <1>2 DEF PrintBatch
    <3>2. JsonBatchReport' = JsonBatchReport /\ HumanBatchReport' = HumanBatchReport
      BY <2>1 DEF JsonBatchReport, HumanBatchReport
    <3>3. form \in {"human", "json", "quiet"}
      BY DEF InputsInv, Forms
    <3> QED BY <2>1, <3>1, <3>2, <3>3 DEF ToldInv
  <2> QED BY <2>2, <2>3
<1>3. CASE JudgeSingle
  <2> DEFINE judged == JudgedRow(rows[1], policy)
             missing == {Headline(judged.reason)} \cup ErrorHint(rows[1], policy)
  <2>1. UNCHANGED <<form, policy, directory, rows, told>> /\ phase' = "done" /\ ~directory
    BY <1>3 DEF JudgeSingle, inputs
  <2>2. InputsInv' /\ ToldInv'
    BY <2>1 DEF InputsInv, ToldInv, JsonSingleReport, HumanSingleReport, JsonBatchReport,
                HumanBatchReport
  <2>3. FailureInv'
    <3>1. WellFormedRow(rows[1]) /\ policy \in Policies
      BY <2>1, RowsWellFormed
    <3>2. judged.status \in Statuses /\ missing \subseteq Missing
      BY <3>1, JudgedTyped, MissingTyped
    <3>3. failure' = IF judged.status = "Valid" THEN {}
                     ELSE IF judged.status = "Untrusted" THEN {Failure(judged, missing)}
                     ELSE {Failure(judged, {})}
      BY <1>3 DEF JudgeSingle
    <3> HIDE DEF judged, missing
    <3> QED BY <3>2, <3>3, FailureTyped DEF FailureInv
  <2> QED BY <2>2, <2>3
<1>4. CASE JudgeBatch
  <2> DEFINE judged == JudgedBatch(rows, policy)
             missing == {Headline(judged.reason), BatchDetail(judged.reason)}
  <2>1. UNCHANGED <<form, policy, directory, rows, told>> /\ phase' = "done" /\ directory
    BY <1>4 DEF JudgeBatch, inputs
  <2>2. InputsInv' /\ ToldInv'
    BY <2>1 DEF InputsInv, ToldInv, JsonSingleReport, HumanSingleReport, JsonBatchReport,
                HumanBatchReport
  <2>3. FailureInv'
    <3>1. judged.status \in Statuses
      BY BatchTyped
    <3>2. missing \subseteq Missing
      BY DEF Headline, Advice, BatchDetail, Missing
    <3>3. failure' = IF judged.status = "Valid" THEN {}
                     ELSE IF judged.status = "Untrusted" THEN {Failure(judged, missing)}
                     ELSE {Failure(judged, {})}
      BY <1>4 DEF JudgeBatch
    <3> HIDE DEF judged, missing
    <3> QED BY <3>1, <3>2, <3>3, FailureTyped DEF FailureInv
  <2> QED BY <2>2, <2>3
<1>5. CASE Exited \/ UNCHANGED vars
  <2>1. UNCHANGED <<form, policy, directory, rows, phase, told, failure>>
    BY <1>5 DEF Exited, vars
  <2>2. InputsInv' /\ FailureInv'
    BY <2>1 DEF InputsInv, FailureInv
  <2>3. /\ JsonSingleReport(rows[1])' = JsonSingleReport(rows[1])
        /\ HumanSingleReport(rows[1])' = HumanSingleReport(rows[1])
    BY <2>1 DEF JsonSingleReport, HumanSingleReport
  <2>4. JsonBatchReport' = JsonBatchReport /\ HumanBatchReport' = HumanBatchReport
    BY <2>1 DEF JsonBatchReport, HumanBatchReport
  <2>5. ToldInv'
    BY <2>1, <2>3, <2>4 DEF ToldInv
  <2> QED BY <2>2, <2>5
<1> QED BY <1>1, <1>2, <1>3, <1>4, <1>5 DEF Next

(* What a run was given never changes, and all it ever tells is the report *)
(* of exactly that.                                                        *)
THEOREM Inductive == Spec => []IInv
BY InitIsSafe, StepIsSafe, PTL DEF Spec
-----------------------------------------------------------------------------
(* What the invariant says of the reports.                                 *)

(* The report of a single file is of its receipt, and says only what the   *)
(* receipt's judgement says.                                               *)
LEMMA SingleReports ==
  ASSUME IInv, ~directory, NEW t \in told
  PROVE  /\ WellFormedRow(rows[1]) /\ DOMAIN rows = {1} /\ policy \in Policies
         /\ rows[1].entry = "Receipt"
         /\ t.status = JudgedRow(rows[1], policy).status
         /\ t.qualified = Gaps(rows[1], policy)
         /\ DOMAIN t.rows = {1}
         /\ \/ /\ form = "json" /\ t.rows[1] = JsonSingle(rows[1], policy)
               /\ t.headline = {} /\ t.hint = {} /\ t.anchors = {AnchorStatus(rows[1])}
            \/ /\ form = "human" /\ t.rows[1] = HumanSingle(rows[1], policy) /\ t.anchors = {}
               /\ t.headline = Only(t.status = "Untrusted",
                                    {Headline(JudgedRow(rows[1], policy).reason)})
               /\ t.hint = Only(t.status = "Untrusted", Hint(rows[1], policy))
<1>1. WellFormedRow(rows[1]) /\ DOMAIN rows = {1} /\ policy \in Policies /\ rows[1].entry = "Receipt"
  BY RowsWellFormed DEF IInv
<1>2. \/ form = "json" /\ t = JsonSingleReport(rows[1])
      \/ form = "human" /\ t = HumanSingleReport(rows[1])
  BY DEF IInv, ToldInv
<1>3. ASSUME t = JsonSingleReport(rows[1])
      PROVE  /\ t.status = JudgedRow(rows[1], policy).status
             /\ t.qualified = Gaps(rows[1], policy)
             /\ DOMAIN t.rows = {1} /\ t.rows[1] = JsonSingle(rows[1], policy)
             /\ t.headline = {} /\ t.hint = {} /\ t.anchors = {AnchorStatus(rows[1])}
  BY <1>3 DEF JsonSingleReport, Report
<1>4. ASSUME t = HumanSingleReport(rows[1])
      PROVE  /\ t.status = JudgedRow(rows[1], policy).status
             /\ t.qualified = Gaps(rows[1], policy)
             /\ DOMAIN t.rows = {1} /\ t.rows[1] = HumanSingle(rows[1], policy)
             /\ t.headline = Only(t.status = "Untrusted",
                                  {Headline(JudgedRow(rows[1], policy).reason)})
             /\ t.hint = Only(t.status = "Untrusted", Hint(rows[1], policy))
             /\ t.anchors = {}
  BY <1>4 DEF HumanSingleReport, Report
<1> QED BY <1>1, <1>2, <1>3, <1>4

(* The report of a directory is a row for every row, and qualified only by *)
(* the human renderer.                                                     *)
LEMMA BatchReports ==
  ASSUME IInv, directory, NEW t \in told
  PROVE  /\ \A k \in DOMAIN rows : WellFormedRow(rows[k])
         /\ policy \in Policies
         /\ t.status = JudgedBatch(rows, policy).status
         /\ DOMAIN t.rows = DOMAIN rows
         /\ t.hint = {} /\ t.anchors = {}
         /\ \/ /\ form = "json" /\ t.qualified = FALSE /\ t.headline = {}
               /\ \A k \in DOMAIN rows : t.rows[k] = JsonRow(rows[k], policy)
            \/ /\ form = "human"
               /\ t.qualified = (t.status = "Valid" /\ OverallQualified(rows, policy))
               /\ t.headline = Only(t.status = "Untrusted",
                                    {Headline(JudgedBatch(rows, policy).reason)})
               /\ \A k \in DOMAIN rows : t.rows[k] = HumanRow(rows[k], policy)
<1>1. (\A k \in DOMAIN rows : WellFormedRow(rows[k])) /\ policy \in Policies
  BY RowsWellFormed DEF IInv
<1>2. \/ form = "json" /\ t = JsonBatchReport
      \/ form = "human" /\ t = HumanBatchReport
  BY DEF IInv, ToldInv
<1>3. ASSUME t = JsonBatchReport
      PROVE  /\ t.status = JudgedBatch(rows, policy).status /\ t.qualified = FALSE
             /\ t.headline = {} /\ t.hint = {} /\ t.anchors = {} /\ DOMAIN t.rows = DOMAIN rows
             /\ \A k \in DOMAIN rows : t.rows[k] = JsonRow(rows[k], policy)
  BY <1>3 DEF JsonBatchReport, Report
<1>4. ASSUME t = HumanBatchReport
      PROVE  /\ t.status = JudgedBatch(rows, policy).status
             /\ t.qualified = (t.status = "Valid" /\ OverallQualified(rows, policy))
             /\ t.headline = Only(t.status = "Untrusted",
                                  {Headline(JudgedBatch(rows, policy).reason)})
             /\ t.hint = {} /\ t.anchors = {} /\ DOMAIN t.rows = DOMAIN rows
             /\ \A k \in DOMAIN rows : t.rows[k] = HumanRow(rows[k], policy)
  BY <1>4 DEF HumanBatchReport, Report
<1> QED BY <1>1, <1>2, <1>3, <1>4

(* The status of a receipt's anchors is of the right kind.                 *)
LEMMA AnchorStatusTyped ==
  ASSUME NEW row, WellFormedRow(row)
  PROVE  AnchorStatus(row) \in AnchorStatuses
<1>1. /\ IsFiniteSet(DOMAIN row.anchors)
      /\ Verified(VerdictsOf(row)) \subseteq DOMAIN row.anchors
  BY RowShape
<1>2. /\ Cardinality(DOMAIN row.anchors) \in Nat
      /\ Cardinality(Verified(VerdictsOf(row))) \in Nat
  BY <1>1, FS_Subset, FS_CardinalityType
<1> QED BY <1>2 DEF AnchorStatus, AnchorStatuses

(* The invariant contains the kinds of everything.                         *)
LEMMA Typed == IInv => TypeOK
<1> SUFFICES ASSUME IInv PROVE TypeOK
  OBVIOUS
<1>1. /\ form \in Forms /\ policy \in Policies /\ directory \in BOOLEAN
      /\ phase \in {"print", "judge", "done"}
  BY DEF IInv, InputsInv
<1>2. \A t \in told :
        /\ t.status \in Statuses /\ t.qualified \in BOOLEAN
        /\ t.headline \cup t.hint \subseteq Missing
        /\ t.anchors \subseteq AnchorStatuses
        /\ \A k \in DOMAIN t.rows : t.rows[k] \in ToldRow
  <2> TAKE t \in told
  <2>1. CASE ~directory
    <3>1. WellFormedRow(rows[1]) /\ policy \in Policies
      BY <2>1, SingleReports
    <3>2. t.status \in Statuses /\ t.qualified \in BOOLEAN
      BY <2>1, <3>1, SingleReports, JudgedTyped, GapsTyped
    <3>3. /\ Headline(JudgedRow(rows[1], policy).reason) \in Missing
          /\ Hint(rows[1], policy) \subseteq Missing
      BY <3>1, MissingTyped
    <3>4. t.headline \cup t.hint \subseteq Missing
      BY <2>1, <3>3, SingleReports DEF Only
    <3>5. t.anchors \subseteq AnchorStatuses
      BY <2>1, <3>1, SingleReports, AnchorStatusTyped
    <3>6. HumanSingle(rows[1], policy) \in ToldRow /\ JsonSingle(rows[1], policy) \in ToldRow
      BY <3>1, ToldTyped
    <3>7. \A k \in DOMAIN t.rows : t.rows[k] \in ToldRow
      BY <2>1, <3>6, SingleReports
    <3> QED BY <3>2, <3>4, <3>5, <3>7
  <2>2. CASE directory
    <3>1. t.status \in Statuses /\ t.qualified \in BOOLEAN
      BY <2>2, BatchReports, BatchTyped
    <3>2. Headline(JudgedBatch(rows, policy).reason) \in Missing
      BY DEF Headline, Advice, Missing
    <3>3. t.headline \cup t.hint \subseteq Missing /\ t.anchors = {}
      BY <2>2, <3>2, BatchReports DEF Only
    <3>4. \A k \in DOMAIN rows :
            HumanRow(rows[k], policy) \in ToldRow /\ JsonRow(rows[k], policy) \in ToldRow
      BY <2>2, BatchReports, ToldTyped
    <3>5. \A k \in DOMAIN t.rows : t.rows[k] \in ToldRow
      BY <2>2, <3>4, BatchReports
    <3> QED BY <3>1, <3>3, <3>5
  <2> QED BY <2>1, <2>2
<1>3. \A k \in DOMAIN rows : \A i \in DOMAIN rows[k].anchors : WellFormed(rows[k].anchors[i])
  BY RowsWellFormed DEF IInv, WellFormedRow
<1>4. \A k \in DOMAIN rows : \A i \in DOMAIN rows[k].anchors :
        LET a == rows[k].anchors[i]
        IN AnchorJson(a) \in AnchorObjects /\ (a.kind = "bitcoin_ots" => Details(a) \in BitcoinFacts)
  BY <1>3, ObjectTyped, DetailsTyped
<1>5. \A f \in failure : f.code \in 1..3 /\ f.missing \subseteq Missing
  BY DEF IInv, FailureInv
<1> QED BY <1>1, <1>2, <1>4, <1>5 DEF TypeOK

(* Everything a run tells or exits with is of the right kind: no anchor is *)
(* listed for a reason nobody thought of, and a failure exits with 1 to 3. *)
THEOREM TypeCorrect == Spec => []TypeOK
BY Inductive, Typed, PTL

(* Reasons and labels are a matter of each anchor by itself.               *)
LEMMA ReasonsFit == IInv => ReasonFitsVerdict
<1> SUFFICES ASSUME IInv PROVE ReasonFitsVerdict
  OBVIOUS
<1>1. \A k \in DOMAIN rows : \A i \in DOMAIN rows[k].anchors : WellFormed(rows[k].anchors[i])
  BY RowsWellFormed DEF IInv, WellFormedRow
<1> QED BY <1>1, Typed, NamesAgree DEF ReasonFitsVerdict

(* The reason an anchor is reported under is of the strength of its        *)
(* verdict, and its state, its trust_state and its status line, derived by *)
(* three tables, never part (verify/anchor.rs, output/json.rs,             *)
(* output/human.rs).                                                       *)
THEOREM ReasonsAlwaysFit == Spec => []ReasonFitsVerdict
BY Inductive, ReasonsFit, PTL
-----------------------------------------------------------------------------
(* What the reports promise.                                               *)

(* Only a single file's report has dates, and a plain one is verified.     *)
LEMMA DatesAreTrue == IInv => EstablishedIsTrue
<1> SUFFICES ASSUME IInv,
                    NEW t \in told, NEW k \in DOMAIN t.rows, NEW d \in t.rows[k].dates, d.plain
             PROVE  LET a == rows[k].anchors[d.place]
                    IN /\ Holds(Facts(a))
                       /\ a.kind = "bitcoin_ots" =>
                            \E b \in Blocks : /\ b.height = a.proof.height
                                              /\ b.root = a.proof.root
                                              /\ b.time * NanosPerSecond = d.time
  BY DEF EstablishedIsTrue
<1>1. CASE directory
  <2>1. HumanRow(rows[k], policy).dates = {} /\ JsonRow(rows[k], policy).dates = {}
    BY DEF HumanRow, JsonRow, Told
  <2> QED BY <1>1, <2>1, BatchReports
<1>2. CASE ~directory
  <2>1. WellFormedRow(rows[1]) /\ k = 1
    BY <1>2, SingleReports
  <2>2. /\ HumanSingle(rows[1], policy).dates \subseteq HumanDates(rows[1])
        /\ JsonSingle(rows[1], policy).dates = JsonDates(rows[1])
    BY DEF HumanSingle, JsonSingle, Told
  <2>3. d \in HumanDates(rows[1]) \cup JsonDates(rows[1])
    BY <1>2, <2>1, <2>2, SingleReports
  <2> DEFINE a == rows[1].anchors[d.place]
  <2>4. /\ d.place \in DOMAIN rows[1].anchors /\ IsVerified(a) /\ d.time \in TimesOf(a)
    BY <2>1, <2>3, DatesMean
  <2>5. WellFormed(a)
    BY <2>1, <2>4, RowShape
  <2>6. Holds(Facts(a))
    BY <2>4, <2>5, VerifiedAnchorHolds
  <2>7. a.kind = "bitcoin_ots" =>
          \E b \in Blocks : /\ b.height = a.proof.height /\ b.root = a.proof.root
                            /\ b.time * NanosPerSecond = d.time
    BY <2>4, <2>5, EstablishedTime
  <2> QED BY <2>1, <2>6, <2>7
<1> QED BY <1>1, <1>2

(* A time offered as established is that of an anchor that holds in fact;  *)
(* for Bitcoin, of an existing block with the height and the root the      *)
(* proof commits to (anchor_result_json, bitcoin_block_line).              *)
THEOREM EstablishedAlwaysTrue == Spec => []EstablishedIsTrue
BY Inductive, DatesAreTrue, PTL

(* The renderers agree on every row and every receipt.                     *)
LEMMA ReportsAgree == IInv => RenderersAgree
<1> SUFFICES ASSUME IInv PROVE RenderersAgree
  OBVIOUS
<1>1. CASE directory
  BY <1>1, RowsAgree DEF RenderersAgree
<1>2. CASE ~directory
  <2>1. WellFormedRow(rows[1])
    BY <1>2, RowsWellFormed DEF IInv
  <2> QED BY <1>2, <2>1, SinglesAgree DEF RenderersAgree
<1> QED BY <1>1, <1>2

(* The two renderers tell the same of the same result; the human one may   *)
(* stop early, and then says less (output/human.rs, output/json.rs).       *)
THEOREM RenderersAlwaysAgree == Spec => []RenderersAgree
BY Inductive, ReportsAgree, PTL

(* Objects are a matter of each anchor by itself, too.                     *)
LEMMA ObjectsAuditable == IInv => ObjectIsAuditable
<1> SUFFICES ASSUME IInv PROVE ObjectIsAuditable
  OBVIOUS
<1>1. \A k \in DOMAIN rows : \A i \in DOMAIN rows[k].anchors : WellFormed(rows[k].anchors[i])
  BY RowsWellFormed DEF IInv, WellFormedRow
<1> SUFFICES ASSUME NEW k \in DOMAIN rows, NEW i \in DOMAIN rows[k].anchors,
                    rows[k].anchors[i].kind = "bitcoin_ots"
             PROVE  LET o == AnchorJson(rows[k].anchors[i])
                        b == o.bitcoin
                    IN /\ o.verified <=> b.rootsMatch = {TRUE} /\ b.timeCheck = {"Matches"}
                       /\ o.state = "Refuted" <=>
                            \/ b.rootsMatch = {FALSE} \/ b.timeCheck = {"Contradicted"}
                            \/ HeightClaim(rows[k].anchors[i]) # "Attested"
                       /\ b.blockRoot # {} <=> b.timeCheck # {"NotCompared"}
                       /\ b.blockRoot # {} => b.rootsMatch # {} /\ b.sources >= 2
                       /\ b.blockHeight # {} => \E said \in b.said : said.height \in b.blockHeight
  BY DEF ObjectIsAuditable
<1> QED BY <1>1, ObjectDecides

(* The JSON object of a Bitcoin anchor says why its anchor came out as it  *)
(* did, and shows no block without its comparison and the sources that     *)
(* agreed on it (anchor_result_json, receipt_claim_lines).                 *)
THEOREM ObjectAlwaysAuditable == Spec => []ObjectIsAuditable
BY Inductive, ObjectsAuditable, PTL

(* A success is every row's, and the qualification any row's.              *)
LEMMA SuccessQualified == IInv => SuccessIsQualified
<1> SUFFICES ASSUME IInv, NEW t \in told,
                    form = "human", t.status = "Valid", ~t.qualified, NEW k \in DOMAIN rows
             PROVE  /\ rows[k].entry = "Receipt"
                    /\ Verified(VerdictsOf(rows[k])) = DOMAIN rows[k].anchors
  BY DEF SuccessIsQualified
<1>1. WellFormedRow(rows[k]) /\ policy \in Policies
  BY RowsWellFormed DEF IInv
<1>2. JudgedRow(rows[k], policy).status = "Valid" /\ ~Gaps(rows[k], policy)
  <2>1. CASE directory
    <3>1. \A l \in DOMAIN rows : WellFormedRow(rows[l])
      BY <2>1, BatchReports
    <3>2. t.status = JudgedBatch(rows, policy).status
      BY <2>1, BatchReports
    <3>3. JudgedRow(rows[k], policy).status = "Valid"
      BY <1>1, <3>1, <3>2, AcceptedBatch
    <3>4. ~OverallQualified(rows, policy)
      BY <2>1, BatchReports
    <3> QED BY <3>3, <3>4 DEF OverallQualified
  <2>2. CASE ~directory
    BY <2>2, SingleReports
  <2> QED BY <2>1, <2>2
<1> QED BY <1>1, <1>2, UnqualifiedMeans

(* A success the human report prints without qualification leaves nothing  *)
(* out: every anchor of every receipt was verified (print_receipt_status,  *)
(* print_batch_result).                                                    *)
THEOREM SuccessAlwaysQualified == Spec => []SuccessIsQualified
BY Inductive, SuccessQualified, PTL

(* Errors and trust are a matter of each receipt by itself.                *)
LEMMA AppendingAdds == IInv => AppendingOnlyAdds
<1> SUFFICES ASSUME IInv PROVE AppendingOnlyAdds
  OBVIOUS
<1>1. (\A k \in DOMAIN rows : WellFormedRow(rows[k])) /\ policy \in Policies
  BY RowsWellFormed DEF IInv
<1>2. ASSUME NEW k \in DOMAIN rows, rows[k].entry = "Receipt",
             NEW i \in Unresolved(rows[k]) \cup Refuted(rows[k])
      PROVE  LET shorter == [rows[k] EXCEPT !.anchors = Without(@, i)]
                 errors(row) == JsonErrors(row, policy)
                 axes(row)   == Assessment(row, policy)
                 trust(row)  == <<AnchorStatus(row).state, AnchorStatus(row).verified,
                                  axes(row).evidence.established, axes(row).evidence.verified,
                                  axes(row).evidence.refutedBy, axes(row).quorum.maxTrust>>
             IN /\ errors(shorter).lead \subseteq errors(rows[k]).lead
                /\ errors(shorter).details \subseteq errors(rows[k]).details
                /\ trust(shorter) = trust(rows[k])
                /\ axes(rows[k]).evidence.presented = axes(shorter).evidence.presented + 1
  <2>1. [rows[k] EXCEPT !.anchors = Without(@, i)] = Shorter(rows[k], i)
    BY DEF Shorter
  <2>2. WellFormedRow(rows[k]) /\ policy \in Policies
    BY <1>1
  <2>3. /\ JsonErrors(Shorter(rows[k], i), policy).lead \subseteq JsonErrors(rows[k], policy).lead
        /\ JsonErrors(Shorter(rows[k], i), policy).details
             \subseteq JsonErrors(rows[k], policy).details
    BY <1>2, <2>2, ErrorsGrow
  <2>4. LET s == Shorter(rows[k], i)
            short == Assessment(s, policy)
            long == Assessment(rows[k], policy)
        IN /\ AnchorStatus(s).state = AnchorStatus(rows[k]).state
           /\ AnchorStatus(s).verified = AnchorStatus(rows[k]).verified
           /\ short.evidence.established = long.evidence.established
           /\ short.evidence.verified = long.evidence.verified
           /\ short.evidence.refutedBy = long.evidence.refutedBy
           /\ short.quorum.maxTrust = long.quorum.maxTrust
           /\ long.evidence.presented = short.evidence.presented + 1
    BY <1>2, <2>2, TrustUnmoved
  <2> QED BY <2>1, <2>3, <2>4
<1> QED BY <1>2 DEF AppendingOnlyAdds

(* Whoever appends an anchor that fails only adds: errors grow, and of the *)
(* assessment nothing moves that describes the trust in the document       *)
(* (build_errors, build_assessment).                                       *)
THEOREM AppendingAlwaysAdds == Spec => []AppendingOnlyAdds
BY Inductive, AppendingAdds, PTL

(* A headline or a hint is given of an open verdict only.                  *)
LEMMA HintsTruthful == IInv => HintIsTruthful
<1> SUFFICES ASSUME IInv, ~directory, NEW t \in told, NEW m \in t.headline \cup t.hint
             PROVE  Lacks(rows[1], policy, m)
  BY DEF HintIsTruthful
<1>1. WellFormedRow(rows[1]) /\ policy \in Policies /\ rows[1].entry = "Receipt"
  BY SingleReports
<1>2. t.status = JudgedRow(rows[1], policy).status
  BY SingleReports
<1>3. /\ t.status = "Untrusted"
      /\ m \in {Headline(JudgedRow(rows[1], policy).reason)} \cup Hint(rows[1], policy)
  BY SingleReports DEF Only
<1> QED BY <1>1, <1>2, <1>3, HintMeans

(* What the report of a single file says is missing is what its receipt    *)
(* lacks (untrusted_headline, print_trust_hint).                           *)
THEOREM HintsAlwaysTruthful == Spec => []HintIsTruthful
BY Inductive, HintsTruthful, PTL
=============================================================================
