---------------------------- MODULE AnchorReport ----------------------------
(***************************************************************************)
(* What is said of one anchor (verify/anchor.rs, verify/online.rs, the     *)
(* anchor objects of output/json.rs and the anchor section of              *)
(* output/human.rs): the reason it is reported under, the facts shown      *)
(* beside it, and the names under which they are shown.                    *)
(*                                                                         *)
(* An anchor carries atl-core's findings in the order they were made, the  *)
(* time its token states, what the receipt itself states about its block,  *)
(* the heights its proof attests to, the proof that was selected for the   *)
(* stated height and, once online, the answer of its lookup.  A fact that  *)
(* may be absent is a set of at most one.                                  *)
(***************************************************************************)
EXTENDS VerifyCommand, Sequences, Functions

CONSTANTS
  NoTime,        \* a token that states no time
  NotLookedUp    \* an anchor no block was looked up for

-----------------------------------------------------------------------------
(* Reasons.                                                                *)

(* The refutations and the inabilities atl-core finds about an anchor, by  *)
(* the names reason_for_finding gives them.  The reason for a build that   *)
(* lacks an anchor type is left out: no released build does.               *)
RefutingFindings ==
  {"AnchorTargetInvalid", "AnchorHashMalformed", "AnchorTargetHashMismatch",
   "SuperProofMissing", "TsaTokenUnparsable", "TsaImprintMismatch",
   "TsaImprintMalformed", "CmsSignatureInvalid", "TsaTimestampingEkuInvalid",
   "TsaChainInvalidAtGenTime", "BitcoinOtsProofInvalid",
   "BitcoinClaimedHeightContradictsProof"}

(* What became of an anchor that is neither verified nor refuted, by its   *)
(* reason: the state tells what, if anything, a caller can do about it.    *)
StateOf ==
  [TsaRootNotTrusted            |-> "CryptographicallyConsistent",
   TsaChainIncomplete           |-> "Incomplete",
   TsaChainIndeterminate        |-> "Unevaluable",
   TsaImprintIndeterminate      |-> "Unevaluable",
   CmsSignatureIndeterminate    |-> "Unevaluable",
   TsaTimestampingEkuNotChecked |-> "Unevaluable",
   BitcoinBlockNotChecked       |-> "NotChecked",
   BitcoinBlockUnavailable      |-> "Unavailable",
   BitcoinSingleSourceOnly      |-> "Uncorroborated",
   BitcoinProvidersDisagree     |-> "Contested",
   BitcoinClaimedTimeUnreadable |-> "Unevaluable"]

Inabilities == DOMAIN StateOf

RefutingReasons ==
  RefutingFindings \cup {"BitcoinMerkleRootMismatch", "BitcoinClaimedTimeContradictsBlock"}

(* The places of an anchor's findings of some class, and the first of them. *)
FoundAt(a, class) == {k \in DOMAIN a.findings : a.findings[k] \in class}

FirstOf(a, class) ==
  a.findings[CHOOSE k \in FoundAt(a, class) : \A l \in FoundAt(a, class) : k <= l]

(* What atl-core's findings about an anchor come to.                       *)
Facts(a) ==
  [kind    |-> a.kind,
   refuted |-> FoundAt(a, RefutingFindings) # {},
   unable  |-> FoundAt(a, Inabilities) # {},
   proof   |-> a.proof]

(* A mutant of ReasonFromFacts: the first finding names the reason.        *)
FirstFinding(a) == IF a.findings = << >> THEN "None" ELSE a.findings[1]

(* The first refutation, or the first inability if nothing is refuted.     *)
ReasonFromFacts(a) ==
  IF FoundAt(a, RefutingFindings) # {} THEN FirstOf(a, RefutingFindings)
  ELSE IF FoundAt(a, Inabilities) # {} THEN FirstOf(a, Inabilities)
  ELSE "None"

ShortfallReason ==
  [Unavailable    |-> "BitcoinBlockUnavailable",
   Disagreement   |-> "BitcoinProvidersDisagree",
   Uncorroborated |-> "BitcoinSingleSourceOnly"]

TimeReason ==
  [Matches      |-> "None",
   Contradicted |-> "BitcoinClaimedTimeContradictsBlock",
   Unreadable   |-> "BitcoinClaimedTimeUnreadable"]

(* The root binds the proof to the block at all, so it is named first.     *)
ReasonFromLookup(p, lookup) ==
  IF lookup.kind \in DOMAIN ShortfallReason THEN ShortfallReason[lookup.kind]
  ELSE IF p.root # lookup.header.root THEN "BitcoinMerkleRootMismatch"
  ELSE TimeReason[CheckClaimedTime(p.claim, lookup.header.time)]

Reason(a) ==
  IF a.lookup = NotLookedUp THEN ReasonFromFacts(a) ELSE ReasonFromLookup(a.proof, a.lookup)

ResultOf(a) ==
  IF a.lookup = NotLookedUp THEN Result(VerdictFromFacts(Facts(a)), NoHeader)
  ELSE OnlineResult(a.proof, a.lookup)

IsVerified(a) == ResultOf(a).verdict = "Valid"

AnchorStates == {"Verified", "Refuted"} \cup {StateOf[r] : r \in Inabilities}

State(a) ==
  IF IsVerified(a) THEN "Verified"
  ELSE IF ResultOf(a).verdict = "Invalid" THEN "Refuted"
  ELSE StateOf[Reason(a)]

(* What the check of a timestamp token can leave open.                     *)
TokenInabilities ==
  {"TsaRootNotTrusted", "TsaChainIncomplete", "TsaChainIndeterminate",
   "TsaImprintIndeterminate", "CmsSignatureIndeterminate", "TsaTimestampingEkuNotChecked"}

(* The anchors a run can meet.  A token is looked up nowhere, and a proof  *)
(* only at the height it was selected for, the one the receipt states; it  *)
(* is refuted unasked exactly when it attests to no block of that height,  *)
(* an anchor whose proof was never decoded attesting to none.              *)
WellFormed(a) ==
  /\ a.findings \in Seq(RefutingFindings \cup Inabilities)
  /\ Facts(a) \in FactSets
  /\ a.stated \in Instants \cup {NoTime}
  /\ a.says \subseteq [height : Heights, time : Claims]
  /\ a.attests \subseteq Nat
  /\ a.lookup # NotLookedUp =>
       Prepared(Facts(a)) /\ a.lookup \in Lookups(a.proof.height)
  /\ a.kind = "rfc3161" => FoundAt(a, Inabilities) = FoundAt(a, TokenInabilities)
  /\ a.kind = "bitcoin_ots" =>
       /\ \E said \in [height : Heights, time : Claims] : a.says = {said}
       /\ Facts(a).refuted <=> \A said \in a.says : said.height \notin a.attests
       /\ a.proof # NoProof =>
            a.says = {[height |-> a.proof.height, time |-> a.proof.claim]}

-----------------------------------------------------------------------------
(* The facts shown beside a verdict.                                       *)

Only(condition, set) == IF condition THEN set ELSE {}

(* An anchor rejected before its payload was read has no facts to show.    *)
Unread == {"AnchorTargetInvalid", "AnchorHashMalformed", "AnchorTargetHashMismatch",
           "SuperProofMissing", "TsaTokenUnparsable", "BitcoinOtsProofInvalid"}

IsRead(a) == \A k \in DOMAIN a.findings : a.findings[k] \notin Unread

(* How many endpoints are named as having reported the block.              *)
SourcesOf(lookup) ==
  IF lookup = NotLookedUp THEN 0
  ELSE [Corroborated |-> 2, Disagreement |-> 2, Uncorroborated |-> 1, Unavailable |-> 0][lookup.kind]

(* AnchorDetails::Bitcoin: whose number each field is is in its name, and  *)
(* what was never fetched or compared is absent, not zero.                 *)
BitcoinFacts ==
  [said         : SUBSET [height : Heights, time : Claims],
   attests      : SUBSET Nat,
   proofHeight  : SUBSET Heights,
   computedRoot : SUBSET Roots,
   timeCheck    : {"Matches", "Contradicted", "NotCompared", "Unreadable"},
   blockTime    : SUBSET Seconds,
   blockRoot    : SUBSET Roots,
   rootsMatch   : SUBSET BOOLEAN,
   sources      : 0..2]

(* What the receipt says is shown even of a proof nobody could decode; the *)
(* height and root of the proof only once an attestation is selected.      *)
BitcoinDetails(a) ==
  [said          |-> a.says,
   attests       |-> a.attests,
   proofHeight   |-> IF a.proof = NoProof THEN {} ELSE {a.proof.height},
   computedRoot  |-> IF a.proof = NoProof THEN {} ELSE {a.proof.root},
   timeCheck     |-> "NotCompared",
   blockTime     |-> {},
   blockRoot     |-> {},
   rootsMatch    |-> {},
   sources       |-> SourcesOf(a.lookup)]

(* A mutant of Details: the root is compared first, and a mismatch ends    *)
(* the comparison.                                                         *)
DetailsRootFirst(a) ==
  LET header == ResultOf(a).header
      same   == a.proof.root = header.root
  IN IF header = NoHeader THEN BitcoinDetails(a)
     ELSE [BitcoinDetails(a) EXCEPT
             !.timeCheck  = IF same THEN CheckClaimedTime(a.proof.claim, header.time) ELSE @,
             !.blockTime  = {header.time},
             !.blockRoot  = {header.root},
             !.rootsMatch = {same}]

(* A header the sources agree on is compared in root and in time, and      *)
(* shown, whatever came of it; any other is not shown at all.              *)
Details(a) ==
  LET header == ResultOf(a).header
  IN IF header = NoHeader THEN BitcoinDetails(a)
     ELSE [BitcoinDetails(a) EXCEPT
             !.timeCheck  = CheckClaimedTime(a.proof.claim, header.time),
             !.blockTime  = {header.time},
             !.blockRoot  = {header.root},
             !.rootsMatch = {a.proof.root = header.root}]

(* The token's own time, or that of the block that confirms the proof.     *)
TimesOf(a) ==
  IF a.kind = "rfc3161" THEN {a.stated} \ {NoTime}
  ELSE Only(IsVerified(a), {s * NanosPerSecond : s \in Details(a).blockTime})

(* The label of a token that was read, from the reason and not the state.  *)
TrustState(a) ==
  IF a.kind # "rfc3161" \/ ~IsRead(a) THEN {}
  ELSE IF IsVerified(a) THEN {"trusted"}
  ELSE IF ResultOf(a).verdict = "Invalid" THEN {"failed"}
  ELSE IF Reason(a) = "TsaRootNotTrusted" THEN {"assumed"}
  ELSE IF Reason(a) \in {"TsaChainIndeterminate", "CmsSignatureIndeterminate",
                         "TsaImprintIndeterminate", "TsaTimestampingEkuNotChecked"}
  THEN {"indeterminate"}
  ELSE {"incomplete"}

-----------------------------------------------------------------------------
(* The anchor object of the JSON document.                                 *)

(* AnchorResultJson: the times an anchor establishes and those it merely   *)
(* asserts, or that were merely reported, go by different names.           *)
AnchorObjects ==
  [verified         : BOOLEAN,
   state            : AnchorStates,
   reason           : SUBSET (Inabilities \cup RefutingReasons),
   timestamp        : SUBSET Nat,
   claimedTimestamp : SUBSET Nat,
   trustState       : SUBSET {"trusted", "assumed", "incomplete", "indeterminate", "failed"},
   bitcoin          : [blockHeight : SUBSET Heights, blockTimestamp : SUBSET Seconds,
                       proofHeight : SUBSET Heights, reportedTimestamp : SUBSET Seconds,
                       said : SUBSET [height : Heights, time : Claims], attests : SUBSET Nat,
                       timeCheck : SUBSET {"Matches", "Contradicted", "NotCompared",
                                           "Unreadable"},
                       computedRoot : SUBSET Roots, blockRoot : SUBSET Roots,
                       rootsMatch : SUBSET BOOLEAN, sources : 0..2]]

(* A mutant of BitcoinJson: block_timestamp is there whenever a block was  *)
(* fetched.                                                                *)
BitcoinJsonBare(a) ==
  LET d           == Details(a)
      established == IsVerified(a)
  IN [blockHeight       |-> Only(established, d.proofHeight),
      blockTimestamp    |-> d.blockTime,
      proofHeight       |-> Only(~established, d.proofHeight),
      reportedTimestamp |-> {},
      said              |-> d.said,
      attests           |-> d.attests,
      timeCheck         |-> {d.timeCheck},
      computedRoot      |-> d.computedRoot,
      blockRoot         |-> d.blockRoot,
      rootsMatch        |-> d.rootsMatch,
      sources           |-> d.sources]

(* A plain name for what is established of this receipt, another for the   *)
(* proof's height and for the time of a block that dates nothing here.     *)
BitcoinJson(a) ==
  LET d           == Details(a)
      established == IsVerified(a)
  IN [blockHeight       |-> Only(established, d.proofHeight),
      blockTimestamp    |-> Only(established, d.blockTime),
      proofHeight       |-> Only(~established, d.proofHeight),
      reportedTimestamp |-> Only(~established, d.blockTime),
      said              |-> d.said,
      attests           |-> d.attests,
      timeCheck         |-> {d.timeCheck},
      computedRoot      |-> d.computedRoot,
      blockRoot         |-> d.blockRoot,
      rootsMatch        |-> d.rootsMatch,
      sources           |-> d.sources]

(* BitcoinJson::default().                                                 *)
NoBitcoin ==
  [blockHeight |-> {}, blockTimestamp |-> {}, proofHeight |-> {}, reportedTimestamp |-> {},
   said |-> {}, attests |-> {}, timeCheck |-> {}, computedRoot |-> {}, blockRoot |-> {},
   rootsMatch |-> {}, sources |-> 0]

AnchorJson(a) ==
  [verified         |-> IsVerified(a),
   state            |-> State(a),
   reason           |-> Only(~IsVerified(a), {Reason(a)}),
   timestamp        |-> Only(IsVerified(a), TimesOf(a)),
   claimedTimestamp |-> Only(~IsVerified(a), TimesOf(a)),
   trustState       |-> TrustState(a),
   bitcoin          |-> IF a.kind = "bitcoin_ots" THEN BitcoinJson(a) ELSE NoBitcoin]

-----------------------------------------------------------------------------
(* The lines of the human report.                                          *)

(* What is printed of the height the receipt states.                       *)
HeightClaim(a) ==
  IF a.attests = {} THEN "NotCompared"
  ELSE IF \E said \in a.says : said.height \in a.attests THEN "Attested"
  ELSE "Contradicted"

(* The status line goes by the token's label before it goes by the verdict. *)
StatusLine(a) ==
  LET label == TrustState(a)
  IN IF label = {"trusted"} THEN "TRUSTED"
     ELSE IF label = {"assumed"} THEN "NOT TRUSTED (root not supplied)"
     ELSE IF label = {"incomplete"} THEN "NOT TRUSTED (chain incomplete)"
     ELSE IF label = {"indeterminate"} THEN "NOT TRUSTED (could not be checked)"
     ELSE IF IsVerified(a) THEN "VALID"
     ELSE IF ResultOf(a).verdict = "Invalid" THEN "FAILED"
     ELSE "NOT CONFIRMED"

=============================================================================
