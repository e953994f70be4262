------------------------------- MODULE Output -------------------------------
(***************************************************************************)
(* What a run tells its caller (output/human.rs, output/json.rs, the       *)
(* errors of commands/verify.rs): the reason an anchor is reported under,  *)
(* the times that are published, the line a run ends on, and what is said  *)
(* to be missing.  Wording is abstracted to what it asserts.               *)
(*                                                                         *)
(* A run gets here with its receipts judged.  `rows` are those of a        *)
(* directory, or the only one of a single file; their anchors carry        *)
(* atl-core's findings and, once online, the answer of their lookup.       *)
(***************************************************************************)
EXTENDS AnchorReport, FiniteSets

CONSTANTS
  SingleItems,   \* the receipts a single-file run may have judged
  BatchRows,     \* the rows a directory may have led to
  MaxRows        \* the most rows a directory leads to

-----------------------------------------------------------------------------
(* Rows.                                                                   *)

Entries == {"Receipt", "Error", "NoReceipt", "NoSource"}

(* Only a receipt that was judged has anchors.                             *)
WellFormedRow(row) ==
  /\ DOMAIN row = {"entry", "checks", "anchors"}
  /\ row.entry \in Entries /\ row.checks \in ReceiptChecks
  /\ row.anchors \in Seq(Range(row.anchors))
  /\ \A i \in DOMAIN row.anchors : WellFormed(row.anchors[i])
  /\ row.entry # "Receipt" => row.anchors = << >>

(* A single file is one receipt.                                           *)
ASSUME RowsAssumption ==
  /\ \A row \in SingleItems \cup BatchRows : WellFormedRow(row)
  /\ \A row \in SingleItems : row.entry = "Receipt"
  /\ MaxRows \in Nat

VerdictsOf(row) == [i \in DOMAIN row.anchors |-> ResultOf(row.anchors[i]).verdict]

Refuted(row) == {i \in DOMAIN row.anchors : State(row.anchors[i]) = "Refuted"}
Unresolved(row) == DOMAIN row.anchors \ (Verified(VerdictsOf(row)) \cup Refuted(row))

JudgedRow(row, policy) ==
  IF row.entry = "Receipt" THEN Verdict(row.checks, VerdictsOf(row), policy)
  ELSE IF row.entry = "Error" THEN Judgement("Error", "BatchItemsErrored")
  ELSE Judgement("Untrusted", "BatchItemsUnmatched")

Gaps(row, policy) ==
  row.entry = "Receipt" /\ AcceptedWithGaps(row.checks, VerdictsOf(row), policy)

(* Refutations, then what could not be processed, then what could not be   *)
(* finished; an unmatched name first among those.  The consistency between *)
(* receipts, which never refutes a batch by itself, is BatchRun's.         *)
JudgedBatch(rows, policy) ==
  LET judged   == {JudgedRow(rows[k], policy) : k \in DOMAIN rows}
      statuses == {j.status : j \in judged}
      reasons  == {j.reason : j \in judged}
  IN IF "Invalid" \in statuses THEN Judgement("Invalid", "BatchItemsInvalid")
     ELSE IF "Error" \in statuses THEN Judgement("Error", "BatchItemsErrored")
     ELSE IF "BatchItemsUnmatched" \in reasons THEN Judgement("Untrusted", "BatchItemsUnmatched")
     ELSE IF "Untrusted" \in statuses THEN Judgement("Untrusted", "BatchItemsUntrusted")
     ELSE Judgement("Valid", "None")

-----------------------------------------------------------------------------
(* What is published about one receipt.                                    *)

(* A time, in nanoseconds; a plain one is offered as established, any      *)
(* other under a name or a remark that disclaims it.                       *)
Date(place, plain, time) == [place |-> place, plain |-> plain, time |-> time]

Nanos(seconds) == {s * NanosPerSecond : s \in seconds}

(* What print_anchor_details dates an anchor by: "Timestamp" or "Claimed   *)
(* genTime" of a token that was read; the block.                           *)
HumanTimes(a) ==
  IF a.kind = "bitcoin_ots" THEN Nanos(Details(a).blockTime) ELSE Only(IsRead(a), TimesOf(a))

(* A mutant of HumanDates: a block that was fetched is printed bare.       *)
HumanDatesBare(row) ==
  UNION {{Date(i, IsVerified(row.anchors[i]) \/ row.anchors[i].kind = "bitcoin_ots", t) :
            t \in HumanTimes(row.anchors[i])} : i \in DOMAIN row.anchors}

(* Plain, or with "not established" or "does NOT date this receipt".       *)
HumanDates(row) ==
  UNION {{Date(i, IsVerified(row.anchors[i]), t) : t \in HumanTimes(row.anchors[i])} :
           i \in DOMAIN row.anchors}

(* timestamp and block_timestamp; claimed_timestamp and                    *)
(* reported_block_timestamp.                                               *)
JsonDates(row) ==
  LET dates(i, o) ==
        {Date(i, TRUE, t) : t \in o.timestamp \cup Nanos(o.bitcoin.blockTimestamp)} \cup
        {Date(i, FALSE, t) : t \in o.claimedTimestamp \cup Nanos(o.bitcoin.reportedTimestamp)}
  IN UNION {dates(i, AnchorJson(row.anchors[i])) : i \in DOMAIN row.anchors}

(* The anchors at the given places, with their state and reason.           *)
Listed(row, places) ==
  {[place |-> i, state |-> State(row.anchors[i]), reason |-> Reason(row.anchors[i])] :
     i \in places}

(* Only the receipt's own refutation is ever named here.                   *)
RefutedBy(row) == Only(ReceiptRefuted(row.checks), {ReceiptRefutation(row.checks)})

(* What became of the anchors, in the one place a reader looks first.      *)
AnchorStatus(row) ==
  LET verified == Verified(VerdictsOf(row))
  IN [state     |-> IF verified = {} THEN "none_verified" ELSE "verified",
      verified  |-> Cardinality(verified),
      presented |-> Cardinality(DOMAIN row.anchors)]

(* The three axes, answered for a receipt without anchors as well.         *)
Assessment(row, policy) ==
  LET R       == VerdictsOf(row)
      F       == [i \in DOMAIN row.anchors |-> Facts(row.anchors[i])]
      count(places) == Cardinality(places)
  IN [evidence |->
        [established |-> EvidenceEstablished(row.checks, R), verified |-> count(Verified(R)),
         refuted |-> count(Refuted(row)), presented |-> count(DOMAIN row.anchors),
         refutedBy |-> RefutedBy(row)],
      quorum |->
        [satisfied |-> PolicySatisfied(row.checks, R, policy),
         maxTrust |-> MaxTrustProfile(row.checks, F, R)],
      coverage |->
        [complete |-> CoverageComplete(row.checks, R),
         acceptedWithGaps |-> Gaps(row, policy),
         unresolved |-> Listed(row, Unresolved(row)),
         refuted |-> Listed(row, Refuted(row))]]

Axes(row, policy) == Only(row.entry = "Receipt", {Assessment(row, policy)})

Told(judged, qualified, listed, dates, axes) ==
  [status |-> judged.status, reason |-> judged.reason, qualified |-> qualified,
   listed |-> listed, dates |-> dates, axes |-> axes]

(* The human report of one file stops at a hash that does not match.       *)
HumanSingle(row, policy) ==
  LET told(places, dates, axes) ==
        Told(JudgedRow(row, policy), Gaps(row, policy), Listed(row, places), dates, axes)
  IN IF row.checks.hashMatches
     THEN told(Unresolved(row) \cup Refuted(row), HumanDates(row), Axes(row, policy))
     ELSE told({}, {}, {})

JsonSingle(row, policy) ==
  Told(JudgedRow(row, policy), Gaps(row, policy),
       Listed(row, Unresolved(row) \cup Refuted(row)), JsonDates(row), Axes(row, policy))

(* A row of the human table names unresolved anchors only.                 *)
HumanRow(row, policy) ==
  Told(JudgedRow(row, policy), Gaps(row, policy), Listed(row, Unresolved(row)), {}, {})

JsonRow(row, policy) ==
  Told(JudgedRow(row, policy), Gaps(row, policy),
       Listed(row, Unresolved(row) \cup Refuted(row)), {}, Axes(row, policy))

(* A mutant of OverallQualified: refuted anchors are no gap.               *)
QualifiedByUnresolved(rows, policy) ==
  \E k \in DOMAIN rows : Gaps(rows[k], policy) /\ Unresolved(rows[k]) # {}

(* The last line of a batch admits that some row was accepted with gaps.   *)
OverallQualified(rows, policy) == \E k \in DOMAIN rows : Gaps(rows[k], policy)

NoErrors == [lead |-> {}, details |-> {}]

(* A mutant of JsonErrors: a failed anchor's reason leads.                 *)
JsonErrorsLedByAnchor(row, policy) ==
  LET failed == Listed(row, Unresolved(row) \cup Refuted(row))
      judged == JudgedRow(row, policy)
      first  == {f \in failed : \A g \in failed : f.place <= g.place}
  IN IF judged.status = "Valid" THEN NoErrors
     ELSE [lead    |-> IF first = {} THEN {judged.reason} ELSE {f.reason : f \in first},
           details |-> {<<f.place, f.reason>> : f \in failed}]

(* The receipt's reason leads and every anchor that did not verify         *)
(* follows; an accepted receipt has no errors.                             *)
JsonErrors(row, policy) ==
  LET failed == Listed(row, Unresolved(row) \cup Refuted(row))
      judged == JudgedRow(row, policy)
  IN IF judged.status = "Valid" THEN NoErrors
     ELSE [lead    |-> {judged.reason},
           details |-> {<<f.place, f.reason>> : f \in failed}]

-----------------------------------------------------------------------------
(* What is said to be missing.                                             *)

Missing == {"NoneVerified", "NoAnchors", "Quorum", "TrustMaterial", "Network",
            "Sources", "Verifier", "Unmatched"}

(* A reason without an arm of its own is put down to trust material.       *)
Advice(arms, reason) == IF reason \in DOMAIN arms THEN arms[reason] ELSE "TrustMaterial"

(* The headline of an untrusted outcome.                                   *)
Headline(reason) ==
  Advice([ReceiptUnanchored      |-> "NoneVerified",
          AnchorQuorumUnmet      |-> "Quorum",
          ReceiptCheckIncomplete |-> "Verifier",
          BatchItemsUnmatched    |-> "Unmatched"], reason)

(* What the human hint says of an unresolved anchor, by its reason.        *)
HintOn ==
  [TsaRootNotTrusted            |-> "TrustMaterial",
   TsaChainIncomplete           |-> "TrustMaterial",
   TsaChainIndeterminate        |-> "Verifier",
   TsaImprintIndeterminate      |-> "Verifier",
   CmsSignatureIndeterminate    |-> "Verifier",
   TsaTimestampingEkuNotChecked |-> "Verifier",
   BitcoinBlockNotChecked       |-> "Network",
   BitcoinBlockUnavailable      |-> "Network",
   BitcoinSingleSourceOnly      |-> "Network",
   BitcoinProvidersDisagree     |-> "Sources",
   BitcoinClaimedTimeUnreadable |-> "Verifier"]

(* The error's hint has no arm for a time this build cannot read.          *)
ErrorHintOn == Restrict(HintOn, DOMAIN HintOn \ {"BitcoinClaimedTimeUnreadable"})

(* The quorum, the absence of anchors, or else each unresolved anchor.     *)
HintBy(arms, row, policy) ==
  IF JudgedRow(row, policy).reason = "AnchorQuorumUnmet" THEN {"Quorum"}
  ELSE IF DOMAIN row.anchors = {} THEN {"NoAnchors"}
  ELSE {Advice(arms, Reason(row.anchors[i])) : i \in Unresolved(row)}

(* A mutant of Hint: corroboration has no arms of its own.                 *)
HintWithoutCorroboration(row, policy) ==
  HintBy(Restrict(HintOn, DOMAIN HintOn \ {"BitcoinSingleSourceOnly", "BitcoinProvidersDisagree"}),
         row, policy)

Hint(row, policy) == HintBy(HintOn, row, policy)

(* Without any: "no anchor reached a configured trust root".               *)
ErrorHint(row, policy) ==
  LET hints == HintBy(ErrorHintOn, row, policy)
  IN IF hints = {} THEN {"TrustMaterial"} ELSE hints

(* Anything but unmatched names is put down to trust roots.                *)
BatchDetail(reason) == IF reason = "BatchItemsUnmatched" THEN "Unmatched" ELSE "TrustMaterial"

(* It is in fact what this row lacks.                                      *)
Lacks(row, policy, missing) ==
  LET verified      == Verified(VerdictsOf(row))
      some(states)  == \E i \in DOMAIN row.anchors : State(row.anchors[i]) \in states
  IN \/ missing = "NoneVerified" /\ verified = {}
     \/ missing = "NoAnchors" /\ DOMAIN row.anchors = {}
     \/ missing = "Quorum" /\ policy = "AllAnchors" /\ verified # {} /\ Unresolved(row) \cup Refuted(row) # {}
     \/ missing = "TrustMaterial" /\ some({"CryptographicallyConsistent", "Incomplete"})
     \/ missing = "Network" /\ some({"NotChecked", "Unavailable", "Uncorroborated"})
     \/ missing = "Sources" /\ some({"Contested"})
     \/ missing = "Verifier" /\ (some({"Unevaluable"}) \/ ReceiptInability(row.checks))
     \/ missing = "Unmatched" /\ row.entry \in {"NoReceipt", "NoSource"}

-----------------------------------------------------------------------------
(* The run's last steps: it prints, unless it is quiet, and exits.         *)

VARIABLES
  form,       \* how the result is rendered
  policy,     \* the quorum the caller asked for
  directory,  \* the run is a batch
  rows,       \* what was judged
  phase,      \* what is left to do
  told,       \* the report, once there is one
  failure     \* the error the process exits with, if it does

inputs == <<form, policy, directory, rows>>
vars == <<form, policy, directory, rows, phase, told, failure>>

Forms == {"human", "json", "quiet"}

(* No anchor was looked up, or every one the network could settle.         *)
OnePass(rs) ==
  LET anchors == UNION {{rs[k].anchors[i] : i \in DOMAIN rs[k].anchors} : k \in DOMAIN rs}
  IN \/ \A a \in anchors : a.lookup = NotLookedUp
     \/ \A a \in anchors : a.lookup = NotLookedUp <=> ~Prepared(Facts(a))

Init ==
  /\ directory \in BOOLEAN
  /\ rows \in {rs \in (IF directory THEN UNION {[1..n -> BatchRows] : n \in 1..MaxRows}
                                    ELSE [1..1 -> SingleItems]) : OnePass(rs)}
  /\ form \in Forms
  /\ policy \in Policies
  /\ phase = "print"
  /\ told = {}
  /\ failure = {}

Report(judged, qualified, toldRows, headline, hint, errors, anchors) ==
  [status |-> judged.status, reason |-> judged.reason, qualified |-> qualified,
   rows |-> toldRows, headline |-> headline, hint |-> hint, errors |-> errors,
   anchors |-> anchors]

(* build_single_result_json.                                               *)
JsonSingleReport(row) ==
  Report(JudgedRow(row, policy), Gaps(row, policy), <<JsonSingle(row, policy)>>, {}, {},
         JsonErrors(row, policy), {AnchorStatus(row)})

(* An outcome that was not reached ends on what it lacks.                  *)
HumanSingleReport(row) ==
  LET judged    == JudgedRow(row, policy)
      untrusted == judged.status = "Untrusted"
  IN Report(judged, Gaps(row, policy), <<HumanSingle(row, policy)>>,
            Only(untrusted, {Headline(judged.reason)}), Only(untrusted, Hint(row, policy)),
            NoErrors, {})

(* A batch has no errors but its reason.                                   *)
JsonBatchReport ==
  LET judged == JudgedBatch(rows, policy)
  IN Report(judged, FALSE, [k \in DOMAIN rows |-> JsonRow(rows[k], policy)], {}, {},
            IF judged.status = "Valid" THEN NoErrors ELSE [lead |-> {judged.reason}, details |-> {}],
            {})

HumanBatchReport ==
  LET judged == JudgedBatch(rows, policy)
  IN Report(judged, judged.status = "Valid" /\ OverallQualified(rows, policy),
            [k \in DOMAIN rows |-> HumanRow(rows[k], policy)],
            Only(judged.status = "Untrusted", {Headline(judged.reason)}), {}, NoErrors, {})

(* output::print_single_result.                                            *)
PrintSingle ==
  /\ phase = "print" /\ ~directory
  /\ phase' = "judge"
  /\ told' = CASE form = "quiet" -> {}
              [] form = "json"  -> {JsonSingleReport(rows[1])}
              [] form = "human" -> {HumanSingleReport(rows[1])}
  /\ UNCHANGED <<inputs, failure>>

(* output::print_batch_result.                                             *)
PrintBatch ==
  /\ phase = "print" /\ directory
  /\ phase' = "judge"
  /\ told' = CASE form = "quiet" -> {}
              [] form = "json"  -> {JsonBatchReport}
              [] form = "human" -> {HumanBatchReport}
  /\ UNCHANGED <<inputs, failure>>

Failure(judged, missing) == [code |-> ExitOf(judged.status), missing |-> missing]

(* single_error.                                                           *)
JudgeSingle ==
  /\ phase = "judge" /\ ~directory
  /\ phase' = "done"
  /\ LET judged == JudgedRow(rows[1], policy)
     IN failure' =
          IF judged.status = "Valid" THEN {}
          ELSE IF judged.status = "Untrusted"
          THEN {Failure(judged, {Headline(judged.reason)} \cup ErrorHint(rows[1], policy))}
          ELSE {Failure(judged, {})}
  /\ UNCHANGED <<inputs, told>>

(* batch_error.                                                            *)
JudgeBatch ==
  /\ phase = "judge" /\ directory
  /\ phase' = "done"
  /\ LET judged == JudgedBatch(rows, policy)
     IN failure' =
          IF judged.status = "Valid" THEN {}
          ELSE IF judged.status = "Untrusted"
          THEN {Failure(judged, {Headline(judged.reason), BatchDetail(judged.reason)})}
          ELSE {Failure(judged, {})}
  /\ UNCHANGED <<inputs, told>>

(* The process has exited.                                                 *)
Exited == phase = "done" /\ UNCHANGED vars

Next == PrintSingle \/ PrintBatch \/ JudgeSingle \/ JudgeBatch \/ Exited

Spec == Init /\ [][Next]_vars

-----------------------------------------------------------------------------
(* Properties.                                                             *)

ToldAnchors ==
  SUBSET [place : Nat, state : AnchorStates \ {"Verified"},
          reason : Inabilities \cup RefutingReasons]

EvidenceAxis ==
  [established : BOOLEAN, verified : Nat, refuted : Nat, presented : Nat,
   refutedBy : SUBSET Refutations]

QuorumAxis == [satisfied : BOOLEAN, maxTrust : BOOLEAN]

CoverageAxis ==
  [complete : BOOLEAN, acceptedWithGaps : BOOLEAN, unresolved : ToldAnchors,
   refuted : ToldAnchors]

(* What a row can be judged for.                                           *)
RowReasons ==
  Refutations \cup {"None", "ReceiptCheckIncomplete", "ReceiptUnanchored", "AnchorQuorumUnmet",
                   "BatchItemsErrored", "BatchItemsUnmatched"}

ToldRow ==
  [status : Statuses, reason : RowReasons, qualified : BOOLEAN,
   listed : ToldAnchors,
   dates : SUBSET [place : Nat, plain : BOOLEAN, time : Nat],
   axes : SUBSET [evidence : EvidenceAxis, quorum : QuorumAxis, coverage : CoverageAxis]]

AnchorStatuses == [state : {"verified", "none_verified"}, verified : Nat, presented : Nat]

(* Everything is of the right kind; no anchor is listed as unresolved for  *)
(* a reason nobody thought of, or with a reason that is a receipt's        *)
(* (AnchorState::from_reason).                                             *)
TypeOK ==
  /\ form \in Forms /\ policy \in Policies /\ directory \in BOOLEAN
  /\ phase \in {"print", "judge", "done"}
  /\ \A t \in told :
       /\ t.status \in Statuses /\ t.qualified \in BOOLEAN
       /\ t.headline \cup t.hint \subseteq Missing
       /\ t.anchors \subseteq AnchorStatuses
       /\ \A k \in DOMAIN t.rows : t.rows[k] \in ToldRow
  /\ phase = "done" => \A k \in DOMAIN rows : \A i \in DOMAIN rows[k].anchors :
       LET a == rows[k].anchors[i]
       IN AnchorJson(a) \in AnchorObjects /\ (a.kind = "bitcoin_ots" => Details(a) \in BitcoinFacts)
  /\ \A f \in failure : f.code \in 1..3 /\ f.missing \subseteq Missing

(* A refuting reason exactly for an anchor that is refuted, none exactly   *)
(* for one that is verified.                                               *)
ReasonAgrees(a) ==
  /\ (Reason(a) = "None") <=> IsVerified(a)
  /\ (Reason(a) \in RefutingReasons) <=> (ResultOf(a).verdict = "Invalid")

(* The state and the trust_state of the JSON object and the status line of *)
(* the human report.                                                       *)
LabelsAgree(a) ==
  LET o == AnchorJson(a)
  IN /\ o.trustState # {} =>
          o.trustState = {[Verified |-> "trusted", CryptographicallyConsistent |-> "assumed",
                           Incomplete |-> "incomplete", Unevaluable |-> "indeterminate",
                           Refuted |-> "failed"][o.state]}
     /\ StatusLine(a) \in {"TRUSTED", "VALID"} <=> o.verified
     /\ StatusLine(a) = "FAILED" <=> o.state = "Refuted"

(* The reason an anchor is reported under is of the same strength as its   *)
(* verdict, and the three names it goes by, derived by three tables from   *)
(* the same verdict, never part (verdict_from_facts, anchor_from_lookup,   *)
(* AnchorState, AnchorVerificationResult::rfc3161_trust_state,             *)
(* print_anchor_status).                                                   *)
ReasonFitsVerdict ==
  /\ TypeOK
  /\ phase = "done" => \A k \in DOMAIN rows : \A i \in DOMAIN rows[k].anchors :
       ReasonAgrees(rows[k].anchors[i]) /\ LabelsAgree(rows[k].anchors[i])

(* A time that is published as established belongs to an anchor that holds *)
(* in fact; for Bitcoin it is that of an existing block with the height    *)
(* and root the proof commits to (anchor_result_json, bitcoin_block_line). *)
EstablishedIsTrue ==
  \A t \in told : \A k \in DOMAIN t.rows : \A d \in t.rows[k].dates :
    d.plain =>
      LET a == rows[k].anchors[d.place]
      IN /\ Holds(Facts(a))
         /\ a.kind = "bitcoin_ots" =>
              \E b \in Blocks : /\ b.height = a.proof.height
                                /\ b.root = a.proof.root
                                /\ b.time * NanosPerSecond = d.time

(* For the same result the two renderers report the same outcome, list the *)
(* same anchors under the same states and offer the same times as          *)
(* established; the human one says less where it stops early, of a batch's *)
(* rows and of a token it could not read, never anything else (the module  *)
(* comments of output/human.rs and output/mod.rs).                         *)
RenderersAgree ==
  IF directory
  THEN \A k \in DOMAIN rows :
         LET human == HumanRow(rows[k], policy)
             json  == JsonRow(rows[k], policy)
         IN /\ human.listed \subseteq json.listed
            /\ [human EXCEPT !.listed = json.listed, !.axes = json.axes] = json
  ELSE LET human == HumanSingle(rows[1], policy)
           json  == JsonSingle(rows[1], policy)
           plain(dates) == {d \in dates : d.plain}
       IN /\ human.dates \subseteq json.dates
          /\ IF rows[1].checks.hashMatches
             THEN /\ [human EXCEPT !.dates = json.dates] = json
                  /\ plain(human.dates) = plain(json.dates)
             ELSE [human EXCEPT !.listed = json.listed, !.dates = json.dates,
                                !.axes = json.axes] = json

(* The anchor object says why its anchor came out as it did: whether the   *)
(* block was compared, in root and in time, and whether the proof attests  *)
(* to the height the receipt states, tells verified from refuted from      *)
(* unfinished; and no block is shown without its comparison and the        *)
(* sources that agreed on it (anchor_result_json, receipt_claim_lines).    *)
ObjectIsAuditable ==
  phase = "done" /\ form = "json" => \A k \in DOMAIN rows : \A i \in DOMAIN rows[k].anchors :
    LET a == rows[k].anchors[i]
        o == AnchorJson(a)
        b == o.bitcoin
    IN a.kind = "bitcoin_ots" =>
         /\ o.verified <=> b.rootsMatch = {TRUE} /\ b.timeCheck = {"Matches"}
         /\ o.state = "Refuted" <=>
              \/ b.rootsMatch = {FALSE} \/ b.timeCheck = {"Contradicted"}
              \/ HeightClaim(a) # "Attested"
         /\ b.blockRoot # {} <=> b.timeCheck # {"NotCompared"}
         /\ b.blockRoot # {} => b.rootsMatch # {} /\ b.sources >= 2
         /\ b.blockHeight # {} => \E said \in b.said : said.height \in b.blockHeight

(* A success that is printed without qualification leaves nothing out:     *)
(* every anchor of every receipt was verified (print_receipt_status,       *)
(* print_batch_result).                                                    *)
SuccessIsQualified ==
  \A t \in told : form = "human" /\ t.status = "Valid" /\ ~t.qualified =>
    \A k \in DOMAIN rows :
      rows[k].entry = "Receipt" /\ Verified(VerdictsOf(rows[k])) = DOMAIN rows[k].anchors

(* Nobody who appends an anchor that fails gains anything by it.  The      *)
(* errors can only grow: the lead stays, unless there was none, and so     *)
(* does every detail (build_errors).  Of the assessment only what          *)
(* describes the document moves, and nothing that describes the trust in   *)
(* it: the verified count, whether evidence is established, what refuted   *)
(* the receipt and the profile (the documentation of `assessment` and of   *)
(* AnchorStatusJson).                                                      *)
AppendingOnlyAdds ==
  phase = "done" /\ form = "json" => \A k \in DOMAIN rows : rows[k].entry = "Receipt" =>
    \A i \in Unresolved(rows[k]) \cup Refuted(rows[k]) :
      LET shorter == [rows[k] EXCEPT !.anchors = Without(@, i)]
          errors(row) == JsonErrors(row, policy)
          axes(row)   == Assessment(row, policy)
          trust(row)  == <<AnchorStatus(row).state, AnchorStatus(row).verified,
                           axes(row).evidence.established, axes(row).evidence.verified, axes(row).evidence.refutedBy,
                           axes(row).quorum.maxTrust>>
      IN /\ errors(shorter).lead \subseteq errors(rows[k]).lead
         /\ errors(shorter).details \subseteq errors(rows[k]).details
         /\ trust(shorter) = trust(rows[k])
         /\ axes(rows[k]).evidence.presented = axes(shorter).evidence.presented + 1

(* What a single file's report says is missing is what it lacks: nobody is *)
(* sent after a certificate for want of a block, or to the network for     *)
(* want of a certificate (untrusted_headline, print_trust_hint).           *)
HintIsTruthful ==
  ~directory => \A t \in told : \A m \in t.headline \cup t.hint : Lacks(rows[1], policy, m)

(* Not so of a directory: the printed report names every refuted anchor    *)
(* (SingleVerificationResult::verdict: "is printed by both renderers").    *)
RefutedAnchorIsShown ==
  directory => \A t \in told : \A k \in DOMAIN rows :
    Refuted(rows[k]) \subseteq {shown.place : shown \in t.rows[k].listed}

(* Not so: the error says what the caller must supply, so that what it     *)
(* says is missing is what some receipt of the run lacks (trust_hint,      *)
(* batch_error).                                                           *)
ErrorIsTruthful ==
  \A f \in failure : \A m \in f.missing : \E k \in DOMAIN rows : Lacks(rows[k], policy, m)

-----------------------------------------------------------------------------
(* The inductive invariant: what a run was given stays as it was, and all  *)
(* that is ever told is the report of exactly that.                        *)

InputsInv ==
  /\ directory \in BOOLEAN /\ form \in Forms /\ policy \in Policies
  /\ phase \in {"print", "judge", "done"}
  /\ IF directory THEN \E n \in 1..MaxRows : rows \in [1..n -> BatchRows]
                  ELSE rows \in [1..1 -> SingleItems]

ToldInv ==
  \A t \in told :
    \/ ~directory /\ form = "json" /\ t = JsonSingleReport(rows[1])
    \/ ~directory /\ form = "human" /\ t = HumanSingleReport(rows[1])
    \/ directory /\ form = "json" /\ t = JsonBatchReport
    \/ directory /\ form = "human" /\ t = HumanBatchReport

FailureInv == \A f \in failure : f.code \in 1..3 /\ f.missing \subseteq Missing

IInv == InputsInv /\ ToldInv /\ FailureInv
=============================================================================
