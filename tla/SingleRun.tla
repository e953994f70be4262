----------------------------- MODULE SingleRun -----------------------------
(***************************************************************************)
(* One `atl verify <file> <receipt>` from its flags to its exit code       *)
(* (commands/verify.rs, verify/single.rs, verify/online.rs): everything    *)
(* that needs no network is checked first, then the mode is settled, then  *)
(* each anchor the network can still settle is looked up in turn, then the *)
(* outcome is printed, and only then does the verdict become an exit code. *)
(*                                                                         *)
(* The environment chooses the flags, the files, what atl-core finds in    *)
(* them, whether the probe and the runtime succeed, and what each lookup   *)
(* answers.                                                                *)
(***************************************************************************)
EXTENDS VerifyCommand

CONSTANTS
  MaxAnchors,     \* bound on the anchors a receipt presents
  AnchorShapes,   \* the fact sets its anchors may have
  ReceiptShapes,  \* what may be found about the receipt itself
  NoExit          \* the process is still running

ASSUME ShapesAssumption ==
  /\ MaxAnchors \in Nat
  /\ AnchorShapes \subseteq FactSets
  /\ ReceiptShapes \subseteq ReceiptChecks
  /\ NoExit \notin ExitCodes

VARIABLES
  phase,     \* where the run is
  flag,      \* --offline, --online or neither
  policy,    \* the quorum the caller asked for
  checks,    \* what is found about the receipt
  facts,     \* what atl-core establishes about its anchors, by place
  results,   \* anchor_results, by place
  pending,   \* the places still to be looked up
  probed,    \* connectivity was probed
  asked,     \* the places a block was looked up for
  mode, deferred,
  printed,   \* what the renderer was given, once it was
  exit

inputs == <<flag, policy, checks, facts>>
vars == <<phase, flag, policy, checks, facts, results, pending, probed, asked,
          mode, deferred, printed, exit>>

Phases == {"validate", "trust", "verify", "settle", "online", "print", "judge", "done"}

Judged == Verdict(checks, VerdictsIn(results), policy)

Report ==
  [status   |-> Judged.status,
   evidence |-> EvidenceEstablished(checks, VerdictsIn(results)),
   coverage |-> CoverageComplete(checks, VerdictsIn(results)),
   maxTrust |-> MaxTrustProfile(checks, facts, VerdictsIn(results)),
   gaps     |-> AcceptedWithGaps(checks, VerdictsIn(results), policy),
   mode     |-> mode]

Reports == [status : Statuses, evidence : BOOLEAN, coverage : BOOLEAN,
            maxTrust : BOOLEAN, gaps : BOOLEAN, mode : Modes]

Places == 1..MaxAnchors

(* The results occupy the places of the anchors, or there are none yet;    *)
(* everything else is of the right kind (ProofVerdict, ModeOutcome).       *)
TypeOK ==
  /\ phase \in Phases
  /\ flag \in Flags
  /\ policy \in Policies
  /\ checks \in ReceiptShapes
  /\ \E n \in 0..MaxAnchors : facts \in [1..n -> AnchorShapes]
  /\ \/ DOMAIN results = {}
     \/ results \in [DOMAIN facts -> Results]
  /\ pending \subseteq Places
  /\ probed \in BOOLEAN
  /\ asked \subseteq Places
  /\ mode \in Modes
  /\ deferred \in Deferrals
  /\ printed \subseteq Reports
  /\ exit \in ExitCodes \cup {NoExit}

-----------------------------------------------------------------------------
Init ==
  /\ phase = "validate"
  /\ flag \in Flags
  /\ policy \in Policies
  /\ checks \in ReceiptShapes
  /\ facts \in UNION {[1..n -> AnchorShapes] : n \in 0..MaxAnchors}
  /\ results = << >>
  /\ pending = {}
  /\ probed = FALSE
  /\ asked = {}
  /\ mode = "Offline"
  /\ deferred = "None"
  /\ printed = {}
  /\ exit = NoExit

(* The paths exist and are both files; the trust material is loaded whole. *)
Proceed ==
  /\ \/ phase = "validate" /\ phase' = "trust"
     \/ phase = "trust" /\ phase' = "verify"
  /\ UNCHANGED <<inputs, results, pending, probed, asked, mode, deferred, printed, exit>>

(* A path is missing, or trust material does not load.                     *)
InputFails ==
  /\ phase \in {"validate", "trust"}
  /\ exit' = 2
  /\ phase' = "done"
  /\ UNCHANGED <<inputs, results, pending, probed, asked, mode, deferred, printed>>

(* verify_single returns an error: nothing is printed.                     *)
VerifyFails ==
  /\ phase = "verify"
  /\ \E error \in PairErrors : exit' = ErrorCode(error)
  /\ phase' = "done"
  /\ UNCHANGED <<inputs, results, pending, probed, asked, mode, deferred, printed>>

(* verify_single: every check that needs no network, on every anchor.      *)
VerifySingle ==
  /\ phase = "verify"
  /\ results' = OfflineResults(facts)
  /\ phase' = "settle"
  /\ UNCHANGED <<inputs, pending, probed, asked, mode, deferred, printed, exit>>

(* The mode, the probe it takes, and the work list of the pass it leads to. *)
SettleSingle ==
  /\ phase = "settle"
  /\ probed' = Probes(flag, PreparedPlaces(facts) # {})
  /\ \E connected, runtime \in BOOLEAN :
       LET settled == Settled(flag, PreparedPlaces(facts) # {}, connected, runtime)
       IN /\ mode' = settled.mode
          /\ deferred' = settled.deferred
          /\ pending' = IF settled.mode = "Online" THEN PreparedPlaces(facts) ELSE {}
          /\ phase' = IF settled.mode = "Online" THEN "online" ELSE "print"
  /\ UNCHANGED <<inputs, results, asked, printed, exit>>

(* The next anchor of the work list, in array order, is looked up and its  *)
(* result replaced.                                                        *)
LookUpNext ==
  /\ phase = "online"
  /\ \E i \in pending :
       /\ \A j \in pending : i <= j
       /\ \E lookup \in Lookups(facts[i].proof.height) :
            results' = [results EXCEPT ![i] = OnlineResult(facts[i].proof, lookup)]
       /\ pending' = pending \ {i}
       /\ asked' = asked \cup {i}
  /\ UNCHANGED <<phase, inputs, probed, mode, deferred, printed, exit>>

FinishOnline ==
  /\ phase = "online"
  /\ pending = {}
  /\ phase' = "print"
  /\ UNCHANGED <<inputs, results, pending, probed, asked, mode, deferred, printed, exit>>

(* A mutant of PrintResult: once an offline result is printed, the network *)
(* is tried again.                                                         *)
PrintAndRetry ==
  /\ phase = "print"
  /\ printed' = {Report}
  /\ phase' = IF mode = "Offline" /\ Probes(flag, PreparedPlaces(facts) # {})
              THEN "settle" ELSE "judge"
  /\ UNCHANGED <<inputs, results, pending, probed, asked, mode, deferred, exit>>

PrintResult ==
  /\ phase = "print"
  /\ printed' = {Report}
  /\ phase' = "judge"
  /\ UNCHANGED <<inputs, results, pending, probed, asked, mode, deferred, exit>>

Judge ==
  /\ phase = "judge"
  /\ exit' = ExitCode(Judged.status, deferred)
  /\ phase' = "done"
  /\ UNCHANGED <<inputs, results, pending, probed, asked, mode, deferred, printed>>

(* The process has exited.                                                 *)
Exited == phase = "done" /\ UNCHANGED vars

Next ==
  \/ Proceed
  \/ InputFails
  \/ VerifyFails
  \/ VerifySingle
  \/ SettleSingle
  \/ LookUpNext
  \/ FinishOnline
  \/ PrintResult
  \/ Judge
  \/ Exited

Spec == Init /\ [][Next]_vars

(* The program runs on, and every block lookup ends (BlockLookup's         *)
(* LookupEnds).                                                            *)
FairSpec == Spec /\ WF_vars(Next)

-----------------------------------------------------------------------------
(* Properties.                                                             *)

(* Exit 0 is the strongest statement the tool makes: the receipt's own     *)
(* checks all ran and held, nothing asked for was left undone, and the     *)
(* quorum is met by anchors that hold in fact, whatever one endpoint said  *)
(* (execute_single, SingleVerificationResult::verdict).                    *)
AcceptanceIsEarned ==
  exit = 0 =>
    /\ checks.hashMatches /\ checks.proofsHold
    /\ {"Refutation", "Inability"} \cap checks.findings = {}
    /\ deferred = "None"
    /\ DOMAIN facts # {}
    /\ IF policy = "AllAnchors" THEN \A i \in DOMAIN facts : Holds(facts[i])
                                ELSE \E i \in DOMAIN facts : Holds(facts[i])

(* A receipt that was verified and is refuted exits 1, and one that is not *)
(* never does, whatever the flags, the network and the anchors             *)
(* (ModeOutcome: an inability must never suppress a refutation).           *)
RefutationDecides ==
  phase = "done" /\ printed # {} =>
    (exit = 1 <=> ~checks.hashMatches \/ ~checks.proofsHold \/ "Refutation" \in checks.findings)

(* An anchor is accused only on facts of its own or on the header of a     *)
(* block that exists, never on one endpoint's word (anchor_from_lookup).   *)
AccusationIsEarned ==
  \A i \in DOMAIN results : results[i].verdict = "Invalid" =>
    \/ facts[i].refuted
    \/ \E b \in Blocks : /\ b.height = facts[i].proof.height
                         /\ \/ b.root # facts[i].proof.root
                            \/ b.time * NanosPerSecond # facts[i].proof.claim

(* Appending an anchor that fails verification takes nothing from a        *)
(* receipt: it changes neither status nor reason under SingleAnchor, and   *)
(* under AllAnchors it can only leave a quorum unmet that would have been  *)
(* met; no trust axis moves at all (SingleVerificationResult::verdict).    *)
AppendedAnchorIsInert ==
  \A i \in DOMAIN results : results[i].verdict # "Valid" =>
    LET R == VerdictsIn(results)
        without == Verdict(checks, Without(R, i), policy)
    IN /\ \/ Judged = without
          \/ /\ policy = "AllAnchors"
             /\ without.status = "Valid"
             /\ Judged = Judgement("Untrusted", "AnchorQuorumUnmet")
       /\ EvidenceEstablished(checks, R) = EvidenceEstablished(checks, Without(R, i))
       /\ MaxTrustProfile(checks, facts, R) = MaxTrustProfile(checks, facts, Without(R, i))

(* The network is touched only on behalf of an anchor it can settle, and   *)
(* never under --offline; an anchor refuted offline is never looked up     *)
(* (determine_mode_for_receipt, PreparedOts::from_facts).                  *)
TrafficIsNeeded ==
  /\ probed \/ asked # {} => flag # "offline" /\ PreparedPlaces(facts) # {}
  /\ asked \subseteq PreparedPlaces(facts)
  /\ asked # {} => probed

(* The mode that is printed is the one that was exercised: online means    *)
(* that every anchor the network can settle was looked up, offline that    *)
(* none was (ModeOutcome).                                                 *)
ModeIsExercised ==
  \A report \in printed :
    IF report.mode = "Online" THEN asked = PreparedPlaces(facts) /\ asked # {} ELSE asked = {}

(* What is printed agrees with itself and with the exit code: no trust     *)
(* axis stands beside a refuted receipt, acceptance has evidence, gaps are *)
(* admitted only under the lowered quorum, and only a deferred failure     *)
(* makes the exit code harsher than the printed status (single_error).     *)
ReportAgrees ==
  \A report \in printed :
    /\ report.status = "Invalid" => ~report.evidence /\ ~report.coverage /\ ~report.maxTrust
    /\ report.status = "Valid" => report.evidence /\ (report.gaps <=> ~report.coverage)
    /\ report.gaps => policy = "SingleAnchor"
    /\ exit # NoExit => \/ exit = ExitOf(report.status)
                        \/ exit = 2 /\ report.status = "Valid" /\ deferred # "None"

(* The time a confirmed anchor publishes is a count of nanoseconds that    *)
(* fits, although it is computed by a plain multiplication.                *)
PublishedTimeFits ==
  \A i \in DOMAIN results :
    results[i].verdict = "Valid" /\ results[i].header # NoHeader =>
      results[i].header.time * NanosPerSecond <= MaxNanos

(* What the offline pass decided, the online pass keeps: a refuted anchor  *)
(* stays refuted, a verified one verified, and an RFC 3161 anchor exactly  *)
(* as it was; so going online never costs a receipt its acceptance         *)
(* (verify_anchors_online).                                                *)
OnlineOnlyAdds ==
  [][phase = "online" =>
       /\ \A i \in DOMAIN facts :
            facts[i].refuted \/ facts[i].kind = "rfc3161" => results'[i] = results[i]
       /\ Verified(VerdictsIn(results)) \subseteq Verified(VerdictsIn(results'))
       /\ Judged.status = "Valid" => Judged'.status = "Valid"]_vars

(* The strengthening under which the invariants above are inductive.       *)

(* What a run has done at each point: nothing before the receipt is        *)
(* verified, and nothing more once it failed to be.                        *)
ProgressInv ==
  /\ (exit # NoExit) <=> (phase = "done")
  /\ phase \in {"validate", "trust", "verify", "settle", "online", "print"} => printed = {}
  /\ phase = "judge" => printed # {}
  /\ phase \in {"validate", "trust", "verify"} \/ (phase = "done" /\ printed = {}) =>
       DOMAIN results = {} /\ exit \in {NoExit, 1, 2} /\ ~probed
  /\ phase \in {"validate", "trust", "verify", "settle"} \/ (phase = "done" /\ printed = {}) =>
       asked = {} /\ pending = {} /\ mode = "Offline" /\ deferred = "None"

(* Once there are results, each is what the facts alone say, or what one   *)
(* answer to the question the proof asks makes of it.                      *)
ResultsInv ==
  phase \in {"settle", "online", "print", "judge"} \/ printed # {} =>
    /\ results \in [DOMAIN facts -> Results]
    /\ asked \subseteq PreparedPlaces(facts)
    /\ \A i \in DOMAIN facts :
         IF i \in asked
         THEN \E lookup \in Lookups(facts[i].proof.height) :
                results[i] = OnlineResult(facts[i].proof, lookup)
         ELSE results[i] = Result(VerdictFromFacts(facts[i]), NoHeader)

(* The work list and what was done of it make up the prepared places.      *)
TrafficInv ==
  /\ probed => flag # "offline" /\ PreparedPlaces(facts) # {}
  /\ mode = "Online" => probed
  /\ phase = "online" => /\ mode = "Online"
                        /\ asked \cup pending = PreparedPlaces(facts)
                        /\ asked \cap pending = {}
  /\ phase \in {"print", "judge", "done"} =>
       /\ pending = {}
       /\ asked = IF mode = "Online" THEN PreparedPlaces(facts) ELSE {}

PrintedInv ==
  /\ printed \subseteq {Report}
  /\ phase = "done" /\ printed # {} => exit = ExitCode(Judged.status, deferred)

IInv ==
  /\ TypeOK
  /\ ProgressInv
  /\ ResultsInv
  /\ TrafficInv
  /\ PrintedInv

(* Where the evidence stands for the caller.                               *)
Standing ==
  IF phase \in {"validate", "trust", "verify"} \/ (phase = "done" /\ printed = {})
  THEN "Unexamined"
  ELSE [Valid |-> "Accepted", Invalid |-> "Refuted", Untrusted |-> "Open",
        Error |-> "Failed"][Judged.status]

Contract == INSTANCE VerifyContract WITH standing <- Standing

(* The run keeps the promise of its exit code: what the network brings can *)
(* turn an open question into acceptance and nothing else, and there is    *)
(* one answer, for where the evidence stands at the end (execute_single).  *)
SingleKeepsContract == Contract!Spec
=============================================================================
