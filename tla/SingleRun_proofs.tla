--------------------------- MODULE SingleRun_proofs ---------------------------
(***************************************************************************)
(* Proofs about SingleRun: its invariants and its action property follow   *)
(* from the inductive invariant IInv, for any blocks, any bound on the     *)
(* anchors and any findings.                                               *)
(***************************************************************************)
EXTENDS SingleRun, Verdicts_proofs

(* The facts of every place are well formed, and those of a prepared place *)
(* have a proof to compare.                                                *)
LEMMA FactsAtPlaces ==
  ASSUME TypeOK
  PROVE  /\ DOMAIN facts \subseteq Places
         /\ \A i \in DOMAIN facts : facts[i] \in FactSets
         /\ PreparedPlaces(facts) \subseteq DOMAIN facts
         /\ \A i \in PreparedPlaces(facts) :
              /\ facts[i].proof \in Proofs
              /\ VerdictFromFacts(facts[i]) = "Untrusted"
<1>1. PICK n \in 0..MaxAnchors : facts \in [1..n -> AnchorShapes]
  BY DEF TypeOK
<1>2. DOMAIN facts = 1..n /\ \A i \in DOMAIN facts : facts[i] \in FactSets
  BY <1>1, ShapesAssumption
<1>3. 1..n \subseteq Places
  BY <1>1, ShapesAssumption DEF Places
<1>4. PreparedPlaces(facts) \subseteq DOMAIN facts
  BY DEF PreparedPlaces
<1>5. ASSUME NEW i \in PreparedPlaces(facts)
      PROVE  facts[i].proof \in Proofs /\ VerdictFromFacts(facts[i]) = "Untrusted"
  <2>1. facts[i] \in FactSets /\ Prepared(facts[i])
    BY <1>2, <1>4 DEF PreparedPlaces
  <2>2. facts[i].unable /\ ~facts[i].refuted
    BY <2>1 DEF FactSets, Prepared
  <2>3. VerdictFromFacts(facts[i]) = "Untrusted"
    BY <2>2 DEF VerdictFromFacts
  <2> QED BY <2>1, <2>3, FactsDecide
<1> QED BY <1>2, <1>3, <1>4, <1>5

(* What is printed is well formed.                                         *)
LEMMA ReportIsTyped ==
  ASSUME TypeOK
  PROVE  Report \in Reports /\ Judged.status \in Statuses
<1>1. checks \in ReceiptChecks /\ policy \in Policies /\ mode \in Modes
  BY ShapesAssumption DEF TypeOK
<1>2. Judged.status \in Statuses
  BY <1>1, StatusMeans DEF Judged, Statuses
<1>3. /\ EvidenceEstablished(checks, VerdictsIn(results)) \in BOOLEAN
      /\ CoverageComplete(checks, VerdictsIn(results)) \in BOOLEAN
      /\ MaxTrustProfile(checks, facts, VerdictsIn(results)) \in BOOLEAN
      /\ AcceptedWithGaps(checks, VerdictsIn(results), policy) \in BOOLEAN
  BY DEF EvidenceEstablished, CoverageComplete, MaxTrustProfile, AcceptedWithGaps
<1> QED BY <1>1, <1>2, <1>3 DEF Report, Reports

-----------------------------------------------------------------------------
(* The initial states satisfy the inductive invariant.                     *)
LEMMA InitIsSafe == Init => IInv
<1> SUFFICES ASSUME Init PROVE IInv
  OBVIOUS
<1>1. \E n \in 0..MaxAnchors : facts \in [1..n -> AnchorShapes]
  BY DEF Init
<1>2. TypeOK
  <2>1. DOMAIN results = {}
    BY DEF Init
  <2>2. /\ phase \in Phases /\ mode \in Modes /\ deferred \in Deferrals
        /\ printed \subseteq Reports /\ exit \in ExitCodes \cup {NoExit}
    BY DEF Init, Phases, Modes, Deferrals
  <2>3. /\ flag \in Flags /\ policy \in Policies /\ checks \in ReceiptShapes
        /\ pending \subseteq Places /\ asked \subseteq Places /\ probed \in BOOLEAN
    BY DEF Init
  <2> QED BY <1>1, <2>1, <2>2, <2>3 DEF TypeOK
<1>3. ProgressInv
  BY DEF Init, ProgressInv
<1>4. ResultsInv /\ TrafficInv /\ PrintedInv
  BY DEF Init, ResultsInv, TrafficInv, PrintedInv
<1> QED BY <1>2, <1>3, <1>4 DEF IInv

(* Each step keeps the inductive invariant.                                *)
LEMMA StepIsSafe == IInv /\ [Next]_vars => IInv'
<1> SUFFICES ASSUME IInv, [Next]_vars PROVE IInv'
  OBVIOUS
<1> USE DEF inputs
<1>0. TypeOK /\ ProgressInv /\ ResultsInv /\ TrafficInv /\ PrintedInv
  BY DEF IInv
<1>1. /\ PreparedPlaces(facts) \subseteq DOMAIN facts
      /\ DOMAIN facts \subseteq Places
      /\ \A i \in DOMAIN facts : facts[i] \in FactSets
      /\ \A i \in PreparedPlaces(facts) : facts[i].proof \in Proofs
  BY <1>0, FactsAtPlaces
<1>2. Report \in Reports /\ Judged.status \in Statuses
  BY <1>0, ReportIsTyped
<1>3. CASE Proceed
  <2>1. TypeOK'
    BY <1>0, <1>3 DEF Proceed, TypeOK, Phases
  <2>2. ProgressInv'
    BY <1>0, <1>3 DEF Proceed, ProgressInv
  <2>3. ResultsInv' /\ TrafficInv' /\ PrintedInv'
    BY <1>0, <1>3 DEF Proceed, ProgressInv, ResultsInv, TrafficInv, PrintedInv
  <2> QED BY <2>1, <2>2, <2>3 DEF IInv
<1>4. CASE InputFails
  <2>1. TypeOK'
    BY <1>0, <1>4 DEF InputFails, TypeOK, Phases, ExitCodes
  <2>2. ProgressInv'
    BY <1>0, <1>4, ShapesAssumption DEF InputFails, ProgressInv, ExitCodes
  <2>3. ResultsInv' /\ TrafficInv' /\ PrintedInv'
    BY <1>0, <1>4 DEF InputFails, ProgressInv, ResultsInv, TrafficInv, PrintedInv
  <2> QED BY <2>1, <2>2, <2>3 DEF IInv
<1>5. CASE VerifyFails
  <2>1. exit' \in {1, 2}
    BY <1>5 DEF VerifyFails, ErrorCode
  <2>2. TypeOK'
    BY <1>0, <1>5, <2>1 DEF VerifyFails, TypeOK, Phases, ExitCodes
  <2>3. ProgressInv'
    BY <1>0, <1>5, <2>1, ShapesAssumption DEF VerifyFails, ProgressInv, ExitCodes
  <2>4. ResultsInv' /\ TrafficInv' /\ PrintedInv'
    BY <1>0, <1>5 DEF VerifyFails, ProgressInv, ResultsInv, TrafficInv, PrintedInv
  <2> QED BY <2>2, <2>3, <2>4 DEF IInv
<1>6. CASE VerifySingle
  <2>1. results' = [i \in DOMAIN facts |-> Result(VerdictFromFacts(facts[i]), NoHeader)]
    BY <1>6 DEF VerifySingle, OfflineResults
  <2>2. results' \in [DOMAIN facts -> Results]
    BY <1>1, <2>1, FactsDecide
  <2>3. TypeOK'
    BY <1>0, <1>6, <2>2 DEF VerifySingle, TypeOK, Phases
  <2>4. ProgressInv'
    BY <1>0, <1>6 DEF VerifySingle, ProgressInv
  <2>5. ResultsInv'
    BY <1>0, <1>6, <2>1, <2>2 DEF VerifySingle, ProgressInv, ResultsInv
  <2>6. TrafficInv' /\ PrintedInv'
    BY <1>0, <1>6 DEF VerifySingle, ProgressInv, TrafficInv, PrintedInv
  <2> QED BY <2>3, <2>4, <2>5, <2>6 DEF IInv
<1>7. CASE SettleSingle
  <2> DEFINE needs == PreparedPlaces(facts) # {}
  <2>1. PICK connected \in BOOLEAN, runtime \in BOOLEAN :
          /\ mode' = Settled(flag, needs, connected, runtime).mode
          /\ deferred' = Settled(flag, needs, connected, runtime).deferred
          /\ pending' = IF mode' = "Online" THEN PreparedPlaces(facts) ELSE {}
          /\ phase' = IF mode' = "Online" THEN "online" ELSE "print"
    BY <1>7 DEF SettleSingle
  <2>2. flag \in Flags /\ needs \in BOOLEAN
    BY <1>0 DEF TypeOK
  <2>3. mode' \in Modes /\ deferred' \in Deferrals /\ (mode' = "Online" => Probes(flag, needs))
    BY <2>1, <2>2, SettledMeans
  <2>4. probed' = Probes(flag, needs) /\ phase = "settle"
    BY <1>7 DEF SettleSingle
  <2>5. probed' \in BOOLEAN /\ (probed' => flag # "offline" /\ needs)
    BY <2>4 DEF Probes
  <2> HIDE DEF needs
  <2>6. UNCHANGED <<flag, policy, checks, facts, results, asked, printed, exit>>
    BY <1>7 DEF SettleSingle
  <2>7. TypeOK'
    BY <1>0, <1>1, <2>1, <2>3, <2>5, <2>6 DEF TypeOK, Phases
  <2>8. ProgressInv'
    BY <1>0, <2>1, <2>4, <2>6 DEF ProgressInv
  <2>9. ResultsInv'
    BY <1>0, <2>4, <2>6 DEF ResultsInv
  <2>10. TrafficInv'
    BY <1>0, <2>1, <2>3, <2>4, <2>5, <2>6 DEF TrafficInv, ProgressInv, needs, Modes
  <2>11. PrintedInv'
    BY <1>0, <2>1, <2>4, <2>6 DEF PrintedInv, ProgressInv
  <2> QED BY <2>7, <2>8, <2>9, <2>10, <2>11 DEF IInv
<1>8. CASE LookUpNext
  <2>1. /\ phase = "online"
        /\ UNCHANGED <<phase, flag, policy, checks, facts, probed, mode, deferred, printed, exit>>
    BY <1>8 DEF LookUpNext
  <2>2. PICK i \in pending :
          /\ \E lookup \in Lookups(facts[i].proof.height) :
               results' = [results EXCEPT ![i] = OnlineResult(facts[i].proof, lookup)]
          /\ pending' = pending \ {i}
          /\ asked' = asked \cup {i}
    BY <1>8 DEF LookUpNext
  <2>3. PICK lookup \in Lookups(facts[i].proof.height) :
          results' = [results EXCEPT ![i] = OnlineResult(facts[i].proof, lookup)]
    BY <2>2
  <2>4. /\ asked \cup pending = PreparedPlaces(facts)
        /\ asked \cap pending = {}
        /\ mode = "Online"
    BY <1>0, <2>1 DEF TrafficInv
  <2>5. i \in DOMAIN facts /\ OnlineResult(facts[i].proof, lookup) \in Results
    BY <1>1, <2>4, LookupDecides
  <2>6. results \in [DOMAIN facts -> Results]
    BY <1>0, <2>1 DEF ResultsInv
  <2>7. results' \in [DOMAIN facts -> Results]
    BY <2>3, <2>5, <2>6
  <2>8. TypeOK'
    BY <1>0, <1>1, <2>1, <2>2, <2>4, <2>7 DEF TypeOK
  <2>9. ProgressInv'
    BY <1>0, <2>1 DEF ProgressInv
  <2>10. ResultsInv'
    <3>1. asked' \subseteq PreparedPlaces(facts)
      BY <2>2, <2>4
    <3>2. ASSUME NEW j \in DOMAIN facts
          PROVE  IF j \in asked'
                 THEN \E l \in Lookups(facts[j].proof.height) :
                        results'[j] = OnlineResult(facts[j].proof, l)
                 ELSE results'[j] = Result(VerdictFromFacts(facts[j]), NoHeader)
      <4>1. CASE j = i
        BY <2>2, <2>3, <2>6, <4>1
      <4>2. CASE j # i
        <5>1. results'[j] = results[j] /\ (j \in asked' <=> j \in asked)
          BY <2>2, <2>3, <2>6, <4>2
        <5> QED BY <1>0, <2>1, <5>1 DEF ResultsInv
      <4> QED BY <4>1, <4>2
    <3> QED BY <2>1, <2>7, <3>1, <3>2 DEF ResultsInv
  <2>11. TrafficInv'
    BY <1>0, <2>1, <2>2, <2>4 DEF TrafficInv
  <2>12. PrintedInv'
    BY <1>0, <2>1 DEF PrintedInv, ProgressInv
  <2> QED BY <2>8, <2>9, <2>10, <2>11, <2>12 DEF IInv
<1>9. CASE FinishOnline
  <2>1. TypeOK'
    BY <1>0, <1>9 DEF FinishOnline, TypeOK, Phases
  <2>2. ProgressInv'
    BY <1>0, <1>9 DEF FinishOnline, ProgressInv
  <2>3. ResultsInv'
    BY <1>0, <1>9 DEF FinishOnline, ResultsInv
  <2>4. TrafficInv' /\ PrintedInv'
    BY <1>0, <1>9 DEF FinishOnline, TrafficInv, PrintedInv, ProgressInv
  <2> QED BY <2>1, <2>2, <2>3, <2>4 DEF IInv
<1>10. CASE PrintResult
  <2>1. /\ phase = "print" /\ phase' = "judge" /\ printed' = {Report}
        /\ UNCHANGED <<flag, policy, checks, facts, results, pending, probed, asked, mode, deferred, exit>>
    BY <1>10 DEF PrintResult
  <2>2. Report' = Report
    BY <2>1 DEF Report, Judged
  <2>3. TypeOK'
    BY <1>0, <1>2, <2>1 DEF TypeOK, Phases
  <2>4. ProgressInv' /\ ResultsInv' /\ TrafficInv'
    BY <1>0, <2>1 DEF ProgressInv, ResultsInv, TrafficInv
  <2>5. PrintedInv'
    BY <2>1, <2>2 DEF PrintedInv
  <2> QED BY <2>3, <2>4, <2>5 DEF IInv
<1>11. CASE Judge
  <2>1. /\ phase = "judge" /\ phase' = "done" /\ exit' = ExitCode(Judged.status, deferred)
        /\ UNCHANGED <<flag, policy, checks, facts, results, pending, probed, asked, mode, deferred, printed>>
    BY <1>11 DEF Judge
  <2>2. Report' = Report /\ Judged' = Judged
    BY <2>1 DEF Report, Judged
  <2>3. exit' \in ExitCodes /\ exit' # NoExit /\ printed # {}
    BY <1>0, <1>2, <2>1, ExitMeans, ShapesAssumption DEF TypeOK, ProgressInv
  <2>4. TypeOK'
    BY <1>0, <2>1, <2>3 DEF TypeOK, Phases
  <2>5. ProgressInv' /\ ResultsInv' /\ TrafficInv'
    BY <1>0, <2>1, <2>3 DEF ProgressInv, ResultsInv, TrafficInv
  <2>6. PrintedInv'
    BY <1>0, <2>1, <2>2 DEF PrintedInv
  <2> QED BY <2>4, <2>5, <2>6 DEF IInv
<1>12. CASE UNCHANGED vars
  <2>1. Report' = Report /\ Judged' = Judged
    BY <1>12 DEF vars, Report, Judged
  <2>2. TypeOK' /\ ProgressInv'
    BY <1>0, <1>12 DEF vars, TypeOK, ProgressInv
  <2>3. ResultsInv' /\ TrafficInv'
    BY <1>0, <1>12 DEF vars, ResultsInv, TrafficInv
  <2>4. PrintedInv'
    BY <1>0, <1>12, <2>1 DEF vars, PrintedInv
  <2> QED BY <2>2, <2>3, <2>4 DEF IInv
<1> QED
  BY <1>3, <1>4, <1>5, <1>6, <1>7, <1>8, <1>9, <1>10, <1>11, <1>12 DEF Next, Exited

(* The inductive invariant holds throughout every run.                     *)
THEOREM Inductive == Spec => []IInv
<1>1. Init => IInv
  BY InitIsSafe
<1>2. IInv /\ [Next]_vars => IInv'
  BY StepIsSafe
<1> QED BY <1>1, <1>2, PTL DEF Spec

-----------------------------------------------------------------------------
(* A verified anchor holds in fact.                                        *)
LEMMA VerifiedAnchorsHold ==
  ASSUME IInv, phase \in {"settle", "online", "print", "judge"} \/ printed # {},
         NEW i \in DOMAIN facts
  PROVE  /\ results[i].verdict = "Valid" =>
              /\ Holds(facts[i])
              /\ results[i].header # NoHeader =>
                   results[i].header.time * NanosPerSecond <= MaxNanos
         /\ results[i].verdict = "Invalid" =>
              \/ facts[i].refuted
              \/ \E b \in Blocks : /\ b.height = facts[i].proof.height
                                   /\ \/ b.root # facts[i].proof.root
                                      \/ b.time * NanosPerSecond # facts[i].proof.claim
<1>1. TypeOK /\ ResultsInv
  BY DEF IInv
<1>2. facts[i] \in FactSets
  BY <1>1, FactsAtPlaces
<1>3. CASE i \in asked
  <2>1. i \in PreparedPlaces(facts)
    BY <1>1, <1>3 DEF ResultsInv
  <2>2. Prepared(facts[i]) /\ facts[i].proof \in Proofs
    BY <1>1, <2>1, FactsAtPlaces DEF PreparedPlaces
  <2>3. PICK lookup \in Lookups(facts[i].proof.height) :
          results[i] = OnlineResult(facts[i].proof, lookup)
    BY <1>1, <1>3 DEF ResultsInv
  <2> DEFINE verdict == AnchorFromLookup(facts[i].proof, lookup)
  <2>4. /\ verdict # "Untrusted" =>
             lookup.kind = "Corroborated" /\ lookup.header \in Blocks
             /\ lookup.header.height = facts[i].proof.height
        /\ verdict = "Valid" =>
             /\ lookup.header.root = facts[i].proof.root
             /\ lookup.header.time * NanosPerSecond = facts[i].proof.claim
             /\ lookup.header.time * NanosPerSecond <= MaxNanos
        /\ verdict = "Invalid" =>
             \/ lookup.header.root # facts[i].proof.root
             \/ lookup.header.time * NanosPerSecond # facts[i].proof.claim
    BY <2>2, LookupDecides
  <2>5. /\ results[i].verdict = verdict
        /\ lookup.kind = "Corroborated" => results[i].header = lookup.header
    BY <2>3 DEF OnlineResult, Result
  <2> HIDE DEF verdict
  <2>6. CASE verdict = "Valid"
    <3>1. Holds(facts[i])
      BY <2>2, <2>4, <2>6 DEF Holds
    <3> QED BY <2>4, <2>5, <2>6, <3>1
  <2>7. CASE verdict = "Invalid"
    BY <2>4, <2>5, <2>7
  <2> QED BY <2>5, <2>6, <2>7
<1>4. CASE i \notin asked
  <2>1. results[i] = Result(VerdictFromFacts(facts[i]), NoHeader)
    BY <1>1, <1>4 DEF ResultsInv
  <2>2. results[i].verdict = VerdictFromFacts(facts[i]) /\ results[i].header = NoHeader
    BY <2>1 DEF Result
  <2> QED BY <1>2, <2>2, FactsDecide
<1> QED BY <1>3, <1>4

(* A run that printed and exited exits on what it printed.                 *)
LEMMA JudgedExit ==
  ASSUME IInv, phase = "done", printed # {}
  PROVE  /\ exit = ExitCode(Judged.status, deferred)
         /\ Judged.status \in Statuses /\ deferred \in Deferrals
         /\ checks \in ReceiptChecks /\ policy \in Policies
         /\ results \in [DOMAIN facts -> Results]
<1>1. TypeOK /\ ResultsInv /\ PrintedInv
  BY DEF IInv
<1> QED BY <1>1, ReportIsTyped, ShapesAssumption DEF TypeOK, ResultsInv, PrintedInv

(* Exit 0 is earned: the receipt's checks held, nothing was left undone    *)
(* and the quorum is met by anchors that hold in fact.                     *)
LEMMA InvImpliesEarned == IInv => AcceptanceIsEarned
<1> SUFFICES ASSUME IInv, exit = 0
             PROVE  /\ checks.hashMatches /\ checks.proofsHold
                    /\ {"Refutation", "Inability"} \cap checks.findings = {}
                    /\ deferred = "None"
                    /\ DOMAIN facts # {}
                    /\ IF policy = "AllAnchors" THEN \A i \in DOMAIN facts : Holds(facts[i])
                                                ELSE \E i \in DOMAIN facts : Holds(facts[i])
  BY DEF AcceptanceIsEarned
<1>1. phase = "done" /\ printed # {}
  BY ShapesAssumption DEF IInv, ProgressInv, ExitCodes
<1>2. Judged.status = "Valid" /\ deferred = "None"
  BY <1>1, JudgedExit, ExitMeans
<1> DEFINE R == VerdictsIn(results)
<1>3. checks \in ReceiptChecks /\ policy \in Policies /\ results \in [DOMAIN facts -> Results]
  BY <1>1, JudgedExit
<1>4. ~ReceiptRefuted(checks) /\ ~ReceiptInability(checks) /\ PolicySatisfied(checks, R, policy)
  BY <1>2, <1>3, StatusMeans DEF Judged
<1>5. /\ checks.hashMatches /\ checks.proofsHold
      /\ "Refutation" \notin checks.findings /\ "Inability" \notin checks.findings
  BY <1>3, <1>4, RefutedMeans DEF ReceiptInability
<1>6. DOMAIN R = DOMAIN facts /\ \A i \in DOMAIN facts : R[i] = results[i].verdict
  BY <1>3 DEF VerdictsIn
<1>7. \A i \in Verified(R) : i \in DOMAIN facts /\ Holds(facts[i])
  BY <1>1, <1>6, VerifiedAnchorsHold DEF Verified
<1> HIDE DEF R
<1>8. /\ DOMAIN facts # {}
      /\ policy = "AllAnchors" => Verified(R) = DOMAIN facts
      /\ policy # "AllAnchors" => Verified(R) # {}
  BY <1>4, <1>6 DEF PolicySatisfied
<1> QED BY <1>2, <1>5, <1>7, <1>8

(* Exit 1 after a report is exactly a refutation of the receipt.           *)
LEMMA InvImpliesDecided == IInv => RefutationDecides
<1> SUFFICES ASSUME IInv, phase = "done", printed # {}
             PROVE  exit = 1 <=> ~checks.hashMatches \/ ~checks.proofsHold
                                 \/ "Refutation" \in checks.findings
  BY DEF RefutationDecides
<1>1. exit = 1 <=> Judged.status = "Invalid"
  BY JudgedExit, ExitMeans
<1>2. checks \in ReceiptChecks /\ policy \in Policies
  BY JudgedExit
<1>3. Judged.status = "Invalid" <=> ReceiptRefuted(checks)
  BY <1>2, StatusMeans DEF Judged
<1> QED BY <1>1, <1>2, <1>3, RefutedMeans

(* Results exist once the receipt is verified, and not before.             *)
LEMMA ResultsExist ==
  ASSUME IInv, NEW i \in DOMAIN results
  PROVE  /\ phase \in {"settle", "online", "print", "judge"} \/ printed # {}
         /\ results \in [DOMAIN facts -> Results]
         /\ i \in DOMAIN facts
<1>1. phase \in {"settle", "online", "print", "judge"} \/ printed # {}
  BY DEF IInv, ProgressInv, TypeOK, Phases
<1>2. results \in [DOMAIN facts -> Results]
  BY <1>1 DEF IInv, ResultsInv
<1> QED BY <1>1, <1>2

(* The state invariants follow from the inductive one.                     *)
LEMMA InvImpliesSafe ==
  ASSUME IInv
  PROVE  /\ AccusationIsEarned /\ PublishedTimeFits
         /\ AppendedAnchorIsInert
         /\ TrafficIsNeeded /\ ModeIsExercised
<1>1. AccusationIsEarned
  BY ResultsExist, VerifiedAnchorsHold DEF AccusationIsEarned
<1>2. PublishedTimeFits
  BY ResultsExist, VerifiedAnchorsHold DEF PublishedTimeFits
<1>3. AppendedAnchorIsInert
  <2> DEFINE R == VerdictsIn(results)
  <2> SUFFICES ASSUME NEW i \in DOMAIN results, results[i].verdict # "Valid"
               PROVE  /\ \/ Judged = Verdict(checks, Without(R, i), policy)
                         \/ /\ policy = "AllAnchors"
                            /\ Verdict(checks, Without(R, i), policy).status = "Valid"
                            /\ Judged = Judgement("Untrusted", "AnchorQuorumUnmet")
                      /\ EvidenceEstablished(checks, R) = EvidenceEstablished(checks, Without(R, i))
                      /\ MaxTrustProfile(checks, facts, R) = MaxTrustProfile(checks, facts, Without(R, i))
    BY DEF AppendedAnchorIsInert
  <2>1. checks \in ReceiptChecks /\ policy \in Policies
    BY ShapesAssumption DEF IInv, TypeOK
  <2>2. i \in DOMAIN R /\ R[i] # "Valid"
    BY DEF VerdictsIn
  <2> HIDE DEF R
  <2>3. Judged = Verdict(checks, R, policy)
    BY DEF Judged, R
  <2> QED BY <2>1, <2>2, <2>3, FailedAnchorIsInert
<1>4. TrafficIsNeeded /\ ModeIsExercised
  <2>1. ASSUME asked # {}
        PROVE  probed /\ asked \subseteq PreparedPlaces(facts)
    <3>1. phase \in Phases /\ ProgressInv /\ TrafficInv /\ ResultsInv
      BY DEF IInv, TypeOK
    <3>2. ~(phase \in {"validate", "trust", "verify", "settle"} \/ (phase = "done" /\ printed = {}))
      BY <2>1, <3>1 DEF ProgressInv
    <3>3. phase \in {"online", "print", "judge"} \/ (phase = "done" /\ printed # {})
      BY <3>1, <3>2 DEF Phases
    <3>4. mode = "Online"
      BY <2>1, <3>1, <3>3 DEF TrafficInv
    <3> QED BY <3>1, <3>3, <3>4 DEF TrafficInv, ResultsInv
  <2>2. TrafficIsNeeded
    BY <2>1 DEF IInv, TrafficInv, TrafficIsNeeded
  <2>3. ASSUME NEW report \in printed
        PROVE  IF report.mode = "Online"
               THEN asked = PreparedPlaces(facts) /\ asked # {} ELSE asked = {}
    <3>1. report.mode = mode
      BY DEF IInv, PrintedInv, Report
    <3>2. phase \in {"judge", "done"}
      BY DEF IInv, ProgressInv, TypeOK, Phases
    <3> QED BY <3>1, <3>2 DEF IInv, TrafficInv
  <2> QED BY <2>2, <2>3 DEF ModeIsExercised
<1> QED BY <1>1, <1>2, <1>3, <1>4

(* What is printed agrees with itself and with the exit code.              *)
LEMMA InvImpliesAgrees == IInv => ReportAgrees
<1> DEFINE R == VerdictsIn(results)
<1> SUFFICES ASSUME IInv, NEW report \in printed
             PROVE  /\ report.status = "Invalid" =>
                         ~report.evidence /\ ~report.coverage /\ ~report.maxTrust
                    /\ report.status = "Valid" =>
                         report.evidence /\ (report.gaps <=> ~report.coverage)
                    /\ report.gaps => policy = "SingleAnchor"
                    /\ exit # NoExit =>
                         \/ exit = ExitOf(report.status)
                         \/ exit = 2 /\ report.status = "Valid" /\ deferred # "None"
  BY DEF ReportAgrees
<1>1. report = Report
  BY DEF IInv, PrintedInv
<1>2. /\ report.status = Judged.status
      /\ report.evidence = EvidenceEstablished(checks, R)
      /\ report.coverage = CoverageComplete(checks, R)
      /\ report.maxTrust = MaxTrustProfile(checks, facts, R)
      /\ report.gaps = AcceptedWithGaps(checks, R, policy)
  BY <1>1 DEF Report
<1>3. checks \in ReceiptChecks /\ policy \in Policies
  BY ShapesAssumption DEF IInv, TypeOK
<1>4. Judged = Verdict(checks, R, policy)
  BY DEF Judged
<1> HIDE DEF R
<1>5. Judged.status = "Invalid" => ReceiptRefuted(checks)
  BY <1>3, <1>4, StatusMeans
<1>6. Judged.status = "Valid" => ~ReceiptRefuted(checks) /\ PolicySatisfied(checks, R, policy)
  BY <1>3, <1>4, StatusMeans
<1>7. ReceiptRefuted(checks) =>
        /\ ~EvidenceEstablished(checks, R)
        /\ ~CoverageComplete(checks, R)
        /\ ~MaxTrustProfile(checks, facts, R)
  BY DEF EvidenceEstablished, CoverageComplete, MaxTrustProfile
<1>8. PolicySatisfied(checks, R, policy) =>
        /\ EvidenceEstablished(checks, R)
        /\ policy = "AllAnchors" => CoverageComplete(checks, R)
  BY DEF PolicySatisfied, EvidenceEstablished, CoverageComplete
<1>9. AcceptedWithGaps(checks, R, policy) <=>
        PolicySatisfied(checks, R, policy) /\ ~CoverageComplete(checks, R)
  BY DEF AcceptedWithGaps
<1>10. exit # NoExit =>
         \/ exit = ExitOf(Judged.status)
         \/ exit = 2 /\ Judged.status = "Valid" /\ deferred # "None"
  <2> SUFFICES ASSUME exit # NoExit
               PROVE  \/ exit = ExitOf(Judged.status)
                      \/ exit = 2 /\ Judged.status = "Valid" /\ deferred # "None"
    OBVIOUS
  <2>1. phase = "done" /\ printed # {}
    BY DEF IInv, ProgressInv
  <2>2. /\ exit = ExitCode(Judged.status, deferred)
        /\ Judged.status \in Statuses /\ deferred \in Deferrals
    BY <2>1, JudgedExit
  <2> QED BY <2>2, ExitMeans
<1>11. report.gaps => policy = "SingleAnchor"
  BY <1>2, <1>3, <1>8, <1>9 DEF Policies
<1>12. report.status = "Invalid" => ~report.evidence /\ ~report.coverage /\ ~report.maxTrust
  BY <1>2, <1>5, <1>7
<1>13. report.status = "Valid" => report.evidence /\ (report.gaps <=> ~report.coverage)
  BY <1>2, <1>6, <1>8, <1>9
<1>14. exit # NoExit => \/ exit = ExitOf(report.status)
                        \/ exit = 2 /\ report.status = "Valid" /\ deferred # "None"
  BY <1>2, <1>10
<1> QED BY <1>11, <1>12, <1>13, <1>14

(* A step of the online pass replaces only results the facts left open.    *)
LEMMA StepOnlyAdds ==
  ASSUME IInv, [Next]_vars, phase = "online"
  PROVE  /\ \A i \in DOMAIN facts :
              facts[i].refuted \/ facts[i].kind = "rfc3161" => results'[i] = results[i]
         /\ Verified(VerdictsIn(results)) \subseteq Verified(VerdictsIn(results'))
         /\ Judged.status = "Valid" => Judged'.status = "Valid"
<1>1. CASE LookUpNext
  <2>1. PICK i \in pending :
          \E lookup \in Lookups(facts[i].proof.height) :
            results' = [results EXCEPT ![i] = OnlineResult(facts[i].proof, lookup)]
    BY <1>1 DEF LookUpNext
  <2>2. /\ i \in PreparedPlaces(facts) /\ i \notin asked
        /\ results \in [DOMAIN facts -> Results]
        /\ results[i] = Result(VerdictFromFacts(facts[i]), NoHeader)
    <3>1. /\ asked \cup pending = PreparedPlaces(facts)
          /\ asked \cap pending = {}
      BY DEF IInv, TrafficInv
    <3>2. i \in DOMAIN facts
      BY <3>1 DEF PreparedPlaces
    <3> QED BY <3>1, <3>2 DEF IInv, ResultsInv
  <2>3. /\ DOMAIN results' = DOMAIN results
        /\ \A j \in DOMAIN results : j # i => results'[j] = results[j]
    BY <2>1, <2>2
  <2>4. results[i].verdict = "Untrusted"
    BY <2>2, FactsAtPlaces DEF IInv, Result
  <2>5. ~facts[i].refuted /\ facts[i].kind # "rfc3161"
    BY <2>2 DEF PreparedPlaces, Prepared
  <2>6. \A j \in DOMAIN facts :
          facts[j].refuted \/ facts[j].kind = "rfc3161" => results'[j] = results[j]
    BY <2>2, <2>3, <2>5
  <2>7. DOMAIN VerdictsIn(results) = DOMAIN VerdictsIn(results')
    BY <2>3 DEF VerdictsIn
  <2>8. Verified(VerdictsIn(results)) \subseteq Verified(VerdictsIn(results'))
    BY <2>3, <2>4 DEF Verified, VerdictsIn
  <2>9. checks' = checks /\ policy' = policy
    BY <1>1 DEF LookUpNext, inputs
  <2>10. checks \in ReceiptChecks /\ policy \in Policies
    BY ShapesAssumption DEF IInv, TypeOK
  <2>11. /\ Judged = Verdict(checks, VerdictsIn(results), policy)
         /\ Judged' = Verdict(checks, VerdictsIn(results'), policy)
    BY <2>9 DEF Judged
  <2>12. Judged.status = "Valid" => Judged'.status = "Valid"
    BY <2>7, <2>8, <2>10, <2>11, AcceptanceIsMonotone
  <2> QED BY <2>6, <2>8, <2>12
<1>2. CASE FinishOnline \/ UNCHANGED vars
  <2>1. results' = results /\ checks' = checks /\ policy' = policy
    BY <1>2 DEF FinishOnline, vars, inputs
  <2>2. Judged' = Judged
    BY <2>1 DEF Judged
  <2> QED BY <2>1, <2>2
<1> QED
  BY <1>1, <1>2 DEF Next, Proceed, InputFails, VerifyFails, VerifySingle, SettleSingle,
                    PrintResult, Judge, Exited

-----------------------------------------------------------------------------
(* Every state of a run is well typed.                                     *)
THEOREM TypeCorrect == Spec => []TypeOK
<1>1. IInv => TypeOK
  BY DEF IInv
<1> QED BY <1>1, Inductive, PTL

(* Exit 0 is always earned by anchors that hold in fact.                   *)
THEOREM AcceptanceAlwaysEarned == Spec => []AcceptanceIsEarned
BY InvImpliesEarned, Inductive, PTL

(* Among the receipts that were verified, exit 1 is exactly the refuted.   *)
THEOREM RefutationAlwaysDecides == Spec => []RefutationDecides
BY InvImpliesDecided, Inductive, PTL

(* No anchor is ever accused on one endpoint's word.                       *)
THEOREM AccusationAlwaysEarned == Spec => []AccusationIsEarned
BY InvImpliesSafe, Inductive, PTL

(* An anchor that fails never moves the status, but for the strict quorum, *)
(* nor any trust axis.                                                     *)
THEOREM FailedAnchorsAreInert == Spec => []AppendedAnchorIsInert
BY InvImpliesSafe, Inductive, PTL

(* The network is touched only for an anchor it can settle.                *)
THEOREM TrafficAlwaysNeeded == Spec => []TrafficIsNeeded
BY InvImpliesSafe, Inductive, PTL

(* The printed mode is the one that was exercised.                         *)
THEOREM ModeAlwaysExercised == Spec => []ModeIsExercised
BY InvImpliesSafe, Inductive, PTL

(* A published block time fits, for any seconds and any width.             *)
THEOREM PublishedTimesFit == Spec => []PublishedTimeFits
BY InvImpliesSafe, Inductive, PTL

(* The printed axes, the printed status and the exit code agree.           *)
THEOREM ReportsAgree == Spec => []ReportAgrees
BY InvImpliesAgrees, Inductive, PTL

(* The online pass never takes back what the facts decided.                *)
THEOREM OnlineAlwaysAdds == Spec => OnlineOnlyAdds
<1>1. IInv /\ [Next]_vars =>
        [phase = "online" =>
           /\ \A i \in DOMAIN facts :
                facts[i].refuted \/ facts[i].kind = "rfc3161" => results'[i] = results[i]
           /\ Verified(VerdictsIn(results)) \subseteq Verified(VerdictsIn(results'))
           /\ Judged.status = "Valid" => Judged'.status = "Valid"]_vars
  BY StepOnlyAdds
<1> QED BY <1>1, Inductive, PTL DEF Spec, OnlineOnlyAdds
-----------------------------------------------------------------------------
(* The program has not got as far as looking at the evidence.              *)
Early == phase \in {"validate", "trust", "verify"} \/ (phase = "done" /\ printed = {})

(* Where the evidence stands, by the verdict; "Error" is no verdict.       *)
Placed ==
  IF Early THEN Standing = "Unexamined"
  ELSE /\ \/ Judged.status = "Valid" /\ Standing = "Accepted"
          \/ Judged.status = "Invalid" /\ Standing = "Refuted"
          \/ Judged.status = "Untrusted" /\ Standing = "Open"
       /\ Judged.status = "Invalid" <=> ReceiptRefuted(checks)

(* The verdict of a receipt that was examined is one of three.             *)
LEMMA StandingMeans == IInv => Placed
<1> SUFFICES ASSUME IInv PROVE Placed
  OBVIOUS
<1>1. checks \in ReceiptChecks /\ policy \in Policies
  BY ShapesAssumption DEF IInv, TypeOK
<1>2. /\ Judged.status \in {"Valid", "Invalid", "Untrusted"}
      /\ Judged.status = "Invalid" <=> ReceiptRefuted(checks)
  BY <1>1, StatusMeans DEF Judged
<1>3. ~Early => Standing = [Valid |-> "Accepted", Invalid |-> "Refuted",
                            Untrusted |-> "Open", Error |-> "Failed"][Judged.status]
  BY DEF Standing, Early
<1>4. Early => Standing = "Unexamined"
  BY DEF Standing, Early
<1> HIDE DEF Early
<1> QED BY <1>2, <1>3, <1>4 DEF Placed

(* The receipt is judged anew only when the evidence or the results move.  *)
LEMMA SameJudgement ==
  ASSUME UNCHANGED <<checks, policy, results>>
  PROVE  Judged' = Judged
BY DEF Judged

(* The one answer is a code for where the evidence stands.                 *)
LEMMA AnswerFits ==
  ASSUME IInv, Judge
  PROVE  exit' \in Contract!Codes[Standing] /\ Standing # "Unexamined"
<1>1. phase = "judge" /\ exit' = ExitCode(Judged.status, deferred) /\ ~Early
  BY DEF Judge, Early
<1>2. Judged.status \in Statuses /\ deferred \in Deferrals
  BY ReportIsTyped DEF IInv, TypeOK
<1>3. Judged.status = "Invalid" => exit' = 1
  BY <1>1, <1>2, ExitMeans
<1>4. Judged.status = "Valid" => exit' \in {0, 2}
  BY <1>1, <1>2 DEF ExitCode, ExitOf
<1>5. Judged.status = "Untrusted" => exit' = 3
  BY <1>1, <1>2 DEF ExitCode, ExitOf
<1> QED BY <1>1, <1>3, <1>4, <1>5, StandingMeans DEF Placed, Contract!Codes

(* Each step of a run is a step of the contract, or none.                  *)
LEMMA StepKeepsContract ==
  ASSUME IInv, [Next]_vars
  PROVE  [Contract!Next]_(Contract!vars)
<1> USE DEF inputs
<1>0. Placed /\ Placed'
  BY StepIsSafe, StandingMeans, PTL
<1>1. CASE Proceed
  <2>1. Early /\ Early' /\ exit' = exit
    BY <1>1 DEF Proceed, Early
  <2> QED BY <1>0, <2>1 DEF Placed, Contract!vars
<1>2. CASE InputFails \/ VerifyFails
  <2>1. Early /\ Early' /\ exit = NoExit /\ exit' \in {1, 2}
    BY <1>2 DEF InputFails, VerifyFails, ErrorCode, Early, IInv, ProgressInv
  <2>2. Contract!GiveUp
    BY <1>0, <2>1 DEF Placed, Contract!GiveUp
  <2> QED BY <2>2 DEF Contract!Next
<1>3. CASE VerifySingle
  <2>1. Early /\ ~Early' /\ exit = NoExit /\ exit' = exit
    BY <1>3 DEF VerifySingle, Early, IInv, ProgressInv
  <2>2. Standing = "Unexamined" /\ Standing' \in {"Accepted", "Refuted", "Open"}
    BY <1>0, <2>1 DEF Placed
  <2>3. Contract!Examine
    BY <2>1, <2>2 DEF Contract!Examine, Contract!Standings
  <2> QED BY <2>3 DEF Contract!Next
<1>4. CASE SettleSingle \/ FinishOnline \/ PrintResult
  <2>1. UNCHANGED <<checks, policy, results, exit>> /\ ~Early /\ ~Early'
    BY <1>4 DEF SettleSingle, FinishOnline, PrintResult, Early
  <2>2. Judged' = Judged
    BY <2>1, SameJudgement
  <2> QED BY <1>0, <2>1, <2>2 DEF Placed, Contract!vars
<1>5. CASE LookUpNext
  <2>1. UNCHANGED <<checks, exit>> /\ ~Early /\ ~Early' /\ phase = "online" /\ exit = NoExit
    BY <1>5 DEF LookUpNext, Early, IInv, ProgressInv
  <2>2. Judged.status = "Valid" => Judged'.status = "Valid"
    BY <2>1, StepOnlyAdds
  <2>3. ReceiptRefuted(checks)' <=> ReceiptRefuted(checks)
    BY <2>1 DEF ReceiptRefuted, ReceiptRefutation
  <2>4. \/ Standing' = Standing
        \/ Standing = "Open" /\ Standing' = "Accepted"
    BY <1>0, <2>1, <2>2, <2>3 DEF Placed
  <2> QED BY <2>1, <2>4 DEF Contract!vars, Contract!Next, Contract!Complete
<1>6. CASE Judge
  <2>1. UNCHANGED <<checks, policy, results>> /\ ~Early /\ ~Early' /\ exit = NoExit
    BY <1>6 DEF Judge, Early, IInv, ProgressInv
  <2>2. Standing' = Standing
    BY <1>0, <2>1, SameJudgement DEF Placed
  <2>3. Contract!Answer
    BY <1>6, <2>1, <2>2, AnswerFits DEF Contract!Answer
  <2> QED BY <2>3 DEF Contract!Next
<1>7. CASE UNCHANGED vars
  <2>1. UNCHANGED <<checks, policy, results, exit>> /\ (Early' <=> Early)
    BY <1>7 DEF vars, Early
  <2> QED BY <1>0, <2>1, SameJudgement DEF Placed, Contract!vars
<1> QED
  BY <1>1, <1>2, <1>3, <1>4, <1>5, <1>6, <1>7 DEF Next, Exited

(* A run keeps to the contract of its exit code at every step, whatever    *)
(* the evidence, the flags and the network: it examines once, takes back   *)
(* no acceptance and no refutation, and answers once.  (That it does       *)
(* answer is liveness.)                                                    *)
THEOREM SingleStepsKeepContract ==
  Spec => Contract!Init /\ [][Contract!Next]_(Contract!vars)
<1>1. Init => Contract!Init
  BY DEF Init, Contract!Init, Standing
<1>2. IInv /\ [Next]_vars => [Contract!Next]_(Contract!vars)
  BY StepKeepsContract
<1> QED BY <1>1, <1>2, Inductive, PTL DEF Spec
=============================================================================
