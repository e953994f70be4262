------------------------------ MODULE BatchRun ------------------------------
(***************************************************************************)
(* One `atl verify <source dir> <receipt dir>` (commands/verify.rs,        *)
(* verify/batch.rs, verify/consistency.rs).  Both directories are walked,  *)
(* files are paired with receipts by name, each pair is verified without a *)
(* network and filed in a bucket that is counted, receipts of one log      *)
(* instance are compared, one network pass settles what it can, every row  *)
(* is filed and counted anew, and the counts become the verdict.           *)
(*                                                                         *)
(* A name X stands for the source entry X and the receipt entry X.atl.     *)
(* The walk's order is the file system's; names are taken in theirs.       *)
(***************************************************************************)
EXTENDS VerifyCommand, Consistency

CONSTANTS
  Names,        \* names of the files, as numbers
  ItemShapes,   \* what may be found in a pair: checks, facts, genesis and tree size
  Geneses,      \* genesis_super_root, the identity of a log instance, as numbers
  NoSuperTree,  \* a receipt without super_proof
  NoExit

ASSUME BatchAssumption ==
  /\ Names \subseteq Nat
  /\ IsFiniteSet(Names)
  /\ Geneses \subseteq Nat /\ NoSuperTree \notin Geneses
  /\ \A s \in ItemShapes : /\ s.checks \in ReceiptChecks
                           /\ \A i \in DOMAIN s.facts : i \in Nat /\ s.facts[i] \in FactSets
                           /\ s.genesis \in Geneses \cup {NoSuperTree} /\ s.size \in Nat
  /\ NoExit \notin ExitCodes

VARIABLES
  phase, flag, policy,
  sources, receipts,  \* what the walks made of X and X.atl
  items,        \* the rows of the report: a bucket for each
  found,        \* what is found in each verified pair, by name
  results,      \* anchor_results of each verified pair, by name
  errors,       \* the error of each pair that has no result, by name
  counts,       \* the six counts of BatchVerificationResult
  consistency,  \* the cross-receipt result, if there is one
  pending,      \* the lookups still to be made, a name and a place each
  probed, asked, mode, deferred,
  printed, exit

walked == <<sources, receipts>>
verified == <<items, found, results, errors, counts, consistency>>
network == <<pending, probed, asked, mode, deferred>>
vars == <<phase, flag, policy, walked, verified, network, printed, exit>>

Phases == {"validate", "trust", "sources", "receipts", "verify", "settle",
           "online", "reclassify", "print", "judge", "done"}

(* An entry is a file the batch owns, cannot be classified, or is nothing  *)
(* the batch owns (absent, a directory).                                   *)
Entries == {"file", "unreadable", "none"}

Sides == {"pair", "source", "receipt"}
Row(name, side) == [name |-> name, side |-> side]
Rows == [name : Names, side : Sides]

Judged == {"Valid", "Unanchored", "Untrusted", "Invalid"}
Buckets == Judged \cup {"Error", "NoReceipt", "NoSource"}
Counted == Judged \cup {"Error", "Unmatched"}

NoCounts == [b \in Counted |-> 0]

Matched == {n \in Names : sources[n] = "file" /\ receipts[n] = "file"}

VerdictOf(n) == Verdict(found[n].checks, VerdictsIn(results[n]), policy)

(* Receipts that presented no anchors keep a bucket of their own.          *)
Bucket(status, F) ==
  IF status = "Untrusted" /\ DOMAIN F = {} THEN "Unanchored" ELSE status

Broken == \E c \in consistency : ~IsConsistent(c)

(* A mutant of BatchStatus: entries without a counterpart are forgiven.    *)
StatusForgivingUnmatched ==
  CASE counts["Invalid"] > 0 \/ Broken -> "Invalid"
    [] counts["Invalid"] = 0 /\ ~Broken ->
         IF counts["Error"] > 0 THEN "Error"
         ELSE IF counts["Unanchored"] + counts["Untrusted"] = 0 /\ counts["Valid"] > 0
              THEN "Valid" ELSE "Untrusted"

(* A mutant of BatchStatus: an entry that cannot be read decides.          *)
StatusErrorFirst ==
  IF counts["Error"] > 0 THEN "Error"
  ELSE IF counts["Invalid"] > 0 \/ Broken THEN "Invalid"
  ELSE IF /\ counts["Unmatched"] + counts["Unanchored"] + counts["Untrusted"] = 0
          /\ counts["Valid"] > 0
       THEN "Valid" ELSE "Untrusted"

(* BatchVerificationResult::verdict: what is refuted, then what failed,    *)
(* then what was not finished, and acceptance only of something.           *)
BatchStatus ==
  CASE counts["Invalid"] > 0 \/ Broken -> "Invalid"
    [] counts["Invalid"] = 0 /\ ~Broken ->
         CASE counts["Error"] > 0 -> "Error"
           [] counts["Error"] = 0 ->
                IF /\ counts["Unmatched"] = 0
                   /\ counts["Unanchored"] = 0
                   /\ counts["Untrusted"] = 0
                   /\ counts["Valid"] > 0
                THEN "Valid" ELSE "Untrusted"

Reports == [status : Statuses, counts : [Counted -> Nat], mode : Modes, gaps : BOOLEAN]

Report ==
  [status |-> BatchStatus, counts |-> counts, mode |-> mode,
   gaps |-> \E n \in DOMAIN results :
              /\ items[Row(n, "pair")] = "Valid"
              /\ AcceptedWithGaps(found[n].checks, VerdictsIn(results[n]), policy)]

(* A pair has either a result or an error, its results occupy the places   *)
(* of its anchors, and lookups are made for these places only              *)
(* (BatchVerificationResult).                                              *)
TypeOK ==
  /\ phase \in Phases /\ flag \in Flags /\ policy \in Policies
  /\ sources \in [Names -> Entries] /\ receipts \in [Names -> Entries]
  /\ DOMAIN items \subseteq Rows /\ \A r \in DOMAIN items : items[r] \in Buckets
  /\ DOMAIN found = DOMAIN results /\ DOMAIN results \subseteq Matched
  /\ \A n \in DOMAIN found :
       /\ found[n] \in ItemShapes
       /\ DOMAIN results[n] = DOMAIN found[n].facts
       /\ \A i \in DOMAIN results[n] : results[n][i] \in Results
  /\ DOMAIN errors \subseteq Matched \ DOMAIN found
  /\ \A n \in DOMAIN errors : errors[n] \in PairErrors
  /\ counts \in [Counted -> Nat]
  /\ Cardinality(consistency) <= 1
  /\ \A c \in consistency : \A k \in DOMAIN c.participants : c.participants[k] \in DOMAIN found
  /\ \A p \in pending \cup asked : p[1] \in DOMAIN found /\ p[2] \in DOMAIN results[p[1]]
  /\ probed \in BOOLEAN /\ mode \in Modes /\ deferred \in Deferrals
  /\ printed \subseteq Reports
  /\ exit \in ExitCodes \cup {NoExit}

-----------------------------------------------------------------------------
Init ==
  /\ phase = "validate"
  /\ flag \in Flags
  /\ policy \in Policies
  /\ sources = [n \in Names |-> "none"]
  /\ receipts = [n \in Names |-> "none"]
  /\ items = << >>
  /\ found = << >>
  /\ results = << >>
  /\ errors = << >>
  /\ counts = NoCounts
  /\ consistency = {}
  /\ pending = {}
  /\ probed = FALSE
  /\ asked = {}
  /\ mode = "Offline"
  /\ deferred = "None"
  /\ printed = {}
  /\ exit = NoExit

Proceed ==
  /\ \/ phase = "validate" /\ phase' = "trust"
     \/ phase = "trust" /\ phase' = "sources"
  /\ UNCHANGED <<flag, policy, walked, verified, network, printed, exit>>

(* A path is missing, trust material does not load, a directory cannot be  *)
(* opened.                                                                 *)
InputFails ==
  /\ phase \in {"validate", "trust", "sources", "receipts"}
  /\ exit' = 2
  /\ phase' = "done"
  /\ UNCHANGED <<flag, policy, walked, verified, network, printed>>

(* Nothing at all was found: neither a file nor an entry it cannot read.   *)
WalkSources ==
  /\ phase = "sources"
  /\ sources' \in [Names -> Entries]
  /\ LET empty == \A n \in Names : sources'[n] = "none"
     IN /\ phase' = IF empty THEN "done" ELSE "receipts"
        /\ exit' = IF empty THEN 2 ELSE exit
  /\ UNCHANGED <<flag, policy, receipts, verified, network, printed>>

(* An unreadable source entry already keeps this directory from being      *)
(* called empty.  Entries that cannot be read become Error rows.           *)
WalkReceipts ==
  /\ phase = "receipts"
  /\ receipts' \in [Names -> Entries]
  /\ LET empty == \A n \in Names : receipts'[n] = "none" /\ sources[n] # "unreadable"
     IN /\ phase' = IF empty THEN "done" ELSE "verify"
        /\ exit' = IF empty THEN 2 ELSE exit
  /\ UNCHANGED <<flag, policy, sources, verified, network, printed>>

(* The next pair, in the order of the walk, and the row it gets.           *)
NextPair(n) ==
  /\ phase = "verify"
  /\ n \in Matched
  /\ Row(n, "pair") \notin DOMAIN items
  /\ \A m \in Matched : m < n => Row(m, "pair") \in DOMAIN items

File(n, bucket) ==
  /\ items' = [r \in DOMAIN items \cup {Row(n, "pair")} |->
                 IF r = Row(n, "pair") THEN bucket ELSE items[r]]
  /\ counts' = [counts EXCEPT ![bucket] = @ + 1]

(* verify_single returns a result.                                         *)
VerifyPair(n) ==
  /\ NextPair(n)
  /\ \E s \in ItemShapes :
       /\ found' = [m \in DOMAIN found \cup {n} |-> IF m = n THEN s ELSE found[m]]
       /\ results' = [m \in DOMAIN results \cup {n} |->
                        IF m = n THEN OfflineResults(s.facts) ELSE results[m]]
       /\ File(n, Bucket(Verdict(s.checks, VerdictsIn(OfflineResults(s.facts)), policy).status,
                         s.facts))
  /\ UNCHANGED <<phase, flag, policy, walked, errors, consistency, network, printed, exit>>

(* verify_single returns an error.                                         *)
PairFails(n) ==
  /\ NextPair(n)
  /\ \E error \in PairErrors :
       errors' = [m \in DOMAIN errors \cup {n} |-> IF m = n THEN error ELSE errors[m]]
  /\ File(n, "Error")
  /\ UNCHANGED <<phase, flag, policy, walked, found, results, consistency, network,
                 printed, exit>>

(* The entries that belong to no pair.                                     *)
LooseRows ==
  [r \in {Row(n, "source") : n \in {m \in Names : sources[m] # "none"} \ Matched} \cup
         {Row(n, "receipt") : n \in {m \in Names : receipts[m] # "none"} \ Matched} |->
     CASE r.side = "source"  -> IF sources[r.name] = "file" THEN "NoReceipt" ELSE "Error"
       [] r.side = "receipt" -> IF receipts[r.name] = "file" THEN "NoSource" ELSE "Error"]

InBucket(rows, b) == {r \in DOMAIN rows : rows[r] = b}

(* Section 5.4.3 is for receipts that were not refuted and have a          *)
(* super_proof.                                                            *)
Comparable(n) ==
  /\ n \in DOMAIN found /\ found[n].genesis # NoSuperTree
  /\ items[Row(n, "pair")] \in {"Valid", "Untrusted", "Unanchored"}

Participants ==
  {[at |-> n, name |-> n, genesis |-> found[n].genesis, size |-> found[n].size,
    holds |-> found[n].checks.proofsHold] : n \in {m \in Names : Comparable(m)}}

CrossCompared ==
  IF Cardinality(Participants) < 2 THEN {} ELSE {VerifyConsistency(Participants)}

(* After the last pair: rows for the loose entries, and the comparison.    *)
Gather ==
  /\ phase = "verify"
  /\ \A n \in Matched : Row(n, "pair") \in DOMAIN items
  /\ items' = [r \in DOMAIN items \cup DOMAIN LooseRows |->
                 IF r \in DOMAIN items THEN items[r] ELSE LooseRows[r]]
  /\ counts' = [counts EXCEPT
       !["Error"] = @ + Cardinality(InBucket(LooseRows, "Error")),
       !["Unmatched"] = Cardinality(InBucket(LooseRows, "NoReceipt")
                                      \cup InBucket(LooseRows, "NoSource"))]
  /\ consistency' = CrossCompared
  /\ phase' = "settle"
  /\ UNCHANGED <<flag, policy, walked, found, results, errors, network, printed, exit>>

(* A mutant of Visited: accepted and refuted rows are passed over.         *)
VisitedUndecided == {n \in DOMAIN found : items[Row(n, "pair")] = "Untrusted"}

(* The rows the network pass visits, and what it would look up in them.    *)
Visited == {n \in DOMAIN found : items[Row(n, "pair")] \in {"Valid", "Untrusted", "Invalid"}}

WorkList == UNION {{<<n, i>> : i \in PreparedPlaces(found[n].facts)} : n \in Visited}

SettleBatch ==
  /\ phase = "settle"
  /\ probed' = Probes(flag, WorkList # {})
  /\ \E connected, runtime \in BOOLEAN :
       LET settled == Settled(flag, WorkList # {}, connected, runtime)
       IN /\ mode' = settled.mode
          /\ deferred' = settled.deferred
          /\ pending' = IF settled.mode = "Online" THEN WorkList ELSE {}
          /\ phase' = IF settled.mode = "Online" THEN "online" ELSE "print"
  /\ UNCHANGED <<flag, policy, walked, verified, asked, printed, exit>>

(* Item by item and, within an item, anchor by anchor.                     *)
LookUpNext ==
  /\ phase = "online"
  /\ \E p \in pending :
       /\ \A q \in pending : p[1] < q[1] \/ (p[1] = q[1] /\ p[2] <= q[2])
       /\ LET proof == found[p[1]].facts[p[2]].proof
          IN \E lookup \in Lookups(proof.height) :
               results' = [results EXCEPT ![p[1]][p[2]] = OnlineResult(proof, lookup)]
       /\ pending' = pending \ {p}
       /\ asked' = asked \cup {p}
  /\ UNCHANGED <<phase, flag, policy, walked, items, found, errors, counts, consistency, probed,
                 mode, deferred, printed, exit>>

FinishOnline ==
  /\ phase = "online"
  /\ pending = {}
  /\ phase' = "reclassify"
  /\ UNCHANGED <<flag, policy, walked, verified, network, printed, exit>>

(* Every row that has a verdict is filed by the verdict it has now, and    *)
(* the counts are taken from the rows; unmatched entries keep theirs.      *)
Refiled ==
  [r \in DOMAIN items |->
     IF items[r] \in Judged THEN Bucket(VerdictOf(r.name).status, found[r.name].facts)
     ELSE items[r]]

(* A mutant of Reclassify: the rows are filed anew, the counts are not.    *)
RefileOnly ==
  /\ phase = "reclassify"
  /\ items' = Refiled
  /\ phase' = "print"
  /\ UNCHANGED <<flag, policy, walked, found, results, errors, counts, consistency, network,
                 printed, exit>>

Reclassify ==
  /\ phase = "reclassify"
  /\ items' = Refiled
  /\ counts' = [b \in Counted |-> IF b = "Unmatched" THEN counts[b]
                                  ELSE Cardinality(InBucket(Refiled, b))]
  /\ phase' = "print"
  /\ UNCHANGED <<flag, policy, walked, found, results, errors, consistency, network,
                 printed, exit>>

PrintResult ==
  /\ phase = "print"
  /\ printed' = {Report}
  /\ phase' = "judge"
  /\ UNCHANGED <<flag, policy, walked, verified, network, exit>>

Judge ==
  /\ phase = "judge"
  /\ exit' = ExitCode(BatchStatus, deferred)
  /\ phase' = "done"
  /\ UNCHANGED <<flag, policy, walked, verified, network, printed>>

Exited == phase = "done" /\ UNCHANGED vars

Next ==
  \/ Proceed
  \/ InputFails
  \/ WalkSources
  \/ WalkReceipts
  \/ \E n \in Names : VerifyPair(n)
  \/ \E n \in Names : PairFails(n)
  \/ Gather
  \/ SettleBatch
  \/ LookUpNext
  \/ FinishOnline
  \/ Reclassify
  \/ PrintResult
  \/ Judge
  \/ Exited

Spec == Init /\ [][Next]_vars

FairSpec == Spec /\ WF_vars(Next)

-----------------------------------------------------------------------------
(* Properties.                                                             *)

Refuted(n) == ReceiptRefuted(found[n].checks)

(* Exit 0 says of every path the caller named that it was paired, read,    *)
(* checked and accepted by anchors that hold in fact, that there was at    *)
(* least one, and that nothing asked for was left undone                   *)
(* (BatchVerificationResult::verdict).                                     *)
BatchAcceptanceIsEarned ==
  exit = 0 =>
    /\ Matched # {}
    /\ \A n \in Names \ Matched : sources[n] = "none" /\ receipts[n] = "none"
    /\ deferred = "None"
    /\ \A n \in Matched :
         LET F == found[n].facts
         IN /\ n \in DOMAIN found
            /\ ~Refuted(n) /\ "Inability" \notin found[n].checks.findings
            /\ DOMAIN F # {}
            /\ IF policy = "AllAnchors" THEN \A i \in DOMAIN F : Holds(F[i])
                                        ELSE \E i \in DOMAIN F : Holds(F[i])

(* Once a batch has been verified it exits 1 exactly if some receipt in it *)
(* was refuted: no unreadable, unmatched or unfinished neighbour conceals  *)
(* one, and nothing but a refuted receipt accuses.                         *)
BatchRefutationDecides ==
  phase = "done" /\ printed # {} => (exit = 1 <=> \E n \in DOMAIN found : Refuted(n))

(* Comparing receipts across log instances or against a refuted one would  *)
(* accuse receipts that are merely unanchored; no batch is refuted by the  *)
(* comparison (verify_batch, verify_consistency).                          *)
ConsistencyNeverAccuses == ~Broken

(* The names the comparisons are printed under, by both renderers, are of  *)
(* receipts that were in fact compared: of one log instance, the one from  *)
(* the smaller tree first.                                                 *)
ChecksNameTheCompared(c) ==
  /\ \A check \in JsonConsistency(c).cross_checks :
       LET a == found[check.from_file]
           b == found[check.to_file]
       IN /\ check.from_file # check.to_file
          /\ a.genesis = b.genesis /\ a.size <= b.size
          /\ check.same_log_instance = (a.checks.proofsHold /\ b.checks.proofsHold)
  /\ JsonConsistency(c).cross_checks =
       {[from_file |-> c.participants[check.from], to_file |-> c.participants[check.to],
         same_log_instance |-> check.consistent] : check \in HumanConsistency(c).checks}

ParticipantsOf(c) == {c.participants[k] : k \in DOMAIN c.participants}

(* Comparing neighbours is enough: no part of an instance's receipts is    *)
(* left without a comparison that ties it to the rest.                     *)
InstancesAreChained(c) ==
  \A g \in Geneses :
    LET G == {n \in ParticipantsOf(c) : found[n].genesis = g}
        ends(check) == {c.participants[check.from], c.participants[check.to]}
    IN \A A \in (SUBSET G) \ {{}, G} :
         \E check \in c.cross_results : ends(check) \cap A # {} /\ ends(check) \cap (G \ A) # {}

(* "verified" takes two receipts of one instance, and a single instance is *)
(* claimed, and named, only if it is every participant's.                  *)
NothingIsOverstated(c) ==
  LET human == HumanConsistency(c)
      json  == JsonConsistency(c)
  IN /\ human.status = json.status
     /\ json.status = "not_checked" <=>
          \A m, n \in ParticipantsOf(c) : found[m].genesis = found[n].genesis => m = n
     /\ \A g \in json.genesis_super_root : \A n \in ParticipantsOf(c) : found[n].genesis = g
     /\ human.same_instance => json.genesis_super_root # {}
     /\ json.cross_checks_passed + json.log_instances = json.receipt_count

(* What the report says of the comparison is so, whatever the order in     *)
(* which the walk yielded the files: it names the receipts that were       *)
(* compared, leaves none of an instance out and claims no comparison and   *)
(* no identity that was not found (verify_consistency, print_consistency,  *)
(* ConsistencyJson).                                                       *)
ConsistencyIsTruthful ==
  \A c \in consistency :
    ChecksNameTheCompared(c) /\ InstancesAreChained(c) /\ NothingIsOverstated(c)

(* No entry the walks kept or could not classify vanishes, and none is     *)
(* reported twice.                                                         *)
EveryEntryHasOneRow ==
  \A n \in Names :
    LET rows(side) == {r \in DOMAIN items : r.name = n /\ r.side \in {"pair", side}}
    IN /\ Cardinality(rows("source")) = IF sources[n] = "none" THEN 0 ELSE 1
       /\ Cardinality(rows("receipt")) = IF receipts[n] = "none" THEN 0 ELSE 1

(* Each row is counted as it stands after the network pass.                *)
CountsAreOfRows(report) ==
  /\ \A b \in Judged :
       report.counts[b] =
         Cardinality({n \in DOMAIN found : Bucket(VerdictOf(n).status, found[n].facts) = b})
  /\ report.counts["Error"] =
       Cardinality(DOMAIN errors)
       + Cardinality({n \in Names : sources[n] = "unreadable"})
       + Cardinality({n \in Names : receipts[n] = "unreadable"})
  /\ report.counts["Unmatched"] =
       Cardinality({n \in Names : (sources[n] = "file") # (receipts[n] = "file")})

(* The anchors of the batch that a block could settle.                     *)
Settleable == UNION {{<<n, i>> : i \in PreparedPlaces(found[n].facts)} : n \in DOMAIN found}

(* Online, every such anchor was looked up; offline, none.                 *)
ModeIsExercised(report) ==
  IF report.mode = "Online" THEN asked = Settleable /\ asked # {} ELSE asked = {}

(* The summary a batch prints is of the rows beneath it and of the run it  *)
(* made: no entry is without a row or has two, the counts are those of the *)
(* rows as the network pass left them, and the mode is what was done       *)
(* (match_files_to_receipts, verify_batch, reclassify, settle_batch).      *)
SummaryDescribesRows ==
  /\ TypeOK
  /\ \A report \in printed :
       EveryEntryHasOneRow /\ CountsAreOfRows(report) /\ ModeIsExercised(report)

(* The only pair in its directories.                                       *)
Alone(n) ==
  n \in Matched /\ \A m \in Names \ {n} : sources[m] = "none" /\ receipts[m] = "none"

(* A receipt verified as a directory of one exits, and probes the network, *)
(* as it does verified as a file (execute_single, execute_batch).          *)
BatchOfOneIsSingle ==
  \A n \in DOMAIN found : phase = "done" /\ Alone(n) =>
    /\ exit = ExitCode(VerdictOf(n).status, deferred)
    /\ probed = Probes(flag, PreparedPlaces(found[n].facts) # {})

(* The same for every pair, whatever verify_single makes of it: the same   *)
(* input must produce the same code whether it was passed as a file or as  *)
(* a directory (error.rs, module documentation).                           *)
FileAndDirectoryAgree ==
  \A n \in DOMAIN errors : phase = "done" /\ Alone(n) => exit = ErrorCode(errors[n])

(* reclassify's documentation: an item untrusted only because no block had *)
(* been fetched becomes valid or invalid once it has been.                 *)
FetchedMeansDecided ==
  phase = "print" =>
    \A n \in DOMAIN found :
      LET F == found[n].facts
          onlyUnfetched == \A i \in DOMAIN F :
            VerdictFromFacts(F[i]) = "Valid" \/ results[n][i].header # NoHeader
      IN DOMAIN F # {} /\ onlyUnfetched /\ "Inability" \notin found[n].checks.findings
           => items[Row(n, "pair")] \in {"Valid", "Invalid"}

(* The strengthening under which the invariants above are inductive.       *)

(* No pair has been looked at, and none will be if the run has ended.      *)
Early ==
  \/ phase \in {"validate", "trust", "sources", "receipts"}
  \/ phase = "done" /\ printed = {}

(* The rows are complete.                                                  *)
Gathered ==
  phase \in {"settle", "online", "reclassify", "print", "judge"} \/ printed # {}

(* What a batch has done at each point.                                    *)
ProgressInv ==
  /\ (exit # NoExit) <=> (phase = "done")
  /\ phase \notin {"judge", "done"} => printed = {}
  /\ phase = "judge" => printed # {}
  /\ Early => /\ DOMAIN items = {} /\ DOMAIN found = {} /\ DOMAIN errors = {}
              /\ counts = NoCounts /\ exit \in {NoExit, 2}
  /\ Early \/ phase = "verify" => consistency = {}
  /\ Early \/ phase \in {"verify", "settle"} =>
       asked = {} /\ pending = {} /\ mode = "Offline" /\ deferred = "None" /\ ~probed

(* Where the verdict a pair had before the network pass files it.          *)
OfflineBucket(n) ==
  Bucket(Verdict(found[n].checks, VerdictsIn(OfflineResults(found[n].facts)), policy).status,
         found[n].facts)

(* Each pair that was verified or failed has its row, under the verdict it *)
(* had offline until all are filed anew, and once they are gathered the    *)
(* loose entries have theirs.                                              *)
RowsInv ==
  /\ DOMAIN items = {Row(n, "pair") : n \in DOMAIN found \cup DOMAIN errors}
                    \cup (IF Gathered THEN DOMAIN LooseRows ELSE {})
  /\ Gathered => /\ DOMAIN found \cup DOMAIN errors = Matched
                 /\ \A r \in DOMAIN LooseRows : items[r] = LooseRows[r]
  /\ \A n \in DOMAIN errors : items[Row(n, "pair")] = "Error"
  /\ \A n \in DOMAIN found :
       items[Row(n, "pair")] = IF phase \in {"print", "judge", "done"}
                               THEN Bucket(VerdictOf(n).status, found[n].facts)
                               ELSE OfflineBucket(n)

UnreadableIn(entries) == {n \in Names : entries[n] = "unreadable"}

Unpaired == {n \in Names : (sources[n] = "file") # (receipts[n] = "file")}

(* At every point the counts are those of the rows there are.              *)
CountsInv ==
  /\ \A b \in Judged :
       counts[b] = Cardinality({n \in DOMAIN found : items[Row(n, "pair")] = b})
  /\ counts["Error"] =
       Cardinality(DOMAIN errors)
       + IF Gathered
         THEN Cardinality(UnreadableIn(sources)) + Cardinality(UnreadableIn(receipts))
         ELSE 0
  /\ counts["Unmatched"] = IF Gathered THEN Cardinality(Unpaired) ELSE 0

(* Each result is what the facts alone say, or what one answer to the      *)
(* question the proof asks makes of it.                                    *)
ResultsInv ==
  \A n \in DOMAIN found : \A i \in DOMAIN found[n].facts :
    LET f == found[n].facts[i]
    IN IF <<n, i>> \in asked
       THEN \E lookup \in Lookups(f.proof.height) : results[n][i] = OnlineResult(f.proof, lookup)
       ELSE results[n][i] = Result(VerdictFromFacts(f), NoHeader)

(* The lookups made and those to be made are of all the prepared anchors.  *)
TrafficInv ==
  /\ asked \subseteq Settleable
  /\ Gathered /\ phase # "settle" => probed = Probes(flag, Settleable # {})
  /\ mode = "Online" => Settleable # {}
  /\ phase = "online" => /\ mode = "Online"
                        /\ asked \cup pending = Settleable
                        /\ asked \cap pending = {}
  /\ phase \in {"reclassify", "print", "judge", "done"} =>
       /\ pending = {}
       /\ asked = IF mode = "Online" THEN Settleable ELSE {}

(* Filing anew changes nobody's part in the comparison.                    *)
ConsistencyInv == Gathered => consistency = CrossCompared

PrintedInv ==
  /\ printed \subseteq {Report}
  /\ phase = "done" /\ printed # {} => exit = ExitCode(BatchStatus, deferred)

IInv ==
  /\ TypeOK
  /\ ProgressInv
  /\ RowsInv
  /\ CountsInv
  /\ ResultsInv
  /\ TrafficInv
  /\ ConsistencyInv
  /\ PrintedInv

(* Where the evidence of the whole batch stands for the caller.            *)
Standing ==
  IF Early \/ phase = "verify" THEN "Unexamined"
  ELSE [Valid |-> "Accepted", Invalid |-> "Refuted", Untrusted |-> "Open",
        Error |-> "Failed"][BatchStatus]

Contract == INSTANCE VerifyContract WITH standing <- Standing

(* A directory keeps the promise a file does: the network pass and the new *)
(* filing can turn an open batch into an accepted one and nothing else     *)
(* (execute_batch, reclassify).                                            *)
BatchKeepsContract == Contract!Spec
=============================================================================
