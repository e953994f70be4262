---------------------------- MODULE BatchRun_proofs ----------------------------
(***************************************************************************)
(* Proofs about BatchRun: whatever the directories hold, the summary is of *)
(* the rows, the exit code of the receipts, and the comparison accuses     *)
(* nobody.  They follow from the inductive invariant IInv.                 *)
(***************************************************************************)
EXTENDS BatchRun, Verdicts_proofs, Consistency_proofs

(* Rows of one side are as many as the names they are for.                 *)
LEMMA RowsCounted ==
  ASSUME NEW S, IsFiniteSet(S), NEW side
  PROVE  /\ IsFiniteSet({Row(n, side) : n \in S})
         /\ Cardinality({Row(n, side) : n \in S}) = Cardinality(S)
<1> DEFINE T == {Row(n, side) : n \in S}
           f == [n \in S |-> Row(n, side)]
<1>1. \A m, n \in S : Row(m, side) = Row(n, side) => m = n
  BY DEF Row
<1>2. f \in Bijection(S, T)
  BY <1>1 DEF Bijection, Injection, IsInjective, Surjection
<1>3. ExistsBijection(S, T)
  BY <1>2 DEF ExistsBijection
<1> QED BY <1>3, FS_Bijection

(* Of two sets that have nothing in common the sizes add up.               *)
LEMMA DisjointCounted ==
  ASSUME NEW S, NEW T, IsFiniteSet(S), IsFiniteSet(T), S \cap T = {}
  PROVE  /\ IsFiniteSet(S \cup T)
         /\ Cardinality(S \cup T) = Cardinality(S) + Cardinality(T)
<1>1. Cardinality(S \cap T) = 0
  BY FS_EmptySet
<1>2. Cardinality(S) \in Nat /\ Cardinality(T) \in Nat
  BY FS_CardinalityType
<1>3. /\ IsFiniteSet(S \cup T)
      /\ Cardinality(S \cup T) = Cardinality(S) + Cardinality(T) - Cardinality(S \cap T)
  BY FS_Union
<1>4. Cardinality(S \cup T) = Cardinality(S) + Cardinality(T) - 0
  BY <1>1, <1>3
<1> QED BY <1>2, <1>3, <1>4

(* Every set of names is finite.                                           *)
LEMMA NamesCounted ==
  ASSUME NEW S \in SUBSET Names
  PROVE  IsFiniteSet(S) /\ Cardinality(S) \in Nat /\ (Cardinality(S) = 0 <=> S = {})
BY BatchAssumption, FS_Subset, FS_CardinalityType, FS_EmptySet

-----------------------------------------------------------------------------
(* What is found in a pair is well formed, and what a block could settle   *)
(* of it has a proof.                                                      *)
LEMMA FoundIsTyped ==
  ASSUME TypeOK, NEW n \in DOMAIN found
  PROVE  /\ n \in Names /\ n \in Matched /\ n \notin DOMAIN errors
         /\ found[n] \in ItemShapes /\ found[n].checks \in ReceiptChecks
         /\ \A i \in DOMAIN found[n].facts : i \in Nat /\ found[n].facts[i] \in FactSets
         /\ n \in DOMAIN results /\ DOMAIN results[n] = DOMAIN found[n].facts
         /\ PreparedPlaces(found[n].facts) \subseteq DOMAIN found[n].facts
         /\ \A i \in PreparedPlaces(found[n].facts) :
              /\ Prepared(found[n].facts[i]) /\ found[n].facts[i].proof \in Proofs
              /\ VerdictFromFacts(found[n].facts[i]) = "Untrusted"
<1>1. /\ n \in Matched /\ n \in Names /\ n \notin DOMAIN errors /\ n \in DOMAIN results
      /\ found[n] \in ItemShapes /\ DOMAIN results[n] = DOMAIN found[n].facts
  BY DEF TypeOK, Matched
<1>2. /\ found[n].checks \in ReceiptChecks
      /\ \A i \in DOMAIN found[n].facts : i \in Nat /\ found[n].facts[i] \in FactSets
  BY <1>1, BatchAssumption
<1>3. PreparedPlaces(found[n].facts) \subseteq DOMAIN found[n].facts
  BY DEF PreparedPlaces
<1>4. ASSUME NEW i \in PreparedPlaces(found[n].facts)
      PROVE  /\ Prepared(found[n].facts[i]) /\ found[n].facts[i].proof \in Proofs
             /\ VerdictFromFacts(found[n].facts[i]) = "Untrusted"
  <2> DEFINE f == found[n].facts[i]
  <2>1. f \in FactSets /\ Prepared(f)
    BY <1>2, <1>3 DEF PreparedPlaces
  <2> HIDE DEF f
  <2>2. f.unable /\ ~f.refuted
    BY <2>1 DEF FactSets, Prepared
  <2>3. VerdictFromFacts(f) = "Untrusted"
    BY <2>2 DEF VerdictFromFacts
  <2> QED BY <2>1, <2>3, FactsDecide DEF f
<1> QED BY <1>1, <1>2, <1>3, <1>4

(* The anchors that a block could settle, one by one.                      *)
LEMMA SettleableMeans ==
  ASSUME NEW p
  PROVE  p \in Settleable <=>
           \E n \in DOMAIN found : \E i \in PreparedPlaces(found[n].facts) : p = <<n, i>>
BY DEF Settleable

(* Where verdicts are filed: nothing refuted is anywhere but among the     *)
(* refuted, and what is accepted among the accepted.                       *)
LEMMA BucketMeans ==
  ASSUME NEW c \in ReceiptChecks, NEW R, NEW p \in Policies, NEW F
  PROVE  LET b == Bucket(Verdict(c, R, p).status, F)
         IN /\ b \in Judged
            /\ b = "Invalid" <=> ReceiptRefuted(c)
            /\ b = "Valid" <=> Verdict(c, R, p).status = "Valid"
            /\ b = "Unanchored" => DOMAIN F = {}
            /\ b \in {"Untrusted", "Unanchored"} <=> Verdict(c, R, p).status = "Untrusted"
<1>1. /\ Verdict(c, R, p).status \in {"Valid", "Invalid", "Untrusted"}
      /\ Verdict(c, R, p).status = "Invalid" <=> ReceiptRefuted(c)
  BY StatusMeans
<1> QED BY <1>1 DEF Bucket, Judged

(* The status of a batch, taken apart.                                     *)
LEMMA BatchStatusMeans ==
  ASSUME counts \in [Counted -> Nat], ~Broken
  PROVE  /\ BatchStatus \in Statuses
         /\ BatchStatus = "Invalid" <=> counts["Invalid"] > 0
         /\ BatchStatus = "Error" <=> counts["Invalid"] = 0 /\ counts["Error"] > 0
         /\ BatchStatus = "Valid" <=>
              /\ \A b \in Counted \ {"Valid"} : counts[b] = 0
              /\ counts["Valid"] > 0
<1>1. \A b \in Counted : counts[b] \in Nat
  OBVIOUS
<1>2. Counted = {"Valid", "Unanchored", "Untrusted", "Invalid", "Error", "Unmatched"}
  BY DEF Counted, Judged
<1>3. CASE counts["Invalid"] > 0
  <2>1. BatchStatus = "Invalid"
    BY <1>3 DEF BatchStatus
  <2> QED BY <1>1, <1>2, <1>3, <2>1 DEF Statuses
<1>4. CASE counts["Invalid"] = 0 /\ counts["Error"] > 0
  <2>1. BatchStatus = "Error"
    BY <1>1, <1>2, <1>4 DEF BatchStatus
  <2> QED BY <1>1, <1>2, <1>4, <2>1 DEF Statuses
<1>5. CASE counts["Invalid"] = 0 /\ counts["Error"] = 0
  <2>1. BatchStatus = IF /\ counts["Unmatched"] = 0
                         /\ counts["Unanchored"] = 0
                         /\ counts["Untrusted"] = 0
                         /\ counts["Valid"] > 0
                      THEN "Valid" ELSE "Untrusted"
    BY <1>1, <1>2, <1>5 DEF BatchStatus
  <2> QED BY <1>1, <1>2, <1>5, <2>1 DEF Statuses
<1> QED BY <1>1, <1>2, <1>3, <1>4, <1>5

-----------------------------------------------------------------------------
(* The rows that belong to no pair, one by one.                            *)
LEMMA LooseMeans ==
  /\ DOMAIN LooseRows =
       {Row(n, "source") : n \in {m \in Names : sources[m] # "none"} \ Matched} \cup
       {Row(n, "receipt") : n \in {m \in Names : receipts[m] # "none"} \ Matched}
  /\ \A n \in {m \in Names : sources[m] # "none"} \ Matched :
       LooseRows[Row(n, "source")] = IF sources[n] = "file" THEN "NoReceipt" ELSE "Error"
  /\ \A n \in {m \in Names : receipts[m] # "none"} \ Matched :
       LooseRows[Row(n, "receipt")] = IF receipts[n] = "file" THEN "NoSource" ELSE "Error"
  /\ \A r \in DOMAIN LooseRows :
       /\ r \in Rows /\ r.side # "pair"
       /\ LooseRows[r] \in {"NoReceipt", "NoSource", "Error"}
<1> DEFINE S == {m \in Names : sources[m] # "none"} \ Matched
           T == {m \in Names : receipts[m] # "none"} \ Matched
           D == {Row(n, "source") : n \in S} \cup {Row(n, "receipt") : n \in T}
<1>1. LooseRows =
        [r \in D |->
           CASE r.side = "source"  -> IF sources[r.name] = "file" THEN "NoReceipt" ELSE "Error"
             [] r.side = "receipt" -> IF receipts[r.name] = "file" THEN "NoSource" ELSE "Error"]
  BY DEF LooseRows
<1>2. \A n, side : Row(n, side).name = n /\ Row(n, side).side = side
  BY DEF Row
<1>3. S \subseteq Names /\ T \subseteq Names
  OBVIOUS
<1>4. \A n \in S : Row(n, "source") \in Rows
  BY <1>3 DEF Row, Rows, Sides
<1>5. \A n \in T : Row(n, "receipt") \in Rows
  BY <1>3 DEF Row, Rows, Sides
<1> HIDE DEF S, T
<1>6. /\ DOMAIN LooseRows = D
      /\ \A n \in S :
           LooseRows[Row(n, "source")] = IF sources[n] = "file" THEN "NoReceipt" ELSE "Error"
      /\ \A n \in T :
           LooseRows[Row(n, "receipt")] = IF receipts[n] = "file" THEN "NoSource" ELSE "Error"
  BY <1>1, <1>2
<1>7. ASSUME NEW r \in D
      PROVE  /\ r \in Rows /\ r.side # "pair"
             /\ LooseRows[r] \in {"NoReceipt", "NoSource", "Error"}
  BY <1>2, <1>4, <1>5, <1>6
<1> QED BY <1>6, <1>7 DEF S, T

(* Every entry that cannot be read has an Error row of its own, and every  *)
(* file without its counterpart a row that says so.                        *)
LEMMA LooseRowsCounted ==
  ASSUME sources \in [Names -> Entries], receipts \in [Names -> Entries]
  PROVE  /\ IsFiniteSet(InBucket(LooseRows, "Error"))
         /\ Cardinality(InBucket(LooseRows, "Error")) =
              Cardinality(UnreadableIn(sources)) + Cardinality(UnreadableIn(receipts))
         /\ Cardinality(InBucket(LooseRows, "NoReceipt") \cup InBucket(LooseRows, "NoSource")) =
              Cardinality(Unpaired)
<1> DEFINE S == {m \in Names : sources[m] # "none"} \ Matched
           T == {m \in Names : receipts[m] # "none"} \ Matched
           us == UnreadableIn(sources)
           ur == UnreadableIn(receipts)
           ns == {n \in Names : sources[n] = "file" /\ receipts[n] # "file"}
           nr == {n \in Names : receipts[n] = "file" /\ sources[n] # "file"}
           rows(names, side) == {Row(n, side) : n \in names}
<1>1. /\ us \in SUBSET Names /\ ur \in SUBSET Names /\ ns \in SUBSET Names /\ nr \in SUBSET Names
      /\ us \subseteq S /\ ur \subseteq T /\ ns \subseteq S /\ nr \subseteq T
      /\ \A n \in S : n \in us \/ n \in ns
      /\ \A n \in T : n \in ur \/ n \in nr
      /\ \A n \in us : sources[n] # "file"
      /\ \A n \in ur : receipts[n] # "file"
      /\ \A n \in ns : sources[n] = "file"
      /\ \A n \in nr : receipts[n] = "file"
      /\ ns \cap nr = {} /\ ns \cup nr = Unpaired
  BY DEF UnreadableIn, Unpaired, Entries, Matched
<1>2. /\ DOMAIN LooseRows = rows(S, "source") \cup rows(T, "receipt")
      /\ \A n \in S :
           LooseRows[Row(n, "source")] = IF sources[n] = "file" THEN "NoReceipt" ELSE "Error"
      /\ \A n \in T :
           LooseRows[Row(n, "receipt")] = IF receipts[n] = "file" THEN "NoSource" ELSE "Error"
  BY LooseMeans
<1>3. \A A, B : rows(A, "source") \cap rows(B, "receipt") = {}
  BY DEF Row
<1> HIDE DEF S, T, us, ur, ns, nr
<1>4. InBucket(LooseRows, "Error") = rows(us, "source") \cup rows(ur, "receipt")
  BY <1>1, <1>2 DEF InBucket
<1>5. InBucket(LooseRows, "NoReceipt") = rows(ns, "source")
  BY <1>1, <1>2 DEF InBucket
<1>6. InBucket(LooseRows, "NoSource") = rows(nr, "receipt")
  BY <1>1, <1>2 DEF InBucket
<1>7. ASSUME NEW A \in SUBSET Names, NEW side
      PROVE  IsFiniteSet(A) /\ IsFiniteSet(rows(A, side))
             /\ Cardinality(rows(A, side)) = Cardinality(A)
  BY NamesCounted, RowsCounted
<1>8. ASSUME NEW A \in SUBSET Names, NEW B \in SUBSET Names
      PROVE  /\ IsFiniteSet(rows(A, "source") \cup rows(B, "receipt"))
             /\ Cardinality(rows(A, "source") \cup rows(B, "receipt")) =
                  Cardinality(A) + Cardinality(B)
  <2>1. /\ IsFiniteSet(rows(A, "source")) /\ Cardinality(rows(A, "source")) = Cardinality(A)
        /\ IsFiniteSet(rows(B, "receipt")) /\ Cardinality(rows(B, "receipt")) = Cardinality(B)
        /\ rows(A, "source") \cap rows(B, "receipt") = {}
    BY <1>3, <1>7
  <2> HIDE DEF rows
  <2> QED BY <2>1, DisjointCounted
<1>9. Cardinality(ns \cup nr) = Cardinality(ns) + Cardinality(nr)
  BY <1>1, <1>7, DisjointCounted
<1>10. /\ IsFiniteSet(InBucket(LooseRows, "Error"))
       /\ Cardinality(InBucket(LooseRows, "Error")) = Cardinality(us) + Cardinality(ur)
  BY <1>1, <1>4, <1>8
<1>11. Cardinality(InBucket(LooseRows, "NoReceipt") \cup InBucket(LooseRows, "NoSource")) =
         Cardinality(ns) + Cardinality(nr)
  BY <1>1, <1>5, <1>6, <1>8
<1> QED BY <1>1, <1>9, <1>10, <1>11 DEF us, ur

(* Whether verdicts were filed offline or anew: a row is where its receipt *)
(* belongs, and an unanchored one has nothing to look up.                  *)
LEMMA FiledMeans ==
  TypeOK /\ RowsInv =>
    \A n \in DOMAIN found :
      /\ items[Row(n, "pair")] \in Judged
      /\ items[Row(n, "pair")] = "Invalid" <=> Refuted(n)
      /\ items[Row(n, "pair")] = "Unanchored" => DOMAIN found[n].facts = {}
<1> SUFFICES ASSUME TypeOK, RowsInv, NEW n \in DOMAIN found
             PROVE  /\ items[Row(n, "pair")] \in Judged
                    /\ items[Row(n, "pair")] = "Invalid" <=> Refuted(n)
                    /\ items[Row(n, "pair")] = "Unanchored" => DOMAIN found[n].facts = {}
  OBVIOUS
<1>1. found[n].checks \in ReceiptChecks /\ policy \in Policies
  BY FoundIsTyped DEF TypeOK
<1>2. PICK R : items[Row(n, "pair")] =
                 Bucket(Verdict(found[n].checks, R, policy).status, found[n].facts)
  BY DEF RowsInv, OfflineBucket, VerdictOf
<1> DEFINE b == Bucket(Verdict(found[n].checks, R, policy).status, found[n].facts)
<1>3. /\ b \in Judged
      /\ b = "Invalid" <=> ReceiptRefuted(found[n].checks)
      /\ b = "Unanchored" => DOMAIN found[n].facts = {}
  BY <1>1, BucketMeans
<1> HIDE DEF b
<1>4. items[Row(n, "pair")] = b
  BY <1>2 DEF b
<1> QED BY <1>3, <1>4 DEF Refuted

(* The receipts compared are those that were not refuted and name a log.   *)
LEMMA ComparableMeans ==
  TypeOK /\ RowsInv =>
    \A n : Comparable(n) <=> n \in DOMAIN found /\ found[n].genesis # NoSuperTree /\ ~Refuted(n)
<1> SUFFICES ASSUME TypeOK, RowsInv, NEW n \in DOMAIN found
             PROVE  items[Row(n, "pair")] \in {"Valid", "Untrusted", "Unanchored"} <=> ~Refuted(n)
  BY DEF Comparable
<1> QED BY FiledMeans DEF Judged

(* What is compared of each receipt is what was found in it.               *)
LEMMA ParticipantsMean ==
  TypeOK /\ RowsInv =>
    /\ Receipts(Participants)
    /\ \A r \in Participants :
         /\ r.name \in DOMAIN found /\ r.at = r.name
         /\ r.genesis = found[r.name].genesis /\ r.genesis \in Geneses
         /\ r.size = found[r.name].size
         /\ r.holds = found[r.name].checks.proofsHold /\ r.holds
    /\ \A r, s \in Participants : r.name = s.name => r = s
<1> SUFFICES ASSUME TypeOK, RowsInv
             PROVE  /\ Receipts(Participants)
                    /\ \A r \in Participants :
                         /\ r.name \in DOMAIN found /\ r.at = r.name
                         /\ r.genesis = found[r.name].genesis /\ r.genesis \in Geneses
                         /\ r.size = found[r.name].size
                         /\ r.holds = found[r.name].checks.proofsHold /\ r.holds
                    /\ \A r, s \in Participants : r.name = s.name => r = s
  OBVIOUS
<1> DEFINE C == {m \in Names : Comparable(m)}
           of(n) == [at |-> n, name |-> n, genesis |-> found[n].genesis, size |-> found[n].size,
                     holds |-> found[n].checks.proofsHold]
           f == [n \in C |-> of(n)]
<1>1. Participants = {of(n) : n \in C}
  BY DEF Participants
<1>2. ASSUME NEW n \in C
      PROVE  /\ n \in DOMAIN found /\ n \in Nat /\ found[n].genesis \in Geneses
             /\ found[n].genesis \in Nat /\ found[n].size \in Nat
             /\ found[n].checks.proofsHold
  <2>1. n \in DOMAIN found /\ n \in Names /\ found[n].genesis # NoSuperTree /\ ~Refuted(n)
    BY ComparableMeans
  <2>2. found[n] \in ItemShapes /\ found[n].checks \in ReceiptChecks
    BY <2>1, FoundIsTyped
  <2>3. found[n].genesis \in Geneses /\ found[n].size \in Nat
    BY <2>1, <2>2, BatchAssumption
  <2>4. found[n].checks.proofsHold
    BY <2>1, <2>2, RefutedMeans DEF Refuted, ReceiptChecks
  <2> QED BY <2>1, <2>3, <2>4, BatchAssumption
<1>3. IsFiniteSet(Participants)
  <2>1. IsFiniteSet(C)
    BY NamesCounted
  <2>2. f \in Surjection(C, Participants)
    <3> HIDE DEF C, of
    <3> QED BY <1>1 DEF Surjection
  <2> QED BY <2>1, <2>2, FS_Surjection
<1>4. ASSUME NEW r \in Participants
      PROVE  /\ r.name \in DOMAIN found /\ r.at = r.name /\ r.at \in Nat
             /\ r.genesis = found[r.name].genesis /\ r.genesis \in Geneses /\ r.genesis \in Nat
             /\ r.size = found[r.name].size /\ r.size \in Nat
             /\ r.holds = found[r.name].checks.proofsHold /\ r.holds
             /\ r = of(r.name)
  <2>1. PICK n \in C : r = of(n)
    BY <1>1
  <2> QED BY <1>2, <2>1
<1>5. \A r, s \in Participants : r.name = s.name => r = s
  <2> HIDE DEF of
  <2> QED BY <1>4
<1>6. Receipts(Participants)
  BY <1>3, <1>4, <1>5 DEF Receipts
<1> QED BY <1>4, <1>5, <1>6

(* Before the rows are complete nothing was compared.                      *)
LEMMA Stages ==
  ASSUME phase \in Phases
  PROVE  Gathered \/ Early \/ phase = "verify"
BY DEF Phases, Gathered, Early

(* What is compared at all is of one instance and holds.                   *)
LEMMA NothingBroken ==
  TypeOK /\ RowsInv /\ ProgressInv /\ ConsistencyInv => ~Broken
<1> SUFFICES ASSUME TypeOK, RowsInv, ProgressInv, ConsistencyInv, NEW c \in consistency,
                    NEW check \in c.cross_results
             PROVE  check.consistent
  BY DEF Broken, IsConsistent
<1>1. c = VerifyConsistency(Participants)
  <2>1. phase \in Phases
    BY DEF TypeOK
  <2> QED BY <2>1, Stages DEF ProgressInv, ConsistencyInv, CrossCompared
<1>2. check \in CrossResults(Participants)
  BY <1>1 DEF VerifyConsistency
<1>3. PICK w \in Windows(Participants) :
        check = CrossCheck(w[1], Place(Participants, w[1]), w[2], Place(Participants, w[2]))
  BY <1>2, ChecksAreOfWindows
<1>4. w[1] \in Participants /\ w[2] \in Participants /\ w[1].genesis = w[2].genesis
  BY ParticipantsMean, WindowMeans
<1>5. w[1].holds /\ w[2].holds
  BY <1>4, ParticipantsMean
<1> QED BY <1>3, <1>4, <1>5 DEF CrossCheck, HistoryConsistent

(* The comparison names verified pairs only.                               *)
LEMMA ComparedAreFound ==
  TypeOK /\ RowsInv =>
    /\ Cardinality(CrossCompared) <= 1
    /\ \A c \in CrossCompared : \A k \in DOMAIN c.participants : c.participants[k] \in DOMAIN found
<1> SUFFICES ASSUME TypeOK, RowsInv
             PROVE  /\ Cardinality(CrossCompared) <= 1
                    /\ \A c \in CrossCompared : \A k \in DOMAIN c.participants :
                         c.participants[k] \in DOMAIN found
  OBVIOUS
<1>1. CrossCompared = {} \/ CrossCompared = {VerifyConsistency(Participants)}
  BY DEF CrossCompared
<1>2. Cardinality(CrossCompared) <= 1
  <2>1. Cardinality({}) = 0
    BY FS_EmptySet
  <2>2. Cardinality({VerifyConsistency(Participants)}) = 1
    BY FS_Singleton
  <2> QED BY <1>1, <2>1, <2>2
<1>3. \A k \in DOMAIN VerifyConsistency(Participants).participants :
        VerifyConsistency(Participants).participants[k] \in DOMAIN found
  <2>1. Receipts(Participants) /\ \A r \in Participants : r.name \in DOMAIN found
    BY ParticipantsMean
  <2> QED BY <2>1, ParticipantsListed
<1> QED BY <1>1, <1>2, <1>3

(* A pair of which nothing was looked up has the verdict it had offline.   *)
LEMMA OfflineVerdict ==
  TypeOK /\ ResultsInv =>
    \A n \in DOMAIN found :
      (\A i \in DOMAIN found[n].facts : <<n, i>> \notin asked) =>
        VerdictsIn(results[n]) = VerdictsIn(OfflineResults(found[n].facts))
<1> SUFFICES ASSUME TypeOK, ResultsInv, NEW n \in DOMAIN found,
                    \A i \in DOMAIN found[n].facts : <<n, i>> \notin asked
             PROVE  VerdictsIn(results[n]) = VerdictsIn(OfflineResults(found[n].facts))
  OBVIOUS
<1>1. DOMAIN results[n] = DOMAIN found[n].facts
  BY FoundIsTyped
<1>2. \A i \in DOMAIN found[n].facts :
        results[n][i] = Result(VerdictFromFacts(found[n].facts[i]), NoHeader)
  BY DEF ResultsInv
<1> QED BY <1>1, <1>2 DEF VerdictsIn, OfflineResults

(* The network pass visits every anchor that a block could settle.         *)
LEMMA WorkListIsWhole ==
  TypeOK /\ RowsInv => WorkList = Settleable
<1> SUFFICES ASSUME TypeOK, RowsInv PROVE WorkList = Settleable
  OBVIOUS
<1>1. \A n \in DOMAIN found : n \notin Visited => PreparedPlaces(found[n].facts) = {}
  BY FiledMeans DEF Visited, Judged, PreparedPlaces
<1>2. Visited \subseteq DOMAIN found
  BY DEF Visited
<1> QED BY <1>1, <1>2 DEF WorkList, Settleable

-----------------------------------------------------------------------------
(* The inductive invariant.                                                *)
LEMMA InitIsSafe == Init => IInv
<1> SUFFICES ASSUME Init PROVE IInv
  OBVIOUS
<1>1. /\ phase = "validate" /\ printed = {} /\ exit = NoExit /\ consistency = {}
      /\ DOMAIN items = {} /\ DOMAIN found = {} /\ DOMAIN results = {} /\ DOMAIN errors = {}
      /\ counts = NoCounts /\ pending = {} /\ asked = {} /\ ~probed
      /\ mode = "Offline" /\ deferred = "None"
  BY DEF Init
<1>2. Early /\ ~Gathered
  BY <1>1 DEF Early, Gathered
<1>3. Cardinality({}) = 0
  BY FS_EmptySet
<1>4. TypeOK
  <2>1. sources \in [Names -> Entries] /\ receipts \in [Names -> Entries]
    BY DEF Init, Entries
  <2>2. counts \in [Counted -> Nat]
    BY <1>1 DEF NoCounts
  <2>3. phase \in Phases /\ mode \in Modes /\ deferred \in Deferrals /\ probed \in BOOLEAN
    BY <1>1 DEF Init, Phases, Modes, Deferrals
  <2> QED BY <1>1, <1>3, <2>1, <2>2, <2>3 DEF TypeOK, Init
<1>5. ProgressInv
  BY <1>1, BatchAssumption DEF ProgressInv, ExitCodes
<1>6. RowsInv
  BY <1>1, <1>2 DEF RowsInv
<1>7. CountsInv
  <2>1. \A b \in Counted : counts[b] = 0
    BY <1>1 DEF NoCounts
  <2>2. \A b \in Judged : counts[b] = 0
    BY <2>1 DEF Counted
  <2>3. counts["Error"] = 0 /\ counts["Unmatched"] = 0
    BY <2>1 DEF Counted
  <2>4. \A b : {n \in DOMAIN found : items[Row(n, "pair")] = b} = {}
    BY <1>1
  <2> QED BY <1>1, <1>2, <1>3, <2>2, <2>3, <2>4 DEF CountsInv
<1>8. ResultsInv /\ TrafficInv /\ ConsistencyInv /\ PrintedInv
  BY <1>1, <1>2 DEF ResultsInv, TrafficInv, ConsistencyInv, PrintedInv
<1> QED BY <1>4, <1>5, <1>6, <1>7, <1>8 DEF IInv

(* Until the pairs are verified a batch has done nothing but walk.         *)
LEMMA WalkIsSafe ==
  /\ IInv
  /\ phase \in {"validate", "trust", "sources", "receipts"}
  /\ phase' \in {"trust", "sources", "receipts", "verify", "done"}
  /\ exit' = IF phase' = "done" THEN 2 ELSE exit
  /\ sources' \in [Names -> Entries] /\ receipts' \in [Names -> Entries]
  /\ UNCHANGED <<flag, policy, verified, network, printed>>
  => IInv'
<1> SUFFICES ASSUME IInv,
                    phase \in {"validate", "trust", "sources", "receipts"},
                    phase' \in {"trust", "sources", "receipts", "verify", "done"},
                    exit' = IF phase' = "done" THEN 2 ELSE exit,
                    sources' \in [Names -> Entries], receipts' \in [Names -> Entries],
                    UNCHANGED <<flag, policy, verified, network, printed>>
             PROVE  IInv'
  OBVIOUS
<1>1. /\ items' = items /\ found' = found /\ results' = results /\ errors' = errors
      /\ counts' = counts /\ consistency' = consistency /\ pending' = pending
      /\ probed' = probed /\ asked' = asked /\ mode' = mode /\ deferred' = deferred
      /\ flag' = flag /\ policy' = policy /\ printed' = printed
  BY DEF verified, network
<1>2. Early
  BY DEF Early
<1>3. /\ printed = {} /\ exit = NoExit /\ consistency = {}
      /\ DOMAIN items = {} /\ DOMAIN found = {} /\ DOMAIN results = {} /\ DOMAIN errors = {}
      /\ counts = NoCounts /\ pending = {} /\ asked = {} /\ ~probed
      /\ mode = "Offline" /\ deferred = "None"
  BY <1>2 DEF IInv, TypeOK, ProgressInv
<1>4. ~Gathered' /\ (phase' # "verify" => Early')
  BY <1>1, <1>3 DEF Early, Gathered
<1>5. TypeOK'
  <2>1. phase' \in Phases /\ exit' \in ExitCodes \cup {NoExit}
    BY <1>3 DEF Phases, ExitCodes
  <2>2. /\ flag \in Flags /\ policy \in Policies /\ counts \in [Counted -> Nat]
        /\ Cardinality(consistency) <= 1 /\ probed \in BOOLEAN
        /\ mode \in Modes /\ deferred \in Deferrals
    BY DEF IInv, TypeOK
  <2> QED BY <1>1, <1>3, <2>1, <2>2 DEF TypeOK
<1>6. ProgressInv'
  BY <1>1, <1>3, BatchAssumption DEF ProgressInv, ExitCodes
<1>7. RowsInv'
  BY <1>1, <1>3, <1>4 DEF RowsInv
<1>8. CountsInv'
  <2>1. \A b \in Counted : counts[b] = 0
    BY <1>3 DEF NoCounts
  <2>2. /\ \A b \in Judged : counts[b] = 0
        /\ counts["Error"] = 0 /\ counts["Unmatched"] = 0
    BY <2>1 DEF Counted
  <2>3. \A b : {n \in DOMAIN found' : items'[Row(n, "pair")] = b} = {}
    BY <1>1, <1>3
  <2>4. Cardinality({}) = 0
    BY FS_EmptySet
  <2> QED BY <1>1, <1>3, <1>4, <2>2, <2>3, <2>4 DEF CountsInv
<1>9. ResultsInv' /\ TrafficInv' /\ ConsistencyInv' /\ PrintedInv'
  BY <1>1, <1>3, <1>4 DEF ResultsInv, TrafficInv, ConsistencyInv, PrintedInv
<1> QED BY <1>5, <1>6, <1>7, <1>8, <1>9 DEF IInv

(* What every step on the next pair finds: no row for it, and nothing yet  *)
(* compared or asked.                                                      *)
LEMMA NextPairIsNew ==
  ASSUME IInv, NEW n \in Names, NextPair(n)
  PROVE  /\ n \in Matched /\ n \notin DOMAIN found /\ n \notin DOMAIN errors
         /\ n \notin DOMAIN results /\ Row(n, "pair") \notin DOMAIN items
         /\ phase = "verify" /\ ~Gathered /\ ~Early
         /\ printed = {} /\ exit = NoExit /\ consistency = {}
         /\ pending = {} /\ asked = {} /\ ~probed /\ mode = "Offline" /\ deferred = "None"
         /\ DOMAIN items = {Row(m, "pair") : m \in DOMAIN found \cup DOMAIN errors}
<1>1. phase = "verify" /\ n \in Matched /\ Row(n, "pair") \notin DOMAIN items
  BY DEF NextPair
<1>2. printed = {} /\ exit = NoExit
  BY <1>1 DEF IInv, TypeOK, ProgressInv
<1>3. ~Gathered /\ ~Early
  BY <1>1, <1>2 DEF Gathered, Early
<1>4. DOMAIN items = {Row(m, "pair") : m \in DOMAIN found \cup DOMAIN errors}
  BY <1>3 DEF IInv, RowsInv
<1>5. DOMAIN found = DOMAIN results
  BY DEF IInv, TypeOK
<1> QED BY <1>1, <1>2, <1>3, <1>4, <1>5 DEF IInv, ProgressInv

(* A new row is of its own, and the count of its bucket goes up by one.    *)
LEMMA FilingCounts ==
  ASSUME IInv, NEW n \in Names, NextPair(n), NEW bucket \in Counted, File(n, bucket)
  PROVE  /\ DOMAIN items' = DOMAIN items \cup {Row(n, "pair")}
         /\ items'[Row(n, "pair")] = bucket
         /\ \A r \in DOMAIN items : items'[r] = items[r]
         /\ \A m \in DOMAIN found \cup DOMAIN errors : items'[Row(m, "pair")] = items[Row(m, "pair")]
         /\ counts' \in [Counted -> Nat]
         /\ \A b \in Counted : counts'[b] = IF b = bucket THEN counts[b] + 1 ELSE counts[b]
<1>1. /\ Row(n, "pair") \notin DOMAIN items
      /\ DOMAIN items = {Row(m, "pair") : m \in DOMAIN found \cup DOMAIN errors}
  BY NextPairIsNew
<1>2. counts \in [Counted -> Nat]
  BY DEF IInv, TypeOK
<1>3. /\ DOMAIN items' = DOMAIN items \cup {Row(n, "pair")}
      /\ items'[Row(n, "pair")] = bucket
      /\ \A r \in DOMAIN items : items'[r] = items[r]
  BY <1>1 DEF File
<1>4. \A m \in DOMAIN found \cup DOMAIN errors : items'[Row(m, "pair")] = items[Row(m, "pair")]
  BY <1>1, <1>3
<1>5. /\ counts' \in [Counted -> Nat]
      /\ \A b \in Counted : counts'[b] = IF b = bucket THEN counts[b] + 1 ELSE counts[b]
  BY <1>2 DEF File
<1> QED BY <1>3, <1>4, <1>5

(* A pair that is verified is filed by what was found in it, and counted.  *)
LEMMA VerifyPairIsSafe ==
  ASSUME IInv, NEW n \in Names, VerifyPair(n)
  PROVE  IInv'
<1>1. NextPair(n)
  BY DEF VerifyPair
<1>2. PICK s \in ItemShapes :
        /\ found' = [m \in DOMAIN found \cup {n} |-> IF m = n THEN s ELSE found[m]]
        /\ results' = [m \in DOMAIN results \cup {n} |->
                         IF m = n THEN OfflineResults(s.facts) ELSE results[m]]
        /\ File(n, Bucket(Verdict(s.checks, VerdictsIn(OfflineResults(s.facts)), policy).status,
                          s.facts))
  BY DEF VerifyPair
<1> DEFINE b0 == Bucket(Verdict(s.checks, VerdictsIn(OfflineResults(s.facts)), policy).status,
                        s.facts)
<1>3. /\ phase' = phase /\ flag' = flag /\ policy' = policy
      /\ sources' = sources /\ receipts' = receipts /\ errors' = errors
      /\ consistency' = consistency /\ pending' = pending /\ probed' = probed
      /\ asked' = asked /\ mode' = mode /\ deferred' = deferred
      /\ printed' = printed /\ exit' = exit
  BY DEF VerifyPair, walked, network
<1>4. /\ n \in Matched /\ n \notin DOMAIN found /\ n \notin DOMAIN errors
      /\ n \notin DOMAIN results /\ Row(n, "pair") \notin DOMAIN items
      /\ phase = "verify" /\ ~Gathered /\ ~Early
      /\ printed = {} /\ exit = NoExit /\ consistency = {}
      /\ pending = {} /\ asked = {} /\ ~probed /\ mode = "Offline" /\ deferred = "None"
      /\ DOMAIN items = {Row(m, "pair") : m \in DOMAIN found \cup DOMAIN errors}
  BY <1>1, NextPairIsNew
<1>5. /\ s.checks \in ReceiptChecks
      /\ \A i \in DOMAIN s.facts : i \in Nat /\ s.facts[i] \in FactSets
  BY <1>2, BatchAssumption
<1>6. b0 \in Judged /\ b0 \in Counted /\ b0 \in Buckets
  <2>1. policy \in Policies
    BY DEF IInv, TypeOK
  <2>2. b0 \in Judged
    BY <1>5, <2>1, BucketMeans
  <2> QED BY <2>2 DEF Counted, Buckets
<1> HIDE DEF b0
<1>7. File(n, b0)
  BY <1>2 DEF b0
<1>8. /\ DOMAIN items' = DOMAIN items \cup {Row(n, "pair")}
      /\ items'[Row(n, "pair")] = b0
      /\ \A r \in DOMAIN items : items'[r] = items[r]
      /\ \A m \in DOMAIN found \cup DOMAIN errors : items'[Row(m, "pair")] = items[Row(m, "pair")]
      /\ counts' \in [Counted -> Nat]
      /\ \A b \in Counted : counts'[b] = IF b = b0 THEN counts[b] + 1 ELSE counts[b]
  BY <1>1, <1>6, <1>7, FilingCounts
<1>9. /\ DOMAIN found' = DOMAIN found \cup {n} /\ found'[n] = s
      /\ \A m \in DOMAIN found : found'[m] = found[m]
      /\ DOMAIN results' = DOMAIN results \cup {n} /\ results'[n] = OfflineResults(s.facts)
      /\ \A m \in DOMAIN results : results'[m] = results[m]
  BY <1>2, <1>4
<1>10. /\ DOMAIN results'[n] = DOMAIN s.facts
       /\ \A i \in DOMAIN s.facts :
            /\ results'[n][i] = Result(VerdictFromFacts(s.facts[i]), NoHeader)
            /\ results'[n][i] \in Results
  <2>1. /\ DOMAIN results'[n] = DOMAIN s.facts
        /\ \A i \in DOMAIN s.facts :
             results'[n][i] = Result(VerdictFromFacts(s.facts[i]), NoHeader)
    BY <1>9 DEF OfflineResults
  <2> QED BY <1>5, <2>1, FactsDecide
<1>11. ~Gathered' /\ ~Early'
  BY <1>3, <1>4 DEF Gathered, Early
<1>12. DOMAIN found = DOMAIN results
  BY DEF IInv, TypeOK
<1>13. TypeOK'
  <2>1. Matched' = Matched
    BY <1>3 DEF Matched
  <2>2. DOMAIN found' = DOMAIN results' /\ DOMAIN results' \subseteq Matched
    BY <1>4, <1>9, <1>12 DEF IInv, TypeOK
  <2>3. \A m \in DOMAIN found' :
          /\ found'[m] \in ItemShapes
          /\ DOMAIN results'[m] = DOMAIN found'[m].facts
          /\ \A i \in DOMAIN results'[m] : results'[m][i] \in Results
    <3> SUFFICES ASSUME NEW m \in DOMAIN found'
                 PROVE  /\ found'[m] \in ItemShapes
                        /\ DOMAIN results'[m] = DOMAIN found'[m].facts
                        /\ \A i \in DOMAIN results'[m] : results'[m][i] \in Results
      OBVIOUS
    <3>1. CASE m = n
      BY <1>2, <1>9, <1>10, <3>1
    <3>2. CASE m # n
      BY <1>9, <1>12, <3>2 DEF IInv, TypeOK
    <3> QED BY <3>1, <3>2
  <2>4. DOMAIN errors \subseteq Matched \ DOMAIN found'
    BY <1>4, <1>9 DEF IInv, TypeOK
  <2>5. DOMAIN items' \subseteq Rows /\ \A r \in DOMAIN items' : items'[r] \in Buckets
    <3>1. Row(n, "pair") \in Rows
      BY DEF Row, Rows, Sides
    <3> QED BY <1>6, <1>8, <3>1 DEF IInv, TypeOK
  <2>6. /\ phase \in Phases /\ flag \in Flags /\ policy \in Policies
        /\ sources \in [Names -> Entries] /\ receipts \in [Names -> Entries]
        /\ \A m \in DOMAIN errors : errors[m] \in PairErrors
        /\ Cardinality(consistency) <= 1 /\ probed \in BOOLEAN
        /\ mode \in Modes /\ deferred \in Deferrals /\ exit \in ExitCodes \cup {NoExit}
    BY DEF IInv, TypeOK
  <2> QED BY <1>3, <1>4, <1>8, <2>1, <2>2, <2>3, <2>4, <2>5, <2>6 DEF TypeOK
<1>14. ProgressInv'
  BY <1>3, <1>4, <1>11 DEF ProgressInv
<1>15. RowsInv'
  <2>1. DOMAIN items' = {Row(m, "pair") : m \in DOMAIN found' \cup DOMAIN errors}
    BY <1>4, <1>8, <1>9
  <2>2. \A m \in DOMAIN errors : items'[Row(m, "pair")] = "Error"
    BY <1>8 DEF IInv, RowsInv
  <2>3. ASSUME NEW m \in DOMAIN found'
        PROVE  items'[Row(m, "pair")] = OfflineBucket(m)'
    <3>1. CASE m = n
      <4>1. OfflineBucket(m)' = b0
        BY <1>3, <1>9, <3>1 DEF OfflineBucket, b0
      <4> QED BY <1>8, <3>1, <4>1
    <3>2. CASE m # n
      <4>1. m \in DOMAIN found
        BY <1>9, <3>2
      <4>2. OfflineBucket(m)' = OfflineBucket(m)
        BY <1>3, <1>9, <4>1 DEF OfflineBucket
      <4>3. items[Row(m, "pair")] = OfflineBucket(m)
        BY <1>4, <4>1 DEF IInv, RowsInv
      <4> QED BY <1>8, <4>1, <4>2, <4>3
    <3> QED BY <3>1, <3>2
  <2> QED BY <1>3, <1>4, <1>11, <2>1, <2>2, <2>3 DEF RowsInv
<1>16. CountsInv'
  <2>1. ASSUME NEW b \in Judged
        PROVE  counts'[b] = Cardinality({m \in DOMAIN found' : items'[Row(m, "pair")] = b})
    <3> DEFINE before == {m \in DOMAIN found : items[Row(m, "pair")] = b}
               after  == {m \in DOMAIN found' : items'[Row(m, "pair")] = b}
    <3>1. after = IF b = b0 THEN before \cup {n} ELSE before
      BY <1>8, <1>9
    <3>2. before \in SUBSET Names /\ n \notin before
      BY <1>4 DEF IInv, TypeOK, Matched
    <3>3. counts[b] = Cardinality(before)
      BY DEF IInv, CountsInv
    <3>4. b \in Counted
      BY DEF Counted
    <3> HIDE DEF before, after
    <3>5. IsFiniteSet(before) /\ Cardinality(before \cup {n}) = Cardinality(before) + 1
      BY <3>2, NamesCounted, FS_AddElement
    <3>6. Cardinality(after) = IF b = b0 THEN Cardinality(before) + 1 ELSE Cardinality(before)
      BY <3>1, <3>5
    <3>7. counts'[b] = Cardinality(after)
      BY <1>8, <3>3, <3>4, <3>6
    <3> QED BY <3>7 DEF after
  <2>2. counts'["Error"] = counts["Error"] /\ counts'["Unmatched"] = counts["Unmatched"]
    BY <1>6, <1>8 DEF Counted, Judged
  <2>3. counts["Error"] = Cardinality(DOMAIN errors) + 0 /\ counts["Unmatched"] = 0
    BY <1>4 DEF IInv, CountsInv
  <2> QED BY <1>3, <1>11, <2>1, <2>2, <2>3 DEF CountsInv
<1>17. ResultsInv'
  <2> SUFFICES ASSUME NEW m \in DOMAIN found', NEW i \in DOMAIN found'[m].facts
               PROVE  results'[m][i] = Result(VerdictFromFacts(found'[m].facts[i]), NoHeader)
    BY <1>3, <1>4 DEF ResultsInv
  <2>1. CASE m = n
    BY <1>9, <1>10, <2>1
  <2>2. CASE m # n
    BY <1>4, <1>9, <1>12, <2>2 DEF IInv, ResultsInv
  <2> QED BY <2>1, <2>2
<1>18. TrafficInv' /\ ConsistencyInv' /\ PrintedInv'
  BY <1>3, <1>4, <1>11 DEF TrafficInv, ConsistencyInv, PrintedInv
<1> QED BY <1>13, <1>14, <1>15, <1>16, <1>17, <1>18 DEF IInv

(* A pair that is not is an error, and counted as one.                     *)
LEMMA PairFailsIsSafe ==
  ASSUME IInv, NEW n \in Names, PairFails(n)
  PROVE  IInv'
<1>1. NextPair(n) /\ File(n, "Error")
  BY DEF PairFails
<1>2. PICK error \in PairErrors :
        errors' = [m \in DOMAIN errors \cup {n} |-> IF m = n THEN error ELSE errors[m]]
  BY DEF PairFails
<1>3. /\ phase' = phase /\ flag' = flag /\ policy' = policy
      /\ sources' = sources /\ receipts' = receipts /\ found' = found /\ results' = results
      /\ consistency' = consistency /\ pending' = pending /\ probed' = probed
      /\ asked' = asked /\ mode' = mode /\ deferred' = deferred
      /\ printed' = printed /\ exit' = exit
  BY DEF PairFails, walked, network
<1>4. /\ n \in Matched /\ n \notin DOMAIN found /\ n \notin DOMAIN errors
      /\ Row(n, "pair") \notin DOMAIN items
      /\ phase = "verify" /\ ~Gathered /\ ~Early
      /\ printed = {} /\ exit = NoExit /\ consistency = {}
      /\ pending = {} /\ asked = {} /\ ~probed /\ mode = "Offline" /\ deferred = "None"
      /\ DOMAIN items = {Row(m, "pair") : m \in DOMAIN found \cup DOMAIN errors}
  BY <1>1, NextPairIsNew
<1>5. "Error" \in Counted /\ "Error" \in Buckets /\ "Error" \notin Judged
  BY DEF Counted, Buckets, Judged
<1>6. /\ DOMAIN items' = DOMAIN items \cup {Row(n, "pair")}
      /\ items'[Row(n, "pair")] = "Error"
      /\ \A r \in DOMAIN items : items'[r] = items[r]
      /\ \A m \in DOMAIN found \cup DOMAIN errors : items'[Row(m, "pair")] = items[Row(m, "pair")]
      /\ counts' \in [Counted -> Nat]
      /\ \A b \in Counted : counts'[b] = IF b = "Error" THEN counts[b] + 1 ELSE counts[b]
  BY <1>1, <1>5, FilingCounts
<1>7. DOMAIN errors' = DOMAIN errors \cup {n} /\ \A m \in DOMAIN errors' : errors'[m] \in PairErrors
  BY <1>2 DEF IInv, TypeOK
<1>8. ~Gathered' /\ ~Early'
  BY <1>3, <1>4 DEF Gathered, Early
<1>9. TypeOK'
  <2>1. Matched' = Matched
    BY <1>3 DEF Matched
  <2>2. DOMAIN errors' \subseteq Matched \ DOMAIN found
    BY <1>4, <1>7 DEF IInv, TypeOK
  <2>3. DOMAIN items' \subseteq Rows /\ \A r \in DOMAIN items' : items'[r] \in Buckets
    <3>1. Row(n, "pair") \in Rows
      BY DEF Row, Rows, Sides
    <3> QED BY <1>5, <1>6, <3>1 DEF IInv, TypeOK
  <2>4. /\ phase \in Phases /\ flag \in Flags /\ policy \in Policies
        /\ sources \in [Names -> Entries] /\ receipts \in [Names -> Entries]
        /\ DOMAIN found = DOMAIN results /\ DOMAIN results \subseteq Matched
        /\ \A m \in DOMAIN found :
             /\ found[m] \in ItemShapes
             /\ DOMAIN results[m] = DOMAIN found[m].facts
             /\ \A i \in DOMAIN results[m] : results[m][i] \in Results
        /\ Cardinality(consistency) <= 1 /\ probed \in BOOLEAN
        /\ mode \in Modes /\ deferred \in Deferrals /\ exit \in ExitCodes \cup {NoExit}
    BY DEF IInv, TypeOK
  <2> QED BY <1>3, <1>4, <1>6, <1>7, <2>1, <2>2, <2>3, <2>4 DEF TypeOK
<1>10. ProgressInv'
  BY <1>3, <1>4, <1>8 DEF ProgressInv
<1>11. RowsInv'
  <2>1. DOMAIN items' = {Row(m, "pair") : m \in DOMAIN found \cup DOMAIN errors'}
    BY <1>4, <1>6, <1>7
  <2>2. \A m \in DOMAIN errors' : items'[Row(m, "pair")] = "Error"
    BY <1>6, <1>7 DEF IInv, RowsInv
  <2>3. ASSUME NEW m \in DOMAIN found
        PROVE  items'[Row(m, "pair")] = OfflineBucket(m)'
    <3>1. OfflineBucket(m)' = OfflineBucket(m)
      BY <1>3 DEF OfflineBucket
    <3>2. items[Row(m, "pair")] = OfflineBucket(m)
      BY <1>4 DEF IInv, RowsInv
    <3> QED BY <1>6, <3>1, <3>2
  <2> QED BY <1>3, <1>4, <1>8, <2>1, <2>2, <2>3 DEF RowsInv
<1>12. CountsInv'
  <2>1. ASSUME NEW b \in Judged
        PROVE  counts'[b] = Cardinality({m \in DOMAIN found' : items'[Row(m, "pair")] = b})
    <3>1. {m \in DOMAIN found' : items'[Row(m, "pair")] = b} =
            {m \in DOMAIN found : items[Row(m, "pair")] = b}
      BY <1>3, <1>6
    <3>2. counts[b] = Cardinality({m \in DOMAIN found : items[Row(m, "pair")] = b})
      BY DEF IInv, CountsInv
    <3>3. b \in Counted /\ b # "Error"
      BY <1>5 DEF Counted
    <3> QED BY <1>6, <3>1, <3>2, <3>3
  <2>2. counts'["Error"] = counts["Error"] + 1 /\ counts'["Unmatched"] = counts["Unmatched"]
    BY <1>6 DEF Counted
  <2>3. counts["Error"] = Cardinality(DOMAIN errors) + 0 /\ counts["Unmatched"] = 0
    BY <1>4 DEF IInv, CountsInv
  <2>4. DOMAIN errors \in SUBSET Names
    BY DEF IInv, TypeOK, Matched
  <2>5. Cardinality(DOMAIN errors') = Cardinality(DOMAIN errors) + 1
    BY <1>4, <1>7, <2>4, NamesCounted, FS_AddElement
  <2>6. Cardinality(DOMAIN errors) \in Nat
    BY <2>4, NamesCounted
  <2> QED BY <1>8, <2>1, <2>2, <2>3, <2>5, <2>6 DEF CountsInv
<1>13. ResultsInv'
  BY <1>3 DEF IInv, ResultsInv
<1>14. TrafficInv' /\ ConsistencyInv' /\ PrintedInv'
  BY <1>3, <1>4, <1>8 DEF TrafficInv, ConsistencyInv, PrintedInv
<1> QED BY <1>9, <1>10, <1>11, <1>12, <1>13, <1>14 DEF IInv

(* Filing the rows anew changes nobody's part in the comparison.           *)
LEMMA SameCompared ==
  TypeOK /\ RowsInv /\ TypeOK' /\ RowsInv' /\ found' = found => CrossCompared' = CrossCompared
<1>1. TypeOK' /\ RowsInv' =>
        (\A n : Comparable(n) <=> n \in DOMAIN found /\ found[n].genesis # NoSuperTree
                                  /\ ~Refuted(n))'
  BY ComparableMeans, PTL
<1> SUFFICES ASSUME TypeOK, RowsInv, TypeOK', RowsInv', found' = found
             PROVE  CrossCompared' = CrossCompared
  OBVIOUS
<1>2. ASSUME NEW n PROVE Comparable(n)' <=> Comparable(n)
  BY <1>1, ComparableMeans DEF Refuted
<1>3. Participants' = Participants
  BY <1>2 DEF Participants
<1> QED BY <1>3 DEF CrossCompared

(* Once every pair has its row, the loose entries get theirs.              *)
LEMMA GatherIsSafe ==
  ASSUME IInv, Gather
  PROVE  IInv'
<1>1. /\ phase = "verify" /\ phase' = "settle"
      /\ \A n \in Matched : Row(n, "pair") \in DOMAIN items
      /\ items' = [r \in DOMAIN items \cup DOMAIN LooseRows |->
                     IF r \in DOMAIN items THEN items[r] ELSE LooseRows[r]]
      /\ counts' = [counts EXCEPT
           !["Error"] = @ + Cardinality(InBucket(LooseRows, "Error")),
           !["Unmatched"] = Cardinality(InBucket(LooseRows, "NoReceipt")
                                          \cup InBucket(LooseRows, "NoSource"))]
      /\ consistency' = CrossCompared
  BY DEF Gather
<1>2. /\ flag' = flag /\ policy' = policy /\ sources' = sources /\ receipts' = receipts
      /\ found' = found /\ results' = results /\ errors' = errors /\ pending' = pending
      /\ probed' = probed /\ asked' = asked /\ mode' = mode /\ deferred' = deferred
      /\ printed' = printed /\ exit' = exit
  BY DEF Gather, walked, network
<1>3. /\ printed = {} /\ exit = NoExit /\ consistency = {}
      /\ pending = {} /\ asked = {} /\ ~probed /\ mode = "Offline" /\ deferred = "None"
      /\ ~Gathered
  BY <1>1 DEF IInv, TypeOK, ProgressInv, Gathered
<1>4. Gathered' /\ ~Early'
  BY <1>1 DEF Gathered, Early
<1>5. DOMAIN items = {Row(m, "pair") : m \in DOMAIN found \cup DOMAIN errors}
  BY <1>3 DEF IInv, RowsInv
<1>6. \A r \in DOMAIN items : r.side = "pair"
  BY <1>5 DEF Row
<1>7. DOMAIN found \cup DOMAIN errors = Matched
  <2>1. DOMAIN found \cup DOMAIN errors \subseteq Matched
    BY DEF IInv, TypeOK
  <2>2. \A n \in Matched : n \in DOMAIN found \cup DOMAIN errors
    BY <1>1, <1>5 DEF Row
  <2> QED BY <2>1, <2>2
<1>8. Matched' = Matched /\ LooseRows' = LooseRows
  BY <1>2 DEF Matched, LooseRows
<1>9. /\ DOMAIN items' = DOMAIN items \cup DOMAIN LooseRows
      /\ \A r \in DOMAIN items : items'[r] = items[r]
      /\ \A r \in DOMAIN LooseRows : items'[r] = LooseRows[r]
      /\ \A m \in DOMAIN found \cup DOMAIN errors : items'[Row(m, "pair")] = items[Row(m, "pair")]
  <2>1. \A r \in DOMAIN LooseRows : r \notin DOMAIN items
    BY <1>6, LooseMeans
  <2> QED BY <1>1, <1>5, <2>1
<1>10. /\ Cardinality(InBucket(LooseRows, "Error")) =
            Cardinality(UnreadableIn(sources)) + Cardinality(UnreadableIn(receipts))
       /\ Cardinality(InBucket(LooseRows, "NoReceipt") \cup InBucket(LooseRows, "NoSource")) =
            Cardinality(Unpaired)
       /\ Cardinality(UnreadableIn(sources)) \in Nat /\ Cardinality(UnreadableIn(receipts)) \in Nat
       /\ Cardinality(Unpaired) \in Nat
  <2>1. sources \in [Names -> Entries] /\ receipts \in [Names -> Entries]
    BY DEF IInv, TypeOK
  <2>2. /\ UnreadableIn(sources) \in SUBSET Names /\ UnreadableIn(receipts) \in SUBSET Names
        /\ Unpaired \in SUBSET Names
    BY DEF UnreadableIn, Unpaired
  <2> QED BY <2>1, <2>2, LooseRowsCounted, NamesCounted
<1>11. /\ counts' \in [Counted -> Nat]
       /\ \A b \in Judged : counts'[b] = counts[b]
       /\ counts'["Error"] = counts["Error"] + Cardinality(UnreadableIn(sources))
                                             + Cardinality(UnreadableIn(receipts))
       /\ counts'["Unmatched"] = Cardinality(Unpaired)
  <2> DEFINE u == Cardinality(InBucket(LooseRows, "Error"))
             p == Cardinality(InBucket(LooseRows, "NoReceipt") \cup InBucket(LooseRows, "NoSource"))
  <2>1. counts' = [counts EXCEPT !["Error"] = @ + u, !["Unmatched"] = p]
    BY <1>1
  <2>2. counts \in [Counted -> Nat] /\ counts["Error"] \in Nat
    BY DEF IInv, TypeOK, Counted
  <2>3. u \in Nat /\ p \in Nat
    BY <1>10
  <2> HIDE DEF u, p
  <2>4. /\ counts' \in [Counted -> Nat]
        /\ \A b \in Judged : counts'[b] = counts[b]
        /\ counts'["Error"] = counts["Error"] + u /\ counts'["Unmatched"] = p
    BY <2>1, <2>2, <2>3 DEF Counted, Judged
  <2> QED BY <1>10, <2>2, <2>4 DEF u, p
<1>12. TypeOK'
  <2>1. DOMAIN items' \subseteq Rows /\ \A r \in DOMAIN items' : items'[r] \in Buckets
    BY <1>9, LooseMeans DEF IInv, TypeOK, Buckets
  <2>2. /\ Cardinality(consistency') <= 1
        /\ \A c \in consistency' : \A k \in DOMAIN c.participants :
             c.participants[k] \in DOMAIN found
    BY <1>1, ComparedAreFound DEF IInv
  <2>3. /\ flag \in Flags /\ policy \in Policies
        /\ sources \in [Names -> Entries] /\ receipts \in [Names -> Entries]
        /\ DOMAIN found = DOMAIN results /\ DOMAIN results \subseteq Matched
        /\ \A m \in DOMAIN found :
             /\ found[m] \in ItemShapes
             /\ DOMAIN results[m] = DOMAIN found[m].facts
             /\ \A i \in DOMAIN results[m] : results[m][i] \in Results
        /\ DOMAIN errors \subseteq Matched \ DOMAIN found
        /\ \A n \in DOMAIN errors : errors[n] \in PairErrors
        /\ probed \in BOOLEAN /\ mode \in Modes /\ deferred \in Deferrals
        /\ exit \in ExitCodes \cup {NoExit}
    BY DEF IInv, TypeOK
  <2>4. phase' \in Phases
    BY <1>1 DEF Phases
  <2> QED BY <1>2, <1>3, <1>8, <1>11, <2>1, <2>2, <2>3, <2>4 DEF TypeOK
<1>13. ProgressInv'
  BY <1>1, <1>2, <1>3, <1>4 DEF IInv, ProgressInv
<1>14. RowsInv'
  <2>1. DOMAIN items' = {Row(m, "pair") : m \in DOMAIN found \cup DOMAIN errors}
                        \cup DOMAIN LooseRows
    BY <1>5, <1>9
  <2>2. \A m \in DOMAIN errors : items'[Row(m, "pair")] = "Error"
    BY <1>9 DEF IInv, RowsInv
  <2>3. ASSUME NEW m \in DOMAIN found
        PROVE  items'[Row(m, "pair")] = OfflineBucket(m)'
    <3>1. OfflineBucket(m)' = OfflineBucket(m)
      BY <1>2 DEF OfflineBucket
    <3>2. items[Row(m, "pair")] = OfflineBucket(m)
      BY <1>1 DEF IInv, RowsInv
    <3> QED BY <1>9, <3>1, <3>2
  <2> QED BY <1>1, <1>2, <1>4, <1>7, <1>8, <1>9, <2>1, <2>2, <2>3 DEF RowsInv
<1>15. CountsInv'
  <2>1. ASSUME NEW b \in Judged
        PROVE  counts'[b] = Cardinality({m \in DOMAIN found' : items'[Row(m, "pair")] = b})
    <3>1. {m \in DOMAIN found' : items'[Row(m, "pair")] = b} =
            {m \in DOMAIN found : items[Row(m, "pair")] = b}
      BY <1>2, <1>9
    <3> QED BY <1>11, <3>1 DEF IInv, CountsInv
  <2>2. counts["Error"] = Cardinality(DOMAIN errors) + 0
    BY <1>3 DEF IInv, CountsInv
  <2>3. Cardinality(DOMAIN errors) \in Nat
    BY NamesCounted DEF IInv, TypeOK, Matched
  <2>4. counts'["Error"] = Cardinality(DOMAIN errors)
                           + (Cardinality(UnreadableIn(sources)) + Cardinality(UnreadableIn(receipts)))
    BY <1>10, <1>11, <2>2, <2>3
  <2>5. Unpaired' = Unpaired /\ UnreadableIn(sources)' = UnreadableIn(sources)
        /\ UnreadableIn(receipts)' = UnreadableIn(receipts)
    BY <1>2 DEF Unpaired, UnreadableIn
  <2> QED BY <1>2, <1>4, <1>11, <2>1, <2>4, <2>5 DEF CountsInv
<1>16. ResultsInv'
  BY <1>2 DEF IInv, ResultsInv
<1>17. TrafficInv'
  BY <1>1, <1>2, <1>3 DEF TrafficInv
<1>18. ConsistencyInv'
  <2>1. CrossCompared' = CrossCompared
    BY <1>2, <1>12, <1>14, SameCompared DEF IInv
  <2> QED BY <1>1, <2>1 DEF ConsistencyInv
<1>19. PrintedInv'
  BY <1>1, <1>2, <1>3 DEF PrintedInv
<1> QED BY <1>12, <1>13, <1>14, <1>15, <1>16, <1>17, <1>18, <1>19 DEF IInv

(* What stays as it was in every step after that but the new filing.       *)
LEMMA RowsStand ==
  ASSUME IInv, Gathered, Gathered',
         UNCHANGED <<flag, policy, sources, receipts, items, found, errors, counts, consistency>>
  PROVE  /\ Settleable' = Settleable /\ Matched' = Matched /\ LooseRows' = LooseRows
         /\ \A n : OfflineBucket(n)' = OfflineBucket(n)
         /\ CountsInv' /\ ConsistencyInv'
         /\ DOMAIN items' = {Row(n, "pair") : n \in DOMAIN found' \cup DOMAIN errors'}
                            \cup DOMAIN LooseRows'
         /\ DOMAIN found' \cup DOMAIN errors' = Matched'
         /\ \A r \in DOMAIN LooseRows' : items'[r] = LooseRows'[r]
         /\ \A n \in DOMAIN errors' : items'[Row(n, "pair")] = "Error"
<1>1. Settleable' = Settleable /\ Matched' = Matched /\ LooseRows' = LooseRows
  BY DEF Settleable, Matched, LooseRows
<1>2. \A n : OfflineBucket(n)' = OfflineBucket(n)
  BY DEF OfflineBucket
<1>3. CountsInv'
  <2>1. CountsInv
    BY DEF IInv
  <2>2. Unpaired' = Unpaired /\ UnreadableIn(sources)' = UnreadableIn(sources)
        /\ UnreadableIn(receipts)' = UnreadableIn(receipts)
    BY DEF Unpaired, UnreadableIn
  <2> QED BY <2>1, <2>2 DEF CountsInv
<1>4. ConsistencyInv'
  <2>1. CrossCompared' = CrossCompared
    BY DEF CrossCompared, Participants, Comparable
  <2> QED BY <2>1 DEF IInv, ConsistencyInv
<1>5. /\ DOMAIN items = {Row(n, "pair") : n \in DOMAIN found \cup DOMAIN errors}
                        \cup DOMAIN LooseRows
      /\ DOMAIN found \cup DOMAIN errors = Matched
      /\ \A r \in DOMAIN LooseRows : items[r] = LooseRows[r]
      /\ \A n \in DOMAIN errors : items[Row(n, "pair")] = "Error"
  BY DEF IInv, RowsInv
<1> QED BY <1>1, <1>2, <1>3, <1>4, <1>5

(* The network is entered for all that it could settle, or not at all.     *)
LEMMA SettleBatchIsSafe ==
  ASSUME IInv, SettleBatch
  PROVE  IInv'
<1>1. /\ flag' = flag /\ policy' = policy /\ sources' = sources /\ receipts' = receipts
      /\ items' = items /\ found' = found /\ results' = results /\ errors' = errors
      /\ counts' = counts /\ consistency' = consistency /\ asked' = asked
      /\ printed' = printed /\ exit' = exit
  BY DEF SettleBatch, walked, verified
<1>2. phase = "settle" /\ probed' = Probes(flag, WorkList # {})
  BY DEF SettleBatch
<1>3. PICK connected \in BOOLEAN, runtime \in BOOLEAN :
        LET settled == Settled(flag, WorkList # {}, connected, runtime)
        IN /\ mode' = settled.mode
           /\ deferred' = settled.deferred
           /\ pending' = IF settled.mode = "Online" THEN WorkList ELSE {}
           /\ phase' = IF settled.mode = "Online" THEN "online" ELSE "print"
  BY DEF SettleBatch
<1>4. /\ printed = {} /\ exit = NoExit /\ pending = {} /\ asked = {}
  BY <1>2 DEF IInv, TypeOK, ProgressInv
<1>5. WorkList = Settleable
  BY WorkListIsWhole DEF IInv
<1>6. /\ mode' \in Modes /\ deferred' \in Deferrals
      /\ mode' = "Online" => Settleable # {}
      /\ pending' = IF mode' = "Online" THEN Settleable ELSE {}
      /\ phase' = IF mode' = "Online" THEN "online" ELSE "print"
  <2>1. flag \in Flags /\ (WorkList # {}) \in BOOLEAN
    BY DEF IInv, TypeOK
  <2>2. /\ Settled(flag, WorkList # {}, connected, runtime).mode \in Modes
        /\ Settled(flag, WorkList # {}, connected, runtime).deferred \in Deferrals
        /\ Settled(flag, WorkList # {}, connected, runtime).mode = "Online" =>
             Probes(flag, WorkList # {})
    BY <1>3, <2>1, SettledMeans
  <2> QED BY <1>3, <1>5, <2>2 DEF Probes
<1>7. Gathered /\ Gathered' /\ ~Early'
  BY <1>2, <1>6 DEF Gathered, Early
<1>8. /\ Settleable' = Settleable /\ Matched' = Matched /\ LooseRows' = LooseRows
      /\ \A n : OfflineBucket(n)' = OfflineBucket(n)
      /\ CountsInv' /\ ConsistencyInv'
      /\ DOMAIN items' = {Row(n, "pair") : n \in DOMAIN found' \cup DOMAIN errors'}
                         \cup DOMAIN LooseRows'
      /\ DOMAIN found' \cup DOMAIN errors' = Matched'
      /\ \A r \in DOMAIN LooseRows' : items'[r] = LooseRows'[r]
      /\ \A n \in DOMAIN errors' : items'[Row(n, "pair")] = "Error"
  BY <1>1, <1>7, RowsStand
<1>9. TypeOK'
  <2>1. \A p \in Settleable : p[1] \in DOMAIN found /\ p[2] \in DOMAIN results[p[1]]
    BY SettleableMeans, FoundIsTyped DEF IInv
  <2>2. phase' \in Phases /\ probed' \in BOOLEAN
    BY <1>2, <1>6 DEF Phases, Probes
  <2>3. TypeOK
    BY DEF IInv
  <2> QED BY <1>1, <1>4, <1>6, <1>8, <2>1, <2>2, <2>3 DEF TypeOK
<1>10. ProgressInv'
  BY <1>1, <1>4, <1>6, <1>7 DEF ProgressInv
<1>11. RowsInv'
  <2>1. ASSUME NEW n \in DOMAIN found
        PROVE  /\ items[Row(n, "pair")] = OfflineBucket(n)
               /\ OfflineBucket(n) = Bucket(VerdictOf(n).status, found[n].facts)
    <3>1. items[Row(n, "pair")] = OfflineBucket(n)
      BY <1>2 DEF IInv, RowsInv
    <3>2. VerdictsIn(results[n]) = VerdictsIn(OfflineResults(found[n].facts))
      BY <1>4, OfflineVerdict DEF IInv
    <3> QED BY <3>1, <3>2 DEF OfflineBucket, VerdictOf
  <2>2. \A n : VerdictOf(n)' = VerdictOf(n)
    BY <1>1 DEF VerdictOf
  <2> QED BY <1>1, <1>7, <1>8, <2>1, <2>2 DEF RowsInv
<1>12. ResultsInv'
  BY <1>1 DEF IInv, ResultsInv
<1>13. TrafficInv'
  BY <1>1, <1>2, <1>4, <1>5, <1>6, <1>8 DEF TrafficInv
<1>14. PrintedInv'
  BY <1>1, <1>4 DEF PrintedInv
<1> QED BY <1>8, <1>9, <1>10, <1>11, <1>12, <1>13, <1>14 DEF IInv

(* One anchor is looked up, the row it is in stays where it was filed.     *)
LEMMA LookUpNextIsSafe ==
  ASSUME IInv, LookUpNext
  PROVE  IInv'
<1>1. /\ phase' = phase /\ flag' = flag /\ policy' = policy
      /\ sources' = sources /\ receipts' = receipts
      /\ items' = items /\ found' = found /\ errors' = errors
      /\ counts' = counts /\ consistency' = consistency
      /\ probed' = probed /\ mode' = mode /\ deferred' = deferred
      /\ printed' = printed /\ exit' = exit
  BY DEF LookUpNext, walked
<1>2. phase = "online"
  BY DEF LookUpNext
<1>3. PICK p \in pending :
        /\ \E lookup \in Lookups(found[p[1]].facts[p[2]].proof.height) :
             results' = [results EXCEPT ![p[1]][p[2]] =
                           OnlineResult(found[p[1]].facts[p[2]].proof, lookup)]
        /\ pending' = pending \ {p}
        /\ asked' = asked \cup {p}
  BY DEF LookUpNext
<1>4. /\ mode = "Online" /\ asked \cup pending = Settleable /\ asked \cap pending = {}
      /\ printed = {} /\ exit = NoExit
  BY <1>2 DEF IInv, TypeOK, ProgressInv, TrafficInv
<1>5. p \in Settleable
  BY <1>3, <1>4
<1>6. PICK n \in DOMAIN found : \E i \in PreparedPlaces(found[n].facts) : p = <<n, i>>
  BY <1>5, SettleableMeans
<1>7. PICK i \in PreparedPlaces(found[n].facts) : p = <<n, i>>
  BY <1>6
<1> DEFINE proof == found[n].facts[i].proof
<1>8. PICK lookup \in Lookups(proof.height) :
        results' = [results EXCEPT ![n][i] = OnlineResult(proof, lookup)]
  BY <1>3, <1>7
<1>9. proof \in Proofs /\ i \in DOMAIN found[n].facts /\ n \in DOMAIN results
      /\ DOMAIN results[n] = DOMAIN found[n].facts
  BY FoundIsTyped DEF IInv
<1>10. OnlineResult(proof, lookup) \in Results
  BY <1>9, LookupDecides
<1> DEFINE answer == OnlineResult(proof, lookup)
<1>11. /\ DOMAIN results' = DOMAIN results
       /\ \A m \in DOMAIN results : DOMAIN results'[m] = DOMAIN results[m]
       /\ results'[n][i] = answer
       /\ \A m \in DOMAIN results : \A j \in DOMAIN results[m] :
            <<m, j>> # p => results'[m][j] = results[m][j]
  <2> HIDE DEF answer
  <2>1. results' = [results EXCEPT ![n] = [results[n] EXCEPT ![i] = answer]]
    BY <1>8 DEF answer
  <2> QED BY <1>9, <1>7, <2>1
<1> HIDE DEF proof, answer
<1>12. Gathered /\ Gathered' /\ ~Early'
  BY <1>1, <1>2 DEF Gathered, Early
<1>13. /\ Settleable' = Settleable /\ Matched' = Matched /\ LooseRows' = LooseRows
       /\ \A m : OfflineBucket(m)' = OfflineBucket(m)
       /\ CountsInv' /\ ConsistencyInv'
       /\ DOMAIN items' = {Row(m, "pair") : m \in DOMAIN found' \cup DOMAIN errors'}
                          \cup DOMAIN LooseRows'
       /\ DOMAIN found' \cup DOMAIN errors' = Matched'
       /\ \A r \in DOMAIN LooseRows' : items'[r] = LooseRows'[r]
       /\ \A m \in DOMAIN errors' : items'[Row(m, "pair")] = "Error"
  BY <1>1, <1>12, RowsStand
<1>14. TypeOK'
  <2>1. TypeOK
    BY DEF IInv
  <2>2. ASSUME NEW m \in DOMAIN found
        PROVE  /\ found[m] \in ItemShapes
               /\ DOMAIN results'[m] = DOMAIN found[m].facts
               /\ \A j \in DOMAIN results'[m] : results'[m][j] \in Results
    <3>1. m \in DOMAIN results /\ found[m] \in ItemShapes
          /\ DOMAIN results[m] = DOMAIN found[m].facts
          /\ \A j \in DOMAIN results[m] : results[m][j] \in Results
      BY <2>1 DEF TypeOK
    <3> QED BY <1>10, <1>11, <1>7, <3>1 DEF answer
  <2>3. \A q \in pending' \cup asked' : q[1] \in DOMAIN found /\ q[2] \in DOMAIN results'[q[1]]
    BY <1>3, <1>11, <2>1 DEF TypeOK
  <2> QED BY <1>1, <1>11, <1>13, <1>4, <2>1, <2>2, <2>3 DEF TypeOK
<1>15. ProgressInv'
  BY <1>1, <1>2, <1>4, <1>12 DEF ProgressInv
<1>16. RowsInv'
  <2>1. \A m \in DOMAIN found : items[Row(m, "pair")] = OfflineBucket(m)
    BY <1>2 DEF IInv, RowsInv
  <2> QED BY <1>1, <1>2, <1>12, <1>13, <2>1 DEF RowsInv
<1>17. ResultsInv'
  <2> SUFFICES ASSUME NEW m \in DOMAIN found, NEW j \in DOMAIN found[m].facts
               PROVE  IF <<m, j>> \in asked'
                      THEN \E l \in Lookups(found[m].facts[j].proof.height) :
                             results'[m][j] = OnlineResult(found[m].facts[j].proof, l)
                      ELSE results'[m][j] = Result(VerdictFromFacts(found[m].facts[j]), NoHeader)
    BY <1>1 DEF ResultsInv
  <2>1. CASE <<m, j>> = p
    <3>1. m = n /\ j = i /\ <<m, j>> \in asked'
      BY <1>3, <1>7, <2>1
    <3> QED BY <1>8, <1>11, <3>1 DEF proof, answer
  <2>2. CASE <<m, j>> # p
    <3>1. m \in DOMAIN results /\ j \in DOMAIN results[m]
      BY FoundIsTyped DEF IInv
    <3>2. results'[m][j] = results[m][j] /\ (<<m, j>> \in asked' <=> <<m, j>> \in asked)
      BY <1>3, <1>11, <2>2, <3>1
    <3>3. IF <<m, j>> \in asked
          THEN \E l \in Lookups(found[m].facts[j].proof.height) :
                 results[m][j] = OnlineResult(found[m].facts[j].proof, l)
          ELSE results[m][j] = Result(VerdictFromFacts(found[m].facts[j]), NoHeader)
      BY DEF IInv, ResultsInv
    <3> QED BY <3>2, <3>3
  <2> QED BY <2>1, <2>2
<1>18. TrafficInv'
  <2>1. asked' \cup pending' = Settleable /\ asked' \cap pending' = {}
    BY <1>3, <1>4
  <2>2. probed = Probes(flag, Settleable # {}) /\ Settleable # {}
    BY <1>2, <1>5, <1>12 DEF IInv, TrafficInv
  <2> QED BY <1>1, <1>2, <1>4, <1>13, <2>1, <2>2 DEF TrafficInv
<1>19. PrintedInv'
  BY <1>1, <1>4 DEF PrintedInv
<1> QED BY <1>13, <1>14, <1>15, <1>16, <1>17, <1>18, <1>19 DEF IInv

(* The network pass ends when nothing is left to look up.                  *)
LEMMA FinishOnlineIsSafe ==
  ASSUME IInv, FinishOnline
  PROVE  IInv'
<1>1. /\ flag' = flag /\ policy' = policy /\ sources' = sources /\ receipts' = receipts
      /\ items' = items /\ found' = found /\ results' = results /\ errors' = errors
      /\ counts' = counts /\ consistency' = consistency /\ pending' = pending
      /\ probed' = probed /\ asked' = asked /\ mode' = mode /\ deferred' = deferred
      /\ printed' = printed /\ exit' = exit
  BY DEF FinishOnline, walked, verified, network
<1>2. phase = "online" /\ phase' = "reclassify" /\ pending = {}
  BY DEF FinishOnline
<1>3. Gathered /\ Gathered' /\ ~Early'
  BY <1>2 DEF Gathered, Early
<1>4. /\ Settleable' = Settleable /\ Matched' = Matched /\ LooseRows' = LooseRows
      /\ \A m : OfflineBucket(m)' = OfflineBucket(m)
      /\ CountsInv' /\ ConsistencyInv'
      /\ DOMAIN items' = {Row(m, "pair") : m \in DOMAIN found' \cup DOMAIN errors'}
                         \cup DOMAIN LooseRows'
      /\ DOMAIN found' \cup DOMAIN errors' = Matched'
      /\ \A r \in DOMAIN LooseRows' : items'[r] = LooseRows'[r]
      /\ \A m \in DOMAIN errors' : items'[Row(m, "pair")] = "Error"
  BY <1>1, <1>3, RowsStand
<1>5. /\ printed = {} /\ exit = NoExit /\ mode = "Online" /\ asked = Settleable
      /\ Settleable # {} /\ probed = Probes(flag, Settleable # {})
  BY <1>2, <1>3 DEF IInv, TypeOK, ProgressInv, TrafficInv
<1>6. TypeOK'
  <2>1. TypeOK /\ phase' \in Phases
    BY <1>2 DEF IInv, Phases
  <2> QED BY <1>1, <1>4, <1>5, <2>1 DEF TypeOK
<1>7. ProgressInv'
  BY <1>1, <1>2, <1>3, <1>5 DEF ProgressInv
<1>8. RowsInv'
  <2>1. \A m \in DOMAIN found : items[Row(m, "pair")] = OfflineBucket(m)
    BY <1>2 DEF IInv, RowsInv
  <2> QED BY <1>1, <1>2, <1>3, <1>4, <2>1 DEF RowsInv
<1>9. ResultsInv' /\ TrafficInv' /\ PrintedInv'
  <2>1. ResultsInv'
    BY <1>1 DEF IInv, ResultsInv
  <2>2. TrafficInv'
    BY <1>1, <1>2, <1>4, <1>5 DEF TrafficInv
  <2>3. PrintedInv'
    BY <1>1, <1>5 DEF PrintedInv
  <2> QED BY <2>1, <2>2, <2>3
<1> QED BY <1>4, <1>6, <1>7, <1>8, <1>9 DEF IInv

(* Every row with a verdict is filed by the one it has now, and counted.   *)
LEMMA ReclassifyIsSafe ==
  ASSUME IInv, Reclassify
  PROVE  IInv'
<1>1. /\ flag' = flag /\ policy' = policy /\ sources' = sources /\ receipts' = receipts
      /\ found' = found /\ results' = results /\ errors' = errors
      /\ consistency' = consistency /\ pending' = pending
      /\ probed' = probed /\ asked' = asked /\ mode' = mode /\ deferred' = deferred
      /\ printed' = printed /\ exit' = exit
  BY DEF Reclassify, walked, network
<1>2. /\ phase = "reclassify" /\ phase' = "print" /\ items' = Refiled
      /\ counts' = [b \in Counted |-> IF b = "Unmatched" THEN counts[b]
                                      ELSE Cardinality(InBucket(Refiled, b))]
  BY DEF Reclassify
<1> DEFINE new(n) == Bucket(VerdictOf(n).status, found[n].facts)
<1>3. Gathered /\ Gathered' /\ ~Early'
  BY <1>2 DEF Gathered, Early
<1>4. /\ printed = {} /\ exit = NoExit /\ pending = {}
      /\ asked = IF mode = "Online" THEN Settleable ELSE {}
      /\ mode = "Online" => Settleable # {}
      /\ probed = Probes(flag, Settleable # {}) /\ asked \subseteq Settleable
  BY <1>2, <1>3 DEF IInv, TypeOK, ProgressInv, TrafficInv
<1>5. Settleable' = Settleable /\ Matched' = Matched /\ LooseRows' = LooseRows
      /\ \A n : VerdictOf(n)' = VerdictOf(n)
  BY <1>1 DEF Settleable, Matched, LooseRows, VerdictOf
<1>6. /\ DOMAIN items = {Row(n, "pair") : n \in DOMAIN found \cup DOMAIN errors}
                        \cup DOMAIN LooseRows
      /\ DOMAIN found \cup DOMAIN errors = Matched
      /\ DOMAIN found \cap DOMAIN errors = {}
      /\ \A r \in DOMAIN LooseRows : items[r] = LooseRows[r]
      /\ \A n \in DOMAIN errors : items[Row(n, "pair")] = "Error"
  BY <1>3 DEF IInv, TypeOK, RowsInv
<1>7. ASSUME NEW n \in DOMAIN found PROVE new(n) \in Judged
  <2>1. found[n].checks \in ReceiptChecks /\ policy \in Policies
    BY FoundIsTyped DEF IInv, TypeOK
  <2> QED BY <2>1, BucketMeans DEF VerdictOf
<1>8. /\ DOMAIN items' = DOMAIN items
      /\ \A n \in DOMAIN found : items'[Row(n, "pair")] = new(n)
      /\ \A n \in DOMAIN errors : items'[Row(n, "pair")] = "Error"
      /\ \A r \in DOMAIN LooseRows : items'[r] = LooseRows[r]
  <2>1. \A n : Row(n, "pair").name = n
    BY DEF Row
  <2>2. \A r \in DOMAIN items :
          items'[r] = IF items[r] \in Judged
                      THEN Bucket(VerdictOf(r.name).status, found[r.name].facts) ELSE items[r]
    BY <1>2 DEF Refiled
  <2>3. DOMAIN items' = DOMAIN items
    BY <1>2 DEF Refiled
  <2>4. \A n \in DOMAIN found : items[Row(n, "pair")] \in Judged
    BY FiledMeans DEF IInv
  <2>5. \A b \in {"Error", "NoReceipt", "NoSource"} : b \notin Judged
    BY DEF Judged
  <2>6. \A r \in DOMAIN LooseRows : items[r] \notin Judged
    BY <1>6, <2>5, LooseMeans
  <2>7. \A n \in DOMAIN found : Row(n, "pair") \in DOMAIN items
    BY <1>6
  <2>8. \A n \in DOMAIN errors : Row(n, "pair") \in DOMAIN items
    BY <1>6
  <2> HIDE DEF new
  <2>9. \A n \in DOMAIN found : items'[Row(n, "pair")] = new(n)
    BY <2>1, <2>2, <2>4, <2>7 DEF new
  <2> QED BY <1>6, <2>2, <2>3, <2>5, <2>6, <2>8, <2>9
<1>9. /\ \A n \in Names : Row(n, "pair") \notin DOMAIN LooseRows
      /\ \A m, n : Row(m, "pair") = Row(n, "pair") => m = n
  <2>1. \A n : Row(n, "pair").side = "pair" /\ Row(n, "pair").name = n
    BY DEF Row
  <2>2. \A m, n : Row(m, "pair") = Row(n, "pair") => m = n
    BY <2>1
  <2> QED BY <2>1, <2>2, LooseMeans
<1> HIDE DEF new
<1>10. counts' \in [Counted -> Nat]
  <2>1. IsFiniteSet(DOMAIN items)
    <3> DEFINE S == {m \in Names : sources[m] # "none"} \ Matched
               T == {m \in Names : receipts[m] # "none"} \ Matched
               P == {Row(n, "pair") : n \in Matched}
               Q == {Row(n, "source") : n \in S}
               R == {Row(n, "receipt") : n \in T}
    <3>1. Matched \in SUBSET Names /\ S \in SUBSET Names /\ T \in SUBSET Names
      BY DEF Matched
    <3>2. DOMAIN items = P \cup (Q \cup R)
      BY <1>6, LooseMeans
    <3> HIDE DEF S, T
    <3>3. IsFiniteSet(P) /\ IsFiniteSet(Q) /\ IsFiniteSet(R)
      <4>1. IsFiniteSet(Matched) /\ IsFiniteSet(S) /\ IsFiniteSet(T)
        BY <3>1, NamesCounted
      <4> QED BY <4>1, RowsCounted
    <3> HIDE DEF P, Q, R
    <3> QED BY <3>2, <3>3, FS_Union
  <2>2. ASSUME NEW b \in Counted PROVE Cardinality(InBucket(Refiled, b)) \in Nat
    <3>1. InBucket(Refiled, b) \in SUBSET DOMAIN items
      BY DEF InBucket, Refiled
    <3> QED BY <2>1, <3>1, FS_Subset, FS_CardinalityType
  <2>3. \A b \in Counted : counts[b] \in Nat
    BY DEF IInv, TypeOK
  <2> QED BY <1>2, <2>2, <2>3
<1>11. TypeOK'
  <2>1. DOMAIN items' \subseteq Rows /\ \A r \in DOMAIN items' : items'[r] \in Buckets
    <3>1. TypeOK /\ Judged \subseteq Buckets
      BY DEF IInv, Buckets
    <3>2. "Error" \in Buckets /\ \A r \in DOMAIN LooseRows : LooseRows[r] \in Buckets
      BY LooseMeans DEF Buckets
    <3>3. \A r \in DOMAIN items : items'[r] \in Buckets
      BY <1>6, <1>7, <1>8, <3>1, <3>2
    <3> QED BY <1>8, <3>1, <3>3 DEF TypeOK
  <2>2. TypeOK /\ phase' \in Phases
    BY <1>2 DEF IInv, Phases
  <2> QED BY <1>1, <1>4, <1>5, <1>10, <2>1, <2>2 DEF TypeOK
<1>12. ProgressInv'
  BY <1>1, <1>2, <1>3, <1>4 DEF ProgressInv
<1>13. RowsInv'
  <2>1. \A n \in DOMAIN found' : items'[Row(n, "pair")] =
          Bucket(VerdictOf(n)'.status, found'[n].facts)
    BY <1>1, <1>5, <1>8 DEF new
  <2> QED BY <1>1, <1>2, <1>3, <1>5, <1>6, <1>8, <2>1 DEF RowsInv
<1>14. CountsInv'
  <2>1. ASSUME NEW b \in Judged
        PROVE  counts'[b] = Cardinality({n \in DOMAIN found' : items'[Row(n, "pair")] = b})
    <3> DEFINE N == {n \in DOMAIN found : items'[Row(n, "pair")] = b}
    <3>1. b \in Counted /\ b \notin {"Error", "NoReceipt", "NoSource", "Unmatched"}
      BY DEF Counted, Judged
    <3>2. counts'[b] = Cardinality(InBucket(items', b))
      BY <1>2, <3>1
    <3>3. InBucket(items', b) = {Row(n, "pair") : n \in N}
      <4>1. \A r \in DOMAIN LooseRows : items'[r] # b
        BY <1>8, <3>1, LooseMeans
      <4>2. \A n \in DOMAIN errors : items'[Row(n, "pair")] # b
        BY <1>8, <3>1
      <4>3. DOMAIN items' = {Row(n, "pair") : n \in DOMAIN found \cup DOMAIN errors}
                            \cup DOMAIN LooseRows
        BY <1>6, <1>8
      <4> QED BY <4>1, <4>2, <4>3 DEF InBucket
    <3>4. N \in SUBSET Names
      BY DEF IInv, TypeOK, Matched
    <3> HIDE DEF N
    <3>5. Cardinality({Row(n, "pair") : n \in N}) = Cardinality(N)
      BY <3>4, NamesCounted, RowsCounted
    <3> QED BY <1>1, <3>2, <3>3, <3>5 DEF N
  <2>2. counts'["Error"] = Cardinality(DOMAIN errors)
                           + (Cardinality(UnreadableIn(sources)) + Cardinality(UnreadableIn(receipts)))
    <3> DEFINE E == {Row(n, "pair") : n \in DOMAIN errors}
               L == InBucket(LooseRows, "Error")
    <3>1. counts'["Error"] = Cardinality(InBucket(items', "Error"))
      BY <1>2 DEF Counted
    <3>2. InBucket(items', "Error") = E \cup L
      <4>1. \A n \in DOMAIN found : items'[Row(n, "pair")] # "Error"
        BY <1>7, <1>8 DEF Judged
      <4>2. DOMAIN items' = ({Row(n, "pair") : n \in DOMAIN found} \cup E) \cup DOMAIN LooseRows
        BY <1>6, <1>8
      <4> QED BY <1>8, <4>1, <4>2 DEF InBucket
    <3>3. DOMAIN errors \in SUBSET Names
      BY DEF IInv, TypeOK, Matched
    <3>4. E \cap L = {}
      BY <1>9, <3>3 DEF InBucket
    <3>5. IsFiniteSet(E) /\ Cardinality(E) = Cardinality(DOMAIN errors)
      BY <3>3, NamesCounted, RowsCounted
    <3>6. /\ IsFiniteSet(L)
          /\ Cardinality(L) = Cardinality(UnreadableIn(sources)) + Cardinality(UnreadableIn(receipts))
      BY LooseRowsCounted DEF IInv, TypeOK
    <3> HIDE DEF E, L
    <3> QED BY <3>1, <3>2, <3>4, <3>5, <3>6, DisjointCounted
  <2>3. counts'["Unmatched"] = Cardinality(Unpaired)
    <3>1. counts'["Unmatched"] = counts["Unmatched"]
      BY <1>2 DEF Counted
    <3> QED BY <1>3, <3>1 DEF IInv, CountsInv
  <2>4. Unpaired' = Unpaired /\ UnreadableIn(sources)' = UnreadableIn(sources)
        /\ UnreadableIn(receipts)' = UnreadableIn(receipts)
    BY <1>1 DEF Unpaired, UnreadableIn
  <2> QED BY <1>1, <1>3, <2>1, <2>2, <2>3, <2>4 DEF CountsInv
<1>15. ResultsInv'
  BY <1>1 DEF IInv, ResultsInv
<1>16. TrafficInv'
  BY <1>1, <1>2, <1>4, <1>5 DEF TrafficInv
<1>17. ConsistencyInv'
  <2>1. CrossCompared' = CrossCompared
    BY <1>1, <1>11, <1>13, SameCompared DEF IInv
  <2> QED BY <1>1, <1>3, <2>1 DEF IInv, ConsistencyInv
<1>18. PrintedInv'
  BY <1>1, <1>4 DEF PrintedInv
<1> QED BY <1>11, <1>12, <1>13, <1>14, <1>15, <1>16, <1>17, <1>18 DEF IInv

(* What the counts add up to is a status, and no comparison moved it.      *)
LEMMA StatusIsTyped ==
  IInv => ~Broken /\ BatchStatus \in Statuses
<1> SUFFICES ASSUME IInv PROVE ~Broken /\ BatchStatus \in Statuses
  OBVIOUS
<1>1. ~Broken
  BY NothingBroken DEF IInv
<1>2. counts \in [Counted -> Nat]
  BY DEF IInv, TypeOK
<1> QED BY <1>1, <1>2, BatchStatusMeans

(* Printing and judging are of the rows as they are.                       *)
LEMMA ReportIsSafe ==
  ASSUME IInv, PrintResult \/ Judge
  PROVE  IInv'
<1>1. /\ flag' = flag /\ policy' = policy /\ sources' = sources /\ receipts' = receipts
      /\ items' = items /\ found' = found /\ results' = results /\ errors' = errors
      /\ counts' = counts /\ consistency' = consistency /\ pending' = pending
      /\ probed' = probed /\ asked' = asked /\ mode' = mode /\ deferred' = deferred
  BY DEF PrintResult, Judge, walked, verified, network
<1>2. \/ /\ phase = "print" /\ phase' = "judge" /\ printed' = {Report} /\ exit' = exit
      \/ /\ phase = "judge" /\ phase' = "done" /\ printed' = printed
         /\ exit' = ExitCode(BatchStatus, deferred)
  BY DEF PrintResult, Judge
<1>3. BatchStatus \in Statuses /\ ~Broken
  BY StatusIsTyped
<1>4. Gathered
  BY <1>2 DEF Gathered
<1>5. printed' # {} /\ printed' \subseteq {Report}
  BY <1>2 DEF IInv, ProgressInv, PrintedInv
<1>6. Gathered' /\ ~Early'
  BY <1>2, <1>5 DEF Gathered, Early
<1>7. /\ Settleable' = Settleable /\ Matched' = Matched /\ LooseRows' = LooseRows
      /\ \A m : OfflineBucket(m)' = OfflineBucket(m)
      /\ CountsInv' /\ ConsistencyInv'
      /\ DOMAIN items' = {Row(m, "pair") : m \in DOMAIN found' \cup DOMAIN errors'}
                         \cup DOMAIN LooseRows'
      /\ DOMAIN found' \cup DOMAIN errors' = Matched'
      /\ \A r \in DOMAIN LooseRows' : items'[r] = LooseRows'[r]
      /\ \A m \in DOMAIN errors' : items'[Row(m, "pair")] = "Error"
  BY <1>1, <1>4, <1>6, RowsStand
<1>8. BatchStatus' = BatchStatus /\ Report' = Report
  <2>1. BatchStatus' = BatchStatus
    BY <1>1 DEF BatchStatus, Broken
  <2>2. \A m : VerdictOf(m)' = VerdictOf(m)
    BY <1>1 DEF VerdictOf
  <2> QED BY <1>1, <2>1, <2>2 DEF Report
<1>9. Report \in Reports
  <2>1. counts \in [Counted -> Nat] /\ mode \in Modes
    BY DEF IInv, TypeOK
  <2> QED BY <1>3, <2>1 DEF Report, Reports
<1>10. exit = NoExit /\ exit' \in ExitCodes \cup {NoExit}
       /\ (exit' # NoExit <=> phase' = "done")
  <2>1. exit = NoExit
    BY <1>2 DEF IInv, ProgressInv
  <2>2. ExitCode(BatchStatus, deferred) \in ExitCodes
    BY <1>3, ExitMeans DEF IInv, TypeOK
  <2> QED BY <1>2, <2>1, <2>2, BatchAssumption
<1>11. /\ pending = {} /\ asked = IF mode = "Online" THEN Settleable ELSE {}
       /\ mode = "Online" => Settleable # {}
       /\ probed = Probes(flag, Settleable # {}) /\ asked \subseteq Settleable
  BY <1>2, <1>4 DEF IInv, TrafficInv
<1>12. TypeOK'
  <2>1. TypeOK /\ phase' \in Phases
    BY <1>2 DEF IInv, Phases
  <2>2. printed' \subseteq Reports
    BY <1>5, <1>9
  <2> QED BY <1>1, <1>7, <1>10, <1>11, <2>1, <2>2 DEF TypeOK
<1>13. ProgressInv'
  BY <1>1, <1>2, <1>5, <1>6, <1>10 DEF ProgressInv
<1>14. RowsInv'
  <2>1. \A m \in DOMAIN found : items[Row(m, "pair")] = Bucket(VerdictOf(m).status, found[m].facts)
    BY <1>2 DEF IInv, RowsInv
  <2>2. \A m : VerdictOf(m)' = VerdictOf(m)
    BY <1>1 DEF VerdictOf
  <2> QED BY <1>1, <1>2, <1>6, <1>7, <2>1, <2>2 DEF RowsInv
<1>15. ResultsInv'
  BY <1>1 DEF IInv, ResultsInv
<1>16. TrafficInv'
  BY <1>1, <1>2, <1>7, <1>11 DEF TrafficInv
<1>17. PrintedInv'
  BY <1>1, <1>2, <1>5, <1>8 DEF PrintedInv
<1> QED BY <1>7, <1>12, <1>13, <1>14, <1>15, <1>16, <1>17 DEF IInv

(* What is safe stays so if nothing happens.                               *)
LEMMA StutterIsSafe ==
  ASSUME IInv, UNCHANGED vars
  PROVE  IInv'
<1>1. /\ phase' = phase /\ flag' = flag /\ policy' = policy /\ sources' = sources
      /\ receipts' = receipts /\ items' = items /\ found' = found /\ results' = results
      /\ errors' = errors /\ counts' = counts /\ consistency' = consistency
      /\ pending' = pending /\ probed' = probed /\ asked' = asked /\ mode' = mode
      /\ deferred' = deferred /\ printed' = printed /\ exit' = exit
  BY DEF vars, walked, verified, network
<1>2. /\ Matched' = Matched /\ LooseRows' = LooseRows /\ Settleable' = Settleable
      /\ Early' = Early /\ Gathered' = Gathered /\ BatchStatus' = BatchStatus
      /\ Unpaired' = Unpaired /\ CrossCompared' = CrossCompared
  BY <1>1 DEF Matched, LooseRows, Settleable, Early, Gathered, BatchStatus, Broken, Unpaired,
              CrossCompared, Participants, Comparable
<1>3. /\ \A n : OfflineBucket(n)' = OfflineBucket(n) /\ VerdictOf(n)' = VerdictOf(n)
      /\ UnreadableIn(sources)' = UnreadableIn(sources)
      /\ UnreadableIn(receipts)' = UnreadableIn(receipts)
  BY <1>1 DEF OfflineBucket, VerdictOf, UnreadableIn
<1>4. Report' = Report
  BY <1>1, <1>2, <1>3 DEF Report
<1>5. TypeOK'
  BY <1>1, <1>2 DEF IInv, TypeOK
<1>6. ProgressInv'
  BY <1>1, <1>2 DEF IInv, ProgressInv
<1>7. RowsInv'
  BY <1>1, <1>2, <1>3 DEF IInv, RowsInv
<1>8. CountsInv'
  BY <1>1, <1>2, <1>3 DEF IInv, CountsInv
<1>9. ResultsInv'
  BY <1>1 DEF IInv, ResultsInv
<1>10. TrafficInv'
  BY <1>1, <1>2 DEF IInv, TrafficInv
<1>11. ConsistencyInv' /\ PrintedInv'
  BY <1>1, <1>2, <1>4 DEF IInv, ConsistencyInv, PrintedInv
<1> QED BY <1>5, <1>6, <1>7, <1>8, <1>9, <1>10, <1>11 DEF IInv

(* No step of a batch leaves the invariant.                                *)
LEMMA StepIsSafe == IInv /\ [Next]_vars => IInv'
<1> SUFFICES ASSUME IInv, [Next]_vars PROVE IInv'
  OBVIOUS
<1>1. sources \in [Names -> Entries] /\ receipts \in [Names -> Entries]
      /\ (phase # "done" => exit = NoExit)
  BY DEF IInv, TypeOK, ProgressInv
<1>2. CASE Proceed
  <2>1. /\ phase \in {"validate", "trust", "sources", "receipts"}
        /\ phase' \in {"trust", "sources", "receipts", "verify", "done"}
        /\ phase' # "done"
        /\ exit' = exit /\ sources' = sources /\ receipts' = receipts
        /\ UNCHANGED <<flag, policy, verified, network, printed>>
    BY <1>2 DEF Proceed, walked
  <2> QED BY <1>1, <2>1, WalkIsSafe
<1>3. CASE InputFails
  <2>1. /\ phase \in {"validate", "trust", "sources", "receipts"}
        /\ phase' = "done" /\ exit' = 2 /\ sources' = sources /\ receipts' = receipts
        /\ UNCHANGED <<flag, policy, verified, network, printed>>
    BY <1>3 DEF InputFails, walked
  <2> QED BY <1>1, <2>1, WalkIsSafe
<1>4. CASE WalkSources
  <2>1. /\ phase = "sources" /\ phase' \in {"receipts", "done"}
        /\ exit' = IF phase' = "done" THEN 2 ELSE exit
        /\ sources' \in [Names -> Entries] /\ receipts' = receipts
        /\ UNCHANGED <<flag, policy, verified, network, printed>>
    BY <1>4 DEF WalkSources
  <2> QED BY <1>1, <2>1, WalkIsSafe
<1>5. CASE WalkReceipts
  <2>1. /\ phase = "receipts" /\ phase' \in {"verify", "done"}
        /\ exit' = IF phase' = "done" THEN 2 ELSE exit
        /\ receipts' \in [Names -> Entries] /\ sources' = sources
        /\ UNCHANGED <<flag, policy, verified, network, printed>>
    BY <1>5 DEF WalkReceipts
  <2> QED BY <1>1, <2>1, WalkIsSafe
<1>6. CASE \E n \in Names : VerifyPair(n)
  BY <1>6, VerifyPairIsSafe
<1>7. CASE \E n \in Names : PairFails(n)
  BY <1>7, PairFailsIsSafe
<1>8. CASE Gather
  BY <1>8, GatherIsSafe
<1>9. CASE SettleBatch
  BY <1>9, SettleBatchIsSafe
<1>10. CASE LookUpNext
  BY <1>10, LookUpNextIsSafe
<1>11. CASE FinishOnline
  BY <1>11, FinishOnlineIsSafe
<1>12. CASE Reclassify
  BY <1>12, ReclassifyIsSafe
<1>13. CASE PrintResult \/ Judge
  BY <1>13, ReportIsSafe
<1>14. CASE Exited \/ UNCHANGED vars
  BY <1>14, StutterIsSafe DEF Exited
<1> QED BY <1>2, <1>3, <1>4, <1>5, <1>6, <1>7, <1>8, <1>9, <1>10, <1>11, <1>12, <1>13, <1>14
        DEF Next

(* The rows, the counts, the results, the traffic and the comparison are   *)
(* as IInv relates them at every point of every run.                       *)
THEOREM Inductive == Spec => []IInv
BY InitIsSafe, StepIsSafe, PTL DEF Spec

-----------------------------------------------------------------------------
(* What follows from the invariant.                                        *)

(* What has printed stands at the end of a batch whose rows are complete.  *)
LEMMA PrintedMeans ==
  ASSUME IInv, printed # {}
  PROVE  /\ phase \in {"judge", "done"} /\ Gathered /\ printed = {Report}
         /\ DOMAIN found \cup DOMAIN errors = Matched /\ DOMAIN found \cap DOMAIN errors = {}
         /\ DOMAIN items = {Row(n, "pair") : n \in Matched} \cup DOMAIN LooseRows
         /\ \A n \in DOMAIN found :
              items[Row(n, "pair")] = Bucket(VerdictOf(n).status, found[n].facts)
         /\ phase = "done" => exit = ExitCode(BatchStatus, deferred)
<1>1. phase \in {"judge", "done"}
  BY DEF IInv, ProgressInv
<1>2. Gathered
  BY DEF Gathered
<1> QED BY <1>1, <1>2 DEF IInv, TypeOK, RowsInv, PrintedInv

(* Exit 0 is printed, and says that nothing is in any bucket but one.      *)
LEMMA ExitMeansPrinted ==
  ASSUME IInv, exit \in {0, 1}
  PROVE  phase = "done" /\ printed # {} /\ exit = ExitCode(BatchStatus, deferred)
<1>1. exit # NoExit
  BY BatchAssumption DEF ExitCodes
<1>2. phase = "done"
  BY <1>1 DEF IInv, ProgressInv
<1>3. printed # {}
  BY <1>1, <1>2 DEF IInv, ProgressInv, Early
<1> QED BY <1>2, <1>3, PrintedMeans

(* Each anchor that is verified after the run holds in fact.               *)
LEMMA AnchorsHold ==
  ASSUME IInv, NEW n \in DOMAIN found, NEW i \in DOMAIN found[n].facts,
         results[n][i].verdict = "Valid"
  PROVE  Holds(found[n].facts[i])
<1> DEFINE f == found[n].facts[i]
<1>1. f \in FactSets
  BY FoundIsTyped DEF IInv
<1>2. CASE <<n, i>> \in asked
  <2>1. \E lookup \in Lookups(f.proof.height) : results[n][i] = OnlineResult(f.proof, lookup)
    BY <1>2 DEF IInv, ResultsInv
  <2>2. <<n, i>> \in Settleable
    BY <1>2 DEF IInv, TrafficInv
  <2>3. PICK m \in DOMAIN found : \E j \in PreparedPlaces(found[m].facts) : <<n, i>> = <<m, j>>
    BY <2>2, SettleableMeans
  <2>4. Prepared(f)
    BY <2>3 DEF PreparedPlaces
  <2> HIDE DEF f
  <2> QED BY <1>1, <2>1, <2>4, VerifiedHolds DEF f
<1>3. CASE <<n, i>> \notin asked
  <2>1. results[n][i] = Result(VerdictFromFacts(f), NoHeader)
    BY <1>3 DEF IInv, ResultsInv
  <2> HIDE DEF f
  <2> QED BY <1>1, <2>1, VerifiedHolds DEF f
<1> QED BY <1>2, <1>3

(* Acceptance takes every row, and of every row an accepted receipt.       *)
LEMMA InvImpliesEarned == IInv => BatchAcceptanceIsEarned
<1> SUFFICES ASSUME IInv, exit = 0
             PROVE  /\ Matched # {}
                    /\ \A n \in Names \ Matched : sources[n] = "none" /\ receipts[n] = "none"
                    /\ deferred = "None"
                    /\ \A n \in Matched :
                         LET F == found[n].facts
                         IN /\ n \in DOMAIN found
                            /\ ~Refuted(n) /\ "Inability" \notin found[n].checks.findings
                            /\ DOMAIN F # {}
                            /\ IF policy = "AllAnchors" THEN \A i \in DOMAIN F : Holds(F[i])
                                                        ELSE \E i \in DOMAIN F : Holds(F[i])
  BY DEF BatchAcceptanceIsEarned
<1>1. phase = "done" /\ printed # {} /\ exit = ExitCode(BatchStatus, deferred)
  BY ExitMeansPrinted
<1>2. /\ Gathered /\ DOMAIN found \cup DOMAIN errors = Matched
      /\ \A n \in DOMAIN found :
           items[Row(n, "pair")] = Bucket(VerdictOf(n).status, found[n].facts)
  BY <1>1, PrintedMeans
<1>3. BatchStatus = "Valid" /\ deferred = "None"
  BY <1>1, StatusIsTyped, ExitMeans DEF IInv, TypeOK
<1>4. /\ \A b \in Counted \ {"Valid"} : counts[b] = 0
      /\ counts["Valid"] > 0
  BY <1>3, StatusIsTyped, BatchStatusMeans DEF IInv, TypeOK
<1> DEFINE in(b) == {n \in DOMAIN found : items[Row(n, "pair")] = b}
<1>5. \A b \in Judged : counts[b] = Cardinality(in(b)) /\ in(b) \in SUBSET Names
  BY DEF IInv, CountsInv, TypeOK, Matched
<1>6. in("Unanchored") = {} /\ in("Untrusted") = {} /\ in("Invalid") = {}
  <2> HIDE DEF in
  <2> QED BY <1>4, <1>5, NamesCounted DEF Counted, Judged
<1>7. in("Valid") # {}
  <2> HIDE DEF in
  <2>1. Cardinality(in("Valid")) # 0 /\ in("Valid") \in SUBSET Names
    BY <1>4, <1>5 DEF Judged
  <2> QED BY <2>1, NamesCounted
<1>8. DOMAIN errors = {} /\ UnreadableIn(sources) = {} /\ UnreadableIn(receipts) = {}
  <2>1. /\ DOMAIN errors \in SUBSET Names /\ UnreadableIn(sources) \in SUBSET Names
        /\ UnreadableIn(receipts) \in SUBSET Names
    BY DEF IInv, TypeOK, Matched, UnreadableIn
  <2>2. counts["Error"] = 0
    BY <1>4 DEF Counted
  <2>3. Cardinality(DOMAIN errors)
        + (Cardinality(UnreadableIn(sources)) + Cardinality(UnreadableIn(receipts))) = 0
    BY <1>2, <2>2 DEF IInv, CountsInv
  <2>4. /\ Cardinality(DOMAIN errors) \in Nat /\ Cardinality(UnreadableIn(sources)) \in Nat
        /\ Cardinality(UnreadableIn(receipts)) \in Nat
    BY <2>1, NamesCounted
  <2>5. /\ Cardinality(DOMAIN errors) = 0 /\ Cardinality(UnreadableIn(sources)) = 0
        /\ Cardinality(UnreadableIn(receipts)) = 0
    BY <2>3, <2>4
  <2> QED BY <2>1, <2>5, NamesCounted
<1>9. Unpaired = {}
  <2>1. Cardinality(Unpaired) = 0
    BY <1>2, <1>4 DEF IInv, CountsInv, Counted
  <2>2. Unpaired \in SUBSET Names
    BY DEF Unpaired
  <2> QED BY <2>1, <2>2, NamesCounted
<1>10. Matched # {} /\ DOMAIN found = Matched
  BY <1>2, <1>7, <1>8
<1>11. \A n \in Names \ Matched : sources[n] = "none" /\ receipts[n] = "none"
  <2> SUFFICES ASSUME NEW n \in Names, n \notin Matched
               PROVE  sources[n] = "none" /\ receipts[n] = "none"
    OBVIOUS
  <2>1. sources[n] \in Entries /\ receipts[n] \in Entries
    BY DEF IInv, TypeOK
  <2>2. (sources[n] = "file") = (receipts[n] = "file")
    BY <1>9 DEF Unpaired
  <2>3. sources[n] # "unreadable" /\ receipts[n] # "unreadable"
    BY <1>8 DEF UnreadableIn
  <2> QED BY <2>1, <2>2, <2>3 DEF Entries, Matched
<1>12. ASSUME NEW n \in Matched
       PROVE  LET F == found[n].facts
              IN /\ n \in DOMAIN found
                 /\ ~Refuted(n) /\ "Inability" \notin found[n].checks.findings
                 /\ DOMAIN F # {}
                 /\ IF policy = "AllAnchors" THEN \A i \in DOMAIN F : Holds(F[i])
                                             ELSE \E i \in DOMAIN F : Holds(F[i])
  <2> DEFINE F == found[n].facts
             c == found[n].checks
             R == VerdictsIn(results[n])
  <2>1. n \in DOMAIN found
    BY <1>10
  <2>2. c \in ReceiptChecks /\ policy \in Policies
    BY <2>1, FoundIsTyped DEF IInv, TypeOK
  <2>3. items[Row(n, "pair")] = "Valid"
    BY <1>6, <2>1, FiledMeans DEF IInv, Judged
  <2>4. VerdictOf(n).status = "Valid"
    <3>1. Bucket(Verdict(c, R, policy).status, F) = "Valid"
      BY <1>2, <2>1, <2>3 DEF VerdictOf
    <3> HIDE DEF c, R, F
    <3> DEFINE b == Bucket(Verdict(c, R, policy).status, F)
    <3>2. b = "Valid" <=> Verdict(c, R, policy).status = "Valid"
      BY <2>2, BucketMeans
    <3> QED BY <3>1, <3>2 DEF VerdictOf, c, R
  <2>5. ~ReceiptRefuted(c) /\ ~ReceiptInability(c) /\ PolicySatisfied(c, R, policy)
    BY <2>2, <2>4, StatusMeans DEF VerdictOf
  <2>6. DOMAIN R = DOMAIN F /\ \A i \in DOMAIN F : R[i] = results[n][i].verdict
    BY <2>1, FoundIsTyped DEF IInv, VerdictsIn
  <2>7. \A i \in Verified(R) : i \in DOMAIN F /\ Holds(F[i])
    BY <2>1, <2>6, AnchorsHold DEF Verified
  <2>8. Refuted(n) = ReceiptRefuted(c) /\ (ReceiptInability(c) = ("Inability" \in c.findings))
    BY DEF Refuted, ReceiptInability
  <2> HIDE DEF R, F, c
  <2>9. DOMAIN F # {} /\ IF policy = "AllAnchors" THEN Verified(R) = DOMAIN F
                                                  ELSE Verified(R) # {}
    BY <2>5, <2>6 DEF PolicySatisfied
  <2>10. IF policy = "AllAnchors" THEN \A i \in DOMAIN F : Holds(F[i])
                                  ELSE \E i \in DOMAIN F : Holds(F[i])
    BY <2>7, <2>9
  <2> QED BY <2>1, <2>5, <2>8, <2>9, <2>10 DEF F, c
<1> QED BY <1>3, <1>10, <1>11, <1>12

(* A refuted receipt is counted, and nothing else is counted as one.       *)
LEMMA InvImpliesDecided == IInv => BatchRefutationDecides
<1> SUFFICES ASSUME IInv, phase = "done", printed # {}
             PROVE  exit = 1 <=> \E n \in DOMAIN found : Refuted(n)
  BY DEF BatchRefutationDecides
<1>1. exit = ExitCode(BatchStatus, deferred)
  BY PrintedMeans
<1>2. exit = 1 <=> BatchStatus = "Invalid"
  BY <1>1, StatusIsTyped, ExitMeans DEF IInv, TypeOK
<1>3. BatchStatus = "Invalid" <=> counts["Invalid"] > 0
  BY StatusIsTyped, BatchStatusMeans DEF IInv, TypeOK
<1> DEFINE refuted == {n \in DOMAIN found : items[Row(n, "pair")] = "Invalid"}
<1>4. counts["Invalid"] = Cardinality(refuted)
  BY DEF IInv, CountsInv, Judged
<1>5. refuted \in SUBSET Names
  BY DEF IInv, TypeOK, Matched
<1>6. refuted # {} <=> \E n \in DOMAIN found : Refuted(n)
  BY FiledMeans DEF IInv
<1> HIDE DEF refuted
<1>7. Cardinality(refuted) > 0 <=> refuted # {}
  BY <1>5, NamesCounted
<1> QED BY <1>2, <1>3, <1>4, <1>6, <1>7

(* Every entry has its row, by its name and side.                          *)
LEMMA RowsAreOne ==
  ASSUME IInv, printed # {}
  PROVE  EveryEntryHasOneRow
<1> SUFFICES ASSUME NEW n \in Names
             PROVE  /\ Cardinality({r \in DOMAIN items : r.name = n /\ r.side \in {"pair", "source"}})
                         = IF sources[n] = "none" THEN 0 ELSE 1
                    /\ Cardinality({r \in DOMAIN items : r.name = n /\ r.side \in {"pair", "receipt"}})
                         = IF receipts[n] = "none" THEN 0 ELSE 1
  BY DEF EveryEntryHasOneRow
<1> DEFINE S == {m \in Names : sources[m] # "none"} \ Matched
           T == {m \in Names : receipts[m] # "none"} \ Matched
           P == {Row(m, "pair") : m \in Matched}
           Q == {Row(m, "source") : m \in S}
           R == {Row(m, "receipt") : m \in T}
           rows(side) == {r \in DOMAIN items : r.name = n /\ r.side \in {"pair", side}}
<1>1. DOMAIN items = P \cup (Q \cup R)
  BY PrintedMeans, LooseMeans
<1>2. /\ \A r \in P : r.side = "pair" /\ r.name \in Matched /\ r = Row(r.name, "pair")
      /\ \A r \in Q : r.side = "source" /\ r.name \in S /\ r = Row(r.name, "source")
      /\ \A r \in R : r.side = "receipt" /\ r.name \in T /\ r = Row(r.name, "receipt")
  BY DEF Row
<1>3. \A side : Row(n, side).name = n /\ Row(n, side).side = side
  BY DEF Row
<1>4. /\ n \in Matched => Row(n, "pair") \in P
      /\ n \in S => Row(n, "source") \in Q
      /\ n \in T => Row(n, "receipt") \in R
  OBVIOUS
<1>5. /\ n \in Matched => sources[n] # "none" /\ receipts[n] # "none" /\ n \notin S /\ n \notin T
      /\ n \notin Matched => (n \in S <=> sources[n] # "none") /\ (n \in T <=> receipts[n] # "none")
  BY DEF Matched
<1>6. Cardinality({}) = 0 /\ \A x : Cardinality({x}) = 1
  BY FS_EmptySet, FS_Singleton
<1> HIDE DEF P, Q, R, S, T
<1>7. rows("source") = IF n \in Matched THEN {Row(n, "pair")}
                       ELSE IF sources[n] # "none" THEN {Row(n, "source")} ELSE {}
  <2>1. CASE n \in Matched
    BY <1>1, <1>2, <1>3, <1>4, <1>5, <2>1
  <2>2. CASE n \notin Matched
    BY <1>1, <1>2, <1>3, <1>4, <1>5, <2>2
  <2> QED BY <2>1, <2>2
<1>8. rows("receipt") = IF n \in Matched THEN {Row(n, "pair")}
                        ELSE IF receipts[n] # "none" THEN {Row(n, "receipt")} ELSE {}
  <2>1. CASE n \in Matched
    BY <1>1, <1>2, <1>3, <1>4, <1>5, <2>1
  <2>2. CASE n \notin Matched
    BY <1>1, <1>2, <1>3, <1>4, <1>5, <2>2
  <2> QED BY <2>1, <2>2
<1> HIDE DEF rows
<1>9. /\ Cardinality(rows("source")) = IF sources[n] = "none" THEN 0 ELSE 1
      /\ Cardinality(rows("receipt")) = IF receipts[n] = "none" THEN 0 ELSE 1
  BY <1>5, <1>6, <1>7, <1>8
<1> QED BY <1>9 DEF rows

(* The summary is of those rows, and of what the network was asked.        *)
LEMMA InvImpliesDescribes == IInv => SummaryDescribesRows
<1> SUFFICES ASSUME IInv, NEW report \in printed
             PROVE  EveryEntryHasOneRow /\ CountsAreOfRows(report) /\ ModeIsExercised(report)
  BY DEF SummaryDescribesRows, IInv
<1>1. /\ phase \in {"judge", "done"} /\ Gathered /\ printed # {} /\ report = Report
      /\ \A n \in DOMAIN found :
           items[Row(n, "pair")] = Bucket(VerdictOf(n).status, found[n].facts)
  BY PrintedMeans
<1>2. EveryEntryHasOneRow
  BY <1>1, RowsAreOne
<1>3. report.counts = counts /\ report.mode = mode
  BY <1>1 DEF Report
<1>4. CountsAreOfRows(report)
  <2>1. ASSUME NEW b \in Judged
        PROVE  counts[b] =
                 Cardinality({n \in DOMAIN found : Bucket(VerdictOf(n).status, found[n].facts) = b})
    <3>1. {n \in DOMAIN found : Bucket(VerdictOf(n).status, found[n].facts) = b} =
            {n \in DOMAIN found : items[Row(n, "pair")] = b}
      BY <1>1
    <3> QED BY <3>1 DEF IInv, CountsInv
  <2> DEFINE e == Cardinality(DOMAIN errors)
             s == Cardinality(UnreadableIn(sources))
             r == Cardinality(UnreadableIn(receipts))
  <2>2. counts["Error"] = e + (s + r) /\ counts["Unmatched"] = Cardinality(Unpaired)
    BY <1>1 DEF IInv, CountsInv
  <2>3. e \in Nat /\ s \in Nat /\ r \in Nat
    BY NamesCounted DEF IInv, TypeOK, Matched, UnreadableIn
  <2> HIDE DEF e, s, r
  <2>4. counts["Error"] = e + s + r
    BY <2>2, <2>3
  <2> QED BY <1>3, <2>1, <2>2, <2>4 DEF CountsAreOfRows, UnreadableIn, Unpaired, e, s, r
<1>5. ModeIsExercised(report)
  <2>1. /\ asked = IF mode = "Online" THEN Settleable ELSE {}
        /\ mode = "Online" => Settleable # {}
    BY <1>1 DEF IInv, TrafficInv
  <2> QED BY <1>3, <2>1 DEF ModeIsExercised
<1> QED BY <1>2, <1>4, <1>5

(* The status of a batch of one pair is that pair's.                       *)
LEMMA StatusOfOne ==
  ASSUME IInv, printed # {}, NEW n \in DOMAIN found, Alone(n)
  PROVE  BatchStatus = VerdictOf(n).status /\ DOMAIN found = {n}
<1>1. /\ Gathered /\ DOMAIN found \cup DOMAIN errors = Matched
      /\ DOMAIN found \cap DOMAIN errors = {}
      /\ items[Row(n, "pair")] = Bucket(VerdictOf(n).status, found[n].facts)
  BY PrintedMeans
<1>2. Matched = {n} /\ n \in Names
  BY DEF Alone, Matched
<1>3. DOMAIN found = {n} /\ DOMAIN errors = {}
  BY <1>1, <1>2
<1>4. UnreadableIn(sources) = {} /\ UnreadableIn(receipts) = {} /\ Unpaired = {}
  BY DEF Alone, Matched, UnreadableIn, Unpaired
<1>5. Cardinality({}) = 0 /\ Cardinality({n}) = 1
  BY FS_EmptySet, FS_Singleton
<1>6. counts["Error"] = 0 /\ counts["Unmatched"] = 0
  BY <1>1, <1>3, <1>4, <1>5 DEF IInv, CountsInv
<1> DEFINE bucket == items[Row(n, "pair")]
           status == VerdictOf(n).status
<1>7. ASSUME NEW b \in Judged PROVE counts[b] = IF b = bucket THEN 1 ELSE 0
  <2>1. counts[b] = Cardinality({m \in DOMAIN found : items[Row(m, "pair")] = b})
    BY DEF IInv, CountsInv
  <2>2. {m \in DOMAIN found : items[Row(m, "pair")] = b} = IF b = bucket THEN {n} ELSE {}
    BY <1>3
  <2> HIDE DEF bucket
  <2> QED BY <1>5, <2>1, <2>2
<1>8. /\ bucket \in Judged /\ status \in {"Valid", "Invalid", "Untrusted"}
      /\ bucket = "Invalid" <=> status = "Invalid"
      /\ bucket = "Valid" <=> status = "Valid"
  <2>1. found[n].checks \in ReceiptChecks /\ policy \in Policies
    BY FoundIsTyped DEF IInv, TypeOK
  <2>2. status \in {"Valid", "Invalid", "Untrusted"}
    BY <2>1, StatusMeans DEF VerdictOf
  <2> QED BY <1>1, <2>2 DEF Bucket, Judged
<1>9. /\ BatchStatus \in Statuses
      /\ BatchStatus = "Invalid" <=> counts["Invalid"] > 0
      /\ BatchStatus = "Error" <=> counts["Invalid"] = 0 /\ counts["Error"] > 0
      /\ BatchStatus = "Valid" <=>
           /\ \A b \in Counted \ {"Valid"} : counts[b] = 0
           /\ counts["Valid"] > 0
  BY StatusIsTyped, BatchStatusMeans DEF IInv, TypeOK
<1> HIDE DEF bucket, status
<1>10. Counted = {"Valid", "Unanchored", "Untrusted", "Invalid", "Error", "Unmatched"}
       /\ Judged = {"Valid", "Unanchored", "Untrusted", "Invalid"}
  BY DEF Counted, Judged
<1>11. CASE status = "Valid"
  <2>1. bucket = "Valid"
    BY <1>8, <1>11
  <2>2. counts["Valid"] = 1 /\ counts["Unanchored"] = 0 /\ counts["Untrusted"] = 0
        /\ counts["Invalid"] = 0
    BY <1>7, <1>10, <2>1
  <2>3. BatchStatus = "Valid"
    BY <1>6, <1>9, <1>10, <2>2
  <2> QED BY <1>3, <1>11, <2>3 DEF status
<1>12. CASE status = "Invalid"
  <2>1. counts["Invalid"] = 1
    BY <1>7, <1>8, <1>10, <1>12
  <2>2. BatchStatus = "Invalid"
    BY <1>9, <2>1
  <2> QED BY <1>3, <1>12, <2>2 DEF status
<1>13. CASE status = "Untrusted"
  <2>1. counts["Invalid"] = 0 /\ counts["Valid"] = 0
    BY <1>7, <1>8, <1>10, <1>13
  <2>2. BatchStatus = "Untrusted"
    BY <1>6, <1>9, <2>1 DEF Statuses
  <2> QED BY <1>3, <1>13, <2>2 DEF status
<1> QED BY <1>8, <1>11, <1>12, <1>13

(* So is its exit code, and the network it asks for.                       *)
LEMMA InvImpliesSingle == IInv => BatchOfOneIsSingle
<1> SUFFICES ASSUME IInv, NEW n \in DOMAIN found, phase = "done", Alone(n)
             PROVE  /\ exit = ExitCode(VerdictOf(n).status, deferred)
                    /\ probed = Probes(flag, PreparedPlaces(found[n].facts) # {})
  BY DEF BatchOfOneIsSingle
<1>1. printed # {}
  BY DEF IInv, ProgressInv, Early
<1>2. /\ Gathered /\ exit = ExitCode(BatchStatus, deferred)
      /\ BatchStatus = VerdictOf(n).status /\ DOMAIN found = {n}
  BY <1>1, PrintedMeans, StatusOfOne
<1>3. probed = Probes(flag, Settleable # {})
  BY <1>2 DEF IInv, TrafficInv
<1>4. (Settleable # {}) = (PreparedPlaces(found[n].facts) # {})
  BY <1>2, SettleableMeans
<1> QED BY <1>2, <1>3, <1>4

(* What is said of a comparison is said of the receipts that entered it.   *)
LEMMA ComparedMeans ==
  ASSUME IInv, NEW c \in consistency
  PROVE  /\ c = VerifyConsistency(Participants)
         /\ Receipts(Participants)
         /\ \A r \in Participants :
              /\ r.name \in DOMAIN found /\ r.genesis = found[r.name].genesis
              /\ r.genesis \in Geneses /\ r.size = found[r.name].size
              /\ r.holds = found[r.name].checks.proofsHold /\ r.holds
              /\ Place(Participants, r) \in DOMAIN c.participants
              /\ c.participants[Place(Participants, r)] = r.name
         /\ \A r, s \in Participants : r.name = s.name => r = s
         /\ ParticipantsOf(c) = {r.name : r \in Participants}
         /\ Cardinality(Participants) >= 2 /\ Participants # {}
<1>1. c \in CrossCompared
  <2>1. phase \in Phases
    BY DEF IInv, TypeOK
  <2> QED BY <2>1, Stages DEF IInv, ProgressInv, ConsistencyInv
<1>2. c = VerifyConsistency(Participants) /\ ~(Cardinality(Participants) < 2)
  BY <1>1 DEF CrossCompared
<1>3. /\ Receipts(Participants)
      /\ \A r \in Participants :
           /\ r.name \in DOMAIN found /\ r.genesis = found[r.name].genesis
           /\ r.genesis \in Geneses /\ r.size = found[r.name].size
           /\ r.holds = found[r.name].checks.proofsHold /\ r.holds
      /\ \A r, s \in Participants : r.name = s.name => r = s
  BY ParticipantsMean DEF IInv
<1>4. /\ \A r \in Participants : /\ Place(Participants, r) \in DOMAIN c.participants
                                 /\ c.participants[Place(Participants, r)] = r.name
      /\ \A k \in DOMAIN c.participants : \E r \in Participants : c.participants[k] = r.name
  BY <1>2, <1>3, ParticipantsListed
<1>5. ParticipantsOf(c) = {r.name : r \in Participants}
  BY <1>4 DEF ParticipantsOf
<1>6. Cardinality(Participants) >= 2 /\ Participants # {}
  <2>1. Cardinality(Participants) \in Nat
    BY <1>3, FS_CardinalityType DEF Receipts
  <2>2. Cardinality(Participants) >= 2
    BY <1>2, <2>1
  <2>3. Cardinality({}) = 0
    BY FS_EmptySet
  <2> QED BY <2>2, <2>3
<1> QED BY <1>2, <1>3, <1>4, <1>5, <1>6

(* Every comparison, by the names and the receipts it is of.               *)
LEMMA CheckMeans ==
  ASSUME IInv, NEW c \in consistency, NEW check \in c.cross_results
  PROVE  \E r, s \in Participants :
           /\ <<r, s>> \in Windows(Participants)
           /\ check.from = Place(Participants, r) /\ check.to = Place(Participants, s)
           /\ check.consistent = HistoryConsistent(r, s)
           /\ c.participants[check.from] = r.name /\ c.participants[check.to] = s.name
           /\ r.genesis = s.genesis /\ r.size <= s.size /\ r # s
<1>1. c = VerifyConsistency(Participants) /\ Receipts(Participants)
  BY ComparedMeans
<1>2. check \in CrossResults(Participants)
  BY <1>1 DEF VerifyConsistency
<1>3. PICK w \in Windows(Participants) :
        check = CrossCheck(w[1], Place(Participants, w[1]), w[2], Place(Participants, w[2]))
  BY <1>2, ChecksAreOfWindows
<1>4. /\ w[1] \in Participants /\ w[2] \in Participants /\ w[1] # w[2] /\ w = <<w[1], w[2]>>
      /\ w[1].genesis = w[2].genesis /\ w[1].size <= w[2].size
  BY <1>1, WindowMeans
<1>5. /\ check.from = Place(Participants, w[1]) /\ check.to = Place(Participants, w[2])
      /\ check.consistent = HistoryConsistent(w[1], w[2])
  BY <1>3 DEF CrossCheck
<1>6. c.participants[check.from] = w[1].name /\ c.participants[check.to] = w[2].name
  BY <1>4, <1>5, ComparedMeans
<1> QED BY <1>4, <1>5, <1>6

(* Each window is among the comparisons.                                   *)
LEMMA WindowIsChecked ==
  ASSUME IInv, NEW c \in consistency, NEW w \in Windows(Participants)
  PROVE  \E check \in c.cross_results :
           c.participants[check.from] = w[1].name /\ c.participants[check.to] = w[2].name
<1> DEFINE check == CrossCheck(w[1], Place(Participants, w[1]), w[2], Place(Participants, w[2]))
<1>1. check \in c.cross_results
  <2>1. check \in CrossResults(Participants)
    BY ChecksAreOfWindows
  <2> QED BY <2>1, ComparedMeans DEF VerifyConsistency
<1>2. w[1] \in Participants /\ w[2] \in Participants
  BY ComparedMeans, WindowMeans
<1>3. check.from = Place(Participants, w[1]) /\ check.to = Place(Participants, w[2])
  BY DEF CrossCheck
<1>4. c.participants[check.from] = w[1].name /\ c.participants[check.to] = w[2].name
  BY <1>2, <1>3, ComparedMeans
<1> QED BY <1>1, <1>4

(* The names are of receipts of one instance, the smaller tree first.      *)
LEMMA InvImpliesNames ==
  ASSUME IInv, NEW c \in consistency
  PROVE  ChecksNameTheCompared(c)
<1> DEFINE named(check) ==
      [from_file |-> c.participants[check.from], to_file |-> c.participants[check.to],
       same_log_instance |-> check.consistent]
<1>1. JsonConsistency(c).cross_checks = {named(check) : check \in c.cross_results}
  BY DEF JsonConsistency
<1>2. HumanConsistency(c).checks = c.cross_results
  BY DEF HumanConsistency
<1>3. ASSUME NEW check \in c.cross_results
      PROVE  LET a == found[named(check).from_file]
                 b == found[named(check).to_file]
             IN /\ named(check).from_file # named(check).to_file
                /\ a.genesis = b.genesis /\ a.size <= b.size
                /\ named(check).same_log_instance = (a.checks.proofsHold /\ b.checks.proofsHold)
  <2>1. PICK r \in Participants, s \in Participants :
          /\ check.consistent = HistoryConsistent(r, s)
          /\ c.participants[check.from] = r.name /\ c.participants[check.to] = s.name
          /\ r.genesis = s.genesis /\ r.size <= s.size /\ r # s
    BY CheckMeans
  <2>2. /\ r.genesis = found[r.name].genesis /\ r.size = found[r.name].size
        /\ r.holds = found[r.name].checks.proofsHold
        /\ s.genesis = found[s.name].genesis /\ s.size = found[s.name].size
        /\ s.holds = found[s.name].checks.proofsHold
        /\ r.name # s.name
    BY <2>1, ComparedMeans
  <2>3. HistoryConsistent(r, s) = (r.holds /\ s.holds)
    BY <2>1 DEF HistoryConsistent
  <2> QED BY <2>1, <2>2, <2>3
<1> QED BY <1>1, <1>2, <1>3 DEF ChecksNameTheCompared

(* No part of an instance's receipts is left without a comparison.         *)
LEMMA InvImpliesChained ==
  ASSUME IInv, NEW c \in consistency
  PROVE  InstancesAreChained(c)
<1> DEFINE G(g) == {n \in ParticipantsOf(c) : found[n].genesis = g}
           ends(check) == {c.participants[check.from], c.participants[check.to]}
<1> SUFFICES ASSUME NEW g \in Geneses, NEW A \in (SUBSET G(g)) \ {{}, G(g)}
             PROVE  \E check \in c.cross_results :
                      ends(check) \cap A # {} /\ ends(check) \cap (G(g) \ A) # {}
  BY DEF InstancesAreChained
<1> DEFINE I == Instance(Participants, g)
           B == {r \in I : r.name \in A}
<1>1. /\ Receipts(Participants)
      /\ \A r \in Participants : r.genesis = found[r.name].genesis
      /\ ParticipantsOf(c) = {r.name : r \in Participants}
  BY ComparedMeans
<1>2. \A n \in G(g) : \E r \in I : r.name = n
  BY <1>1 DEF Instance
<1>3. \A r \in I : r.name \in G(g)
  BY <1>1 DEF Instance
<1>4. B \in SUBSET I /\ B # {} /\ B # I
  <2>1. \E n \in A : n \in G(g)
    OBVIOUS
  <2>2. \E n \in G(g) : n \notin A
    OBVIOUS
  <2> QED BY <1>2, <2>1, <2>2
<1> HIDE DEF I, G
<1>5. PICK w \in Windows(Participants) :
        \/ w[1] \in B /\ w[2] \in I \ B
        \/ w[2] \in B /\ w[1] \in I \ B
  <2> HIDE DEF B
  <2> QED BY <1>1, <1>4, NeighboursChain DEF I
<1>6. PICK check \in c.cross_results :
        c.participants[check.from] = w[1].name /\ c.participants[check.to] = w[2].name
  BY WindowIsChecked
<1>7. ends(check) = {w[1].name, w[2].name}
  BY <1>6
<1>8. \/ w[1].name \in A /\ w[2].name \in G(g) \ A
      \/ w[2].name \in A /\ w[1].name \in G(g) \ A
  BY <1>3, <1>5
<1> HIDE DEF ends
<1>9. ends(check) \cap A # {} /\ ends(check) \cap (G(g) \ A) # {}
  BY <1>7, <1>8
<1> QED BY <1>9

(* What is claimed of it all was found.                                    *)
LEMMA InvImpliesModest ==
  ASSUME IInv, NEW c \in consistency
  PROVE  NothingIsOverstated(c)
<1> DEFINE R == Participants
           human == HumanConsistency(c)
           json == JsonConsistency(c)
<1>1. /\ c = VerifyConsistency(R) /\ Receipts(R) /\ R # {}
      /\ \A r \in R : r.genesis = found[r.name].genesis
      /\ \A r, s \in R : r.name = s.name => r = s
      /\ ParticipantsOf(c) = {r.name : r \in R}
  BY ComparedMeans
<1>2. /\ c.cross_results = CrossResults(R) /\ c.log_instance_count = Cardinality(Instances(R))
      /\ c.genesis_super_root = IF Cardinality(Instances(R)) = 1 THEN Instances(R) ELSE {}
  BY <1>1 DEF VerifyConsistency
<1>3. \A check \in c.cross_results : check.consistent
  BY NothingBroken DEF IInv, Broken, IsConsistent
<1>4. human.status = json.status
      /\ (json.status = "not_checked" <=> c.cross_results = {})
  BY DEF HumanConsistency, JsonConsistency, Checked
<1>5. c.cross_results = {} <=>
        \A m, n \in ParticipantsOf(c) : found[m].genesis = found[n].genesis => m = n
  <2>1. ASSUME c.cross_results = {}, NEW r \in R, NEW s \in R, r.genesis = s.genesis, r # s
        PROVE  FALSE
    <3>1. Windows(R) = {}
      BY <2>1, WindowIsChecked
    <3>2. Rank(R, r) = 1 /\ Rank(R, s) = 1
      BY <1>1, <3>1, PredecessorExists
    <3> DEFINE I == Instance(R, r.genesis)
               rank == [x \in I |-> Rank(R, x)]
    <3>3. rank \in Bijection(I, 1..Cardinality(I))
      BY <1>1, RanksNumber
    <3>4. r \in I /\ s \in I
      BY <2>1 DEF Instance
    <3>5. rank[r] = rank[s]
      BY <3>2, <3>4
    <3> HIDE DEF rank, I
    <3> QED BY <2>1, <3>3, <3>4, <3>5 DEF Bijection, Injection, IsInjective
  <2>2. ASSUME NEW check \in c.cross_results
        PROVE  \E m, n \in ParticipantsOf(c) : found[m].genesis = found[n].genesis /\ m # n
    <3>1. PICK r \in R, s \in R : r.genesis = s.genesis /\ r # s
      BY CheckMeans
    <3> QED BY <1>1, <3>1
  <2> HIDE DEF R
  <2> QED BY <1>1, <2>1, <2>2
<1>6. \A g \in json.genesis_super_root : \A n \in ParticipantsOf(c) : found[n].genesis = g
  <2> SUFFICES ASSUME NEW g \in json.genesis_super_root, NEW r \in R PROVE r.genesis = g
    BY <1>1
  <2>1. g \in Instances(R) /\ Cardinality(Instances(R)) = 1
    BY <1>2 DEF JsonConsistency
  <2>2. PICK x : Instances(R) = {x}
    BY <1>1, <2>1, ComparisonsCounted, FS_Singleton
  <2>3. r.genesis \in Instances(R)
    BY DEF Instances
  <2> QED BY <2>1, <2>2, <2>3
<1>7. human.same_instance => json.genesis_super_root # {}
  <2> SUFFICES ASSUME human.same_instance PROVE json.genesis_super_root # {}
    OBVIOUS
  <2>1. Cardinality(Instances(R)) <= 1
    BY <1>2 DEF HumanConsistency, SingleLogInstance
  <2>2. Instances(R) # {}
    BY <1>1 DEF Instances
  <2>3. IsFiniteSet(Instances(R)) /\ Cardinality(Instances(R)) \in Nat
    BY <1>1, ComparisonsCounted
  <2>4. Cardinality(Instances(R)) = 1
    BY <2>1, <2>2, <2>3, FS_EmptySet
  <2> QED BY <1>2, <2>2, <2>4 DEF JsonConsistency
<1>8. json.cross_checks_passed + json.log_instances = json.receipt_count
  <2>1. {check \in c.cross_results : check.consistent} = CrossResults(R)
    BY <1>2, <1>3
  <2>2. json.cross_checks_passed = Cardinality(CrossResults(R))
        /\ json.log_instances = Cardinality(Instances(R))
        /\ json.receipt_count = Len(c.participants)
    BY <1>2, <2>1 DEF JsonConsistency
  <2>3. Len(c.participants) = Cardinality(R)
    BY <1>1, ParticipantsListed
  <2>4. Cardinality(CrossResults(R)) + Cardinality(Instances(R)) = Cardinality(R)
    BY <1>1, ComparisonsCounted
  <2> QED BY <2>2, <2>3, <2>4
<1> QED BY <1>4, <1>5, <1>6, <1>7, <1>8 DEF NothingIsOverstated

(* All three, of every comparison there is.                                *)
LEMMA InvImpliesTruthful == IInv => ConsistencyIsTruthful
BY InvImpliesNames, InvImpliesChained, InvImpliesModest DEF ConsistencyIsTruthful

-----------------------------------------------------------------------------
(* Every state of a batch is well typed, whatever the directories hold.    *)
THEOREM TypeCorrect == Spec => []TypeOK
<1>1. IInv => TypeOK
  BY DEF IInv
<1> QED BY <1>1, Inductive, PTL

(* Exit 0 always speaks for every path the caller named, and for anchors   *)
(* that hold in fact.                                                      *)
THEOREM BatchAcceptanceAlwaysEarned == Spec => []BatchAcceptanceIsEarned
BY InvImpliesEarned, Inductive, PTL

(* A batch that was verified exits 1 exactly if a receipt in it was        *)
(* refuted, whatever else is in the directories.                           *)
THEOREM BatchRefutationAlwaysDecides == Spec => []BatchRefutationDecides
BY InvImpliesDecided, Inductive, PTL

(* No batch is ever refuted by comparing its receipts.                     *)
THEOREM ConsistencyNeverDecides == Spec => []ConsistencyNeverAccuses
<1>1. IInv => ConsistencyNeverAccuses
  BY NothingBroken DEF IInv, ConsistencyNeverAccuses
<1> QED BY <1>1, Inductive, PTL

(* The comparison is reported under the right names, leaves no receipt of  *)
(* an instance untied, and claims nothing that was not found.              *)
THEOREM ConsistencyAlwaysTruthful == Spec => []ConsistencyIsTruthful
BY InvImpliesTruthful, Inductive, PTL

(* The summary is of the rows, one to each entry, as the network pass left *)
(* them, and its mode of what was asked.                                   *)
THEOREM SummaryAlwaysDescribes == Spec => []SummaryDescribesRows
BY InvImpliesDescribes, Inductive, PTL

(* A receipt in a directory of its own exits as it does as a file.         *)
THEOREM BatchOfOneAlwaysSingle == Spec => []BatchOfOneIsSingle
BY InvImpliesSingle, Inductive, PTL

-----------------------------------------------------------------------------
(* Where a batch stands, by its status.                                    *)
Placed ==
  IF Early \/ phase = "verify" THEN Standing = "Unexamined"
  ELSE \/ BatchStatus = "Valid" /\ Standing = "Accepted"
       \/ BatchStatus = "Invalid" /\ Standing = "Refuted"
       \/ BatchStatus = "Untrusted" /\ Standing = "Open"
       \/ BatchStatus = "Error" /\ Standing = "Failed"

(* A batch that was gathered has one of four statuses.                     *)
LEMMA StandingMeans == IInv => Placed
<1> SUFFICES ASSUME IInv PROVE Placed
  OBVIOUS
<1>1. BatchStatus \in {"Valid", "Invalid", "Untrusted", "Error"}
  BY StatusIsTyped DEF Statuses
<1>2. ~(Early \/ phase = "verify") =>
        Standing = [Valid |-> "Accepted", Invalid |-> "Refuted",
                    Untrusted |-> "Open", Error |-> "Failed"][BatchStatus]
  BY DEF Standing
<1>3. Early \/ phase = "verify" => Standing = "Unexamined"
  BY DEF Standing
<1> QED BY <1>1, <1>2, <1>3 DEF Placed

(* As many are counted as refuted as there are refuted receipts.           *)
RefutedCounted ==
  counts["Invalid"] = Cardinality({n \in DOMAIN found : Refuted(n)})

(* No row of theirs is anywhere but among the refuted.                     *)
LEMMA RefutedAreCounted == IInv => RefutedCounted
<1> SUFFICES ASSUME IInv PROVE RefutedCounted
  OBVIOUS
<1>1. {n \in DOMAIN found : Refuted(n)} =
        {n \in DOMAIN found : items[Row(n, "pair")] = "Invalid"}
  BY FiledMeans DEF IInv
<1> QED BY <1>1 DEF IInv, CountsInv, Judged, RefutedCounted

(* What the facts alone verified is verified after the network pass, so a  *)
(* receipt accepted offline is accepted online.                            *)
LEMMA AcceptedStaysAccepted ==
  ASSUME IInv, NEW n \in DOMAIN found, OfflineBucket(n) = "Valid"
  PROVE  Bucket(VerdictOf(n).status, found[n].facts) = "Valid"
<1> DEFINE F == found[n].facts
           c == found[n].checks
           offline == VerdictsIn(OfflineResults(F))
           online == VerdictsIn(results[n])
<1>1. c \in ReceiptChecks /\ policy \in Policies /\ DOMAIN results[n] = DOMAIN F
  BY FoundIsTyped DEF IInv, TypeOK
<1>2. Verdict(c, offline, policy).status = "Valid"
  BY DEF OfflineBucket, Bucket
<1>3. DOMAIN offline = DOMAIN F /\ DOMAIN online = DOMAIN F
  BY <1>1 DEF VerdictsIn, OfflineResults
<1>4. \A i \in DOMAIN F : offline[i] = VerdictFromFacts(F[i])
  BY DEF VerdictsIn, OfflineResults, Result
<1>5. ASSUME NEW i \in DOMAIN F, VerdictFromFacts(F[i]) = "Valid"
      PROVE  online[i] = "Valid"
  <2>1. <<n, i>> \notin asked
    <3> SUFFICES ASSUME <<n, i>> \in Settleable PROVE FALSE
      BY DEF IInv, TrafficInv
    <3>1. PICK m \in DOMAIN found : \E j \in PreparedPlaces(found[m].facts) : <<n, i>> = <<m, j>>
      BY SettleableMeans
    <3>2. i \in PreparedPlaces(F)
      BY <3>1
    <3> QED BY <1>5, <3>2, FoundIsTyped DEF IInv
  <2>2. results[n][i] = Result(VerdictFromFacts(F[i]), NoHeader)
    BY <2>1 DEF IInv, ResultsInv
  <2> QED BY <1>1, <1>5, <2>2 DEF VerdictsIn, Result
<1>6. Verified(offline) \subseteq Verified(online)
  <2> HIDE DEF offline, online
  <2> QED BY <1>3, <1>4, <1>5 DEF Verified
<1> HIDE DEF c, offline, online
<1>7. Verdict(c, online, policy).status = "Valid"
  BY <1>1, <1>2, <1>3, <1>6, AcceptanceIsMonotone
<1> QED BY <1>7 DEF VerdictOf, Bucket, c, online

(* The status is of the counts, the comparison has no part in it.          *)
StatusOfCounts ==
  /\ BatchStatus \in Statuses
  /\ BatchStatus = "Invalid" <=> counts["Invalid"] > 0
  /\ BatchStatus = "Error" <=> counts["Invalid"] = 0 /\ counts["Error"] > 0
  /\ BatchStatus = "Valid" <=>
       /\ \A b \in Counted \ {"Valid"} : counts[b] = 0
       /\ counts["Valid"] > 0

(* At every point of a batch.                                             *)
LEMMA StatusIsOfCounts == IInv => StatusOfCounts
BY StatusIsTyped, BatchStatusMeans DEF IInv, TypeOK, StatusOfCounts

(* Filing anew can turn an open batch into an accepted one, nothing else.  *)
LEMMA RefilingOnlyAccepts ==
  ASSUME IInv, IInv', Reclassify, RefutedCounted, RefutedCounted',
         StatusOfCounts, StatusOfCounts'
  PROVE  BatchStatus' = BatchStatus \/ (BatchStatus = "Untrusted" /\ BatchStatus' = "Valid")
<1>1. /\ found' = found /\ errors' = errors /\ sources' = sources /\ receipts' = receipts
      /\ phase = "reclassify" /\ phase' = "print" /\ items' = Refiled
  BY DEF Reclassify, walked
<1>2. /\ counts' = [b \in Counted |-> IF b = "Unmatched" THEN counts[b]
                                      ELSE Cardinality(InBucket(Refiled, b))]
  BY DEF Reclassify
<1>3. Gathered /\ Gathered'
  BY <1>1 DEF Gathered
<1>4. counts'["Invalid"] = counts["Invalid"]
  BY <1>1 DEF RefutedCounted, Refuted
<1>5. counts'["Error"] = counts["Error"] /\ counts'["Unmatched"] = counts["Unmatched"]
  <2>1. UnreadableIn(sources)' = UnreadableIn(sources)
        /\ UnreadableIn(receipts)' = UnreadableIn(receipts) /\ Unpaired' = Unpaired
    BY <1>1 DEF UnreadableIn, Unpaired
  <2> QED BY <1>1, <1>3, <2>1 DEF IInv, CountsInv
<1>6. /\ BatchStatus \in Statuses
      /\ BatchStatus = "Invalid" <=> counts["Invalid"] > 0
      /\ BatchStatus = "Error" <=> counts["Invalid"] = 0 /\ counts["Error"] > 0
      /\ BatchStatus = "Valid" <=>
           /\ \A b \in Counted \ {"Valid"} : counts[b] = 0
           /\ counts["Valid"] > 0
  BY DEF StatusOfCounts
<1>7. /\ BatchStatus' \in Statuses
      /\ BatchStatus' = "Invalid" <=> counts'["Invalid"] > 0
      /\ BatchStatus' = "Error" <=> counts'["Invalid"] = 0 /\ counts'["Error"] > 0
      /\ BatchStatus' = "Valid" <=>
           /\ \A b \in Counted \ {"Valid"} : counts'[b] = 0
           /\ counts'["Valid"] > 0
  BY DEF StatusOfCounts
<1>8. CASE BatchStatus \in {"Invalid", "Error"}
  BY <1>4, <1>5, <1>6, <1>7, <1>8
<1>9. CASE BatchStatus = "Untrusted"
  BY <1>4, <1>5, <1>6, <1>7, <1>9 DEF Statuses
<1>10. CASE BatchStatus = "Valid"
  <2> DEFINE in(b) == {n \in DOMAIN found : items[Row(n, "pair")] = b}
             after(b) == {n \in DOMAIN found : items'[Row(n, "pair")] = b}
  <2>1. /\ \A b \in Judged : counts[b] = Cardinality(in(b)) /\ in(b) \in SUBSET Names
        /\ \A b \in Judged : counts'[b] = Cardinality(after(b)) /\ after(b) \in SUBSET Names
    BY <1>1 DEF IInv, CountsInv, TypeOK, Matched
  <2>2. Judged = {"Valid", "Unanchored", "Untrusted", "Invalid"}
        /\ Counted = {"Valid", "Unanchored", "Untrusted", "Invalid", "Error", "Unmatched"}
    BY DEF Counted, Judged
  <2>3. in("Unanchored") = {} /\ in("Untrusted") = {} /\ in("Invalid") = {}
    <3> HIDE DEF in
    <3> QED BY <1>6, <1>10, <2>1, <2>2, NamesCounted
  <2>4. ASSUME NEW n \in DOMAIN found
        PROVE  items[Row(n, "pair")] = "Valid" /\ items'[Row(n, "pair")] = "Valid"
    <3>1. items[Row(n, "pair")] = "Valid"
      BY <2>2, <2>3, FiledMeans DEF IInv
    <3>2. OfflineBucket(n) = "Valid"
      BY <1>1, <3>1 DEF IInv, RowsInv
    <3>3. Row(n, "pair") \in DOMAIN items /\ Row(n, "pair").name = n
      BY DEF IInv, RowsInv, Row
    <3>4. items'[Row(n, "pair")] = Bucket(VerdictOf(n).status, found[n].facts)
      BY <1>1, <2>2, <3>1, <3>3 DEF Refiled
    <3> QED BY <3>1, <3>2, <3>4, AcceptedStaysAccepted
  <2>5. after("Valid") = in("Valid") /\ after("Unanchored") = in("Unanchored")
        /\ after("Untrusted") = in("Untrusted")
    BY <2>4
  <2> HIDE DEF in, after
  <2>6. \A b \in Counted : counts'[b] = counts[b]
    BY <1>4, <1>5, <2>1, <2>2, <2>5
  <2>7. BatchStatus' = "Valid"
    BY <1>6, <1>7, <1>10, <2>2, <2>6
  <2> QED BY <1>10, <2>7
<1> QED BY <1>6, <1>8, <1>9, <1>10 DEF Statuses

(* The one answer is a code for where the batch stands.                    *)
LEMMA AnswerFits ==
  ASSUME IInv, Judge
  PROVE  exit' \in Contract!Codes[Standing] /\ Standing # "Unexamined"
<1>1. phase = "judge" /\ exit' = ExitCode(BatchStatus, deferred) /\ ~Early
  BY DEF Judge, Early
<1>2. BatchStatus \in Statuses
  BY StatusIsTyped
<1>3. /\ BatchStatus = "Invalid" => exit' = 1
      /\ BatchStatus = "Valid" => exit' \in {0, 2}
      /\ BatchStatus = "Error" => exit' = 2
      /\ BatchStatus = "Untrusted" => exit' = 3
  BY <1>1 DEF ExitCode, ExitOf
<1> QED BY <1>1, <1>2, <1>3, StandingMeans DEF Placed, Contract!Codes

(* Each step of a batch is a step of the contract, or none.                *)
LEMMA StepKeepsContract ==
  ASSUME IInv, [Next]_vars
  PROVE  [Contract!Next]_(Contract!vars)
<1>1. /\ IInv' /\ Placed /\ Placed' /\ RefutedCounted /\ RefutedCounted'
      /\ StatusOfCounts /\ StatusOfCounts'
  BY StepIsSafe, StandingMeans, RefutedAreCounted, StatusIsOfCounts, PTL
<1> DEFINE Unseen == Early \/ phase = "verify"
<1>2. (phase # "done" <=> exit = NoExit) /\ (phase \notin {"judge", "done"} => printed = {})
  BY DEF IInv, ProgressInv
<1>3. ASSUME counts' = counts, consistency' = consistency PROVE BatchStatus' = BatchStatus
  BY <1>3 DEF BatchStatus, Broken
<1>4. CASE InputFails \/ WalkSources \/ WalkReceipts \/ Proceed
  <2>1. /\ Unseen /\ exit = NoExit /\ exit' \in {exit, 2} /\ printed = {} /\ printed' = printed
        /\ phase' \in {"trust", "sources", "receipts", "verify", "done"}
    BY <1>2, <1>4 DEF InputFails, WalkSources, WalkReceipts, Proceed, Early
  <2>2. Unseen'
    BY <2>1 DEF Early
  <2>3. Standing = "Unexamined" /\ Standing' = "Unexamined"
    BY <1>1, <2>1, <2>2 DEF Placed
  <2> QED BY <2>1, <2>3 DEF Contract!vars, Contract!Next, Contract!GiveUp
<1>5. CASE \E n \in Names : VerifyPair(n) \/ PairFails(n)
  <2>1. phase = "verify" /\ phase' = "verify" /\ exit' = exit
    BY <1>5 DEF VerifyPair, PairFails, NextPair
  <2> QED BY <1>1, <2>1 DEF Placed, Contract!vars
<1>6. CASE Gather
  <2>1. phase = "verify" /\ ~Unseen' /\ exit' = exit /\ exit = NoExit
    BY <1>2, <1>6 DEF Gather, Early
  <2>2. Standing = "Unexamined" /\ Standing' \in {"Accepted", "Refuted", "Open", "Failed"}
    BY <1>1, <2>1 DEF Placed
  <2> QED BY <2>1, <2>2 DEF Contract!Next, Contract!Examine, Contract!Standings
<1>7. CASE SettleBatch \/ LookUpNext \/ FinishOnline \/ PrintResult
  <2>1. /\ phase \in {"settle", "online", "print"} /\ exit' = exit
        /\ phase' \in {"online", "reclassify", "print", "judge"}
        /\ counts' = counts /\ consistency' = consistency
    BY <1>7 DEF SettleBatch, LookUpNext, FinishOnline, PrintResult, verified
  <2>2. ~Unseen /\ ~Unseen'
    BY <2>1 DEF Early
  <2> QED BY <1>1, <1>3, <2>1, <2>2 DEF Placed, Contract!vars
<1>8. CASE Reclassify
  <2>1. ~Unseen /\ ~Unseen' /\ exit' = exit /\ exit = NoExit
    BY <1>2, <1>8 DEF Reclassify, Early
  <2>2. BatchStatus' = BatchStatus \/ (BatchStatus = "Untrusted" /\ BatchStatus' = "Valid")
    BY <1>1, <1>8, RefilingOnlyAccepts
  <2>3. Standing' = Standing \/ (Standing = "Open" /\ Standing' = "Accepted")
    BY <1>1, <2>1, <2>2 DEF Placed
  <2> QED BY <2>1, <2>3 DEF Contract!vars, Contract!Next, Contract!Complete
<1>9. CASE Judge
  <2>1. /\ ~Unseen /\ exit = NoExit /\ counts' = counts /\ consistency' = consistency
        /\ phase = "judge" /\ phase' = "done" /\ printed' = printed
    BY <1>2, <1>9 DEF Judge, Early, verified
  <2>2. ~Unseen'
    BY <2>1 DEF IInv, ProgressInv, Early
  <2>3. Standing' = Standing
    BY <1>1, <1>3, <2>1, <2>2 DEF Placed
  <2> QED BY <1>9, <2>1, <2>3, AnswerFits DEF Contract!Next, Contract!Answer
<1>10. CASE Exited \/ UNCHANGED vars
  <2>1. exit' = exit /\ counts' = counts /\ consistency' = consistency
        /\ phase' = phase /\ printed' = printed
    BY <1>10 DEF Exited, vars, verified
  <2>2. Unseen' <=> Unseen
    BY <2>1 DEF Early
  <2> QED BY <1>1, <1>3, <2>1, <2>2 DEF Placed, Contract!vars
<1> QED BY <1>4, <1>5, <1>6, <1>7, <1>8, <1>9, <1>10 DEF Next

(* A directory keeps the promise a file does at every step: it is examined *)
(* once, the network pass and the new filing take back no acceptance and   *)
(* no refutation, and it answers once.  (That it does answer is liveness.) *)
THEOREM BatchStepsKeepContract ==
  Spec => Contract!Init /\ [][Contract!Next]_(Contract!vars)
<1>1. Init => Contract!Init
  BY DEF Init, Contract!Init, Standing, Early
<1>2. IInv /\ [Next]_vars => [Contract!Next]_(Contract!vars)
  BY StepKeepsContract
<1> QED BY <1>1, <1>2, Inductive, PTL DEF Spec
=============================================================================
