------------------------- MODULE FileMatching_proofs -------------------------
(***************************************************************************)
(* Proofs about FileMatching: whatever the names, the directories and the  *)
(* changes, files are paired by name, nothing that was wanted goes without *)
(* its row, and no pair is spoilt by what happens to another.              *)
(***************************************************************************)
EXTENDS FileMatching, FiniteSetTheorems, TLAPS

(* A set in which all are equal has at most one element.                   *)
LEMMA AtMostOne ==
  ASSUME NEW S, \A x, y \in S : x = y
  PROVE  IsFiniteSet(S) /\ Cardinality(S) <= 1
<1>1. CASE S = {}
  BY <1>1, FS_EmptySet
<1>2. CASE S # {}
  <2>1. PICK x : S = {x}
    BY <1>2
  <2>2. IsFiniteSet(S) /\ Cardinality(S) = 1
    BY <2>1, FS_Singleton
  <2> QED BY <2>2
<1> QED BY <1>1, <1>2

(* Every object is one kind of thing to a walk: it is wanted if and only   *)
(* if it is a regular file of the walk's kind, and what is opaque cannot   *)
(* be classified.                                                          *)
LEMMA ClassifyMeans ==
  ASSUME TypeOK, NEW w \in Walks, NEW n \in Names
  PROVE  /\ Wanted(w, n) <=> Classify(seen[w][n]) = "RegularFile" /\ Keep(w, n)
         /\ Opaque(w, n) => Classify(seen[w][n]) = "error"
<1> DEFINE o == seen[w][n]
<1>1. o \in Objects \cup {Absent}
  BY DEF TypeOK
<1>2. CASE o = Absent
  <2>1. Classify(o) = "Skip"
    BY <1>2 DEF Classify
  <2> QED BY <1>2, <2>1 DEF Wanted, Opaque
<1>3. CASE o # Absent
  <2>1. /\ o.type \in {"dir", "file", "other", "error"}
        /\ o.target \in {"dir", "file", "other", "error"}
        /\ o.type \in {"dir", "file"} => o.target = o.type
    BY <1>1, <1>3 DEF Objects
  <2> HIDE DEF o
  <2>2. CASE o.type = "error"
    <3>1. Classify(o) = "error"
      BY <1>3, <2>2 DEF Classify
    <3> QED BY <1>3, <2>2, <3>1 DEF Wanted, o
  <2>3. CASE o.type = "dir"
    <3>1. Classify(o) = "Skip"
      BY <1>3, <2>3 DEF Classify
    <3> QED BY <1>3, <2>1, <2>3, <3>1 DEF Wanted, Opaque, o
  <2>4. CASE o.type = "file"
    <3>1. Classify(o) = "RegularFile"
      BY <1>3, <2>4 DEF Classify
    <3> QED BY <1>3, <2>1, <2>4, <3>1 DEF Wanted, Opaque, o
  <2>5. CASE o.type = "other"
    <3>1. Classify(o) = CASE o.target = "error"          -> "error"
                          [] o.target = "file"           -> "RegularFile"
                          [] o.target \in {"dir", "other"} -> "Skip"
      BY <1>3, <2>5 DEF Classify
    <3>2. /\ o.target = "error" => Classify(o) = "error"
          /\ o.target = "file" => Classify(o) = "RegularFile"
          /\ o.target \in {"dir", "other"} => Classify(o) = "Skip"
      BY <3>1
    <3> QED BY <1>3, <2>1, <2>5, <3>2 DEF Wanted, Opaque, o
  <2> QED BY <2>1, <2>2, <2>3, <2>4, <2>5
<1> QED BY <1>2, <1>3

-----------------------------------------------------------------------------
(* The initial states satisfy the inductive invariant.                     *)
LEMMA InitIsListed == Init => IInv
<1> SUFFICES ASSUME Init PROVE IInv
  OBVIOUS
<1>1. TypeOK
  <2>1. there \in [Walks -> [Names -> Objects \cup {Absent}]]
    BY NamesAssumption DEF Init
  <2> QED BY <2>1 DEF Init, TypeOK, Phases
<1>2. ListedInv
  <2> SUFFICES ASSUME NEW w \in Walks
               PROVE  /\ Cardinality({}) <= 1
                      /\ kept[w] = {n \in Names \ {} :
                                      Classify(seen[w][n]) = "RegularFile" /\ Keep(w, n)}
                      /\ unreadable[w] = {n \in Names \ {} : Classify(seen[w][n]) = "error"}
                                         \cup (IF {} = {} THEN {} ELSE {Lost})
    BY DEF ListedInv
  <2>1. Cardinality({}) = 0
    BY FS_EmptySet
  <2>2. \A n \in Names : Classify(seen[w][n]) = "Skip"
    BY DEF Init, Classify
  <2>3. kept[w] = {} /\ unreadable[w] = {}
    BY DEF Init
  <2> QED BY <2>1, <2>2, <2>3
<1>3. EmptyInv /\ MatchInv /\ UnchangedInv
  BY DEF Init, EmptyInv, MatchInv, UnchangedInv
<1>4. RowsInv
  BY DEF Init, RowsInv
<1> QED BY <1>1, <1>2, <1>3, <1>4 DEF IInv

(* A walk leaves what it saw of its directory, and what it made of that.   *)
LEMMA WalkLists ==
  ASSUME TypeOK, ListedInv, NEW w \in Walks, Walk(w)
  PROVE  /\ seen' = [seen EXCEPT ![w] = there[Dir(w)]]
         /\ seen' \in [Walks -> [Names -> Objects \cup {Absent}]]
         /\ kept' \in [Walks -> SUBSET Names]
         /\ unreadable' \in [Walks -> SUBSET (Names \cup {Lost})]
         /\ \A v \in Walks \ {w} : kept'[v] = kept[v] /\ unreadable'[v] = unreadable[v]
         /\ ListedInv'
<1> DEFINE listing == there[Dir(w)]
<1>1. PICK lost \in SUBSET {n \in Names : listing[n] # Absent} :
        /\ Cardinality(lost) <= 1
        /\ seen' = [seen EXCEPT ![w] = listing]
        /\ kept' = [kept EXCEPT ![w] =
             {n \in Names \ lost : Classify(listing[n]) = "RegularFile" /\ Keep(w, n)}]
        /\ unreadable' = [unreadable EXCEPT ![w] =
             {n \in Names \ lost : Classify(listing[n]) = "error"}
             \cup (IF lost = {} THEN {} ELSE {Lost})]
  BY DEF Walk
<1>2. /\ listing \in [Names -> Objects \cup {Absent}]
      /\ seen \in [Walks -> [Names -> Objects \cup {Absent}]]
      /\ kept \in [Walks -> SUBSET Names]
      /\ unreadable \in [Walks -> SUBSET (Names \cup {Lost})]
  BY DEF TypeOK, Dir, Walks
<1> HIDE DEF listing
<1>3. /\ seen'[w] = listing
      /\ \A v \in Walks \ {w} : /\ seen'[v] = seen[v] /\ kept'[v] = kept[v]
                                /\ unreadable'[v] = unreadable[v]
  BY <1>1, <1>2
<1>4. /\ kept'[w] = {n \in Names \ lost : Classify(listing[n]) = "RegularFile" /\ Keep(w, n)}
      /\ unreadable'[w] = {n \in Names \ lost : Classify(listing[n]) = "error"}
                          \cup (IF lost = {} THEN {} ELSE {Lost})
  BY <1>1, <1>2
<1>5. ListedInv'
  <2> SUFFICES ASSUME NEW v \in Walks
               PROVE  \E l \in SUBSET Names :
                        /\ Cardinality(l) <= 1
                        /\ kept'[v] = {n \in Names \ l :
                             Classify(seen'[v][n]) = "RegularFile" /\ Keep(v, n)}
                        /\ unreadable'[v] = {n \in Names \ l : Classify(seen'[v][n]) = "error"}
                                            \cup (IF l = {} THEN {} ELSE {Lost})
    BY DEF ListedInv
  <2>1. CASE v = w
    BY <1>1, <1>3, <1>4, <2>1
  <2>2. CASE v # w
    <3>1. PICK l \in SUBSET Names :
            /\ Cardinality(l) <= 1
            /\ kept[v] = {n \in Names \ l :
                 Classify(seen[v][n]) = "RegularFile" /\ Keep(v, n)}
            /\ unreadable[v] = {n \in Names \ l : Classify(seen[v][n]) = "error"}
                               \cup (IF l = {} THEN {} ELSE {Lost})
      BY DEF ListedInv
    <3> QED BY <1>3, <2>2, <3>1
  <2> QED BY <2>1, <2>2
<1>6. kept'[w] \subseteq Names /\ unreadable'[w] \subseteq Names \cup {Lost}
  BY <1>4
<1> QED BY <1>1, <1>2, <1>3, <1>5, <1>6 DEF listing

(* Pairs, and what is left of either side, are as the names have it: the   *)
(* map from stems to receipts loses none, for stems are distinct.          *)
LEMMA MatchPairs ==
  ASSUME TypeOK, Match
  PROVE  /\ matched' = {p \in kept["source"] \X kept["receipt"] : Stem[p[2]] = p[1]}
         /\ unmatched_sources' =
              {s \in kept["source"] : \A r \in kept["receipt"] : Stem[r] # s}
         /\ unmatched_receipts' = {r \in kept["receipt"] : Stem[r] \notin kept["source"]}
<1> DEFINE claimed == {Stem[r] : r \in kept["receipt"]}
           for(k) == CHOOSE r \in kept["receipt"] : Stem[r] = k
<1>1. kept["source"] \subseteq Names /\ kept["receipt"] \subseteq Names
  BY DEF TypeOK, Walks
<1>2. /\ matched' = {<<s, [k \in claimed |-> for(k)][s]>> :
                       s \in {n \in kept["source"] : n \in claimed}}
      /\ unmatched_sources' = {n \in kept["source"] : n \notin claimed}
      /\ unmatched_receipts' = {r \in kept["receipt"] : \A p \in matched' : p[2] # r}
  BY DEF Match, Key
<1>3. ASSUME NEW s \in kept["source"], NEW r \in kept["receipt"], Stem[r] = s
      PROVE  s \in claimed /\ for(s) = r
  <2>1. \E q \in kept["receipt"] : Stem[q] = s
    BY <1>3
  <2>2. for(s) \in kept["receipt"] /\ Stem[for(s)] = s
    BY <2>1
  <2> HIDE DEF for
  <2>3. for(s) = r
    BY <1>1, <1>3, <2>2, NamesAssumption
  <2> QED BY <1>3, <2>3
<1>4. \A s \in claimed : for(s) \in kept["receipt"] /\ Stem[for(s)] = s
  <2> SUFFICES ASSUME NEW s \in claimed PROVE for(s) \in kept["receipt"] /\ Stem[for(s)] = s
    OBVIOUS
  <2>1. \E q \in kept["receipt"] : Stem[q] = s
    OBVIOUS
  <2> QED BY <2>1
<1>5. matched' = {<<s, for(s)>> : s \in {n \in kept["source"] : n \in claimed}}
  BY <1>2
<1> HIDE DEF for
<1>6. matched' = {p \in kept["source"] \X kept["receipt"] : Stem[p[2]] = p[1]}
  <2>1. ASSUME NEW p \in matched'
        PROVE  p \in kept["source"] \X kept["receipt"] /\ Stem[p[2]] = p[1]
    BY <1>4, <1>5
  <2>2. ASSUME NEW p \in kept["source"] \X kept["receipt"], Stem[p[2]] = p[1]
        PROVE  p \in matched'
    <3>1. p[1] \in claimed /\ for(p[1]) = p[2]
      BY <1>3, <2>2
    <3>2. p = <<p[1], for(p[1])>>
      BY <3>1
    <3> QED BY <1>5, <3>1, <3>2
  <2> QED BY <2>1, <2>2
<1>7. unmatched_sources' = {s \in kept["source"] : \A r \in kept["receipt"] : Stem[r] # s}
  BY <1>2
<1>8. unmatched_receipts' = {r \in kept["receipt"] : Stem[r] \notin kept["source"]}
  <2>1. ASSUME NEW r \in kept["receipt"]
        PROVE  (\A p \in matched' : p[2] # r) <=> Stem[r] \notin kept["source"]
    <3>1. Stem[r] \in kept["source"] => <<Stem[r], r>> \in matched'
      BY <1>6
    <3>2. ASSUME NEW p \in matched', p[2] = r PROVE Stem[r] \in kept["source"]
      BY <1>6, <3>2
    <3> QED BY <3>1, <3>2
  <2> QED BY <1>2, <2>1
<1> QED BY <1>6, <1>7, <1>8

(* What a row is about that is of no pair.                                 *)
LEMMA LooseRowsAre ==
  ASSUME NEW r
  PROVE  r \in LooseRows <=>
         \/ \E w \in Walks : \E n \in unreadable[w] : r = Row(w, n, "Error")
         \/ \E n \in unmatched_sources : r = Row("source", n, "NoReceipt")
         \/ \E n \in unmatched_receipts : r = Row("receipt", n, "NoSource")
BY DEF LooseRows

(* Each step keeps the inductive invariant.                                *)
LEMMA StepIsListed == IInv /\ [Next]_vars => IInv'
<1> SUFFICES ASSUME IInv, [Next]_vars PROVE IInv'
  OBVIOUS
<1> USE DEF world, walks, matching
<1>0. TypeOK /\ ListedInv /\ EmptyInv /\ MatchInv /\ RowsInv /\ UnchangedInv
  BY DEF IInv
<1>1. CASE WalkFails
  <2>1. /\ phase \in {"sources", "receipts"} /\ phase' = "FileReadError"
        /\ UNCHANGED <<same, there, changed, seen, kept, unreadable, matched,
                       unmatched_sources, unmatched_receipts, rows>>
    BY <1>1 DEF WalkFails
  <2>2. TypeOK'
    BY <1>0, <2>1 DEF TypeOK, Phases, Ended
  <2>3. ListedInv'
    BY <1>0, <2>1 DEF ListedInv
  <2>4. EmptyInv' /\ MatchInv'
    BY <1>0, <2>1 DEF EmptyInv, MatchInv
  <2>5. RowsInv' /\ UnchangedInv'
    BY <1>0, <2>1 DEF RowsInv, MatchInv, UnchangedInv
  <2> QED BY <2>2, <2>3, <2>4, <2>5 DEF IInv
<1>2. CASE WalkSources
  <2>1. /\ phase = "sources" /\ Walk("source")
        /\ phase' = IF kept'["source"] = {} /\ unreadable'["source"] = {}
                    THEN "EmptySourceDirectory" ELSE "receipts"
        /\ UNCHANGED <<same, there, changed, matched,
                       unmatched_sources, unmatched_receipts, rows>>
    BY <1>2 DEF WalkSources
  <2>2. /\ seen' = [seen EXCEPT !["source"] = there[Dir("source")]]
        /\ seen' \in [Walks -> [Names -> Objects \cup {Absent}]]
        /\ kept' \in [Walks -> SUBSET Names]
        /\ unreadable' \in [Walks -> SUBSET (Names \cup {Lost})]
        /\ ListedInv'
    BY <1>0, <2>1, WalkLists DEF Walks
  <2>3. matched = {} /\ unmatched_sources = {} /\ unmatched_receipts = {} /\ rows = {}
    BY <1>0, <2>1 DEF MatchInv
  <2>4. TypeOK'
    BY <1>0, <2>1, <2>2, <2>3 DEF TypeOK, Phases, Ended
  <2>5. EmptyInv'
    BY <2>1 DEF EmptyInv
  <2>6. MatchInv' /\ RowsInv'
    BY <2>1, <2>3 DEF MatchInv, RowsInv
  <2>7. UnchangedInv'
    BY <1>0, <2>1, <2>2, <2>3 DEF UnchangedInv, Untouched, Dir, TypeOK, Walks
  <2> QED BY <2>2, <2>4, <2>5, <2>6, <2>7 DEF IInv
<1>3. CASE WalkReceipts
  <2>1. /\ phase = "receipts" /\ Walk("receipt")
        /\ phase' = IF kept'["receipt"] = {} /\ \A w \in Walks : unreadable'[w] = {}
                    THEN "EmptyReceiptDirectory" ELSE "match"
        /\ UNCHANGED <<same, there, changed, matched,
                       unmatched_sources, unmatched_receipts, rows>>
    BY <1>3 DEF WalkReceipts
  <2>2. /\ seen' = [seen EXCEPT !["receipt"] = there[Dir("receipt")]]
        /\ seen' \in [Walks -> [Names -> Objects \cup {Absent}]]
        /\ kept' \in [Walks -> SUBSET Names]
        /\ unreadable' \in [Walks -> SUBSET (Names \cup {Lost})]
        /\ ListedInv'
    BY <1>0, <2>1, WalkLists DEF Walks
  <2>3. matched = {} /\ unmatched_sources = {} /\ unmatched_receipts = {} /\ rows = {}
    BY <1>0, <2>1 DEF MatchInv
  <2>4. TypeOK'
    BY <1>0, <2>1, <2>2, <2>3 DEF TypeOK, Phases, Ended
  <2>5. EmptyInv'
    BY <2>1 DEF EmptyInv
  <2>6. MatchInv' /\ RowsInv'
    BY <2>1, <2>3 DEF MatchInv, RowsInv
  <2>7. UnchangedInv'
    BY <1>0, <2>1, <2>2, <2>3 DEF UnchangedInv, Untouched, Dir, TypeOK, Walks
  <2> QED BY <2>2, <2>4, <2>5, <2>6, <2>7 DEF IInv
<1>4. CASE Match
  <2>1. /\ phase = "match" /\ phase' = "verify"
        /\ UNCHANGED <<same, there, changed, seen, kept, unreadable, rows>>
    BY <1>4 DEF Match
  <2>2. /\ matched' = {p \in kept["source"] \X kept["receipt"] : Stem[p[2]] = p[1]}
        /\ unmatched_sources' =
             {s \in kept["source"] : \A r \in kept["receipt"] : Stem[r] # s}
        /\ unmatched_receipts' = {r \in kept["receipt"] : Stem[r] \notin kept["source"]}
    BY <1>0, <1>4, MatchPairs
  <2>3. rows = {}
    BY <1>0, <2>1 DEF MatchInv
  <2>4. TypeOK'
    BY <1>0, <2>1, <2>2, <2>3 DEF TypeOK, Phases
  <2>5. ListedInv' /\ EmptyInv'
    BY <1>0, <2>1 DEF ListedInv, EmptyInv
  <2>6. MatchInv' /\ RowsInv'
    BY <2>1, <2>2, <2>3 DEF MatchInv, RowsInv
  <2>7. UnchangedInv'
    BY <1>0, <2>1, <2>3 DEF UnchangedInv, Untouched, Dir
  <2> QED BY <2>4, <2>5, <2>6, <2>7 DEF IInv
<1>5. CASE VerifyNext
  <2>1. /\ phase = "verify"
        /\ UNCHANGED <<same, there, changed, phase, seen, kept, unreadable, matched,
                       unmatched_sources, unmatched_receipts>>
    BY <1>5 DEF VerifyNext
  <2>2. PICK p \in Unread :
          rows' = rows \cup
            {Row("pair", p, IF Readable("receipt", p[2]) /\ Readable("source", p[1])
                            THEN "Result" ELSE "Error")}
    BY <1>5 DEF VerifyNext
  <2> DEFINE outcome == IF Readable("receipt", p[2]) /\ Readable("source", p[1])
                        THEN "Result" ELSE "Error"
             row == Row("pair", p, outcome)
  <2>3. /\ row.walk = "pair" /\ row.about = p /\ row.outcome = outcome
        /\ outcome \in {"Result", "Error"}
        /\ row = Row("pair", row.about, row.outcome)
    BY DEF Row
  <2>4. p \in matched /\ \A r \in rows : r.walk = "pair" => r.about # p
    BY DEF Unread
  <2>5. rows' = rows \cup {row}
    BY <2>2
  <2>6. outcome = "Result" <=> Readable("source", p[1]) /\ Readable("receipt", p[2])
    OBVIOUS
  <2> HIDE DEF outcome, row
  <2>7. TypeOK'
    BY <1>0, <2>1, <2>3, <2>4, <2>5 DEF TypeOK
  <2>8. ListedInv' /\ EmptyInv' /\ MatchInv'
    BY <1>0, <2>1 DEF ListedInv, EmptyInv, MatchInv
  <2>9. RowsInv'
    <3>1. rows = {r \in rows : r.walk = "pair"}
      BY <1>0, <2>1 DEF RowsInv
    <3>2. rows' = {r \in rows' : r.walk = "pair"}
      BY <2>3, <2>5, <3>1
    <3>3. \A r \in rows' : r.about \in matched /\ r = Row("pair", r.about, r.outcome)
      BY <1>0, <2>3, <2>4, <2>5, <3>1 DEF RowsInv
    <3>4. \A r, s \in rows' : r.about = s.about => r = s
      BY <1>0, <2>3, <2>4, <2>5, <3>1 DEF RowsInv
    <3> QED BY <2>1, <3>2, <3>3, <3>4 DEF RowsInv
  <2>10. UnchangedInv'
    <3>1. \A w, n : /\ Readable(w, n)' <=> Readable(w, n)
                    /\ Untouched(w, n)' <=> Untouched(w, n)
      BY <2>1 DEF Readable, Untouched, Dir
    <3>2. ASSUME NEW r \in rows', r.walk = "pair",
                 Untouched("source", r.about[1]), Untouched("receipt", r.about[2])
          PROVE  r.outcome = "Result" <=>
                   /\ Readable("source", r.about[1])
                   /\ Readable("receipt", r.about[2])
      BY <1>0, <2>1, <2>3, <2>5, <2>6, <3>2 DEF UnchangedInv
    <3>3. \A n \in Names :
            /\ Untouched("source", n) => seen'["source"][n] = there'[Dir("source")'][n]
            /\ Untouched("receipt", n) => seen'["receipt"][n] = there'[Dir("receipt")'][n]
      BY <1>0, <2>1 DEF UnchangedInv, Dir
    <3> QED BY <3>1, <3>2, <3>3 DEF UnchangedInv
  <2> QED BY <2>7, <2>8, <2>9, <2>10 DEF IInv
<1>6. CASE Report
  <2>1. /\ phase = "verify" /\ phase' = "done" /\ Unread = {}
        /\ rows' = rows \cup LooseRows
        /\ UNCHANGED <<same, there, changed, seen, kept, unreadable, matched,
                       unmatched_sources, unmatched_receipts>>
    BY <1>6 DEF Report
  <2>2. \A r \in LooseRows :
          /\ r.walk \in Walks /\ r.about \in kept[r.walk] \cup unreadable[r.walk]
          /\ r.outcome \in {"Error", "NoReceipt", "NoSource"}
    BY <1>0, LooseRowsAre DEF Row, TypeOK, Walks
  <2>3. \A r \in LooseRows : r.walk # "pair"
    BY <2>2 DEF Walks
  <2>4. TypeOK'
    BY <1>0, <2>1, <2>2 DEF TypeOK, Phases, Ended
  <2>5. ListedInv' /\ EmptyInv' /\ MatchInv'
    BY <1>0, <2>1 DEF ListedInv, EmptyInv, MatchInv
  <2>6. RowsInv'
    <3>1. rows = {r \in rows : r.walk = "pair"}
      BY <1>0, <2>1 DEF RowsInv
    <3>2. {r \in rows' : r.walk = "pair"} = rows
      BY <2>1, <2>3, <3>1
    <3>3. LooseRows' = LooseRows
      BY <2>1 DEF LooseRows
    <3>4. Unread' = {}
      BY <2>1 DEF Unread
    <3>5. /\ \A r \in rows : r.about \in matched /\ r = Row("pair", r.about, r.outcome)
          /\ \A r, s \in rows : r.about = s.about => r = s
      BY <1>0, <3>1 DEF RowsInv
    <3> QED BY <2>1, <3>2, <3>3, <3>4, <3>5 DEF RowsInv
  <2>7. UnchangedInv'
    <3>1. \A w, n : /\ Readable(w, n)' <=> Readable(w, n)
                    /\ Untouched(w, n)' <=> Untouched(w, n)
      BY <2>1 DEF Readable, Untouched, Dir
    <3>2. ASSUME NEW r \in rows', r.walk = "pair",
                 Untouched("source", r.about[1]), Untouched("receipt", r.about[2])
          PROVE  r.outcome = "Result" <=>
                   /\ Readable("source", r.about[1])
                   /\ Readable("receipt", r.about[2])
      BY <1>0, <2>1, <2>3, <3>2 DEF UnchangedInv
    <3>3. \A n \in Names :
            /\ Untouched("source", n) => seen'["source"][n] = there'[Dir("source")'][n]
            /\ Untouched("receipt", n) => seen'["receipt"][n] = there'[Dir("receipt")'][n]
      BY <1>0, <2>1 DEF UnchangedInv, Dir
    <3> QED BY <3>1, <3>2, <3>3 DEF UnchangedInv
  <2> QED BY <2>4, <2>5, <2>6, <2>7 DEF IInv
<1>7. CASE Change
  <2>1. UNCHANGED <<same, phase, seen, kept, unreadable, matched,
                    unmatched_sources, unmatched_receipts, rows>>
    BY <1>7 DEF Change
  <2>2. PICK w \in Walks, n \in Names, o \in Turns :
          /\ there' = [there EXCEPT ![Dir(w)][n] = o]
          /\ changed' = changed \cup {<<Dir(w), n>>}
    BY <1>7 DEF Change
  <2>3. o \in Objects \cup {Absent} /\ Dir(w) \in Walks
    BY NamesAssumption DEF Dir, Walks
  <2>4. there' \in [Walks -> [Names -> Objects \cup {Absent}]]
    BY <1>0, <2>2, <2>3 DEF TypeOK
  <2>5. TypeOK'
    BY <1>0, <2>1, <2>2, <2>3, <2>4 DEF TypeOK
  <2>6. ListedInv' /\ EmptyInv' /\ MatchInv'
    BY <1>0, <2>1 DEF ListedInv, EmptyInv, MatchInv
  <2>7. RowsInv'
    <3>1. LooseRows' = LooseRows /\ Unread' = Unread
      BY <2>1 DEF LooseRows, Unread
    <3> QED BY <1>0, <2>1, <3>1 DEF RowsInv
  <2>8. UnchangedInv'
    <3>1. ASSUME NEW v \in Walks, NEW m \in Names, Untouched(v, m)'
          PROVE  /\ Untouched(v, m)
                 /\ there'[Dir(v)'][m] = there[Dir(v)][m]
                 /\ Readable(v, m)' <=> Readable(v, m)
      <4>1. Dir(v)' = Dir(v) /\ Dir(v) \in Walks
        BY <2>1 DEF Dir, Walks
      <4>2. <<Dir(v), m>> \notin changed /\ <<Dir(v), m>> # <<Dir(w), n>>
        BY <2>2, <3>1, <4>1 DEF Untouched
      <4>3. there'[Dir(v)][m] = there[Dir(v)][m]
        BY <1>0, <2>2, <2>3, <4>1, <4>2 DEF TypeOK
      <4> QED BY <4>1, <4>2, <4>3 DEF Untouched, Readable
    <3>2. \A r \in rows : r.walk = "pair" => r.about[1] \in Names /\ r.about[2] \in Names
      BY <1>0 DEF TypeOK, Walks
    <3> QED BY <1>0, <2>1, <3>1, <3>2 DEF UnchangedInv, Walks
  <2> QED BY <2>5, <2>6, <2>7, <2>8 DEF IInv
<1>8. CASE UNCHANGED vars
  <2>1. UNCHANGED <<same, there, changed, phase, seen, kept, unreadable, matched,
                    unmatched_sources, unmatched_receipts, rows>>
    BY <1>8 DEF vars
  <2>2. /\ TypeOK'
        /\ ListedInv' /\ EmptyInv' /\ MatchInv'
    <3>1. TypeOK'
      BY <1>0, <2>1 DEF TypeOK
    <3>2. ListedInv' /\ EmptyInv' /\ MatchInv'
      BY <1>0, <2>1 DEF ListedInv, EmptyInv, MatchInv
    <3> QED BY <3>1, <3>2
  <2>3. RowsInv'
    <3>1. LooseRows' = LooseRows /\ Unread' = Unread
      BY <2>1 DEF LooseRows, Unread
    <3> QED BY <1>0, <2>1, <3>1 DEF RowsInv
  <2>4. UnchangedInv'
    <3>1. \A w, n : /\ Readable(w, n)' <=> Readable(w, n)
                    /\ Untouched(w, n)' <=> Untouched(w, n)
      BY <2>1 DEF Readable, Untouched, Dir
    <3>2. \A w : Dir(w)' = Dir(w)
      BY <2>1 DEF Dir
    <3> QED BY <1>0, <2>1, <3>1, <3>2 DEF UnchangedInv
  <2> QED BY <2>2, <2>3, <2>4 DEF IInv
<1> QED
  BY <1>1, <1>2, <1>3, <1>4, <1>5, <1>6, <1>7, <1>8 DEF Next, Stop

(* The inductive invariant holds throughout every batch.                   *)
THEOREM Inductive == Spec => []IInv
<1>1. Init => IInv
  BY InitIsListed
<1>2. IInv /\ [Next]_vars => IInv'
  BY StepIsListed
<1> QED BY <1>1, <1>2, PTL DEF Spec

-----------------------------------------------------------------------------
(* What a walk met that it wants or that is opaque was kept or could not   *)
(* be classified, unless it is the entry that was lost; and whatever was   *)
(* kept is wanted.                                                         *)
LEMMA KeptIsWanted ==
  ASSUME IInv, NEW w \in Walks
  PROVE  /\ \A n \in kept[w] : n \in Names /\ Wanted(w, n) /\ n \notin unreadable[w]
         /\ \E lost \in SUBSET Names :
              /\ Cardinality(lost) <= 1
              /\ lost # {} => Lost \in unreadable[w]
              /\ \A n \in Names \ lost : Wanted(w, n) => n \in kept[w]
              /\ \A n \in Names \ lost : Opaque(w, n) => n \in unreadable[w]
<1>1. TypeOK /\ ListedInv
  BY DEF IInv
<1>2. PICK lost \in SUBSET Names :
        /\ Cardinality(lost) <= 1
        /\ kept[w] = {n \in Names \ lost : Classify(seen[w][n]) = "RegularFile" /\ Keep(w, n)}
        /\ unreadable[w] = {n \in Names \ lost : Classify(seen[w][n]) = "error"}
                           \cup (IF lost = {} THEN {} ELSE {Lost})
  BY <1>1 DEF ListedInv
<1>3. \A n \in Names : /\ Wanted(w, n) <=> Classify(seen[w][n]) = "RegularFile" /\ Keep(w, n)
                       /\ Opaque(w, n) => Classify(seen[w][n]) = "error"
  BY <1>1, ClassifyMeans
<1>4. \A n \in kept[w] : n \in Names /\ Wanted(w, n) /\ n \notin unreadable[w]
  BY <1>2, <1>3, NamesAssumption
<1>5. /\ lost # {} => Lost \in unreadable[w]
      /\ \A n \in Names \ lost : Wanted(w, n) => n \in kept[w]
      /\ \A n \in Names \ lost : Opaque(w, n) => n \in unreadable[w]
  BY <1>2, <1>3
<1> QED BY <1>2, <1>4, <1>5

(* Pairs are of one stem, and so a file or a receipt is in one at most.    *)
LEMMA PairsAreUnique ==
  ASSUME IInv, NEW p \in matched, NEW q \in matched, p[1] = q[1] \/ p[2] = q[2]
  PROVE  p = q
<1>1. /\ matched = {m \in kept["source"] \X kept["receipt"] : Stem[m[2]] = m[1]}
      /\ kept["source"] \subseteq Names /\ kept["receipt"] \subseteq Names
  BY DEF IInv, MatchInv, TypeOK, Walks
<1>2. /\ p \in Names \X Names /\ Stem[p[2]] = p[1]
      /\ q \in Names \X Names /\ Stem[q[2]] = q[1]
  BY <1>1
<1>3. Stem[p[2]] # NoStem
  BY <1>2, NamesAssumption
<1>4. p[2] = q[2] /\ p[1] = q[1]
  BY <1>2, <1>3, NamesAssumption
<1> QED BY <1>2, <1>4

(* The pairs are right when they are read and ever after.                  *)
LEMMA InvImpliesPaired == IInv => PairedByName
<1> SUFFICES ASSUME IInv, phase \in {"verify", "done"} PROVE PairedByName
  BY DEF PairedByName
<1>1. /\ matched = {p \in kept["source"] \X kept["receipt"] : Stem[p[2]] = p[1]}
      /\ unmatched_sources = {s \in kept["source"] : \A r \in kept["receipt"] : Stem[r] # s}
      /\ unmatched_receipts = {r \in kept["receipt"] : Stem[r] \notin kept["source"]}
  BY DEF IInv, MatchInv
<1>2. /\ \A n \in kept["source"] : Wanted("source", n)
      /\ \A n \in kept["receipt"] : Wanted("receipt", n)
  BY KeptIsWanted DEF Walks
<1> QED BY <1>1, <1>2 DEF PairedByName

(* What is printed of a pair whose own files nobody touched.               *)
LEMMA InvImpliesNeighbours == IInv => NeighboursCostNothing
<1> SUFFICES ASSUME IInv PROVE NeighboursCostNothing
  OBVIOUS
<1>1. matched # {} => phase \in {"verify", "done"}
  BY DEF IInv, MatchInv
<1>2. ASSUME phase = "done", NEW p \in matched,
             Untouched("source", p[1]), there[Dir("source")][p[1]].opens,
             Untouched("receipt", p[2]), there[Dir("receipt")][p[2]].opens
      PROVE  Row("pair", p, "Result") \in rows
  <2>1. Wanted("source", p[1]) /\ Wanted("receipt", p[2])
    BY <1>2, InvImpliesPaired DEF PairedByName
  <2>2. /\ seen["source"][p[1]] = there[Dir("source")][p[1]]
        /\ seen["receipt"][p[2]] = there[Dir("receipt")][p[2]]
    BY <1>2 DEF IInv, UnchangedInv, TypeOK, Walks
  <2>3. Readable("source", p[1]) /\ Readable("receipt", p[2])
    BY <1>2, <2>1, <2>2 DEF Readable, Wanted
  <2>4. p \notin Unread
    BY <1>2 DEF IInv, RowsInv
  <2>5. PICK r \in rows : r.walk = "pair" /\ r.about = p
    BY <1>2, <2>4 DEF Unread
  <2>6. r = Row("pair", r.about, r.outcome)
    BY <2>5 DEF IInv, RowsInv
  <2>7. r.outcome = "Result"
    BY <1>2, <2>3, <2>5 DEF IInv, UnchangedInv
  <2> QED BY <2>5, <2>6, <2>7
<1> QED BY <1>1, <1>2 DEF NeighboursCostNothing

(* No two rows speak of one entry of one walk.                             *)
LEMMA RowsAreUnique ==
  ASSUME IInv, phase = "done", NEW w \in Walks, NEW n \in Names,
         NEW r \in About(w, n), NEW s \in About(w, n)
  PROVE  r = s
<1> DEFINE side == IF w = "source" THEN 1 ELSE 2
           pairRows == {x \in rows : x.walk = "pair"}
<1>1. \A x \in {r, s} : /\ x \in rows
                        /\ \/ x.walk = w /\ x.about = n
                           \/ x.walk = "pair" /\ x.about[side] = n
  BY DEF About
<1>2. w # "pair"
  BY DEF Walks
<1>3. /\ \A x \in pairRows : x.about \in matched
      /\ \A x, y \in pairRows : x.about = y.about => x = y
      /\ rows = pairRows \cup LooseRows
  BY DEF IInv, RowsInv
<1>4. /\ matched = {p \in kept["source"] \X kept["receipt"] : Stem[p[2]] = p[1]}
      /\ unmatched_sources = {x \in kept["source"] : \A y \in kept["receipt"] : Stem[y] # x}
      /\ unmatched_receipts = {y \in kept["receipt"] : Stem[y] \notin kept["source"]}
  BY DEF IInv, MatchInv
<1>5. \A x \in kept[w] : x \notin unreadable[w]
  BY KeptIsWanted
<1>6. ASSUME NEW x \in rows, x.walk = w, x.about = n
      PROVE  \/ n \in unreadable[w] /\ x = Row(w, n, "Error")
             \/ w = "source" /\ n \in unmatched_sources /\ x = Row(w, n, "NoReceipt")
             \/ w = "receipt" /\ n \in unmatched_receipts /\ x = Row(w, n, "NoSource")
  <2>1. x \in LooseRows
    BY <1>2, <1>3, <1>6
  <2> QED BY <1>6, <2>1, LooseRowsAre DEF Row
<1>7. ASSUME NEW x \in rows, x.walk = "pair", x.about[side] = n
      PROVE  /\ n \in kept[w] /\ n \notin unreadable[w]
             /\ n \notin IF w = "source" THEN unmatched_sources ELSE unmatched_receipts
  <2>1. x.about \in matched
    BY <1>3, <1>7
  <2>2. CASE w = "source"
    BY <1>4, <1>5, <1>7, <2>1, <2>2
  <2>3. CASE w = "receipt"
    BY <1>4, <1>5, <1>7, <2>1, <2>3
  <2> QED BY <2>2, <2>3 DEF Walks
<1>8. CASE r.walk = "pair" /\ s.walk = "pair"
  <2>1. r.about \in matched /\ s.about \in matched /\ r.about[side] = s.about[side]
    BY <1>1, <1>2, <1>3, <1>8
  <2>2. r.about = s.about
    BY <2>1, PairsAreUnique
  <2> QED BY <1>1, <1>3, <1>8, <2>2
<1>9. CASE r.walk = w /\ s.walk = w
  <2>1. r.about = n /\ s.about = n
    BY <1>1, <1>2, <1>9
  <2>2. n \in unreadable[w] => n \notin unmatched_sources \/ w # "source"
    BY <1>4, <1>5
  <2>3. n \in unreadable[w] => n \notin unmatched_receipts \/ w # "receipt"
    BY <1>4, <1>5
  <2> QED BY <1>1, <1>6, <1>9, <2>1, <2>2, <2>3
<1>10. CASE \/ r.walk = "pair" /\ s.walk = w
            \/ r.walk = w /\ s.walk = "pair"
  <2>1. \E x, y \in rows : /\ x.walk = "pair" /\ x.about[side] = n
                           /\ y.walk = w /\ y.about = n
    BY <1>1, <1>2, <1>10
  <2> QED BY <1>6, <1>7, <2>1
<1> QED BY <1>1, <1>8, <1>9, <1>10

(* An entry the walk kept or could not classify has a row.                 *)
LEMMA EveryEntryHasARow ==
  ASSUME IInv, phase = "done", NEW w \in Walks, NEW n \in kept[w] \cup unreadable[w]
  PROVE  About(w, n) # {}
<1>1. rows = {x \in rows : x.walk = "pair"} \cup LooseRows /\ Unread = {}
  BY DEF IInv, RowsInv
<1>2. /\ matched = {p \in kept["source"] \X kept["receipt"] : Stem[p[2]] = p[1]}
      /\ unmatched_sources = {x \in kept["source"] : \A y \in kept["receipt"] : Stem[y] # x}
      /\ unmatched_receipts = {y \in kept["receipt"] : Stem[y] \notin kept["source"]}
  BY DEF IInv, MatchInv
<1>3. \A p \in matched : \E r \in rows : r.walk = "pair" /\ r.about = p
  BY <1>1 DEF Unread
<1>4. CASE n \in unreadable[w]
  <2>1. Row(w, n, "Error") \in LooseRows
    BY <1>4, LooseRowsAre
  <2> QED BY <1>1, <2>1 DEF About, Row
<1>5. CASE w = "source" /\ n \in kept["source"]
  <2>1. CASE n \in unmatched_sources
    <3>1. Row("source", n, "NoReceipt") \in rows
      BY <1>1, <2>1, LooseRowsAre
    <3> QED BY <1>5, <3>1 DEF About, Row
  <2>2. CASE n \notin unmatched_sources
    <3>1. PICK y \in kept["receipt"] : <<n, y>> \in matched
      BY <1>2, <1>5, <2>2
    <3> QED BY <1>3, <1>5, <3>1 DEF About
  <2> QED BY <2>1, <2>2
<1>6. CASE w = "receipt" /\ n \in kept["receipt"]
  <2>1. CASE n \in unmatched_receipts
    <3>1. Row("receipt", n, "NoSource") \in rows
      BY <1>1, <2>1, LooseRowsAre
    <3> QED BY <1>6, <3>1 DEF About, Row
  <2>2. CASE n \notin unmatched_receipts
    <3>1. <<Stem[n], n>> \in matched
      BY <1>2, <1>6, <2>2
    <3> QED BY <1>3, <1>6, <3>1 DEF About
  <2> QED BY <2>1, <2>2
<1> QED BY <1>4, <1>5, <1>6 DEF Walks

(* Every wanted or opaque entry has its row, but for one that was lost,    *)
(* for which the directory has one.                                        *)
LEMMA InvImpliesNothingVanishes == IInv => NothingVanishes
<1> SUFFICES ASSUME IInv PROVE NothingVanishes
  OBVIOUS
<1> DEFINE owed(w) == {n \in Names : Wanted(w, n) \/ Opaque(w, n)}
           silent(w) == {n \in owed(w) : About(w, n) = {}}
<1>1. TypeOK
  BY DEF IInv
<1>2. ASSUME phase = "done", NEW w \in Walks
      PROVE  /\ \A n \in Names : Cardinality(About(w, n)) <= 1
             /\ Cardinality(silent(w)) <= Cardinality(About(w, Lost))
  <2>1. \A n \in Names : Cardinality(About(w, n)) <= 1
    BY <1>2, RowsAreUnique, AtMostOne
  <2>2. PICK lost \in SUBSET Names :
          /\ Cardinality(lost) <= 1
          /\ lost # {} => Lost \in unreadable[w]
          /\ \A n \in Names \ lost : Wanted(w, n) => n \in kept[w]
          /\ \A n \in Names \ lost : Opaque(w, n) => n \in unreadable[w]
    BY KeptIsWanted
  <2>3. silent(w) \subseteq lost
    BY <1>2, <2>2, EveryEntryHasARow
  <2>4. IsFiniteSet(lost)
    BY <2>2, NamesAssumption, FS_Subset
  <2>5. /\ IsFiniteSet(silent(w)) /\ Cardinality(silent(w)) <= Cardinality(lost)
        /\ Cardinality(silent(w)) \in Nat /\ Cardinality(lost) \in Nat
    BY <2>3, <2>4, FS_Subset, FS_CardinalityType
  <2>6. IsFiniteSet(About(w, Lost))
    <3>1. ASSUME NEW r \in About(w, Lost) PROVE r = Row(w, Lost, "Error")
      <4>1. r.walk # "pair"
        <5> SUFFICES ASSUME r.walk = "pair" PROVE FALSE
          OBVIOUS
        <5>1. r.about \in kept["source"] \X kept["receipt"] /\ r \in rows
          BY DEF IInv, RowsInv, TypeOK, About
        <5>2. r.about \in Names \X Names
          BY <1>1, <5>1 DEF TypeOK, Walks
        <5>3. w # "pair"
          BY DEF Walks
        <5>4. Lost = r.about[IF w = "source" THEN 1 ELSE 2]
          BY <5>3 DEF About
        <5> QED BY <5>2, <5>4, NamesAssumption
      <4>2. r \in LooseRows /\ r.walk = w /\ r.about = Lost
        BY <1>2, <4>1 DEF IInv, RowsInv, About
      <4>3. Lost \notin unmatched_sources \cup unmatched_receipts
        BY <1>1, NamesAssumption DEF TypeOK, Walks
      <4> QED BY <4>2, <4>3, LooseRowsAre DEF Row
    <3> QED BY <3>1, AtMostOne
  <2>7. lost # {} => Cardinality(About(w, Lost)) \in Nat \ {0}
    <3>1. lost # {} => About(w, Lost) # {}
      BY <1>2, <2>2, EveryEntryHasARow
    <3> QED BY <2>6, <3>1, FS_CardinalityType, FS_EmptySet
  <2>8. lost = {} => Cardinality(lost) = 0
    BY FS_EmptySet
  <2>9. Cardinality(About(w, Lost)) \in Nat
    BY <2>6, FS_CardinalityType
  <2> QED BY <2>1, <2>2, <2>5, <2>7, <2>8, <2>9
<1>3. ASSUME NEW w \in Walks, NEW n \in Names, unreadable[w] = {}
      PROVE  (Wanted(w, n) => n \in kept[w]) /\ ~Opaque(w, n)
  BY <1>3, KeptIsWanted
<1>4. phase = "EmptySourceDirectory" => owed("source") = {}
  BY <1>3 DEF IInv, EmptyInv, Walks
<1>5. phase = "EmptyReceiptDirectory" =>
        owed("receipt") = {} /\ \A n \in Names : ~Opaque("source", n)
  BY <1>3 DEF IInv, EmptyInv, Walks
<1> QED BY <1>1, <1>2, <1>4, <1>5 DEF NothingVanishes

-----------------------------------------------------------------------------
(* A receipt is held against the file it names and no other, whatever the  *)
(* names are made of.                                                      *)
THEOREM PairsAlwaysRight == Spec => []PairedByName
BY InvImpliesPaired, Inductive, PTL

(* Nothing that a walk met and wanted, or could not classify, is without   *)
(* a row, and nothing has two, in any directory of any size.               *)
THEOREM NothingEverVanishes == Spec => []NothingVanishes
BY InvImpliesNothingVanishes, Inductive, PTL

(* A batch that paired anything ends in a report, which has a result for   *)
(* every pair whose own two files open and were left alone, whatever was   *)
(* done to the others.                                                     *)
THEOREM NeighboursNeverCost == Spec => []NeighboursCostNothing
BY InvImpliesNeighbours, Inductive, PTL
=============================================================================
