----------------------------- MODULE FileMatching -----------------------------
(***************************************************************************)
(* How a batch finds its work (verify/batch.rs): the source directory is   *)
(* walked, then the receipt directory, names are paired, each pair is read *)
(* in turn, and every path gets a row of the report.  BatchRun takes what  *)
(* the walks yield as given and follows it from there.                     *)
(*                                                                         *)
(* The environment is the file system, which may lose an entry from one    *)
(* listing and may put anything in the place of an entry between a walk    *)
(* and what relies on it.  A walk is one step: its entries are classified  *)
(* independently, so a change within it comes to one before or after it.   *)
(***************************************************************************)
EXTENDS Naturals, FiniteSets

CONSTANTS
  Names,    \* file names
  Stem,     \* what a name with the extension `.atl` accompanies
  NoStem,   \* a name without it
  Lossy,    \* what is left of a name as text
  Layouts,  \* what a directory may hold: an object under every name
  Turns,    \* what an entry may become
  Absent,   \* no object at all
  Lost,     \* an entry the listing failed to name
  MaxChanged  \* bound on the entries that change

(* What file_type says of an entry, what its metadata say, links followed, *)
(* and whether it opens.  Nothing is followed from a file or a directory.  *)
Objects ==
  {o \in [type : {"dir", "file", "other", "error"},
          target : {"dir", "file", "other", "error"}, opens : BOOLEAN] :
     o.type \in {"dir", "file"} => o.target = o.type}

File == [type |-> "file", target |-> "file", opens |-> TRUE]

ASSUME NamesAssumption ==
  /\ IsFiniteSet(Names)
  /\ Stem \in [Names -> Names \cup {NoStem}] /\ NoStem \notin Names
  /\ \A m, n \in Names : Stem[m] = Stem[n] /\ Stem[m] # NoStem => m = n
  /\ Lossy \in [Names -> Names]
  /\ Layouts \subseteq [Names -> Objects \cup {Absent}]
  /\ Turns \subseteq Objects \cup {Absent} /\ MaxChanged \in Nat
  /\ Absent \notin Objects /\ Lost \notin Names

Walks == {"source", "receipt"}

VARIABLES
  same,        \* one directory was given for both
  there,       \* what is in the directories
  changed,     \* the entries that changed since the start: where, and which
  phase,
  seen,        \* what each walk found there
  kept,        \* the names it kept
  unreadable,  \* the entries it could not classify
  matched, unmatched_sources, unmatched_receipts,
  rows         \* of the report: what it is about and what became of it

world == <<same, there, changed>>
walks == <<seen, kept, unreadable>>
matching == <<matched, unmatched_sources, unmatched_receipts>>
vars == <<world, phase, walks, matching, rows>>

Ended == {"done", "FileReadError", "EmptySourceDirectory", "EmptyReceiptDirectory"}
Phases == {"sources", "receipts", "match", "verify"} \cup Ended

Dir(walk) == IF same THEN "source" ELSE walk

Row(walk, about, outcome) == [walk |-> walk, about |-> about, outcome |-> outcome]

(* Rows are about a pair or about one entry of one walk, and only what     *)
(* was kept is matched (FileMatching, BatchItemResult).                    *)
TypeOK ==
  /\ same \in BOOLEAN /\ changed \in SUBSET (Walks \X Names) /\ phase \in Phases
  /\ there \in [Walks -> [Names -> Objects \cup {Absent}]]
  /\ seen \in [Walks -> [Names -> Objects \cup {Absent}]]
  /\ kept \in [Walks -> SUBSET Names]
  /\ unreadable \in [Walks -> SUBSET (Names \cup {Lost})]
  /\ matched \subseteq kept["source"] \X kept["receipt"]
  /\ unmatched_sources \subseteq kept["source"]
  /\ unmatched_receipts \subseteq kept["receipt"]
  /\ \A r \in rows :
       \/ r.walk = "pair" /\ r.about \in matched /\ r.outcome \in {"Result", "Error"}
       \/ /\ r.walk \in Walks /\ r.about \in kept[r.walk] \cup unreadable[r.walk]
          /\ r.outcome \in {"Error", "NoReceipt", "NoSource"}

-----------------------------------------------------------------------------
(* classify_entry: only what is neither a file nor a directory is resolved. *)
Classify(o) ==
  CASE o = Absent                                     -> "Skip"
    [] o # Absent /\ o.type = "error"                 -> "error"
    [] o # Absent /\ o.type = "dir"                   -> "Skip"
    [] o # Absent /\ o.type = "file"                  -> "RegularFile"
    [] o # Absent /\ o.type = "other" ->
         CASE o.target = "error"          -> "error"
           [] o.target = "file"           -> "RegularFile"
           [] o.target \in {"dir", "other"} -> "Skip"

HasAtlExtension(n) == Stem[n] # NoStem

Keep(walk, n) == IF walk = "receipt" THEN HasAtlExtension(n) ELSE ~HasAtlExtension(n)

Init ==
  /\ same \in BOOLEAN
  /\ there \in [Walks -> Layouts]
  /\ same => there["source"] = there["receipt"]
  /\ changed = {}
  /\ phase = "sources"
  /\ seen = [w \in Walks |-> [n \in Names |-> Absent]]
  /\ kept = [w \in Walks |-> {}]
  /\ unreadable = [w \in Walks |-> {}]
  /\ matched = {} /\ unmatched_sources = {} /\ unmatched_receipts = {}
  /\ rows = {}

(* One entry at most is lost from a listing, and the walk goes on without  *)
(* it.                                                                     *)
Walk(walk) ==
  LET listing == there[Dir(walk)]
  IN \E lost \in SUBSET {n \in Names : listing[n] # Absent} :
       /\ Cardinality(lost) <= 1 /\ (Lost \in unreadable["source"] => lost = {})
       /\ seen' = [seen EXCEPT ![walk] = listing]
       /\ kept' = [kept EXCEPT ![walk] =
            {n \in Names \ lost : Classify(listing[n]) = "RegularFile" /\ Keep(walk, n)}]
       /\ unreadable' = [unreadable EXCEPT ![walk] =
            {n \in Names \ lost : Classify(listing[n]) = "error"}
            \cup (IF lost = {} THEN {} ELSE {Lost})]

WalkFails ==
  /\ phase \in {"sources", "receipts"}
  /\ phase' = "FileReadError"
  /\ UNCHANGED <<world, walks, matching, rows>>

WalkSources ==
  /\ phase = "sources"
  /\ Walk("source")
  /\ phase' = IF kept'["source"] = {} /\ unreadable'["source"] = {}
              THEN "EmptySourceDirectory" ELSE "receipts"
  /\ UNCHANGED <<world, matching, rows>>

(* What the source walk could not read keeps this one from being empty.    *)
WalkReceipts ==
  /\ phase = "receipts"
  /\ Walk("receipt")
  /\ phase' = IF kept'["receipt"] = {} /\ \A w \in Walks : unreadable'[w] = {}
              THEN "EmptyReceiptDirectory" ELSE "match"
  /\ UNCHANGED <<world, matching, rows>>

(* A mutant of Key: names are compared as text.                            *)
LossyKey(n) == IF n \in Names THEN Lossy[n] ELSE n

(* Names are compared as the file system has them.                         *)
Key(n) == n

(* A HashMap from the name each receipt is for.                            *)
Match ==
  /\ phase = "match"
  /\ LET claimed == {Key(Stem[r]) : r \in kept["receipt"]}
         receipt_map == [k \in claimed |-> CHOOSE r \in kept["receipt"] : Key(Stem[r]) = k]
     IN /\ matched' = {<<s, receipt_map[Key(s)]>> :
                         s \in {n \in kept["source"] : Key(n) \in claimed}}
        /\ unmatched_sources' = {n \in kept["source"] : Key(n) \notin claimed}
  /\ unmatched_receipts' = {r \in kept["receipt"] : \A p \in matched' : p[2] # r}
  /\ phase' = "verify"
  /\ UNCHANGED <<world, walks, rows>>

Readable(walk, n) ==
  LET o == there[Dir(walk)][n] IN o # Absent /\ o.target = "file" /\ o.opens

Unread == {p \in matched : \A r \in rows : r.walk = "pair" => r.about # p}

(* A mutant of VerifyNext: a pair that cannot be read ends the batch.      *)
VerifyOrAbort ==
  /\ phase = "verify"
  /\ \E p \in Unread :
       IF Readable("source", p[1]) /\ Readable("receipt", p[2])
       THEN rows' = rows \cup {Row("pair", p, "Result")} /\ UNCHANGED phase
       ELSE phase' = "FileReadError" /\ UNCHANGED rows
  /\ UNCHANGED <<world, walks, matching>>

(* A mutant of VerifyNext: what is gone is taken for never having been.    *)
VerifyPresent ==
  /\ phase = "verify"
  /\ \E p \in Unread :
       IF Readable("source", p[1]) /\ Readable("receipt", p[2])
       THEN rows' = rows \cup {Row("pair", p, "Result")} /\ UNCHANGED matched
       ELSE matched' = matched \ {p} /\ UNCHANGED rows
  /\ UNCHANGED <<world, phase, walks, unmatched_sources, unmatched_receipts>>

(* verify_single opens the receipt and then the source, as they are now.   *)
VerifyNext ==
  /\ phase = "verify"
  /\ \E p \in Unread :
       rows' = rows \cup
         {Row("pair", p, IF Readable("receipt", p[2]) /\ Readable("source", p[1])
                         THEN "Result" ELSE "Error")}
  /\ UNCHANGED <<world, phase, walks, matching>>

(* Rows for whatever belongs to no pair.                                   *)
LooseRows ==
  (UNION {{Row(w, n, "Error") : n \in unreadable[w]} : w \in Walks})
  \cup {Row("source", n, "NoReceipt") : n \in unmatched_sources}
  \cup {Row("receipt", n, "NoSource") : n \in unmatched_receipts}

Report ==
  /\ phase = "verify" /\ Unread = {}
  /\ rows' = rows \cup LooseRows
  /\ phase' = "done"
  /\ UNCHANGED <<world, walks, matching>>

(* A file is put there, goes away, is locked, or gives way to a directory  *)
(* or anything else.                                                       *)
Change ==
  /\ phase \notin Ended \cup {"sources"}
  /\ \E w \in Walks, n \in Names, o \in Turns :
       /\ there[Dir(w)][n] # o
       /\ there' = [there EXCEPT ![Dir(w)][n] = o]
       /\ changed' = changed \cup {<<Dir(w), n>>}
       /\ Cardinality(changed') <= MaxChanged
  /\ UNCHANGED <<same, phase, walks, matching, rows>>

Stop == phase \in Ended /\ UNCHANGED vars

Next ==
  \/ WalkFails
  \/ WalkSources
  \/ WalkReceipts
  \/ Match
  \/ VerifyNext
  \/ Report
  \/ Change
  \/ Stop

Spec == Init /\ [][Next]_vars

-----------------------------------------------------------------------------
(* Properties.                                                             *)

(* The rows that speak of an entry a walk found.                           *)
About(walk, n) ==
  {r \in rows : \/ r.walk = walk /\ r.about = n
                \/ r.walk = "pair" /\ r.about[IF walk = "source" THEN 1 ELSE 2] = n}

(* A file stands for a row of its own only in the walk that looks for its  *)
(* kind.                                                                   *)
Wanted(walk, n) ==
  /\ seen[walk][n] # Absent
  /\ seen[walk][n].target = "file" /\ seen[walk][n].type # "error"
  /\ Keep(walk, n)

(* Something a walk met and could learn nothing about.                     *)
Opaque(walk, n) ==
  /\ seen[walk][n] # Absent
  /\ "error" \in {seen[walk][n].type, seen[walk][n].target}

(* A receipt is held against the file it names and no other, whatever the  *)
(* names are made of, and no file is left without a receipt that was       *)
(* there for it (match_files_to_receipts).                                 *)
PairedByName ==
  phase \in {"verify", "done"} =>
    /\ \A p \in matched : Stem[p[2]] = p[1] /\ Wanted("source", p[1]) /\ Wanted("receipt", p[2])
    /\ \A s \in unmatched_sources, r \in unmatched_receipts : Stem[r] # s

(* Every wanted file and every opaque entry of either walk ends in exactly *)
(* one row, in time for the verdict, even when the listing lost one or the *)
(* file has gone since; what the listing lost has a row for the directory. *)
(* No directory is called empty instead: it had neither a file of the kind *)
(* nor an entry nobody could classify (match_files_to_receipts,            *)
(* verify_batch).                                                          *)
NothingVanishes ==
  LET owed(w) == {n \in Names : Wanted(w, n) \/ Opaque(w, n)}
  IN /\ TypeOK
     /\ phase = "done" =>
          \A w \in Walks :
            LET silent == {n \in owed(w) : About(w, n) = {}}
            IN /\ \A n \in Names : Cardinality(About(w, n)) <= 1
               /\ Cardinality(silent) <= Cardinality(About(w, Lost))
     /\ phase = "EmptySourceDirectory" => owed("source") = {}
     /\ phase = "EmptyReceiptDirectory" =>
          owed("receipt") = {} /\ \A n \in Names : ~Opaque("source", n)

(* Nobody has touched what a walk found under a name.                      *)
Untouched(walk, n) == <<Dir(walk), n>> \notin changed

(* No neighbour costs a pair its verification: once a pair was found, the  *)
(* batch ends in a report, and a pair has a result if its own two files    *)
(* open and nobody touched them, whatever became of any other file between *)
(* the walks and the reads and however many other pairs could not be read  *)
(* (verify_batch).                                                         *)
NeighboursCostNothing ==
  /\ matched # {} => phase \in {"verify", "done"}
  /\ phase = "done" =>
       \A p \in matched :
         /\ Untouched("source", p[1]) /\ there[Dir("source")][p[1]].opens
         /\ Untouched("receipt", p[2]) /\ there[Dir("receipt")][p[2]].opens
         => Row("pair", p, "Result") \in rows

(* The strengthening under which the invariants above are inductive.       *)

(* What a walk keeps and what it cannot classify are what it saw, less one *)
(* entry at most.                                                          *)
ListedInv ==
  \A w \in Walks : \E lost \in SUBSET Names :
    /\ Cardinality(lost) <= 1
    /\ kept[w] = {n \in Names \ lost : Classify(seen[w][n]) = "RegularFile" /\ Keep(w, n)}
    /\ unreadable[w] = {n \in Names \ lost : Classify(seen[w][n]) = "error"}
                       \cup (IF lost = {} THEN {} ELSE {Lost})

(* A directory is called empty when its walk brought nothing.              *)
EmptyInv ==
  /\ phase = "EmptySourceDirectory" => kept["source"] = {} /\ unreadable["source"] = {}
  /\ phase = "EmptyReceiptDirectory" =>
       kept["receipt"] = {} /\ \A w \in Walks : unreadable[w] = {}

(* Names pair as they are, and nothing is matched before or reported       *)
(* without it.                                                             *)
MatchInv ==
  IF phase \in {"verify", "done"}
  THEN /\ matched = {p \in kept["source"] \X kept["receipt"] : Stem[p[2]] = p[1]}
       /\ unmatched_sources = {s \in kept["source"] : \A r \in kept["receipt"] : Stem[r] # s}
       /\ unmatched_receipts = {r \in kept["receipt"] : Stem[r] \notin kept["source"]}
  ELSE matched = {} /\ unmatched_sources = {} /\ unmatched_receipts = {} /\ rows = {}

(* A pair has at most one row while they are read and exactly one at the   *)
(* end; all other rows are those of what belongs to no pair.               *)
RowsInv ==
  LET pairRows == {r \in rows : r.walk = "pair"}
  IN /\ \A r \in pairRows : r.about \in matched /\ r = Row("pair", r.about, r.outcome)
     /\ \A r, s \in pairRows : r.about = s.about => r = s
     /\ rows = pairRows \cup (IF phase = "done" THEN LooseRows ELSE {})
     /\ phase = "done" => Unread = {}

(* What was seen of an entry is what is there until somebody touches it,   *)
(* and of a pair nobody touched the row says whether it can be read.       *)
UnchangedInv ==
  /\ \A n \in Names :
       /\ /\ phase \in {"receipts", "match", "verify", "done"}
          /\ Untouched("source", n)
          => seen["source"][n] = there[Dir("source")][n]
       /\ /\ phase \in {"match", "verify", "done"}
          /\ Untouched("receipt", n)
          => seen["receipt"][n] = there[Dir("receipt")][n]
  /\ \A r \in rows :
       /\ r.walk = "pair"
       /\ Untouched("source", r.about[1]) /\ Untouched("receipt", r.about[2])
       => (r.outcome = "Result" <=> /\ Readable("source", r.about[1])
                                    /\ Readable("receipt", r.about[2]))

IInv ==
  /\ TypeOK
  /\ ListedInv
  /\ EmptyInv
  /\ MatchInv
  /\ RowsInv
  /\ UnchangedInv

(* What the documentation of FileMatching promises, and the README: every  *)
(* entry seen ends up in one of its fields, so a batch in which every row  *)
(* is a verified pair has looked at every file that either walk saw.       *)
SpotlessMeansAll ==
  phase = "done" /\ (\A r \in rows : r.outcome = "Result") =>
    \A w \in Walks, n \in Names :
      seen[w][n] = File => \E v \in Walks : Dir(v) = Dir(w) /\ About(v, n) # {}
=============================================================================
