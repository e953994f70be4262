------------------------------ MODULE TrustStore ------------------------------
(***************************************************************************)
(* Loading the caller's trust material (verify/trust_store.rs,             *)
(* load_trust_material of commands/verify.rs): a path for trust anchors,   *)
(* then one for intermediates, each a file or a directory whose files are  *)
(* read one after another.  Whatever fails ends the run before it looks at *)
(* a receipt.                                                              *)
(*                                                                         *)
(* The environment is the file system: what the paths hold, which calls    *)
(* fail, and files that are removed, rewritten or replaced by anything     *)
(* else after they were listed and before they are read.                   *)
(***************************************************************************)
EXTENDS Integers, FiniteSets

CONSTANTS
  Names,      \* the names in a directory, as numbers: they are sorted
  Certs,
  Objects,    \* what may be found under a name
  Absent,     \* nothing is
  MaxSpoiled  \* bound on the files that change under the load

(* In the order in which they are loaded.                                  *)
Roles == {"anchors", "intermediates"}

Arguments == {"none", "file", "directory", "missing"}

(* What is found under a name: its own first, then, links followed, what   *)
(* it resolves to ("denied": the question fails) and what a read yields.   *)
AllObjects ==
  [dot : BOOLEAN, utf8 : BOOLEAN, resolves : {"file", "dir", "nothing", "denied"},
   readable : BOOLEAN, form : {"pem", "der", "junk"}, marker : BOOLEAN,
   certs : SUBSET Certs]

ASSUME ObjectsAssumption ==
  /\ Names \subseteq Nat /\ Names # {} /\ MaxSpoiled \in Nat
  /\ Objects \subseteq AllObjects /\ Absent \notin AllObjects
  /\ \A o \in Objects : (o.certs = {}) <=> (o.form = "junk")

VARIABLES
  argument,  \* what each flag was given
  files,     \* what is under the names of each argument
  spoiled,   \* the files that changed after they were listed, with their role
  role,      \* the flag being loaded
  phase,
  queue,     \* the files still to be read
  taken,     \* by role, the files it is to read, as they were then
  read,      \* by role, what each read that was tried found
  certs,     \* the certificates parsed so far
  store      \* the certificates registered, by role

given == <<argument, files, spoiled>>
vars == <<argument, files, spoiled, role, phase, queue, taken, read, certs, store>>

Phases == {"open", "read", "loaded", "no store", "TrustStoreError", "FileReadError"}

Ended == {"loaded", "no store", "TrustStoreError", "FileReadError"}

(* Everything is of the right kind, and a file is read only once listed    *)
(* (list_certificate_files).                                               *)
TypeOK ==
  /\ argument \in [Roles -> Arguments]
  /\ files \in [Roles -> [Names -> AllObjects \cup {Absent}]]
  /\ spoiled \in SUBSET (Roles \X Names)
  /\ role \in Roles
  /\ phase \in Phases
  /\ queue \subseteq Names
  /\ queue \subseteq DOMAIN taken[role]
  /\ DOMAIN taken = Roles
  /\ \A r \in Roles : \A n \in DOMAIN taken[r] :
       n \in Names /\ taken[r][n] \in AllObjects \cup {Absent}
  /\ read \in [Roles -> [Names -> AllObjects \cup {Absent}]]
  /\ certs \subseteq Certs
  /\ store \in [Roles -> SUBSET Certs]

-----------------------------------------------------------------------------
(* The name that stands for a path that is no directory.                   *)
TheFile == CHOOSE n \in Names : TRUE

(* A name that is not valid UTF-8 is never taken for a hidden one.         *)
Hidden(o) == o.dot /\ o.utf8

(* Path::is_file answers FALSE for a directory, for a broken link and for  *)
(* whatever it cannot ask about.                                           *)
Candidates(r) ==
  {n \in Names : /\ files[r][n] # Absent
                 /\ ~Hidden(files[r][n])
                 /\ files[r][n].resolves = "file"}

Readable(o) == o # Absent /\ o.resolves = "file" /\ o.readable

(* A mutant of Parsed: what looks like neither is passed over.             *)
ParsedLeniently(o) == TRUE

(* A boundary marker near the beginning makes it PEM, anything else is DER. *)
Parsed(o) == IF o.marker THEN o.form = "pem" ELSE o.form = "der"

Init ==
  /\ argument \in [Roles -> Arguments]
  /\ files \in [Roles -> [Names -> Objects \cup {Absent}]]
  /\ \A r \in Roles : \A n \in Names :
       \/ argument[r] = "directory"
       \/ files[r][n] = Absent
       \/ /\ argument[r] = "file" /\ n = TheFile
          /\ files[r][n] # Absent => files[r][n].resolves = "file"
  /\ \A r \in Roles : argument[r] = "file" => files[r][TheFile] # Absent
  /\ spoiled = {}
  /\ role = "anchors"
  /\ phase = "open"
  /\ queue = {}
  /\ taken = [r \in Roles |-> << >>]
  /\ read = [r \in Roles |-> [n \in Names |-> Absent]]
  /\ certs = {}
  /\ store = [r \in Roles |-> {}]

(* Neither flag was given: the run has no store at all.                    *)
NoMaterial ==
  /\ phase = "open" /\ role = "anchors"
  /\ \A r \in Roles : argument[r] = "none"
  /\ phase' = "no store"
  /\ UNCHANGED <<given, role, queue, taken, read, certs, store>>

(* This flag was not given; the store starts, or stays, without it.        *)
PassOver ==
  /\ phase = "open" /\ argument[role] = "none"
  /\ \E r \in Roles : argument[r] # "none"
  /\ phase' = IF role = "anchors" THEN "open" ELSE "loaded"
  /\ role' = "intermediates"
  /\ UNCHANGED <<given, queue, taken, read, certs, store>>

Take(names) ==
  /\ queue' = names
  /\ taken' = [taken EXCEPT ![role] = [n \in names |-> files[role][n]]]
  /\ phase' = "read"

(* Whatever is not a directory is taken for the one file to read.          *)
TakeFile ==
  /\ phase = "open" /\ argument[role] \in {"file", "missing"}
  /\ Take({TheFile})
  /\ UNCHANGED <<given, role, read, certs, store>>

(* The candidates, unless there are none.                                  *)
ListDirectory ==
  /\ phase = "open" /\ argument[role] = "directory"
  /\ IF Candidates(role) = {}
     THEN phase' = "TrustStoreError" /\ UNCHANGED <<queue, taken>>
     ELSE Take(Candidates(role))
  /\ UNCHANGED <<given, role, read, certs, store>>

(* The directory cannot be opened, or the listing breaks off.              *)
ListingFails ==
  /\ phase = "open" /\ argument[role] = "directory"
  /\ phase' = "FileReadError"
  /\ UNCHANGED <<given, role, queue, taken, read, certs, store>>

(* A mutant of ReadNext: a file that cannot be read is passed over.        *)
ReadWhatOneCan ==
  /\ phase = "read"
  /\ \E n \in queue :
       /\ \A m \in queue : n <= m
       /\ queue' = queue \ {n}
       /\ read' = [read EXCEPT ![role][n] = files[role][n]]
       /\ IF Readable(files[role][n]) /\ Parsed(files[role][n])
          THEN certs' = certs \cup files[role][n].certs ELSE UNCHANGED certs
  /\ UNCHANGED <<given, role, phase, taken, store>>

(* The next file in order is read and parsed; the first failure is the     *)
(* load's.                                                                 *)
ReadNext ==
  /\ phase = "read"
  /\ \E n \in queue :
       /\ \A m \in queue : n <= m
       /\ read' = [read EXCEPT ![role][n] = files[role][n]]
       /\ LET o == files[role][n]
          IN IF ~Readable(o)
             THEN phase' = "FileReadError" /\ UNCHANGED <<queue, certs>>
             ELSE IF ~Parsed(o)
             THEN phase' = "TrustStoreError" /\ UNCHANGED <<queue, certs>>
             ELSE /\ queue' = queue \ {n}
                  /\ certs' = certs \cup o.certs
                  /\ UNCHANGED phase
  /\ UNCHANGED <<given, role, taken, store>>

(* A mutant of Register: whatever was loaded so far goes under the role.   *)
RegisterAll ==
  /\ phase = "read" /\ queue = {}
  /\ certs # {}
  /\ store' = [r \in Roles |-> store[r] \cup certs]
  /\ certs' = {}
  /\ phase' = IF role = "anchors" THEN "open" ELSE "loaded"
  /\ role' = "intermediates"
  /\ UNCHANGED <<given, queue, taken, read>>

(* Everything was parsed: it is registered under the role it was given in. *)
Register ==
  /\ phase = "read" /\ queue = {}
  /\ IF certs = {}
     THEN phase' = "TrustStoreError" /\ UNCHANGED <<role, certs, store>>
     ELSE /\ store' = [store EXCEPT ![role] = certs]
          /\ certs' = {}
          /\ phase' = IF role = "anchors" THEN "open" ELSE "loaded"
          /\ role' = "intermediates"
  /\ UNCHANGED <<given, queue, taken, read>>

(* A file that was listed and is still to be read may become anything:     *)
(* gone, locked, damaged, or another file that loads as well as the first. *)
(* Once it has been read, what becomes of it is nothing to the load.       *)
Spoil ==
  /\ phase = "read"
  /\ \E n \in queue, o \in Objects \cup {Absent} :
       /\ files[role][n] # o
       /\ files' = [files EXCEPT ![role][n] = o]
       /\ spoiled' = spoiled \cup {<<role, n>>}
       /\ Cardinality(spoiled') <= MaxSpoiled
  /\ UNCHANGED <<argument, role, phase, queue, taken, read, certs, store>>

(* The run goes on, or exits, with what it has.                            *)
Return == phase \in Ended /\ UNCHANGED vars

Next ==
  \/ NoMaterial
  \/ PassOver
  \/ TakeFile
  \/ ListDirectory
  \/ ListingFails
  \/ ReadNext
  \/ Register
  \/ Spoil
  \/ Return

Spec == Init /\ [][Next]_vars

-----------------------------------------------------------------------------
(* Properties.                                                             *)

(* Partial success is not success: a load that ends well has, under each   *)
(* role, read and parsed every file that was there when its path was       *)
(* opened, and registered every certificate those reads found and no       *)
(* other.  A file that nobody touched was read as it was listed; one that  *)
(* was rewritten in between counts as what it had become, but it is not    *)
(* skipped, and one that went away or was damaged ends the load.  A flag   *)
(* that was given has given something.                                     *)
WholeOrNothing ==
  /\ TypeOK
  /\ phase = "loaded" =>
       \A r \in Roles :
         /\ argument[r] # "none" => store[r] # {}
         /\ \A n \in DOMAIN taken[r] :
              /\ Readable(read[r][n]) /\ Parsed(read[r][n])
              /\ <<r, n>> \notin spoiled => read[r][n] = taken[r][n]
         /\ store[r] = UNION {read[r][n].certs : n \in DOMAIN taken[r]}

(* A file offered under a flag and holding no certificate ends the run,    *)
(* whichever flag it was and whatever else was offered with it; what a     *)
(* directory hides is not offered, so that it neither is loaded nor stands *)
(* in the way: a refusal is of a file that was offered, or of a directory  *)
(* without any (list_certificate_files, load_certs_from_file).  It is the  *)
(* files as they lie there that are meant, so nobody has touched a listed  *)
(* one; what touched ones come to is WholeOrNothing's.                     *)
JunkIsRefused ==
  LET offered(r) == {n \in Names : /\ files[r][n] # Absent
                                   /\ argument[r] = "directory" => ~Hidden(files[r][n])}
  IN spoiled = {} =>
       /\ phase = "loaded" =>
            \A r \in Roles : \A n \in offered(r) :
              files[r][n].resolves = "file" => files[r][n].form # "junk"
       /\ phase = "TrustStoreError" =>
            \/ argument[role] = "directory" /\ Candidates(role) = {}
            \/ \E n \in offered(role) : ~Parsed(files[role][n])

(* An intermediate confers no trust: nothing becomes an anchor once the    *)
(* anchors are loaded, and before that nothing is an intermediate.         *)
RolesStayApart ==
  [][ /\ role = "intermediates" => store'["anchors"] = store["anchors"]
      /\ role = "anchors" => store'["intermediates"] = store["intermediates"] ]_vars
=============================================================================
