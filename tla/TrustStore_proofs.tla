-------------------------- MODULE TrustStore_proofs --------------------------
(* What a load of trust material guarantees for any names, certificates    *)
(* and kinds of file, whatever listed files become before they are read.   *)
EXTENDS TrustStore, TLAPS

(* What a read leaves of a listed file: it was there and it parsed, as it  *)
(* was listed unless somebody touched it.                                  *)
ReadWell(r, n) ==
  /\ Readable(read[r][n]) /\ Parsed(read[r][n])
  /\ <<r, n>> \notin spoiled => read[r][n] = taken[r][n]

(* A role's share of the store: what every one of its files was read as.   *)
Complete(r) ==
  /\ argument[r] # "none" => store[r] # {}
  /\ \A n \in DOMAIN taken[r] : ReadWell(r, n)
  /\ store[r] = UNION {read[r][n].certs : n \in DOMAIN taken[r]}

Untouched(r) == taken[r] = << >> /\ store[r] = {}

(* Where the load stands: a role is dealt with before the next is opened,  *)
(* and what has been parsed of the one at hand is what its reads found.    *)
LoadInv ==
  /\ role = "anchors" => Untouched("intermediates") /\ phase # "loaded"
  /\ role = "intermediates" => Complete("anchors")
  /\ phase = "open" => Untouched(role) /\ certs = {} /\ queue = {}
  /\ phase = "read" =>
       /\ \A n \in DOMAIN taken[role] \ queue : ReadWell(role, n)
       /\ certs = UNION {read[role][n].certs : n \in DOMAIN taken[role] \ queue}
  /\ phase = "loaded" => Complete("intermediates")

(* A file still to be read is as it was listed unless somebody touched it. *)
QueueInv ==
  phase = "read" =>
    \A n \in queue : <<role, n>> \notin spoiled => files[role][n] = taken[role][n]

LoadIInv == TypeOK /\ LoadInv /\ QueueInv

(* Nothing is taken or stored at first.                                    *)
LEMMA InitLoad == Init => LoadIInv
<1> SUFFICES ASSUME Init PROVE LoadIInv
  OBVIOUS
<1>1. files \in [Roles -> [Names -> AllObjects \cup {Absent}]]
  BY ObjectsAssumption DEF Init
<1>2. \A r \in Roles : DOMAIN taken[r] = {} /\ store[r] = {}
  BY DEF Init
<1>3. TypeOK
  BY <1>1, <1>2 DEF Init, TypeOK, Roles, Phases
<1>4. LoadInv
  BY DEF Init, LoadInv, Untouched, Complete, Roles
<1>5. QueueInv
  BY DEF Init, QueueInv
<1> QED BY <1>3, <1>4, <1>5 DEF LoadIInv

-----------------------------------------------------------------------------
(* Steps, one lemma for each kind that changes more than the phase.        *)

(* What is listed is what is there, and none of it has been parsed.        *)
LEMMA TakeStep ==
  ASSUME LoadIInv, phase = "open", argument[role] # "none",
         NEW names \in SUBSET Names, Take(names), UNCHANGED <<given, role, read, certs, store>>
  PROVE  LoadIInv'
<1> USE DEF given
<1>1. /\ taken' = [taken EXCEPT ![role] = [n \in names |-> files[role][n]]]
      /\ queue' = names /\ phase' = "read"
  BY DEF Take
<1>2. /\ role \in Roles /\ DOMAIN taken = Roles
      /\ files[role] \in [Names -> AllObjects \cup {Absent}]
      /\ certs = {} /\ Untouched(role)
  BY DEF LoadIInv, LoadInv, TypeOK
<1>3. /\ taken'[role] = [n \in names |-> files[role][n]]
      /\ \A r \in Roles \ {role} : taken'[r] = taken[r]
  BY <1>1, <1>2
<1>4. TypeOK'
  BY <1>1, <1>2, <1>3 DEF LoadIInv, TypeOK, Phases
<1>5. LoadInv'
  <2>1. DOMAIN taken'[role] \ queue' = {}
    BY <1>1, <1>3
  <2>2. certs' = UNION {read'[role][n].certs : n \in DOMAIN taken'[role] \ queue'}
    BY <1>2, <2>1
  <2>3. role = "anchors" => Untouched("intermediates")'
    BY <1>3 DEF LoadIInv, LoadInv, Untouched, Roles
  <2>4. role = "intermediates" => Complete("anchors")'
    BY <1>1, <1>3 DEF LoadIInv, LoadInv, Complete, ReadWell, Roles
  <2> QED BY <1>1, <2>1, <2>2, <2>3, <2>4 DEF LoadInv
<1>6. QueueInv'
  BY <1>1, <1>3 DEF QueueInv
<1> QED BY <1>4, <1>5, <1>6 DEF LoadIInv

(* A read that goes well is of what is there then, whoever put it there.   *)
LEMMA ReadStep ==
  ASSUME LoadIInv, ReadNext
  PROVE  LoadIInv'
<1> USE DEF given
<1>1. PICK n \in queue :
        /\ read' = [read EXCEPT ![role][n] = files[role][n]]
        /\ \/ phase' \in {"FileReadError", "TrustStoreError"} /\ UNCHANGED <<queue, certs>>
           \/ /\ Readable(files[role][n]) /\ Parsed(files[role][n])
              /\ queue' = queue \ {n} /\ certs' = certs \cup files[role][n].certs
              /\ phase' = phase
  BY DEF ReadNext
<1>2. phase = "read" /\ UNCHANGED <<given, role, taken, store>>
  BY DEF ReadNext
<1>3. /\ role \in Roles /\ n \in Names /\ n \in DOMAIN taken[role]
      /\ files[role][n] \in AllObjects \cup {Absent}
  BY DEF LoadIInv, TypeOK
<1>4. /\ read' \in [Roles -> [Names -> AllObjects \cup {Absent}]]
      /\ read'[role][n] = files[role][n]
      /\ \A m \in Names \ {n} : read'[role][m] = read[role][m]
      /\ \A r \in Roles \ {role} : read'[r] = read[r]
  BY <1>1, <1>3 DEF LoadIInv, TypeOK
<1>5. role = "intermediates" => Complete("anchors")'
  BY <1>2, <1>4 DEF LoadIInv, LoadInv, Complete, ReadWell, Roles
<1>6. CASE phase' \in {"FileReadError", "TrustStoreError"} /\ UNCHANGED <<queue, certs>>
  <2>1. TypeOK'
    BY <1>2, <1>4, <1>6 DEF LoadIInv, TypeOK, Phases
  <2>2. phase' \notin {"open", "read", "loaded"} /\ LoadInv'
    BY <1>2, <1>5, <1>6 DEF LoadIInv, LoadInv, Untouched
  <2>3. QueueInv'
    BY <2>2 DEF QueueInv
  <2> QED BY <2>1, <2>2, <2>3 DEF LoadIInv
<1>7. CASE /\ Readable(files[role][n]) /\ Parsed(files[role][n])
           /\ queue' = queue \ {n} /\ certs' = certs \cup files[role][n].certs
           /\ phase' = phase
  <2>1. files[role][n].certs \subseteq Certs
    BY <1>3, <1>7 DEF Readable, AllObjects
  <2>2. TypeOK'
    BY <1>2, <1>4, <1>7, <2>1 DEF LoadIInv, TypeOK
  <2>3. DOMAIN taken[role] \ queue' = (DOMAIN taken[role] \ queue) \cup {n}
    BY <1>3, <1>7
  <2>4. \A m \in DOMAIN taken[role] \ queue : m # n /\ read'[role][m] = read[role][m]
    <3>1. DOMAIN taken[role] \subseteq Names
      BY DEF LoadIInv, TypeOK
    <3> QED BY <1>1, <1>4, <3>1
  <2>5. ReadWell(role, n)'
    BY <1>2, <1>4, <1>7 DEF LoadIInv, QueueInv, ReadWell
  <2>6. \A m \in DOMAIN taken'[role] \ queue' : ReadWell(role, m)'
    BY <1>2, <2>3, <2>4, <2>5 DEF LoadIInv, LoadInv, ReadWell
  <2>7. certs' = UNION {read'[role][m].certs : m \in DOMAIN taken[role] \ queue'}
    <3>1. certs = UNION {read[role][m].certs : m \in DOMAIN taken[role] \ queue}
      BY <1>2 DEF LoadIInv, LoadInv
    <3>2. certs = UNION {read'[role][m].certs : m \in DOMAIN taken[role] \ queue}
      BY <2>4, <3>1
    <3> QED BY <1>4, <1>7, <2>3, <3>2
  <2>8. LoadInv'
    BY <1>2, <1>5, <1>7, <2>6, <2>7 DEF LoadIInv, LoadInv, Untouched
  <2>9. QueueInv'
    BY <1>2, <1>7 DEF LoadIInv, QueueInv
  <2> QED BY <2>2, <2>8, <2>9 DEF LoadIInv
<1> QED BY <1>1, <1>6, <1>7

(* A role is registered once its queue is empty: with every file it had.   *)
LEMMA RegisterStep ==
  ASSUME LoadIInv, Register
  PROVE  LoadIInv'
<1> USE DEF given
<1>1. phase = "read" /\ queue = {} /\ UNCHANGED <<given, queue, taken, read>>
  BY DEF Register
<1>2. role \in Roles /\ store \in [Roles -> SUBSET Certs] /\ certs \subseteq Certs
  BY DEF LoadIInv, TypeOK
<1>3. /\ certs = UNION {read[role][n].certs : n \in DOMAIN taken[role]}
      /\ \A n \in DOMAIN taken[role] : ReadWell(role, n)
  BY <1>1 DEF LoadIInv, LoadInv
<1>4. CASE certs = {}
  <2>1. phase' = "TrustStoreError" /\ UNCHANGED <<role, certs, store>>
    BY <1>4 DEF Register
  <2> QED BY <1>1, <2>1
     DEF LoadIInv, TypeOK, LoadInv, QueueInv, Untouched, Complete, ReadWell, Phases
<1>5. CASE certs # {}
  <2>1. /\ store' = [store EXCEPT ![role] = certs]
        /\ certs' = {}
        /\ phase' = IF role = "anchors" THEN "open" ELSE "loaded"
        /\ role' = "intermediates"
    BY <1>5 DEF Register
  <2>2. store'[role] = certs /\ \A r \in Roles \ {role} : store'[r] = store[r]
    BY <1>2, <2>1
  <2>3. TypeOK'
    BY <1>1, <1>2, <2>1 DEF LoadIInv, TypeOK, Phases, Roles
  <2>4. \A r \in Roles : r = role => Complete(r)'
    BY <1>1, <1>2, <1>3, <1>5, <2>2 DEF Complete, ReadWell
  <2>5. role = "anchors" => Untouched("intermediates")'
    BY <1>1, <2>2 DEF LoadIInv, LoadInv, Untouched, Roles
  <2>6. role = "intermediates" => Complete("anchors")'
    BY <1>1, <2>2 DEF LoadIInv, LoadInv, Complete, ReadWell, Roles
  <2>7. LoadInv'
    BY <1>1, <1>2, <2>1, <2>4, <2>5, <2>6 DEF LoadInv, Roles
  <2>8. QueueInv'
    BY <2>1 DEF QueueInv
  <2> QED BY <2>3, <2>7, <2>8 DEF LoadIInv
<1> QED BY <1>4, <1>5

(* Whatever a file becomes, it was still to be read, and it is marked.     *)
LEMMA SpoilStep ==
  ASSUME LoadIInv, Spoil
  PROVE  LoadIInv'
<1> USE DEF given
<1>1. PICK n \in queue, o \in Objects \cup {Absent} :
        /\ files' = [files EXCEPT ![role][n] = o]
        /\ spoiled' = spoiled \cup {<<role, n>>}
  BY DEF Spoil
<1>2. /\ UNCHANGED <<argument, role, phase, queue, taken, read, certs, store>>
      /\ phase = "read"
  BY DEF Spoil
<1>3. /\ role \in Roles /\ n \in Names
      /\ files \in [Roles -> [Names -> AllObjects \cup {Absent}]]
  BY DEF LoadIInv, TypeOK
<1>4. files' \in [Roles -> [Names -> AllObjects \cup {Absent}]]
  BY <1>1, <1>3, ObjectsAssumption
<1>5. TypeOK'
  BY <1>1, <1>2, <1>3, <1>4 DEF LoadIInv, TypeOK
<1>6. \A r, m : ReadWell(r, m) => ReadWell(r, m)'
  BY <1>1, <1>2 DEF ReadWell
<1>7. \A r : Complete(r) => Complete(r)'
  BY <1>2, <1>6 DEF Complete
<1>8. LoadInv'
  BY <1>2, <1>6, <1>7 DEF LoadIInv, LoadInv, Untouched
<1>9. QueueInv'
  BY <1>1, <1>2, <1>3 DEF LoadIInv, TypeOK, QueueInv
<1> QED BY <1>5, <1>8, <1>9 DEF LoadIInv

(* Every step keeps the invariant of a load.                               *)
LEMMA LoadStep == LoadIInv /\ [Next]_vars => LoadIInv'
<1> SUFFICES ASSUME LoadIInv, [Next]_vars PROVE LoadIInv'
  OBVIOUS
<1> USE DEF given
<1>1. CASE NoMaterial
  BY <1>1 DEF NoMaterial, LoadIInv, TypeOK, LoadInv, QueueInv, Untouched, Complete, ReadWell, Phases
<1>2. CASE PassOver
  <2>1. \A r \in Roles : r = role => Complete(r)'
    <3>1. taken[role] = << >> /\ store[role] = {} /\ argument[role] = "none"
      BY <1>2 DEF PassOver, LoadIInv, LoadInv, Untouched
    <3>2. UNCHANGED <<argument, taken, store>>
      BY <1>2 DEF PassOver
    <3> QED BY <3>1, <3>2 DEF Complete
  <2>2. TypeOK'
    BY <1>2 DEF PassOver, LoadIInv, LoadInv, TypeOK, Phases, Roles
  <2>3. LoadInv'
    BY <1>2, <2>1 DEF PassOver, LoadIInv, LoadInv, TypeOK, Roles, Untouched, Complete, ReadWell
  <2>4. QueueInv'
    BY <1>2 DEF PassOver, QueueInv
  <2> QED BY <2>2, <2>3, <2>4 DEF LoadIInv
<1>3. CASE TakeFile
  <2>1. {TheFile} \in SUBSET Names
    BY ObjectsAssumption DEF TheFile
  <2> QED BY <1>3, <2>1, TakeStep DEF TakeFile
<1>4. CASE ListDirectory
  <2>1. CASE Candidates(role) = {}
    BY <1>4, <2>1
       DEF ListDirectory, LoadIInv, TypeOK, LoadInv, QueueInv, Untouched, Complete, ReadWell, Phases
  <2>2. CASE Candidates(role) # {}
    BY <1>4, <2>2, TakeStep DEF ListDirectory, Candidates
  <2> QED BY <2>1, <2>2
<1>5. CASE ListingFails
  BY <1>5 DEF ListingFails, LoadIInv, TypeOK, LoadInv, QueueInv, Untouched, Complete, ReadWell, Phases
<1>6. CASE UNCHANGED vars
  BY <1>6 DEF vars, LoadIInv, TypeOK, LoadInv, QueueInv, Untouched, Complete, ReadWell
<1> QED
  BY <1>1, <1>2, <1>3, <1>4, <1>5, <1>6, ReadStep, RegisterStep, SpoilStep DEF Next, Return

(* It holds throughout.                                                    *)
LEMMA LoadInvariance == Spec => []LoadIInv
BY InitLoad, LoadStep, PTL DEF Spec

-----------------------------------------------------------------------------
(* A store that is loaded is all of what its files were when they were     *)
(* read, and every file listed was read, whatever becomes of them before.  *)
THEOREM LoadsWholeOrNothing == Spec => []WholeOrNothing
<1>1. LoadIInv => WholeOrNothing
  BY DEF LoadIInv, LoadInv, TypeOK, WholeOrNothing, Complete, ReadWell, Roles
<1> QED BY <1>1, LoadInvariance, PTL

(* No certificate offered under one role ends up under the other.          *)
THEOREM RolesAlwaysApart == Spec => RolesStayApart
<1>1. LoadIInv /\ [Next]_vars =>
        [ /\ role = "intermediates" => store'["anchors"] = store["anchors"]
          /\ role = "anchors" => store'["intermediates"] = store["intermediates"] ]_vars
  <2> SUFFICES ASSUME LoadIInv, Next
               PROVE  /\ role = "intermediates" => store'["anchors"] = store["anchors"]
                      /\ role = "anchors" => store'["intermediates"] = store["intermediates"]
    OBVIOUS
  <2>1. CASE Register
    BY <2>1 DEF Register, LoadIInv, TypeOK, Roles
  <2>2. CASE ~Register
    BY <2>2 DEF Next, NoMaterial, PassOver, TakeFile, ListDirectory, ListingFails, ReadNext,
                Spoil, Return, vars
  <2> QED BY <2>1, <2>2
<1> QED BY <1>1, LoadInvariance, PTL DEF Spec, RolesStayApart

-----------------------------------------------------------------------------
(* What is under a role's path, as long as nothing has been tampered with. *)
Sound(r) ==
  /\ files[r] \in [Names -> Objects \cup {Absent}]
  /\ \A n \in Names : \/ argument[r] = "directory"
                      \/ files[r][n] = Absent
                      \/ n = TheFile /\ argument[r] = "file"

Offered(r) == {n \in Names : /\ files[r][n] # Absent
                             /\ argument[r] = "directory" => ~Hidden(files[r][n])}

(* Every file offered under the role is among those taken, which are there *)
(* as they were; one that is gone will not be read.                        *)
Covered(r) ==
  /\ argument[r] # "none" => DOMAIN taken[r] # {}
  /\ DOMAIN taken[r] \subseteq Names
  /\ \A n \in Offered(r) : files[r][n].resolves = "file" => n \in DOMAIN taken[r]
  /\ \A n \in DOMAIN taken[r] : /\ taken[r][n] = files[r][n]
                                /\ files[r][n] # Absent => n \in Offered(r)

(* All but some have been parsed.                                          *)
ParsedAllBut(r, left) ==
  \A n \in DOMAIN taken[r] \ left : files[r][n] # Absent /\ Parsed(files[r][n])

Refused ==
  \/ argument[role] = "directory" /\ Candidates(role) = {}
  \/ \E n \in Offered(role) : ~Parsed(files[role][n])

JunkInv ==
  spoiled = {} =>
    /\ \A r \in Roles : Sound(r)
    /\ role = "intermediates" => Covered("anchors") /\ ParsedAllBut("anchors", {})
    /\ phase = "read" =>
         Covered(role) /\ ParsedAllBut(role, queue) /\ argument[role] # "none"
    /\ phase = "loaded" => Covered("intermediates") /\ ParsedAllBut("intermediates", {})
    /\ phase = "TrustStoreError" => Refused

(* Nothing has been tampered with at first.                                *)
LEMMA InitJunk == Init => JunkInv
<1> SUFFICES ASSUME Init PROVE JunkInv
  OBVIOUS
<1>1. \A r \in Roles : Sound(r)
  BY DEF Init, Sound
<1> QED BY <1>1 DEF Init, JunkInv

(* A role without a flag offers nothing.                                   *)
LEMMA NothingOffered ==
  ASSUME NEW r \in Roles, Sound(r), argument[r] = "none", taken[r] = << >>
  PROVE  Covered(r) /\ ParsedAllBut(r, {})
BY DEF Sound, Covered, ParsedAllBut, Offered

(* What was parsed holds a certificate, so that a role is never registered *)
(* empty for want of one.                                                  *)
LEMMA ParsedHoldsCertificates ==
  ASSUME NEW o \in Objects, Parsed(o)
  PROVE  o.certs # {} /\ o.form # "junk"
BY ObjectsAssumption DEF Parsed

(* What is established of a role lasts until its files or its list change. *)
LEMMA Lasting ==
  ASSUME NEW r \in Roles, UNCHANGED <<argument, files>>, taken'[r] = taken[r]
  PROVE  /\ Sound(r) => Sound(r)'
         /\ Covered(r) => Covered(r)'
         /\ ParsedAllBut(r, {}) => ParsedAllBut(r, {})'
<1>1. Offered(r)' = Offered(r)
  BY DEF Offered
<1> QED BY <1>1 DEF Sound, Covered, ParsedAllBut

(* Everything offered under a role is taken at once.                       *)
LEMMA JunkTake ==
  ASSUME LoadIInv, JunkInv, phase = "open", argument[role] # "none",
         NEW names \in SUBSET Names, Take(names), UNCHANGED <<given, role, read, certs, store>>,
         names # {}, spoiled = {},
         \A n \in Offered(role) : files[role][n].resolves = "file" => n \in names,
         \A n \in names : files[role][n] # Absent => n \in Offered(role)
  PROVE  JunkInv'
<1>1. /\ taken' = [taken EXCEPT ![role] = [n \in names |-> files[role][n]]]
      /\ queue' = names /\ phase' = "read"
      /\ UNCHANGED <<argument, files, spoiled, role>>
  BY DEF Take, given
<1>2. role \in Roles /\ DOMAIN taken = Roles
  BY DEF LoadIInv, TypeOK
<1>3. /\ taken'[role] = [n \in names |-> files[role][n]]
      /\ \A r \in Roles \ {role} : taken'[r] = taken[r]
  BY <1>1, <1>2
<1>4. \A r \in Roles : Sound(r)'
  BY <1>1 DEF JunkInv, Sound
<1>5. ASSUME NEW r \in Roles, r = role
      PROVE  Covered(r)' /\ ParsedAllBut(r, queue)'
  <2>1. Offered(r)' = Offered(r)
    BY <1>1 DEF Offered
  <2>2. DOMAIN taken'[r] = names /\ \A n \in names : taken'[r][n] = files'[r][n]
    BY <1>1, <1>3, <1>5
  <2>3. Covered(r)'
    BY <1>1, <1>5, <2>1, <2>2 DEF Covered
  <2> QED BY <1>1, <2>2, <2>3 DEF ParsedAllBut
<1>6. role = "intermediates" => Covered("anchors")' /\ ParsedAllBut("anchors", {})'
  BY <1>1, <1>3, Lasting DEF JunkInv, Roles
<1> QED BY <1>1, <1>2, <1>4, <1>5, <1>6 DEF JunkInv

(* What does not parse ends the run, and the rest stays as it was.         *)
LEMMA JunkRead ==
  ASSUME LoadIInv, JunkInv, ReadNext, spoiled = {}
  PROVE  JunkInv'
<1>1. PICK n \in queue :
        \/ ~Readable(files[role][n]) /\ phase' = "FileReadError"
        \/ /\ Readable(files[role][n]) /\ ~Parsed(files[role][n])
           /\ phase' = "TrustStoreError"
        \/ /\ Readable(files[role][n]) /\ Parsed(files[role][n])
           /\ queue' = queue \ {n}
           /\ phase' = phase
  BY DEF ReadNext
<1>2. phase = "read" /\ UNCHANGED <<argument, files, spoiled, role, taken>>
  BY DEF ReadNext, given
<1>3. role \in Roles /\ queue \subseteq DOMAIN taken[role]
  BY DEF LoadIInv, TypeOK
<1>4. \A r \in Roles : Sound(r)'
  BY <1>2, Lasting DEF JunkInv
<1>5. role = "intermediates" => Covered("anchors")' /\ ParsedAllBut("anchors", {})'
  BY <1>2, Lasting DEF JunkInv, Roles
<1>6. ASSUME NEW r \in Roles, r = role
      PROVE  Covered(r)'
  BY <1>2, <1>6, Lasting DEF JunkInv
<1>7. CASE phase' = "FileReadError"
  BY <1>2, <1>4, <1>5, <1>7 DEF JunkInv
<1>8. CASE Readable(files[role][n]) /\ ~Parsed(files[role][n]) /\ phase' = "TrustStoreError"
  <2>1. n \in Offered(role)
    BY <1>2, <1>3, <1>8 DEF JunkInv, Covered, Readable
  <2>2. Refused'
    BY <1>2, <1>8, <2>1 DEF Refused, Offered
  <2> QED BY <1>2, <1>4, <1>5, <1>8, <2>2 DEF JunkInv
<1>9. CASE /\ Readable(files[role][n]) /\ Parsed(files[role][n])
           /\ queue' = queue \ {n}
           /\ phase' = phase
  <2>1. ASSUME NEW r \in Roles, r = role PROVE ParsedAllBut(r, queue)'
    BY <1>2, <1>9, <2>1 DEF JunkInv, ParsedAllBut, Readable
  <2> QED BY <1>2, <1>3, <1>4, <1>5, <1>6, <1>9, <2>1 DEF JunkInv
<1> QED BY <1>1, <1>7, <1>8, <1>9

(* A role whose files have all been parsed is not registered empty.        *)
LEMMA JunkRegister ==
  ASSUME LoadIInv, JunkInv, Register, spoiled = {}
  PROVE  JunkInv'
<1>1. phase = "read" /\ queue = {} /\ UNCHANGED <<argument, files, spoiled, taken, queue>>
  BY DEF Register, given
<1>2. role \in Roles /\ Covered(role) /\ ParsedAllBut(role, {}) /\ Sound(role)
  BY <1>1 DEF LoadIInv, TypeOK, JunkInv
<1>3. argument[role] # "none" => certs # {}
  <2> SUFFICES ASSUME argument[role] # "none" PROVE certs # {}
    OBVIOUS
  <2>1. PICK n \in DOMAIN taken[role] : TRUE
    BY <1>2 DEF Covered
  <2>2. /\ files[role][n] \in Objects /\ Parsed(files[role][n])
        /\ taken[role][n] = files[role][n]
    BY <1>2, <2>1 DEF Covered, ParsedAllBut, Sound
  <2>3. taken[role][n].certs # {}
    BY <2>2, ParsedHoldsCertificates
  <2>4. /\ certs = UNION {read[role][m].certs : m \in DOMAIN taken[role]}
        /\ read[role][n] = taken[role][n]
    BY <1>1, <2>1 DEF LoadIInv, LoadInv, ReadWell
  <2> QED BY <2>1, <2>3, <2>4
<1>4. argument[role] # "none"
  BY <1>1 DEF JunkInv
<1>5. phase' = (IF role = "anchors" THEN "open" ELSE "loaded") /\ role' = "intermediates"
  BY <1>3, <1>4 DEF Register
<1>6. \A r \in Roles : /\ Sound(r)'
                       /\ Covered(r) => Covered(r)'
                       /\ ParsedAllBut(r, {}) => ParsedAllBut(r, {})'
  BY <1>1, Lasting DEF JunkInv
<1> QED BY <1>1, <1>2, <1>5, <1>6 DEF JunkInv, Roles

(* Every step keeps it, as long as nothing is tampered with.               *)
LEMMA JunkStep == LoadIInv /\ JunkInv /\ [Next]_vars => JunkInv'
<1> SUFFICES ASSUME LoadIInv, JunkInv, [Next]_vars, spoiled' = {} PROVE JunkInv'
  BY DEF JunkInv
<1> spoiled = {}
  BY DEF Next, vars, given, NoMaterial, PassOver, TakeFile, ListDirectory, ListingFails,
         ReadNext, Register, Spoil, Return
<1>0. role \in Roles /\ \A r \in Roles : Sound(r)
  BY DEF LoadIInv, TypeOK, JunkInv
<1>1. ASSUME UNCHANGED <<argument, files, spoiled, taken>>
      PROVE  \A r \in Roles : /\ Sound(r)'
                              /\ Covered(r) => Covered(r)'
                              /\ ParsedAllBut(r, {}) => ParsedAllBut(r, {})'
  BY <1>0, <1>1, Lasting
<1>2. CASE NoMaterial
  BY <1>1, <1>2 DEF NoMaterial, given, JunkInv, Roles
<1>3. CASE PassOver
  <2>1. Covered(role) /\ ParsedAllBut(role, {})
    BY <1>0, <1>3, NothingOffered DEF PassOver, LoadIInv, LoadInv, Untouched
  <2> QED BY <1>0, <1>1, <1>3, <2>1 DEF PassOver, given, JunkInv, Roles
<1>4. CASE TakeFile
  <2>1. TheFile \in Names
    BY ObjectsAssumption DEF TheFile
  <2>2. \A n \in Offered(role) : n = TheFile
    BY <1>0, <1>4 DEF TakeFile, Sound, Offered
  <2>3. files[role][TheFile] # Absent => TheFile \in Offered(role)
    BY <1>4, <2>1 DEF TakeFile, Offered
  <2> QED BY <1>4, <2>1, <2>2, <2>3, JunkTake DEF TakeFile
<1>5. CASE ListDirectory
  <2>1. CASE Candidates(role) = {}
    <3>1. Refused'
      BY <1>5, <2>1 DEF ListDirectory, given, Refused, Candidates
    <3> QED BY <1>0, <1>1, <1>5, <2>1, <3>1 DEF ListDirectory, given, JunkInv, Roles
  <2>2. CASE Candidates(role) # {}
    <3>1. Candidates(role) \in SUBSET Names
      BY DEF Candidates
    <3>2. \A n \in Offered(role) : files[role][n].resolves = "file" => n \in Candidates(role)
      BY <1>5 DEF ListDirectory, Offered, Candidates
    <3>3. \A n \in Candidates(role) : n \in Offered(role)
      BY DEF Offered, Candidates
    <3> QED BY <1>5, <2>2, <3>1, <3>2, <3>3, JunkTake DEF ListDirectory
  <2> QED BY <2>1, <2>2
<1>6. CASE ListingFails
  BY <1>0, <1>1, <1>6 DEF ListingFails, given, JunkInv, Roles
<1>7. CASE Spoil
  BY <1>7 DEF Spoil
<1>8. CASE UNCHANGED vars
  <2>1. ParsedAllBut(role, queue)' <=> ParsedAllBut(role, queue)
    BY <1>8 DEF vars, given, ParsedAllBut
  <2>2. Refused' <=> Refused
    BY <1>8 DEF vars, given, Refused, Candidates, Offered
  <2>3. Covered(role)' <=> Covered(role)
    BY <1>8 DEF vars, given, Covered, Offered
  <2> QED BY <1>0, <1>1, <1>8, <2>1, <2>2, <2>3 DEF vars, given, JunkInv, Roles
<1> QED
  BY <1>2, <1>3, <1>4, <1>5, <1>6, <1>7, <1>8, JunkRead, JunkRegister DEF Next, Return

(* A file that holds no certificate ends the run, and nothing else does    *)
(* but a directory without any file.                                       *)
THEOREM JunkAlwaysRefused == Spec => []JunkIsRefused
<1>1. LoadIInv /\ JunkInv => JunkIsRefused
  <2> SUFFICES ASSUME LoadIInv, JunkInv, spoiled = {}
               PROVE  /\ phase = "loaded" =>
                           \A r \in Roles : \A n \in Offered(r) :
                             files[r][n].resolves = "file" => files[r][n].form # "junk"
                      /\ phase = "TrustStoreError" => Refused
    BY DEF JunkIsRefused, Offered, Refused
  <2>1. ASSUME NEW r \in Roles, NEW n \in Offered(r), files[r][n].resolves = "file",
               phase = "loaded"
        PROVE  files[r][n].form # "junk"
    <3>1. Covered(r) /\ ParsedAllBut(r, {}) /\ Sound(r)
      BY <2>1 DEF LoadIInv, LoadInv, TypeOK, JunkInv, Roles
    <3>2. n \in DOMAIN taken[r] /\ n \in Names /\ files[r][n] # Absent
      BY <2>1, <3>1 DEF Covered, Offered
    <3> QED BY <3>1, <3>2, ParsedHoldsCertificates DEF ParsedAllBut, Sound
  <2> QED BY <2>1 DEF JunkInv
<1> QED BY <1>1, InitJunk, JunkStep, LoadInvariance, PTL DEF Spec
=============================================================================
