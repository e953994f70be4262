------------------------- MODULE BlockLookup_proofs -------------------------
(* What the block-header lookup guarantees for any endpoints, any world of *)
(* blocks and any TTL and timeout, with at most one faulty endpoint.       *)
EXTENDS LookupService, TLAPS

(* Two agreeing reports filed under one height contain an honest one, and  *)
(* agreement carries its header to all of them.                            *)
LEMMA HonestReportDecides ==
  ASSUME NEW R \in SUBSET Reports, NEW h \in Heights,
         Filed(R, h), Several(R), SourcesAgree(R)
  PROVE  \A r \in R : r.header \in Blocks /\ r.header.height = h
<1> TAKE r \in R
<1>1. PICK s \in R : s.source \notin Faulty
  BY LoneFaultAssumption DEF Several
<1>2. s.header \in Blocks /\ s.header.height = h /\ r.header.height = h
  BY <1>1 DEF Filed
<1>3. /\ r.header.time = s.header.time
      /\ r.header.hash = s.header.hash
      /\ r.header.root = s.header.root
  BY DEF SourcesAgree, AgreesWith
<1>4. r.header \in Headers /\ s.header \in Headers
  BY DEF Reports
<1>5. r.header = s.header
  BY <1>2, <1>3, <1>4 DEF Headers
<1> QED BY <1>2, <1>5

(* An honest detail that passes the binding check is published unchanged.  *)
LEMMA BoundDetailIsItself ==
  ASSUME NEW c \in Headers, NEW h \in Heights, NEW a \in Hashes, DetailBound(c, h, a)
  PROVE  TwoStepInfo(h, a, c) = c
BY DEF DetailBound, TwoStepInfo, Headers

(* Whatever an endpoint answers has the shape of a header.                 *)
LEMMA AnswersAreHeaders == \A p \in Providers : Answers(p) \subseteq Headers
BY BlocksAssumption DEF Answers

-----------------------------------------------------------------------------
(* The process starts with an empty cache and nothing under way, and the   *)
(* strengthened invariant holds.                                           *)
LEMMA InitIInv == Init => IInv
<1> SUFFICES ASSUME Init PROVE IInv
  OBVIOUS
<1>1. query \in Queries /\ query.asked = 0 /\ query.height \in Heights
  BY DEF Init, Queries
<1>2. outcome.kind = "None" /\ outcome.reports = {} /\ outcome \in Outcomes
  BY <1>1 DEF Init, NoOutcome, Outcomes, Kinds
<1>3. TypeOK
  BY <1>1, <1>2 DEF Init, TypeOK
<1>4. FiledInv
  BY <1>2 DEF Init, FiledInv, Filed, Corroborated
<1>5. DueInv /\ EntryInv
  BY <1>1, TimeAssumption DEF Init, DueInv, EntryInv
<1>6. StalenessBounded /\ ShortfallIsRetried
  BY <1>2 DEF StalenessBounded, ShortfallIsRetried, Corroborated
<1> QED BY <1>3, <1>4, <1>5, <1>6 DEF IInv

(* TypeOK is inductive together with nothing else. *)
LEMMA TypeStep == TypeOK /\ [Next]_vars => TypeOK'
<1> SUFFICES ASSUME TypeOK, [Next]_vars PROVE TypeOK'
  OBVIOUS
<1> USE TimeAssumption, BlocksAssumption
<1>1. ASSUME NEW h \in Heights, CacheHit(h) PROVE TypeOK'
  BY <1>1 DEF TypeOK, CacheHit, FreshEntries, Entries, Outcomes, Kinds, Queries
<1>2. ASSUME NEW h \in Heights, NoClient(h) PROVE TypeOK'
  BY <1>2 DEF TypeOK, NoClient, Outcomes, Kinds, Queries
<1>3. ASSUME NEW h \in Heights, Ask(h) PROVE TypeOK'
  BY <1>3 DEF TypeOK, Ask, NoOutcome, Outcomes, Kinds, Queries, Requests
<1>4. ASSUME NEW p \in Providers, HashAnswer(p) PROVE TypeOK'
  <2>1. PICK q \in requests, c \in Answers(p) :
          requests' = (requests \ {q}) \cup
                      {[source |-> p, about |-> c.hash, due |-> now + Timeout]}
    BY <1>4 DEF HashAnswer
  <2>2. c.hash \in Hashes
    BY AnswersAreHeaders DEF Headers
  <2>3. requests' \subseteq Requests
    BY <2>1, <2>2 DEF TypeOK, Requests
  <2> QED BY <1>4, <2>3 DEF TypeOK, HashAnswer
<1>5. ASSUME NEW p \in Providers, DetailAnswer(p) PROVE TypeOK'
  <2>1. PICK q \in requests, c \in Answers(p) :
          /\ q.about # Unnamed
          /\ requests' = requests \ {q}
          /\ \/ reports' = reports
             \/ reports' = reports \cup
                  {[source |-> p, header |-> TwoStepInfo(query.height, q.about, c)]}
    BY <1>5 DEF DetailAnswer
  <2>2. c \in Headers /\ q.about \in Hashes /\ query.height \in Heights
    BY <2>1, AnswersAreHeaders DEF TypeOK, Requests, Queries
  <2>3. TwoStepInfo(query.height, q.about, c) \in Headers
    BY <2>2 DEF TwoStepInfo, Headers
  <2>4. reports' \subseteq Reports /\ requests' \subseteq Requests
    BY <2>1, <2>3 DEF TypeOK, Reports
  <2> QED BY <1>5, <2>4 DEF TypeOK, DetailAnswer
<1>6. ASSUME NEW p \in Providers, SingleAnswer(p) PROVE TypeOK'
  <2>1. PICK q \in requests, c \in Answers(p) :
          /\ requests' = requests \ {q}
          /\ \/ reports' = reports
             \/ reports' = reports \cup
                  {[source |-> p, header |-> [c EXCEPT !.height = query.height]]}
    BY <1>6 DEF SingleAnswer
  <2>2. c \in Headers /\ query.height \in Heights
    BY AnswersAreHeaders DEF TypeOK, Queries
  <2>3. [c EXCEPT !.height = query.height] \in Headers
    BY <2>2 DEF Headers
  <2>4. reports' \subseteq Reports /\ requests' \subseteq Requests
    BY <2>1, <2>3 DEF TypeOK, Reports
  <2> QED BY <1>6, <2>4 DEF TypeOK, SingleAnswer
<1>7. ASSUME NEW p \in Providers, RequestFails(p) PROVE TypeOK'
  BY <1>7 DEF TypeOK, RequestFails
<1>8. ASSUME NEW p \in Providers, RequestExpires(p) PROVE TypeOK'
  BY <1>8 DEF TypeOK, RequestExpires
<1>9. ASSUME Conclude PROVE TypeOK'
  <2>1. Classify(reports) \in Kinds
    BY DEF Classify, Kinds
  <2>2. outcome' \in Outcomes
    BY <1>9, <2>1 DEF TypeOK, Conclude, Outcomes, Queries
  <2>3. cache' \subseteq Entries
    BY <1>9 DEF TypeOK, Conclude, Insert, Entries, Queries
  <2> QED BY <1>9, <2>2, <2>3 DEF TypeOK, Conclude
<1>10. ASSUME Tick PROVE TypeOK'
  BY <1>10 DEF TypeOK, Tick
<1>11. ASSUME UNCHANGED vars PROVE TypeOK'
  BY <1>11 DEF TypeOK, vars
<1> QED
  BY <1>1, <1>2, <1>3, <1>4, <1>5, <1>6, <1>7, <1>8, <1>9, <1>10, <1>11 DEF Next

(* Every state of the lookup is well typed. *)
THEOREM TypeCorrect == Spec => []TypeOK
<1>1. Init => TypeOK
  BY InitIInv DEF IInv
<1> QED BY <1>1, TypeStep, PTL DEF Spec

-----------------------------------------------------------------------------
(* The reports, wherever they are kept, stay filed under their height. *)
LEMMA FiledStep == IInv /\ [Next]_vars => FiledInv'
<1> SUFFICES ASSUME IInv, [Next]_vars PROVE FiledInv'
  OBVIOUS
<1> USE DEF IInv
<1>1. ASSUME NEW h \in Heights, CacheHit(h) PROVE FiledInv'
  <2>1. PICK e \in cache :
          /\ e.height = h
          /\ outcome' = [kind |-> "Corroborated", height |-> h, reports |-> e.reports,
                         asked |-> e.asked, at |-> now]
    BY <1>1 DEF CacheHit, FreshEntries
  <2>2. reports = {} /\ reports' = {} /\ cache' = cache
    BY <1>1 DEF CacheHit, DueInv
  <2> QED BY <2>1, <2>2 DEF FiledInv, Filed, Corroborated, Several, SourcesAgree
<1>2. ASSUME NEW h \in Heights, NoClient(h) PROVE FiledInv'
  BY <1>2 DEF FiledInv, DueInv, NoClient, Filed, Corroborated
<1>3. ASSUME NEW h \in Heights, Ask(h) PROVE FiledInv'
  BY <1>3 DEF FiledInv, DueInv, Ask, NoOutcome, Filed, Corroborated
<1>4. ASSUME NEW p \in Providers, HashAnswer(p) PROVE FiledInv'
  BY <1>4 DEF FiledInv, HashAnswer, Filed, Corroborated, Several, SourcesAgree
<1>5. ASSUME NEW p \in Providers, DetailAnswer(p) PROVE FiledInv'
  <2>1. PICK q \in requests, c \in Answers(p) :
          /\ q.about # Unnamed
          /\ \/ reports' = reports
             \/ /\ DetailBound(c, query.height, q.about)
                /\ reports' = reports \cup
                     {[source |-> p, header |-> TwoStepInfo(query.height, q.about, c)]}
    BY <1>5 DEF DetailAnswer
  <2>2. c \in Headers /\ q.about \in Hashes /\ query.height \in Heights
    BY <2>1, AnswersAreHeaders DEF TypeOK, Requests, Queries
  <2>3. \/ reports' = reports
        \/ /\ c.height = query.height
           /\ reports' = reports \cup {[source |-> p, header |-> c]}
    BY <2>1, <2>2, BoundDetailIsItself DEF DetailBound
  <2>4. p \notin Faulty => c \in Blocks
    BY DEF Answers
  <2>5. Filed(reports', query.height)
    BY <2>3, <2>4 DEF FiledInv, Filed
  <2> QED BY <1>5, <2>5 DEF FiledInv, DetailAnswer
<1>6. ASSUME NEW p \in Providers, SingleAnswer(p) PROVE FiledInv'
  <2>1. PICK q \in requests, c \in Answers(p) :
          \/ reports' = reports
          \/ /\ c.height = query.height
             /\ reports' = reports \cup
                  {[source |-> p, header |-> [c EXCEPT !.height = query.height]]}
    BY <1>6 DEF SingleAnswer, SingleBound
  <2>2. c \in Headers
    BY AnswersAreHeaders
  <2>3. c.height = query.height => [c EXCEPT !.height = query.height] = c
    BY <2>2 DEF Headers
  <2>4. p \notin Faulty => c \in Blocks
    BY DEF Answers
  <2>5. Filed(reports', query.height)
    BY <2>1, <2>3, <2>4 DEF FiledInv, Filed
  <2> QED BY <1>6, <2>5 DEF FiledInv, SingleAnswer
<1>7. ASSUME NEW p \in Providers, RequestFails(p) PROVE FiledInv'
  BY <1>7 DEF FiledInv, RequestFails
<1>8. ASSUME NEW p \in Providers, RequestExpires(p) PROVE FiledInv'
  BY <1>8 DEF FiledInv, RequestExpires
<1>9. ASSUME Conclude PROVE FiledInv'
  <2>1. Filed(reports', query'.height) /\ Filed(outcome'.reports, outcome'.height)
    BY <1>9 DEF Conclude, FiledInv, Filed
  <2>2. Classify(reports) = "Corroborated" => Several(reports) /\ SourcesAgree(reports)
    BY DEF Classify
  <2>3. Corroborated(outcome') => Several(outcome'.reports) /\ SourcesAgree(outcome'.reports)
    BY <1>9, <2>2 DEF Conclude, Corroborated
  <2>4. ASSUME NEW e \in cache'
        PROVE  Filed(e.reports, e.height) /\ Several(e.reports) /\ SourcesAgree(e.reports)
    <3>1. CASE e \in cache
      BY <3>1 DEF FiledInv
    <3>2. CASE e \notin cache
      <4>1. /\ Classify(reports) = "Corroborated"
            /\ e = [height |-> query.height, reports |-> reports,
                    asked |-> query.asked, fetchedAt |-> now]
        BY <1>9, <2>4, <3>2 DEF Conclude, Insert
      <4> QED BY <4>1, <2>2 DEF FiledInv
    <3> QED BY <3>1, <3>2
  <2> QED BY <2>1, <2>3, <2>4 DEF FiledInv
<1>10. ASSUME Tick PROVE FiledInv'
  BY <1>10 DEF FiledInv, Tick
<1>11. ASSUME UNCHANGED vars PROVE FiledInv'
  BY <1>11 DEF FiledInv, vars
<1> QED
  BY <1>1, <1>2, <1>3, <1>4, <1>5, <1>6, <1>7, <1>8, <1>9, <1>10, <1>11 DEF Next

-----------------------------------------------------------------------------
(* Time: how far the clock, a request's deadline, an entry's stamp and a   *)
(* finished lookup can be from the moment the question was put.            *)
LEMMA DueStep == IInv /\ [Next]_vars => DueInv'
<1> SUFFICES ASSUME IInv, [Next]_vars PROVE DueInv'
  OBVIOUS
<1> USE TimeAssumption DEF IInv
<1>0. /\ now \in Nat
      /\ query.asked \in Nat
      /\ \A q \in requests : q.due \in Nat /\ q.about \in Hashes \cup {Unnamed}
  BY DEF TypeOK, Queries, Requests
<1>1. ASSUME NEW h \in Heights, CacheHit(h) PROVE DueInv'
  BY <1>0, <1>1 DEF DueInv, CacheHit
<1>2. ASSUME NEW h \in Heights, NoClient(h) PROVE DueInv'
  BY <1>0, <1>2 DEF DueInv, NoClient
<1>3. ASSUME NEW h \in Heights, Ask(h) PROVE DueInv'
  BY <1>0, <1>3 DEF DueInv, Ask
<1>4. ASSUME NEW p \in Providers, HashAnswer(p) PROVE DueInv'
  <2>1. PICK q \in requests, c \in Answers(p) :
          /\ q.about = Unnamed
          /\ requests' = (requests \ {q}) \cup
                         {[source |-> p, about |-> c.hash, due |-> now + Timeout]}
    BY <1>4 DEF HashAnswer
  <2>2. c.hash # Unnamed
    BY AnswersAreHeaders, BlocksAssumption DEF Headers
  <2>3. now <= query.asked + Timeout
    BY <2>1, <1>0 DEF DueInv
  <2> QED BY <1>0, <1>4, <2>1, <2>2, <2>3 DEF DueInv, HashAnswer
<1>5. ASSUME NEW p \in Providers, DetailAnswer(p) PROVE DueInv'
  BY <1>0, <1>5 DEF DueInv, DetailAnswer
<1>6. ASSUME NEW p \in Providers, SingleAnswer(p) PROVE DueInv'
  BY <1>0, <1>6 DEF DueInv, SingleAnswer
<1>7. ASSUME NEW p \in Providers, RequestFails(p) PROVE DueInv'
  BY <1>0, <1>7 DEF DueInv, RequestFails
<1>8. ASSUME NEW p \in Providers, RequestExpires(p) PROVE DueInv'
  BY <1>0, <1>8 DEF DueInv, RequestExpires
<1>9. ASSUME Conclude PROVE DueInv'
  BY <1>0, <1>9 DEF DueInv, Conclude
<1>10. ASSUME Tick PROVE DueInv'
  BY <1>0, <1>10 DEF DueInv, Tick
<1>11. ASSUME UNCHANGED vars PROVE DueInv'
  BY <1>11 DEF DueInv, vars
<1> QED
  BY <1>1, <1>2, <1>3, <1>4, <1>5, <1>6, <1>7, <1>8, <1>9, <1>10, <1>11 DEF Next

(* Only three kinds of step touch what EntryInv and the two invariants on  *)
(* the outcome speak of; the others leave clock, cache and outcome alone.  *)
LEMMA QuietSteps ==
  [Next]_vars =>
    \/ \E h \in Heights : CacheHit(h) \/ NoClient(h) \/ Ask(h)
    \/ Conclude
    \/ Tick
    \/ UNCHANGED <<now, cache, busy, query, outcome>>
BY DEF Next, vars, HashAnswer, DetailAnswer, SingleAnswer, RequestFails, RequestExpires

(* Entries, the age of what was served and the emptiness left by a         *)
(* shortfall survive every step: a hit shows an entry younger than TTL,    *)
(* whose question was put at most two timeouts before its stamp.           *)
LEMMA TimeStep ==
  IInv /\ [Next]_vars => EntryInv' /\ StalenessBounded' /\ ShortfallIsRetried'
<1> SUFFICES ASSUME IInv, [Next]_vars
             PROVE  EntryInv' /\ StalenessBounded' /\ ShortfallIsRetried'
  OBVIOUS
<1> USE TimeAssumption DEF IInv, EntryInv, StalenessBounded, ShortfallIsRetried,
                           Corroborated, EntryIsFresh
<1>0. /\ now \in Nat
      /\ query.asked \in Nat
      /\ outcome.at \in Nat /\ outcome.asked \in Nat
      /\ \A e \in cache : e.asked \in Nat /\ e.fetchedAt \in Nat
  BY DEF TypeOK, Queries, Entries, Outcomes
<1>1. ASSUME NEW h \in Heights, CacheHit(h)
      PROVE  EntryInv' /\ StalenessBounded' /\ ShortfallIsRetried'
  <2>1. PICK e \in cache :
          /\ now - e.fetchedAt < TTL
          /\ outcome' = [kind |-> "Corroborated", height |-> h, reports |-> e.reports,
                         asked |-> e.asked, at |-> now]
    BY <1>1 DEF CacheHit, FreshEntries
  <2>2. now - e.asked < TTL + 2 * Timeout
    BY <1>0, <2>1
  <2> QED BY <1>0, <1>1, <2>1, <2>2 DEF CacheHit
<1>2. ASSUME NEW h \in Heights, NoClient(h)
      PROVE  EntryInv' /\ StalenessBounded' /\ ShortfallIsRetried'
  BY <1>0, <1>2 DEF NoClient, FreshEntries
<1>3. ASSUME NEW h \in Heights, Ask(h)
      PROVE  EntryInv' /\ StalenessBounded' /\ ShortfallIsRetried'
  <2>1. \A e \in cache : e.height = h => ~(now - e.fetchedAt < TTL)
    BY <1>3 DEF Ask, FreshEntries
  <2>2. /\ outcome'.kind = "None"
        /\ query'.height = h
        /\ now' = now /\ cache' = cache
    BY <1>3 DEF Ask, NoOutcome
  <2> QED BY <1>0, <2>1, <2>2
<1>4. ASSUME Conclude
      PROVE  EntryInv' /\ StalenessBounded' /\ ShortfallIsRetried'
  <2>1. now <= query.asked + 2 * Timeout /\ query.asked <= now
    BY <1>4 DEF Conclude, DueInv
  <2>2. /\ outcome'.kind = Classify(reports)
        /\ outcome'.height = query.height
        /\ outcome'.asked = query.asked
        /\ outcome'.at = now
        /\ now' = now /\ query' = query /\ busy' = FALSE
    BY <1>4 DEF Conclude
  <2>3. CASE Classify(reports) = "Corroborated"
    <3> DEFINE new == [height |-> query.height, reports |-> reports,
                       asked |-> query.asked, fetchedAt |-> now]
    <3>0. cache' = {d \in cache : d.height # new.height} \cup {new}
      BY <1>4, <2>3 DEF Conclude, Insert
    <3>a. new.asked = query.asked /\ new.fetchedAt = now
      OBVIOUS
    <3> HIDE DEF new
    <3>1. \A e \in cache' : e \in cache \/ e = new
      BY <3>0
    <3>2. \A e \in cache' : /\ e.asked <= e.fetchedAt
                           /\ e.fetchedAt <= now
                           /\ e.fetchedAt <= e.asked + 2 * Timeout
      BY <1>0, <2>1, <3>1, <3>a
    <3>3. EntryInv'
      BY <2>2, <3>2
    <3>4. now - query.asked < TTL + 2 * Timeout
      BY <1>0, <2>1
    <3>5. StalenessBounded' /\ ShortfallIsRetried'
      BY <2>2, <2>3, <3>4
    <3> QED BY <3>3, <3>5
  <2>4. CASE Classify(reports) # "Corroborated"
    <3>1. cache' = cache
      BY <1>4, <2>4 DEF Conclude
    <3>2. \A e \in cache : e.height = query.height => now - e.fetchedAt >= TTL
      BY <1>0, <1>4 DEF Conclude
    <3> QED BY <1>0, <2>2, <2>4, <3>1, <3>2
  <2> QED BY <2>3, <2>4
<1>5. ASSUME Tick
      PROVE  EntryInv' /\ StalenessBounded' /\ ShortfallIsRetried'
  BY <1>0, <1>5 DEF Tick
<1>6. ASSUME UNCHANGED <<now, cache, busy, query, outcome>>
      PROVE  EntryInv' /\ StalenessBounded' /\ ShortfallIsRetried'
  BY <1>6
<1> QED BY <1>1, <1>2, <1>3, <1>4, <1>5, <1>6, QuietSteps

(* The strengthened invariant holds in every reachable state.              *)
LEMMA Invariance == Spec => []IInv
<1>1. IInv /\ [Next]_vars => IInv'
  BY TypeStep, FiledStep, DueStep, TimeStep DEF IInv
<1> QED BY InitIInv, <1>1, PTL DEF Spec

-----------------------------------------------------------------------------
(* One faulty endpoint cannot have a header that is no block's presented   *)
(* as corroborated, neither by a lookup nor out of the cache.              *)
THEOREM OneFaultCannotForge == Spec => []LoneFaultNeverForges
<1>1. IInv => LoneFaultNeverForges
  <2> SUFFICES ASSUME IInv, Corroborated(outcome)
               PROVE  \A r \in outcome.reports :
                        r.header \in Blocks /\ r.header.height = outcome.height
    BY DEF LoneFaultNeverForges
  <2>1. outcome.reports \in SUBSET Reports /\ outcome.height \in Heights
    BY DEF IInv, TypeOK, Outcomes
  <2>2. /\ Filed(outcome.reports, outcome.height)
        /\ Several(outcome.reports)
        /\ SourcesAgree(outcome.reports)
    BY DEF IInv, FiledInv
  <2> QED BY <2>1, <2>2, HonestReportDecides
<1> QED BY <1>1, Invariance, PTL

(* An honest endpoint's report is a block's own header, wherever it is     *)
(* kept.                                                                   *)
THEOREM HonestReportsAreWhole == Spec => []NoChimera
<1>1. IInv => NoChimera
  BY DEF IInv, FiledInv, Filed, NoChimera
<1> QED BY <1>1, Invariance, PTL

(* A header is served for less than TTL plus two timeouts after it was     *)
(* asked for.                                                              *)
THEOREM ServedHeaderIsRecent == Spec => []StalenessBounded
<1>1. IInv => StalenessBounded
  BY DEF IInv
<1> QED BY <1>1, Invariance, PTL

(* A lookup that fell short of corroboration is repeated in full.          *)
THEOREM ShortfallLeavesNothingFresh == Spec => []ShortfallIsRetried
<1>1. IInv => ShortfallIsRetried
  BY DEF IInv
<1> QED BY <1>1, Invariance, PTL

(* No step replaces a fresh cache entry.                                   *)
THEOREM FreshEntriesAreNeverReplaced == Spec => FreshEntryStands
<1>1. IInv /\ [Next]_vars => [\A e \in cache : EntryIsFresh(e) => e \in cache']_vars
  <2> SUFFICES ASSUME IInv, [Next]_vars, NEW e \in cache, EntryIsFresh(e)
               PROVE  e \in cache'
    OBVIOUS
  <2>1. CASE Conclude
    <3>1. e.height # query.height
      BY <2>1 DEF Conclude, IInv, EntryInv
    <3> QED BY <2>1, <3>1 DEF Conclude, Insert
  <2>2. CASE cache' = cache
    BY <2>2
  <2>3. Conclude \/ cache' = cache
    BY QuietSteps DEF CacheHit, NoClient, Ask, Tick
  <2> QED BY <2>1, <2>2, <2>3
<1> QED BY <1>1, Invariance, PTL DEF Spec, FreshEntryStands

(* Every header that is kept or returned has passed validate_block_time    *)
(* when it came in, on a clock that could be read.                         *)
THEOREM NothingComesFromTheFuture == Spec => []NothingFromTheFuture
<1> DEFINE Kept == reports \cup outcome.reports \cup UNION {e.reports : e \in cache}
           Dated(r) == /\ Genesis <= r.header.time
                       /\ \E wall \in WallReadings \ {NoClock} :
                            r.header.time <= wall + MaxFuture
<1>1. Init => NothingFromTheFuture
  BY DEF Init, NoOutcome, NothingFromTheFuture
<1>2. NothingFromTheFuture /\ [Next]_vars => NothingFromTheFuture'
  <2> SUFFICES ASSUME NothingFromTheFuture, [Next]_vars, NEW r \in Kept'
               PROVE  Dated(r)
    BY DEF NothingFromTheFuture
  <2>0. \A s \in Kept : Dated(s)
    BY DEF NothingFromTheFuture
  <2> HIDE DEF Dated
  <2>1. CASE r \in Kept
    BY <2>0, <2>1
  <2>2. CASE \E p \in Providers : DetailAnswer(p) \/ SingleAnswer(p)
    <3>1. CASE r \in reports' \ reports
      <4>1. PICK p \in Providers, c \in Headers, wall \in WallReadings :
              /\ ValidBlockTime(c.time, wall)
              /\ r.header.time = c.time
        BY <2>2, <3>1, AnswersAreHeaders
           DEF DetailAnswer, SingleAnswer, TwoStepInfo, Headers
      <4> QED BY <4>1 DEF ValidBlockTime, Dated
    <3>2. CASE r \notin reports' \ reports
      BY <2>0, <2>2, <3>2 DEF DetailAnswer, SingleAnswer
    <3> QED BY <3>1, <3>2
  <2>3. CASE ~\E p \in Providers : DetailAnswer(p) \/ SingleAnswer(p)
    <3>1. Kept' \subseteq Kept
      BY <2>3 DEF Next, vars, CacheHit, FreshEntries, NoClient, Ask, NoOutcome, HashAnswer,
                  RequestFails, RequestExpires, Conclude, Insert, Tick
    <3> QED BY <2>0, <3>1
  <2> QED BY <2>1, <2>2, <2>3
<1> QED BY <1>1, <1>2, PTL DEF Spec

-----------------------------------------------------------------------------
(* The lookup with its cache keeps the contract the verification runs rely *)
(* on.                                                                     *)

(* Every read of a corroborated set of reports is an existing block's      *)
(* header, so it does not matter by which report it is read.               *)
LEMMA CorroboratedRead ==
  ASSUME NEW R \in SUBSET Reports, NEW h \in Heights,
         Filed(R, h), Several(R), SourcesAgree(R)
  PROVE  /\ Read("Corroborated", R) \in Verdicts!Lookups(h)
         /\ Read("Corroborated", R).kind = "Corroborated"
         /\ Read("Corroborated", R).header.height = h
<1> DEFINE first == CHOOSE r \in R : TRUE
<1>1. first \in R
  BY DEF Several
<1>2. first.header \in Blocks /\ first.header.height = h
  BY <1>1, HonestReportDecides
<1> HIDE DEF first
<1>3. Judged(first.header) \in {Judged(b) : b \in Blocks} /\ Judged(first.header).height = h
  BY <1>2 DEF Judged
<1>4. Read("Corroborated", R) = Verdicts!Lookup("Corroborated", Judged(first.header))
  BY DEF Read, Verdicts!Lookup, first
<1>5. Verdicts!Lookup("Corroborated", Judged(first.header)) \in Verdicts!Lookups(h)
  BY <1>3 DEF Verdicts!Lookups
<1> QED BY <1>3, <1>4, <1>5 DEF Verdicts!Lookup

(* What comes of any set of reports filed under a height is an answer      *)
(* there can be about that height.                                         *)
LEMMA ClassifiedRead ==
  ASSUME NEW R \in SUBSET Reports, NEW h \in Heights, Filed(R, h)
  PROVE  Read(Classify(R), R) \in Verdicts!Lookups(h)
<1>1. CASE Classify(R) = "Corroborated"
  <2>1. Several(R) /\ SourcesAgree(R)
    BY <1>1 DEF Classify
  <2> QED BY <1>1, <2>1, CorroboratedRead
<1>2. CASE Classify(R) = "Uncorroborated"
  <2> DEFINE first == CHOOSE r \in R : TRUE
  <2>1. first \in R
    BY <1>2 DEF Classify
  <2>2. first.header \in Headers /\ first.header.height = h
    BY <2>1 DEF Reports, Filed
  <2> HIDE DEF first
  <2>3. Judged(first.header) \in Verdicts!Headers /\ Judged(first.header).height = h
    BY <2>2 DEF Judged, Headers, Verdicts!Headers
  <2>4. Read(Classify(R), R) = Verdicts!Lookup("Uncorroborated", Judged(first.header))
    BY <1>2 DEF Read, Verdicts!Lookup, first
  <2> QED BY <2>3, <2>4 DEF Verdicts!Lookups
<1>3. CASE Classify(R) \notin {"Corroborated", "Uncorroborated"}
  <2>1. Classify(R) \in {"Disagreement", "Unavailable"}
    BY <1>3 DEF Classify
  <2>2. Read(Classify(R), R) = Verdicts!Lookup(Classify(R), NoHeader)
    BY <1>3 DEF Read, Verdicts!Lookup
  <2> QED BY <2>1, <2>2 DEF Verdicts!Lookups
<1> QED BY <1>1, <1>2, <1>3

(* The outcome shown is always about the height last asked.                *)
LEMMA OutcomeIsOfQuery == Spec => [](outcome.height = query.height)
<1>1. Init => outcome.height = query.height
  BY DEF Init, NoOutcome
<1>2. outcome.height = query.height /\ [Next]_vars => (outcome.height = query.height)'
  BY QuietSteps DEF CacheHit, NoClient, Ask, NoOutcome, Conclude, Tick
<1> QED BY <1>1, <1>2, PTL DEF Spec

-----------------------------------------------------------------------------
(* An entry put into the cache takes the place of the one remembered about *)
(* its height, and of no other.                                            *)
LEMMA InsertReplaces ==
  ASSUME IInv, NEW e \in Entries,
         Filed(e.reports, e.height), Several(e.reports), SourcesAgree(e.reports)
  PROVE  {Read("Corroborated", d.reports) : d \in Insert(e)} =
           {a \in {Read("Corroborated", d.reports) : d \in cache} :
              a.header.height # e.height} \cup {Read("Corroborated", e.reports)}
<1>1. \A d \in cache : Read("Corroborated", d.reports).header.height = d.height
  <2> TAKE d \in cache
  <2>1. d.reports \in SUBSET Reports /\ d.height \in Heights
    BY DEF IInv, TypeOK, Entries
  <2> QED BY <2>1, CorroboratedRead DEF IInv, FiledInv
<1> QED BY <1>1 DEF Insert

(* Every step of the lookup is a step of the contract, or none.            *)
LEMMA ContractStep ==
  IInv /\ outcome.height = query.height /\ [Next]_vars => [Contract!Next]_Contract!vars
<1> SUFFICES ASSUME IInv, outcome.height = query.height, [Next]_vars
             PROVE  [Contract!Next]_Contract!vars
  OBVIOUS
<1>0. /\ query.height \in Heights
      /\ reports \in SUBSET Reports /\ Filed(reports, query.height)
      /\ \A e \in cache : /\ e.reports \in SUBSET Reports /\ e.height \in Heights
                          /\ Filed(e.reports, e.height)
                          /\ Several(e.reports) /\ SourcesAgree(e.reports)
  BY DEF IInv, TypeOK, FiledInv, Queries, Entries
<1>1. ASSUME NEW h \in Heights, CacheHit(h) PROVE Contract!AnswerAtOnce(h)
  <2>1. PICK e \in cache :
          /\ e.height = h
          /\ outcome' = [kind |-> "Corroborated", height |-> h, reports |-> e.reports,
                         asked |-> e.asked, at |-> now]
    BY <1>1 DEF CacheHit, FreshEntries
  <2>2. Read("Corroborated", e.reports).header.height = h
    BY <1>0, <2>1, CorroboratedRead
  <2>3. ~busy /\ busy' = busy /\ cache' = cache
    BY <1>1 DEF CacheHit
  <2> QED BY <2>1, <2>2, <2>3 DEF Contract!AnswerAtOnce
<1>2. ASSUME NEW h \in Heights, NoClient(h) PROVE Contract!AnswerAtOnce(h)
  <2>1. /\ outcome'.kind = "Unavailable" /\ outcome'.height = h /\ outcome'.reports = {}
        /\ ~busy /\ busy' = busy /\ cache' = cache
    BY <1>2 DEF NoClient
  <2>2. Read("Unavailable", {}) \in {a \in Verdicts!Lookups(h) : a.kind = "Unavailable"}
    BY DEF Read, Verdicts!Lookups, Verdicts!Lookup
  <2> QED BY <2>1, <2>2 DEF Contract!AnswerAtOnce, AnswersAbout
<1>3. ASSUME NEW h \in Heights, Ask(h) PROVE Contract!Ask(h)
  BY <1>3 DEF Ask, NoOutcome, Contract!Ask
<1>4. ASSUME Conclude PROVE Contract!Answer(query.height)
  <2> DEFINE new == [height |-> query.height, reports |-> reports,
                     asked |-> query.asked, fetchedAt |-> now]
  <2>1. /\ busy /\ busy' = FALSE
        /\ outcome'.kind = Classify(reports)
        /\ outcome'.reports = reports
        /\ outcome'.height = query.height
        /\ cache' = IF Classify(reports) = "Corroborated" THEN Insert(new) ELSE cache
    BY <1>4 DEF Conclude
  <2>2. Classify(reports) # "None"
    BY DEF Classify
  <2>3. Read(Classify(reports), reports) \in AnswersAbout[query.height]
    BY <1>0, ClassifiedRead DEF AnswersAbout
  <2>4. Read(Classify(reports), reports).kind = Classify(reports)
    BY DEF Read
  <2>5. CASE Classify(reports) = "Corroborated"
    <3>1. Several(reports) /\ SourcesAgree(reports)
      BY <2>5 DEF Classify
    <3>2. new \in Entries
      BY DEF IInv, TypeOK, Queries, Entries
    <3>3. /\ new.reports = reports /\ new.height = query.height
      OBVIOUS
    <3> HIDE DEF new
    <3>4. {Read("Corroborated", d.reports) : d \in Insert(new)} =
            {a \in {Read("Corroborated", d.reports) : d \in cache} :
               a.header.height # query.height} \cup {Read("Corroborated", reports)}
      BY <1>0, <3>1, <3>2, <3>3, InsertReplaces
    <3> QED BY <2>1, <2>2, <2>3, <2>4, <2>5, <3>4 DEF Contract!Answer
  <2>6. CASE Classify(reports) # "Corroborated"
    BY <2>1, <2>2, <2>3, <2>4, <2>6 DEF Contract!Answer
  <2> QED BY <2>5, <2>6
<1>5. ASSUME UNCHANGED <<cache, busy, outcome>> PROVE UNCHANGED Contract!vars
  BY <1>5 DEF Contract!vars
<1>6. Tick => UNCHANGED <<cache, busy, outcome>>
  BY DEF Tick
<1> QED BY <1>0, <1>1, <1>2, <1>3, <1>4, <1>5, <1>6, QuietSteps DEF Contract!Next

(* However its one faulty endpoint answers, a lookup answers about the     *)
(* height it was asked, calls corroborated only what is a block's header,  *)
(* and remembers that and nothing else.                                    *)
THEOREM LookupImplementsContract == Spec => LookupKeepsContract
<1>1. Init => Contract!Init
  BY DEF Init, NoOutcome, Contract!Init
<1>2. IInv /\ outcome.height = query.height /\ [Next]_vars => [Contract!Next]_Contract!vars
  BY ContractStep
<1> QED
  BY <1>1, <1>2, Invariance, OutcomeIsOfQuery, PTL
     DEF Spec, LookupKeepsContract, Contract!Spec

=============================================================================
