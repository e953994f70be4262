---------------------------- MODULE BlockLookup ----------------------------
(***************************************************************************)
(* The block-header lookup of atl-cli (net/bitcoin.rs): one height at a    *)
(* time is asked of every configured block-explorer endpoint concurrently, *)
(* the answers are classified into one of four outcomes, and a             *)
(* corroborated header is kept in a process-local cache for TTL.           *)
(*                                                                         *)
(* The environment is the set of endpoints.  An endpoint outside Faulty    *)
(* answers with true block headers, though not always the one it was asked *)
(* about (two halves of one lookup may be served by two backends, and two  *)
(* blocks may compete for a height).  An endpoint in Faulty answers with   *)
(* any header that can be written down.  Any request may fail, and none    *)
(* outlives Timeout.                                                       *)
(*                                                                         *)
(* Time is the process's monotonic clock.  Steps of the process take no    *)
(* time; only waiting for endpoints does.                                  *)
(***************************************************************************)
EXTENDS Integers

CONSTANTS
  TwoStep,      \* endpoints asked for a hash by height, then a block by hash
  SingleStep,   \* endpoints asked for the block by height at once
  Faulty,       \* endpoints that may answer anything
  Heights, Hashes, Roots, Times,  \* what a header is made of
  Blocks,       \* the headers of blocks that exist, forks included
  Unnamed,      \* "by height": the request names no block hash yet
  Genesis,      \* GENESIS_BLOCK_TIME
  MaxFuture,    \* MAX_FUTURE_BLOCK_TIME
  WallReadings, \* what the system clock may read when a time is validated
  NoClock,      \* the system clock cannot be read
  TTL,          \* CACHE_TTL
  Timeout,      \* OnlineConfig::request_timeout, per request
  MaxTime       \* bound on the model's clock

Providers == TwoStep \cup SingleStep

Headers == [hash : Hashes, height : Heights, root : Roots, time : Times]

ASSUME ProvidersAssumption == TwoStep \cap SingleStep = {}

ASSUME BlocksAssumption ==
  /\ Blocks \subseteq Headers
  /\ \A b, c \in Blocks : b.hash = c.hash => b = c
  /\ Unnamed \notin Hashes

ASSUME TimeAssumption ==
  /\ TTL \in Nat \ {0}
  /\ Timeout \in Nat \ {0}
  /\ MaxTime \in Nat

(* At most one endpoint is faulty.                                         *)
ASSUME LoneFaultAssumption == \A p, q \in Faulty : p = q

VARIABLES
  now,       \* the monotonic clock
  cache,     \* BLOCK_INFO_CACHE, a set of entries
  busy,      \* a lookup is waiting for its endpoints
  query,     \* the height asked about, and when the question was put
  requests,  \* the requests in flight
  reports,   \* the answers accepted so far
  outcome    \* what the last lookup returned, none while one is under way

vars == <<now, cache, busy, query, requests, reports, outcome>>

Reports  == [source : Providers, header : Headers]
Queries  == [height : Heights, asked : Nat]
Requests == [source : Providers, about : Hashes \cup {Unnamed}, due : Nat]
Entries  == [height : Heights, reports : SUBSET Reports,
             asked : Nat, fetchedAt : Nat]
Kinds    == {"None", "Corroborated", "Uncorroborated", "Disagreement", "Unavailable"}
Outcomes == [kind : Kinds, height : Heights, reports : SUBSET Reports,
             asked : Nat, at : Nat]

(* The variables hold headers, requests and outcomes of the right shape:   *)
(* in particular every accepted report names a block by a hash.            *)
TypeOK ==
  /\ now \in Nat
  /\ cache \subseteq Entries
  /\ busy \in BOOLEAN
  /\ query \in Queries
  /\ requests \subseteq Requests
  /\ reports \subseteq Reports
  /\ outcome \in Outcomes

-----------------------------------------------------------------------------
(* Classification of the answers.                                          *)

(* A mutant of Several: any answer at all counts as corroborated.          *)
AnyAnswer(R) == R # {}

(* Two or more endpoints are in the set.                                   *)
Several(R) == \E r, s \in R : r.source # s.source

(* All three header facts are compared: hash, Merkle root and time.        *)
AgreesWith(r, s) ==
  /\ r.header.time = s.header.time
  /\ r.header.hash = s.header.hash
  /\ r.header.root = s.header.root

SourcesAgree(R) == \A r, s \in R : AgreesWith(r, s)

Classify(R) ==
  CASE R = {}                          -> "Unavailable"
    [] R # {} /\ ~Several(R)           -> "Uncorroborated"
    [] Several(R) /\ SourcesAgree(R)   -> "Corroborated"
    [] Several(R) /\ ~SourcesAgree(R)  -> "Disagreement"

-----------------------------------------------------------------------------
(* Intake checks on one response.                                          *)

(* A mutant of ValidBlockTime: on an unreadable clock the bound is given   *)
(* up.                                                                     *)
TimeBoundIfClock(t, wall) ==
  /\ Genesis <= t
  /\ wall # NoClock => t <= wall + MaxFuture

(* The upper bound is evaluated against the wall clock, and an unreadable  *)
(* clock bounds nothing: fail closed.                                      *)
ValidBlockTime(t, wall) ==
  /\ Genesis <= t
  /\ wall # NoClock
  /\ t <= wall + MaxFuture

(* A mutant of DetailBound: the detail's hash is not compared with the one *)
(* step 1 named.                                                           *)
HeightBound(c, h, about) == c.height = h

(* The detail response c is about the block `about` at height h.           *)
DetailBound(c, h, about) == c.hash = about /\ c.height = h

(* A single-step response is bound by its height alone.                    *)
SingleBound(c, h) == c.height = h

(* A mutant of TwoStepInfo: the record keeps the placeholder it had before *)
(* step 1 was answered.                                                    *)
PlaceholderInfo(h, about, c) ==
  [hash |-> Unnamed, height |-> h, root |-> c.root, time |-> c.time]

(* What a two-step lookup publishes: the height that was requested and the *)
(* hash the first step named, with the detail's root and time.             *)
TwoStepInfo(h, about, c) ==
  [hash |-> about, height |-> h, root |-> c.root, time |-> c.time]

(* The headers endpoint p may write into a response.                       *)
Answers(p) == IF p \in Faulty THEN Headers ELSE Blocks

-----------------------------------------------------------------------------
(* The cache.                                                              *)

EntryIsFresh(e) == now - e.fetchedAt < TTL

(* A mutant of FreshEntries: the cache is not keyed by height.             *)
FreshEntriesAnyHeight(h) == {e \in cache : EntryIsFresh(e)}

FreshEntries(h) == {e \in cache : e.height = h /\ EntryIsFresh(e)}

(* A mutant of Insert: the cache has room for one height.                  *)
InsertAlone(e) == {e}

(* HashMap::insert: one entry per height, the newest.                      *)
Insert(e) == {d \in cache : d.height # e.height} \cup {e}

-----------------------------------------------------------------------------
NoOutcome(h) == [kind |-> "None", height |-> h, reports |-> {}, asked |-> 0, at |-> 0]

Init ==
  /\ now = 0
  /\ cache = {}
  /\ busy = FALSE
  /\ query \in [height : Heights, asked : {0}]
  /\ requests = {}
  /\ reports = {}
  /\ outcome = NoOutcome(query.height)

(* A mutant of CacheHit: a hit renews the entry.                           *)
RenewingHit(h) ==
  /\ ~busy
  /\ \E e \in FreshEntries(h) :
       /\ outcome' = [kind |-> "Corroborated", height |-> h, reports |-> e.reports,
                      asked |-> e.asked, at |-> now]
       /\ cache' = Insert([e EXCEPT !.fetchedAt = now])
  /\ query' = [height |-> h, asked |-> now]
  /\ UNCHANGED <<now, busy, requests, reports>>

(* lookup_block(h) is answered from a fresh entry: no endpoint is asked,   *)
(* and the entry keeps its age.                                            *)
CacheHit(h) ==
  /\ ~busy
  /\ \E e \in FreshEntries(h) :
       outcome' = [kind |-> "Corroborated", height |-> h, reports |-> e.reports,
                   asked |-> e.asked, at |-> now]
  /\ query' = [height |-> h, asked |-> now]
  /\ UNCHANGED <<now, cache, busy, requests, reports>>

(* No fresh entry, and no HTTP client can be built.                        *)
NoClient(h) ==
  /\ ~busy
  /\ FreshEntries(h) = {}
  /\ outcome' = [kind |-> "Unavailable", height |-> h, reports |-> {},
                 asked |-> now, at |-> now]
  /\ query' = [height |-> h, asked |-> now]
  /\ UNCHANGED <<now, cache, busy, requests, reports>>

(* No fresh entry: every endpoint is asked at once.  MaxTime leaves room   *)
(* for both requests of a two-step lookup to run into their timeouts.      *)
Ask(h) ==
  /\ ~busy
  /\ FreshEntries(h) = {}
  /\ now + 2 * Timeout <= MaxTime
  /\ busy' = TRUE
  /\ query' = [height |-> h, asked |-> now]
  /\ requests' = [source : Providers, about : {Unnamed}, due : {now + Timeout}]
  /\ outcome' = NoOutcome(h)
  /\ UNCHANGED <<now, cache, reports>>

(* Step 1 of a two-step lookup: a well-formed hash arrives, and the block  *)
(* it names is requested with a timeout of its own.                        *)
HashAnswer(p) ==
  /\ p \in TwoStep
  /\ \E q \in requests :
       /\ q.source = p
       /\ q.about = Unnamed
       /\ \E c \in Answers(p) :
            requests' = (requests \ {q}) \cup
                        {[source |-> p, about |-> c.hash, due |-> now + Timeout]}
  /\ UNCHANGED <<now, cache, busy, query, reports, outcome>>

(* Step 2: the detail counts only if it describes the block step 1 named,  *)
(* at the height that was requested, with a time that can be a block time. *)
DetailAnswer(p) ==
  /\ p \in TwoStep
  /\ \E q \in requests, c \in Answers(p), wall \in WallReadings :
       /\ q.source = p
       /\ q.about # Unnamed
       /\ DetailBound(c, query.height, q.about)
       /\ ValidBlockTime(c.time, wall)
       /\ requests' = requests \ {q}
       /\ reports' = reports \cup
            {[source |-> p, header |-> TwoStepInfo(query.height, q.about, c)]}
  /\ UNCHANGED <<now, cache, busy, query, outcome>>

(* The whole answer of a single-step endpoint.                             *)
SingleAnswer(p) ==
  /\ p \in SingleStep
  /\ \E q \in requests, c \in Answers(p), wall \in WallReadings :
       /\ q.source = p
       /\ SingleBound(c, query.height)
       /\ ValidBlockTime(c.time, wall)
       /\ requests' = requests \ {q}
       /\ reports' = reports \cup
            {[source |-> p, header |-> [c EXCEPT !.height = query.height]]}
  /\ UNCHANGED <<now, cache, busy, query, outcome>>

(* A request fails: connection, HTTP status, unreadable or malformed body, *)
(* or an answer that does not pass the intake checks.                      *)
RequestFails(p) ==
  /\ \E q \in requests : q.source = p /\ requests' = requests \ {q}
  /\ UNCHANGED <<now, cache, busy, query, reports, outcome>>

(* A mutant of RequestExpires: the second request of a two-step lookup has *)
(* no timeout.                                                             *)
FirstExpires(p) ==
  /\ \E q \in requests : /\ q.source = p
                         /\ q.about = Unnamed
                         /\ q.due = now
                         /\ requests' = requests \ {q}
  /\ UNCHANGED <<now, cache, busy, query, reports, outcome>>

(* A request reaches its timeout.                                          *)
RequestExpires(p) ==
  /\ \E q \in requests : /\ q.source = p
                         /\ q.due = now
                         /\ requests' = requests \ {q}
  /\ UNCHANGED <<now, cache, busy, query, reports, outcome>>

(* A mutant of Conclude: whatever was learned is cached.                   *)
ConcludeCachingAll ==
  /\ busy
  /\ requests = {}
  /\ busy' = FALSE
  /\ reports' = {}
  /\ outcome' = [kind |-> Classify(reports), height |-> query.height,
                 reports |-> reports, asked |-> query.asked, at |-> now]
  /\ cache' = Insert([height |-> query.height, reports |-> reports,
                      asked |-> query.asked, fetchedAt |-> now])
  /\ UNCHANGED <<now, query, requests>>

(* Every endpoint has answered or failed: classify, cache a corroborated   *)
(* header stamped with this moment, and return.                            *)
Conclude ==
  /\ busy
  /\ requests = {}
  /\ busy' = FALSE
  /\ reports' = {}
  /\ outcome' = [kind |-> Classify(reports), height |-> query.height,
                 reports |-> reports, asked |-> query.asked, at |-> now]
  /\ cache' = IF Classify(reports) = "Corroborated"
              THEN Insert([height |-> query.height, reports |-> reports,
                           asked |-> query.asked, fetchedAt |-> now])
              ELSE cache
  /\ UNCHANGED <<now, query, requests>>

(* Time passes while the process is idle or waits, never past a timeout.   *)
Tick ==
  /\ now < MaxTime
  /\ busy => requests # {}
  /\ \A q \in requests : now < q.due
  /\ now' = now + 1
  /\ UNCHANGED <<cache, busy, query, requests, reports, outcome>>

Next ==
  \/ \E h \in Heights : CacheHit(h)
  \/ \E h \in Heights : NoClient(h)
  \/ \E h \in Heights : Ask(h)
  \/ \E p \in Providers : HashAnswer(p)
  \/ \E p \in Providers : DetailAnswer(p)
  \/ \E p \in Providers : SingleAnswer(p)
  \/ \E p \in Providers : RequestFails(p)
  \/ \E p \in Providers : RequestExpires(p)
  \/ Conclude
  \/ Tick

Spec == Init /\ [][Next]_vars

(* The runtime's timer fires and its reactor polls; no endpoint owes an    *)
(* answer.                                                                 *)
Fairness ==
  /\ WF_vars(Tick)
  /\ \A p \in Providers : WF_vars(RequestExpires(p))
  /\ WF_vars(Conclude)

FairSpec == Spec /\ Fairness

-----------------------------------------------------------------------------
(* Properties.                                                             *)

Corroborated(o) == o.kind = "Corroborated"

(* A header the lookup presents as corroborated, fresh or from the cache,  *)
(* is the header of a block that exists at the height asked about, however *)
(* the one faulty endpoint answers: two agreeing reports contain an honest *)
(* one, and an honest report survives the intake checks only when both     *)
(* halves of it describe one block (lookup_block, classify).               *)
LoneFaultNeverForges ==
  Corroborated(outcome) =>
    \A r \in outcome.reports : r.header \in Blocks /\ r.header.height = outcome.height

(* No report of an honest endpoint mixes two blocks or names another       *)
(* height, in flight, cached or published, although its two steps may be   *)
(* answered about different blocks (check_reported_hash and                *)
(* check_reported_height).                                                 *)
NoChimera ==
  \A r \in reports \cup outcome.reports \cup UNION {e.reports : e \in cache} :
    r.source \notin Faulty => r.header \in Blocks

(* No header is kept or returned whose time is further in the future than  *)
(* any reading of the clock allowed, however often the clock cannot be     *)
(* read: the single report an uncorroborated answer publishes is an        *)
(* endpoint's word and has passed no other check (validate_block_time,     *)
(* called where a response is taken in and nowhere later).                 *)
NothingFromTheFuture ==
  \A r \in reports \cup outcome.reports \cup UNION {e.reports : e \in cache} :
    /\ Genesis <= r.header.time
    /\ \E wall \in WallReadings \ {NoClock} : r.header.time <= wall + MaxFuture

(* A header served from the cache was asked for less than TTL plus the     *)
(* longest a lookup takes ago, however often it is served: hits do not     *)
(* renew an entry (CACHE_TTL, lookup_block).                               *)
StalenessBounded ==
  Corroborated(outcome) => outcome.at - outcome.asked < TTL + 2 * Timeout

(* Anything short of corroboration leaves nothing fresh behind for its     *)
(* height, so the next lookup of it asks every endpoint again              *)
(* (lookup_block: only a corroborated header is cached).                   *)
ShortfallIsRetried ==
  outcome.kind \in {"Uncorroborated", "Disagreement", "Unavailable"} =>
    \A e \in cache : e.height = outcome.height => outcome.at - e.fetchedAt >= TTL

(* One height has at most one entry, and an entry still fresh is never     *)
(* replaced: what a run already decided from a header is decided alike for *)
(* every receipt of that height until the entry expires.                   *)
FreshEntryStands ==
  [][\A e \in cache : EntryIsFresh(e) => e \in cache']_vars

(* The strengthening under which the invariants above are inductive.       *)

(* Reports filed under height h carry that height, and the honest ones are *)
(* headers of existing blocks.                                             *)
Filed(R, h) ==
  \A r \in R : /\ r.header.height = h
               /\ r.source \notin Faulty => r.header \in Blocks

FiledInv ==
  /\ Filed(reports, query.height)
  /\ Filed(outcome.reports, outcome.height)
  /\ Corroborated(outcome) => Several(outcome.reports) /\ SourcesAgree(outcome.reports)
  /\ \A e \in cache : /\ Filed(e.reports, e.height)
                      /\ Several(e.reports)
                      /\ SourcesAgree(e.reports)

(* A request is due within Timeout of the question, or within twice that   *)
(* once it names a block, and the clock never passes it.                   *)
DueInv ==
  /\ ~busy => requests = {} /\ reports = {}
  /\ query.asked <= now
  /\ busy => now <= query.asked + 2 * Timeout
  /\ \A q \in requests :
       /\ now <= q.due
       /\ q.due <= query.asked + (IF q.about = Unnamed THEN Timeout ELSE 2 * Timeout)

(* An entry is stamped no later than a lookup can take, and while a lookup *)
(* is under way its height has no fresh entry.                             *)
EntryInv ==
  /\ \A e \in cache : /\ e.asked <= e.fetchedAt
                      /\ e.fetchedAt <= now
                      /\ e.fetchedAt <= e.asked + 2 * Timeout
  /\ busy => \A e \in cache : e.height = query.height => ~EntryIsFresh(e)

IInv ==
  /\ TypeOK
  /\ FiledInv
  /\ DueInv
  /\ EntryInv
  /\ StalenessBounded
  /\ ShortfallIsRetried

(* lookup_block's documentation: a reused header comes of a query for the  *)
(* same height made within the last CACHE_TTL.                             *)
ReuseWithinTTL ==
  Corroborated(outcome) /\ outcome.asked < query.asked =>
    outcome.at - outcome.asked < TTL

(* Every lookup ends: whatever the endpoints do, their timeouts bring it   *)
(* to one of the four outcomes.                                            *)
LookupEnds == busy ~> ~busy

=============================================================================
