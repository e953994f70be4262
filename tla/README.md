# A TLA+ model of atl-cli

`atl verify` checks that a file is the one a transparency-log receipt was
issued for, and that the receipt is anchored: by an RFC 3161 time-stamp token,
by a Bitcoin block, or both. It answers with one of four exit codes: 0 accepted,
1 refuted, 2 could not be processed, 3 trust not established. What makes the
program hard is not the cryptography, which is `atl-core`'s, but that evidence
arrives in parts (offline checks, then a network that may be absent, slow or
wrong, then many receipts at once) and no part may overstate, hide or rewrite
what another part found.

## 1. Inventory

| component | source | state | operations | what must hold |
|---|---|---|---|---|
| block lookup | `net/bitcoin.rs` | `BLOCK_INFO_CACHE`: height -> corroborated header and the instant it was fetched; per lookup, the requests in flight and the answers so far | `lookup_block`, `classify`, the fetchers and their intake checks | one wrong endpoint decides nothing; a header is one block's; staleness is bounded; every lookup ends |
| anchor verdicts | `verify/anchor.rs`, `verify/online.rs` | none (`anchor_results`, `anchor_facts` belong to the run) | `verdict_from_facts`, `PreparedOts::from_facts`, `anchor_from_lookup`, `check_claimed_time`, `verify_anchors_online` | an anchor is accused only on its own facts or on a corroborated header; the network pass adds and never takes away |
| trust policy, receipt verdict | `verify/policy.rs`, `verify/single.rs`, `verify/verdict.rs` | none | `TrustAssessment::compute` and its axes, `receipt_refutation`, `receipt_inability`, `verdict` | a refuted receipt carries no trust; an unauthenticated anchor cannot refute a receipt |
| mode and exit code | `commands/verify.rs`, `cli/args.rs`, `error.rs`, `net/detect.rs` | `ModeOutcome`: the mode exercised and a deferred failure | `determine_mode_for_receipt`, `settle_single`, `settle_batch`, `single_error`, `batch_error` | the mode printed was exercised; the verdict comes first, the inability second |
| single run | `commands/verify.rs` | `SingleVerificationResult` | `execute_single`, `verify_single` | each exit code means what it says |
| batch run | `verify/batch.rs`, `commands/verify.rs` | `FileMatching`, rows, six counts, the consistency result | `walk_directory`, `classify_entry`, `match_files_to_receipts`, `verify_batch`, `verdict`, `reclassify` | pairs are right; every entry is accounted for once; counts are those of the rows; a directory of one behaves like its file |
| consistency | `verify/consistency.rs` | none | `verify_consistency` | no false accusation between log instances; the report names the receipts it compared |
| trust store | `verify/trust_store.rs`, `commands/verify.rs` | the store under construction | `load_tsa_trust_store`, `load_tsa_intermediates`, of a file or a directory each | partial success is not success; an intermediate is no trust anchor |
| output | `output/human.rs`, `output/json.rs`, `verify/anchor.rs`, the errors of `commands/verify.rs` | none | the two renderers, the anchor objects, hint and headline, `trust_hint`, `batch_error` | a time offered as established is one; success admits its gaps; the renderers agree; advice fits the cause |
| file hashing | `verify/file.rs` | none | `hash_file`, `compare_hash` | - |
| inspect, CLI parsing | `commands/inspect.rs`, `cli/*.rs` | none | - | - |
| `atl-core` | external crate | none | parsing, proofs, anchor facts | - |

Interactions. `execute` validates the paths, loads trust material and calls
`execute_single` or `execute_batch`; both call `verify_single` (once, or once
per pair), settle the mode from what the receipts contain, run
`verify_anchors_online`, which calls `lookup_block` for one anchor after the
other, print, and turn the verdict and a deferred failure into an exit code.
The only shared mutable state is the block cache. The only concurrency inside
the program is that of one lookup: all endpoints are asked at once on one
thread, and their answers interleave. The file system is shared with others:
what a directory listing promised may be gone when it is read.

Hard behaviour: interleaved answers and requests with timeouts of their own
inside a lookup; answers about another block; cached headers that age while a
batch runs; a probe, a runtime or a lookup that fails after a verdict is in hand;
results replaced by index; counts kept beside the rows they count; entries that
cannot be read, or are lost between the walk and the read; names that are no
text; several tables that each classify the same reason. `PROJECT.json` lists
these hazards at their lines, each with the properties that watch it.

## 2. Modules

| module | models | proved about in |
|---|---|---|
| `BlockLookup` | `net/bitcoin.rs` as a state machine | `BlockLookup_proofs` |
| `LookupContract` | the abstract specification of a lookup: what a run may rely on | `BlockLookup_proofs` |
| `LookupService` | `BlockLookup` shown to implement `LookupContract` with the answers the runs assume | `BlockLookup_proofs` |
| `Verdicts` | the pure decisions: anchors, axes, receipt verdict | `Verdicts_proofs` |
| `VerifyCommand` | the pure decisions of the command: probe, mode, exit code (extends `Verdicts`) | `Verdicts_proofs` |
| `SingleRun` | one single-file run (extends `VerifyCommand`) | `SingleRun_proofs` |
| `Consistency` | the comparison of a batch's receipts and what is printed of it | `Consistency_proofs` |
| `BatchRun` | one batch run (extends `VerifyCommand` and `Consistency`) | `BatchRun_proofs` |
| `VerifyContract` | the abstract specification of a run: what the exit code promises; implemented by `SingleRun` and `BatchRun` | `SingleRun_proofs`, `BatchRun_proofs` |
| `FileMatching` | how a batch finds its work: walks, pairing, reads, rows | `FileMatching_proofs` |
| `TrustStore` | loading the caller's trust material | `TrustStore_proofs` |
| `AnchorReport` | what is said of one anchor: reason, state, labels, JSON object (extends `VerifyCommand`) | `Output_proofs` |
| `Output` | what a run prints and what its error says (extends `AnchorReport`) | `Output_proofs` |
| `MCBlockLookup`, `MCSingleRun`, `MCBatchRun`, `MCFileMatching`, `MCTrustStore`, `MCOutput` | the constants of the runs | |

Operators that are commented "A mutant of X" are deliberately wrong versions
of X. Nothing uses them; substituted for X, each breaks the property that
`PROJECT.json` pairs it with, which shows that the property can fail.

### BlockLookup

`now` is the monotonic clock (`Instant`), `cache` the map as a set of entries,
`busy`/`query`/`requests`/`reports` the future inside `lookup_block`, `outcome`
what it returned. An endpoint is two-step (hash by height, then block by hash)
or single-step, as in `PROVIDERS`. `Ask` sends the first request of every
endpoint; `HashAnswer`, `DetailAnswer` and `SingleAnswer` are the responses with
the intake checks that follow them; `RequestFails` is every other error path of
the fetchers; `RequestExpires` is the client's per-request timeout, which the
second request of a two-step lookup gets anew; `Conclude` is what follows
`join_all`. `CacheHit` and `NoClient` are the early returns.

The environment: endpoints outside `Faulty` answer with headers of blocks that
exist, not necessarily of the block they were asked about, and blocks may
compete for a height. Endpoints in `Faulty` (at most one, an assumption of the
module) answer with any header. Hex spelling and hash comparison are equality;
the wall clock that bounds a block's time is read anew for every response and
may be unreadable, in which case nothing is accepted.

Per entry the model keeps when its query was put (`asked`) besides `fetchedAt`.
The code keeps only the latter; `asked` is there to state how stale a header is.

### LookupContract and LookupService

A caller of `lookup_block` sees a question, one answer and what is remembered.
`LookupContract` says just that: a new answer is one of the `Possible` ones about
that height and is remembered exactly if it is corroborated; an answer given at
once is a remembered one. `LookupService` maps `BlockLookup` onto it, with
`Possible` taken from `Verdicts!Lookups`, the operator from which `SingleRun` and
`BatchRun` let the environment choose. So the runs are checked with every answer
the lookup can give, cached ones included, and `Lookups` is no assumption of its
own. The mapping forgets endpoints, clocks and hashes and reads a report as
`verify/online.rs` does, by its first source.

### Verdicts and VerifyCommand

An anchor is its kind, whether some finding of `atl-core` refutes it, whether
some check was not finished, and, for Bitcoin, the proof: height, computed root
and claimed time. `Lookups(h)` is what `lookup_block` can answer: a corroborated
header is an existing block's, an uncorroborated one is anything. Instants are
nanosecond counts bounded by `MaxNanos` (`u64::MAX`); the overflow branch of
`check_claimed_time` is in the model. A receipt is what was found about it: the
file's hash, the classes of `receipt_errors()`, and whether its proofs hold.
Reason codes are kept where two of them answer the same question differently.
The build is the one with the `online` feature.

Tallies are stated over the places of the anchors (`Verified(R) = DOMAIN R`)
where the code counts; `AppendedAnchorIsInert` compares a receipt with the same
receipt without one anchor.

### SingleRun

`phase` is the program point in `execute`/`execute_single`; `checks` and `facts`
are what `atl-core` will find, chosen at the start; `results` is
`anchor_results`; `pending` the work list of `verify_anchors_online`; `probed`
and `asked` record the traffic; `printed` is what the renderer was given. Actions
follow the calls: `Proceed`, `InputFails` (paths, trust material), `VerifyFails`
and `VerifySingle`, `SettleSingle`, `LookUpNext` per anchor, `FinishOnline`,
`PrintResult`, `Judge`.

### BatchRun and Consistency

A name stands for a source entry X and a receipt entry X.atl; each is a file,
unreadable, or absent (which of these, and how, is `FileMatching`'s subject).
`WalkSources` and `WalkReceipts` are the two walks with their "empty" errors,
`VerifyPair`/`PairFails` one iteration of `verify_batch`, `Gather` its tail (rows
for loose entries, the consistency check), `SettleBatch`, `LookUpNext` and
`FinishOnline` `settle_batch`, `Reclassify` the recount that follows a network
pass, whether it found anything or not.

`Consistency` has receipts grouped by log instance, sorted by tree size within
it (stably, so the walk's order decides ties), compared with their neighbours
and numbered across all instances, as in `verify_consistency`. The comparison of
two receipts, `HistoryConsistent`, is `atl-core`'s: equal instances, and the
super-tree proof of each. `HumanConsistency` and `JsonConsistency` are what the
renderers say of the outcome.

### VerifyContract

`standing` is where the evidence stands, `exit` the code. Evidence is examined
once, offline; it can then gain acceptance and nothing else; the code is one of
those for where it stands, at the moment of answering. `SingleRun` and `BatchRun`
map their phase and verdict onto `standing`. The one exception is written in:
an error of `atl-core` exits 1 before there is a verdict.

### FileMatching

`there` is what each of the two directories holds under each name: nothing, or an
object with its `file_type`, what `metadata` finds when it follows it, and whether
it opens. One directory may be given twice. `Walk` is `walk_directory` with
`classify_entry` and the `keep` of either side; `Match` is the pairing by the
receipt's name less `.atl`; `VerifyNext` reads one pair; `Report` adds a row for
everything that was not paired or could not be classified. `Change` puts any of
`Turns` (nothing, a file, a locked file, a directory, or whatever a reader of the
module gives it) in the place of an entry between a walk and what relies on it, and
`changed` remembers which entries these were; one entry of a listing may be an error
(`Lost`). `Lossy` is what a name that is no UTF-8 becomes as text.

### TrustStore

The actions follow the load: `PassOver` a flag that was not given, `TakeFile` or
`ListDirectory` (sorted, hidden files and directories left out) or `ListingFails`,
`ReadNext` for each file in turn, `Register` what was parsed under the flag's role.
The names are listed first and opened later, so `Spoil` lets a file that is still to
be read become anything at all: gone, locked, a directory, junk, a bundle cut short
between two certificates, or another certificate. `taken` is what was listed, `read`
what each read found; neither decides anything. A parse is whether a file is PEM, DER
or neither, and whether a scan for the PEM marker sees it.

### AnchorReport and Output

`SingleRun` and `BatchRun` stop at what the renderers are given; `Output` starts
there. `rows` are judged receipts, or the entries of a directory that are none;
an anchor has its findings in the order `atl-core` made them and, after a network
pass, the answer of its lookup. `AnchorReport` derives from these, as the code
does, the reason, the state, the trust label, the status line, and the facts
of the JSON object: heights attested, stated, looked up, and the two halves of
the comparison with the block.

The run prints (`PrintSingle`, `PrintBatch`: one of the four renderings) and
turns its verdict into an error (`JudgeSingle`, `JudgeBatch`); a failure that was
deferred is `SingleRun`'s and `BatchRun`'s. Text is abstracted to what it asserts:
`status`, `reason`, whether a success is qualified, the anchors that are named
(`listed`), the times (`dates`, `plain` when offered as established), the three
axes and the anchor status, what is said to be missing (`headline`, `hint`, the
error's `missing`), the JSON `errors` and anchor objects. `Missing` names the
pieces of advice; `Lacks` says when a receipt lacks that very thing. The advice
of `trust_hint` that quotes an anchor's own error text is the advice of that reason.

## 3. Runs

| run | bounds | shows |
|---|---|---|
| `BlockLookup_safety` | 3 endpoints (2 two-step, 1 single-step), one faulty and two-step; heights 1 and 2, a fork at 1; 2 roots, 2 times, one of them in the future; a wall clock that may not be read; TTL 2, timeout 1, clock to 4 | no forged header, no chimera, no future block, bounded staleness, retry after a shortfall, fresh entries stand; every lookup ends; the contract of a lookup is kept |
| `BlockLookup_reuse` | the same endpoints, none faulty, one time | violated: see section 6 |
| `SingleRun` | up to 2 anchors of 17 shapes, 7 receipts, all flags and policies | the meaning of the exit codes and of the printed claims; the contract of a run, which includes that it exits |
| `BatchRun` | 3 names, 8 kinds of receipt, 2 log instances | the accounting, the consistency report and the exit code of a batch; the contract of a run |
| `BatchRun_parity`, `BatchRun_fetched` | 2 names | violated: see section 6 |
| `FileMatching` | 5 names: two files whose names are the same as text, a receipt of each, and a receipt of the first one's receipt; directories with two plain files at most, or with both pairs; what belongs to the first pair odd in one of 6 ways, alone or beside the other three; a lost entry; one entry that changes (`MaxChanged`), to one of 4 `Turns` and again | the pairs are right, nothing wanted is without a row, no neighbour costs a pair its result |
| `FileMatching_dropped` | the same | violated: see section 6 |
| `TrustStore` | both flags, 2 names under each, 11 kinds of object; one file (`MaxSpoiled`) that becomes any of them, or none, between listing and read | every file listed is read and loaded as it then is, or nothing is; roles stay apart |
| `Output` | one anchor of every state beside one of 11 others in a single receipt, up to `MaxRows` = 2 rows of up to 2 of 6 anchors in a batch, each form and policy | what is printed is true of what was judged, in both forms |
| `Output_refuted`, `Output_error` | the same | violated: see section 6 |

Why the bounds suffice. In a lookup, endpoints meet only in `classify`, which looks
at agreement and at whether there are two; three endpoints give agreement of two
against one, and all three. A clock to 4 lets a lookup run into its timeouts, be
cached, be served to the last instant and expire. Among anchors, the policy
distinguishes none, one, all, and the kind; two anchors realise every combination.
In `SingleRun` two nanoseconds make a second and three are the most that fit, so a
block time of 1 is compared and one of 3 overflows. Three names in a batch give two
windows in one log instance, a pair of comparable receipts beside one of another
instance, or beside one that is unmatched, unreadable or refuted. In `FileMatching`
a name meets at most its receipt, the file it is a receipt of, and a name it is
confused with; of two pairs one can fail, or lose a file, beside the other. In `TrustStore` the files of a role are loaded alike; two show a
failure after a success and the reverse. In `Output` a report is a function of each
anchor by itself and of whether others are verified, refuted or unresolved; two
anchors and two rows realise every pair. `MaxTime` is the only bound that cuts off
behaviour: a lookup is not started when the clock leaves no room for its timeouts.
The proofs hold for every value of the constants, the bounds (`MaxRows`, `MaxTime`
and the like) included, that the named assumptions of the modules allow.

Fairness. `BlockLookup`: the process takes its steps, the timer fires at a
deadline and time passes while waiting (`Tick`, `RequestExpires`, `Conclude`);
no fairness is given to any answer. `SingleRun` and `BatchRun` are sequential
programs whose only waits are the probe, which has a timeout, and the lookups,
which end by `LookupEnds`; weak fairness of `Next` says that they run on, and
`VerifyContract` asks that they exit. `FileMatching`, `TrustStore` and `Output` are
finite passes. Only safety is checked of them, and the absence of deadlock: no
state before the end is without a way on.

## 4. Properties worth reading

* `AcceptanceIsEarned`, `BatchAcceptanceIsEarned`: exit 0 is compared with what
  is true in the world (`Holds`: some existing block confirms root and time), not
  with the program's own tally.
* `RefutationDecides`, `BatchRefutationDecides`: exit 1 if and only if a receipt
  that was verified is refuted, whatever else failed.
* `AccusationIsEarned`, `AppendedAnchorIsInert`, `OnlineOnlyAdds`: nobody who
  controls one endpoint or the unauthenticated `anchors` array can have a sound
  receipt accused, and going online never costs a receipt its acceptance.
* `LookupKeepsContract`, `SingleKeepsContract`, `BatchKeepsContract`: the
  refinements. The first joins the lookup to the runs; the other two say that a
  file and a directory keep one and the same promise.
* `NothingFromTheFuture`: no header is used whose time lay beyond the tolerance
  when it was accepted, even where the wall clock cannot be read.
* `ModeIsExercised`, `TrafficIsNeeded`: what is printed about the network is
  what happened on it, and nothing happened on it needlessly.
* `SummaryDescribesRows`: the batch's accounting through classification, network
  pass and recount: every entry one row, every row one count, and the mode.
* `ConsistencyNeverAccuses`, `ConsistencyIsTruthful`: whatever is compared comes out
  consistent unless a receipt is refuted by itself; the numbers printed beside a
  comparison are those of the receipts it was of; every instance is chained from
  its smallest tree to its largest; and nothing is called verified of no comparison.
* `NothingVanishes`, `NeighboursCostNothing`: a file that is lost, turned or locked
  between walk and read keeps its row and takes no other's; a pair whose own two
  files open and were left alone has its result, whatever was done to the others.
* `WholeOrNothing`, `RolesStayApart`: in a load that ends well every file listed was
  read and parsed and all that was found registered, although files change in
  between; nothing becomes a trust anchor that was not offered as one. The code does
  not promise more: a file rewritten between listing and reading with another valid
  certificate, or cut between two, is loaded as it was when read. Only a file that
  nobody touched is loaded as it was listed.
* `EstablishedIsTrue`: a time that either renderer offers without a disclaimer is
  the one of an anchor that holds in fact; compared with the world, as above.
* `AppendingOnlyAdds`, `SuccessIsQualified`: the JSON errors of a receipt cannot be
  steered by appending an anchor, its axes move only as evidence allows, and an
  anchor that failed beside a success is admitted on the success line.
* `ObjectIsAuditable`: the JSON object of a Bitcoin anchor has both halves of the
  comparison whenever one was made, and a reader can recompute the verdict.
* `ReasonFitsVerdict`, `RenderersAgree`, `HintIsTruthful`: nobody is told of an
  inability where a defect was found, nor another thing by one renderer than by
  the other, nor sent after a certificate for want of a block.
* `BatchOfOneIsSingle`: a directory with one pair exits and probes like the file.

## 5. Proofs

`BlockLookup_proofs` proves, for any endpoints, blocks, fork structure, lifetime and
timeout, every safety property that `BlockLookup_safety` checks on its instance. The
assumptions are those of the module: a hash names one block, endpoints are of one
kind, at most one is faulty, durations are positive.

The argument is one inductive invariant, `IInv`:

* `FiledInv`: reports kept under a height carry that height, and the honest ones
  are existing blocks. This is inductive because the intake checks make the two
  halves of an answer one header (`BoundDetailIsItself`). Two agreeing reports
  then contain an honest one, and agreement on hash, root and time together with
  the height makes all of them its header (`HonestReportDecides`): that is
  `LoneFaultNeverForges`.
* `DueInv`: a request is due within one timeout of the question, or two once it
  names a block, and the clock never passes it; so a lookup takes at most two.
* `EntryInv`: an entry's stamp is at most two timeouts after its question, and
  no fresh entry exists for a height that is being looked up. With `DueInv`
  this gives `StalenessBounded`, `ShortfallIsRetried` and `FreshEntryStands`,
  none of which is inductive by itself.

`NothingFromTheFuture` is inductive as it stands: `validate_block_time` is the only
way in.

The same module proves that the lookup implements `LookupContract`
(`LookupImplementsContract`, through `LookupService`), so that what `SingleRun` and
`BatchRun` assume of it holds for any number of endpoints. By `FiledInv` and the agreement of two reports, a corroborated set of them can be read
by any one: it is the header of a block of that height (`CorroboratedRead`). What
`Conclude` makes of any other set is among the possible answers too
(`ClassifiedRead`), a hit returns what some earlier `Conclude` remembered, and every
other step leaves the caller's view alone.

`Verdicts_proofs` has the facts about the pure decisions (of `VerifyCommand` too)
that do not depend on a run: what each status means (`StatusMeans`), that a result's verdict is one of
three, that an anchor verified by a lookup holds in fact, that a receipt without
one failed anchor is judged alike (`FailedAnchorIsInert`), and that verifying more
anchors keeps an acceptance (`AcceptanceIsMonotone`).

`SingleRun_proofs` proves every safety property of the run `SingleRun` for any
blocks, receipts, anchors, instants and bounds, from the assumptions of `Verdicts`
and `SingleRun` only (units are positive, receipts and anchors are of their kinds).
Its inductive invariant is the type invariant with four parts:

* `ProgressInv`: what phase and mode allow: no results before verification, no
  work list but in the network pass, an exit code only at the end.
* `ResultsInv`: each result is the offline one or what an answer the lookup can
  give makes of the anchor's proof; only prepared anchors have the latter.
  `AccusationIsEarned` and `AcceptanceIsEarned` need it: they speak of blocks,
  which the program sees through lookups alone.
* `TrafficInv`: the probe and the lookups so far are those the mode and the facts
  call for, and together with the work list they are all of them; this is what
  makes `ModeIsExercised` hold at the moment of printing.
* `PrintedInv`: what was printed was computed from the results as they stand, and
  the exit code follows from the same; without it nothing ties exit code to
  report.

From these follows `SingleStepsKeepContract`: `SingleRun` starts as `VerifyContract`
does and each of its steps is a step of the contract or none. The receipt's own
refutation does not change during a run and an acceptance is monotone in the
verified anchors, so the network pass moves an open verdict to acceptance and no
other. This is `SingleKeepsContract` but for its liveness.

`TrustStore_proofs` proves all that is checked of the load, for any names,
certificates and kinds of file, from the assumption that a file holds a certificate
unless it is junk. Two invariants carry it:

* `LoadIInv`: the roles are loaded one after the other; what has been parsed of the
  one at hand is what the reads found of everything listed less the queue, each of
  them readable and parsed; and what still is in the queue is as it was listed unless
  it is in `spoiled`. Nothing is asked of what a file becomes. This gives
  `WholeOrNothing` and `RolesStayApart`.
* `JunkInv`, for as long as nothing was tampered with: everything offered under a
  role is taken, what is taken is what is there, and what left the queue parsed. A
  load that ends well has met no junk, one that is refused has.

`FileMatching_proofs` proves all that is checked of the pairing, for any names, any
relation between a name and the name it is a receipt of, and any objects. The
invariant says what each step of `match_files_to_receipts` leaves for the next:

* `ListedInv`: what a walk keeps and cannot classify is what it saw, less one entry
  at most; `EmptyInv`: a directory is called empty when that was nothing.
* `MatchInv`: matched and unmatched files are those of the two lists, paired by name
  and not by how a name reads as text; nothing is matched earlier.
* `RowsInv`: a pair has at most one row, all other rows are those of what belongs to
  no pair, and at the end no pair is unread.
* `UnchangedInv`, entry by entry: what was seen of an entry is there until somebody
  touches it, and the row of a pair whose own two files are untouched says whether it
  can be read. `NeighboursCostNothing` needs it, for any number of changes elsewhere.

`NothingVanishes` counts: that an entry has no two rows and that a listing silences
no more than it lost follow from `RowsAreUnique` and `EveryEntryHasARow`.

`Consistency_proofs` has what the comparison does with any number of receipts,
whatever order the walk yielded them in. The sort of the code is stated by rank
instead of by recursion, and `RanksNumber` and `PlacesNumber` say that ranks and places
number the receipts without gap or repetition. From these: a window is of two
receipts of one instance, the smaller tree first (`WindowMeans`); neighbours are
enough to chain an instance (`NeighboursChain`); and there are as many comparisons as
receipts less one per instance (`ComparisonsCounted`).

`BatchRun_proofs` proves every safety property of `BatchRun` for any number of names,
from the assumptions of `Verdicts` and `BatchRun` only. Its invariant is the type
invariant with seven parts:

* `ProgressInv`: what has been done at each point, and what has not.
* `RowsInv`: each pair that was looked at has its row, filed by the verdict it had
  offline (`OfflineBucket`) until `Reclassify` files all anew; loose entries have
  theirs once they are gathered.
* `CountsInv`: at every point the counts are those of the rows. The code keeps them
  beside the rows and not from them; `FilingCounts` (a new row is one more in its
  bucket) and `LooseRowsCounted` (one row for every loose entry) say that they agree.
* `ResultsInv`, `TrafficInv`: as in `SingleRun`, over all receipts. Acceptance needs
  the one and the mode in the summary the other.
* `ConsistencyInv`: the comparison was of the receipts that qualify for it, also after
  they were filed anew (`SameCompared`). With `RowsInv` it gives
  `ConsistencyNeverAccuses` (`NothingBroken`): what is compared at all holds by itself.
* `PrintedInv`: the summary is of the rows as they stand, and the exit code of them.

That a step keeps it has one lemma for each action. `AcceptedStaysAccepted` and
`RefilingOnlyAccepts` say that filing anew turns an open batch into an accepted one and
does nothing else; they give `BatchStepsKeepContract`, the step half of
`BatchKeepsContract`.

`Output_proofs` proves every property of `Output` for any blocks, anchors, receipts
and number of rows. Three steps lead there:

* Facts about one anchor (`AnchorOutcome`, `StateMeans`, `ComparisonsDecide`):
  which verdicts, reasons, states and details go together. From these follow
  `ReasonsAlwaysFit` and `ObjectAlwaysAuditable`, which are about each anchor.
* Facts about one receipt (`DatesMean`, `SinglesAgree`, `RowsAgree`,
  `UnqualifiedMeans`, `ErrorsGrow`, `TrustUnmoved`, `HintMeans`): what each renderer
  makes of it. `ErrorsGrow` and `TrustUnmoved` compare a receipt with the same one
  less an anchor at any place, and rest on `FailedAnchorIsInert`.
* The run: `IInv` says that the inputs stay what they were (`InputsInv`), that what
  is told is the report of exactly these inputs (`ToldInv`), and that a failure has
  a code and names what is missing (`FailureInv`). No property is inductive without
  `ToldInv`, for none says which report was printed.

The theorems rest on `RowsAssumption`: rows carry anchors a run can meet
(`WellFormed`). That assumption is where `atl-core`'s work ends: a token is never
looked up, a proof is looked up at the height the receipt states and only if it
attests to it (`PreparedOts`), and a Bitcoin anchor is refuted unasked exactly when
no attestation of that height was read, be it because another height was attested
or because it was turned away before its proof was decoded (the documentation of
`proof_block_heights`, `a_rejected_bitcoin_anchor_still_carries_the_receipts_claims`).
TLC evaluates it on the rows of the `Output` runs.

Model-checked only: liveness (`LookupEnds`, and the exit in the two run contracts),
for the prover does not handle fairness. The properties of the violation runs are
refuted by TLC, and there is nothing to prove of them. Every safety property that a
passing run checks is a theorem, and so is the safety half of the three
refinements.

## 6. Where documentation and code disagree

* `ReuseWithinTTL`. `lookup_block`'s documentation dates a reused header by its
  query, within the last `CACHE_TTL`. The entry is stamped after the last answer,
  so the query may be older by as long as the lookup took, up to two timeouts.
  `StalenessBounded` is the bound that does hold.
* `FileAndDirectoryAgree`. `error.rs` promises the same code for a file and for a
  directory. An error returned by `atl-core` itself is `VerificationFailed`, exit
  1, for a file, and an `Error` row, exit 2, in a batch. For every pair that gets
  a result the promise holds: `BatchOfOneIsSingle`.
* `FetchedMeansDecided`. `reclassify`'s documentation says that an item untrusted
  only for want of a block becomes valid or invalid once it is fetched. A block
  that refutes the anchor leaves the item untrusted, which is what the verdict's
  own documentation wants; an item never becomes invalid by going online
  (`BatchKeepsContract`).
* `RefutedAnchorIsShown`. A refuted anchor "is printed by both renderers". The
  human table of a directory lists the unresolved anchors of a row and not the
  refuted ones; a directory accepted with a refuted anchor ends with "see the
  rows above", where nothing names it.
* `ErrorIsTruthful`. The error's hint is to say what the caller must supply. For a
  block time this build cannot read it asks for trust material, while the human
  hint says that no certificate is involved. For a directory it always does,
  unless files are unmatched: also where the items are Receipt-Lites, or lack
  nothing but a Bitcoin block.
* `SpotlessMeansAll`. Every entry seen is to end up in exactly one field of
  `FileMatching`, so that a batch that skipped something never looks spotless.
  `walk_directory` passes over a file its `keep` turns down: a receipt that lies
  among the sources, or a document among the receipts, is in no field and on no
  row, and a batch of nothing but verified pairs says nothing of it.
  `NothingVanishes` is what holds: of the files a side wants, none is lost.

Others have no run, most for being a matter of wording or of a path that is not
taken:

* The human hint is to say why a check could not be finished, but goes through the
  unresolved anchors only: nothing follows its heading when every anchor was
  refuted, or when the receipt's own check is what did not finish.
* The documentation of the JSON item field `assessment` says it is absent for a
  receipt with no anchors; it is present.
* The state of `TsaChainIndeterminate` is documented as one that no certificate
  changes, while its hint says that naming the terminal with `--tsa-trust-store`
  settles it.
* `accepted_with_gaps` is documented as said of an accepted run. It is computed
  from the anchors alone and is true beside `untrusted` where the receipt's own
  check could not be finished.
* The trust store's documentation names `TrustStoreError` for a path that does not
  exist or cannot be read; it is `FileReadError`, with the same exit code. It
  promises an error for an entry of a directory that cannot be examined; one whose
  metadata cannot be had is passed over (`Candidates`).
* The conversion of `atl-core`'s errors says that exit 1 would be wrong for a
  receipt that could not be checked, and returns `VerificationFailed`, exit 1.
  No path takes that arm.
* The human report would say between which receipts a log was tampered with by
  their position in the list. No batch gets there: `ConsistencyNeverAccuses`.

## 7. What is not modelled

`atl-core` (its findings are the environment's choice), hashing, certificate
parsing, the wording and layout of the renderers, certificate details and hashes
in the JSON objects, failures of printing, command line parsing, `inspect`,
interruption by a signal, the build without the `online` feature. Within modelled
parts: the race between the probe's endpoints (its result is a Boolean, since
either answer to it is allowed in every state); the cache between the lookups of
one run (`SingleRun` and `BatchRun` let every lookup be answered afresh, which
allows more than the cache does, by `LookupKeepsContract`); most reason codes of
receipts; the prose of errors; the reason for an anchor type the build lacks;
changes of the file system within one listing.

## 8. Plan

Built: everything in section 2, the plan's models in full, and the proof of every
safety property the runs check. What is left is depth rather than breadth:

1. Whether the assumptions of `Output` (`WellFormed`) hold of the results that
   `SingleRun` leaves, which joins the two by a theorem as `LookupService` joins the
   lookup to the runs.
2. That a batch's `found` is what `FileMatching` paired and read.
