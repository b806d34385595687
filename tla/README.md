# Verification of the forensic PKI adjudication service

TLA+ modules, TLC configurations and TLAPS proofs about the service in `src/`:
an HTTP API that collects certificates, CRLs and OCSP responses into evidence
sets, seals them, and answers whether an artifact signature was valid at a time
in the past, given what was known at another time. Every definition that models
code is listed with its lines in `PROJECT.json` (`map`).

## 1. The system

| component | source | state | operations |
|---|---|---|---|
| Evidence store | `app/storage.py` | SQLite tables `sets`, `items`, `idempotency`, `adjudications`; files `blobs/`, `packages/*.nameindex.json`, all on a volume the instances share | `put_blob`, `idempotent`/`save`, `create_set`, `get_set`, `assert_open`, `add_items`, `seal`, `save_adjudication`, look-ups |
| HTTP API | `app/api.py` | none of its own | create a set, upload items, seal, adjudicate, read back, download a package |
| Adjudication | `app/adjudge.py` | none | `adjudicate` (look-up, core, save), `run_core` |
| Loader | `app/loader.py` | lazily parsed certificates, problems found | `cert`, `build_graph` with and without name index, `load_revocation` |
| Path search | `app/pathfinder.py`, `app/graph.py` | edges seen, first failure per edge, refused paths | `find`, `_dfs`, `_complete_path`, `_reject` |
| Chain checks | `app/chain.py` | policy tree and three counters, per path | path length, name constraints, EKU, policies |
| Revocation engine | `app/revocation.py` | per evaluation: considered and decisive items, tallies | `evaluate`, `_eval_crl`, `_eval_ocsp` |
| Package, verifier | `app/package.py`, `verify/` | none | bundle what a result refers to; recompute it offline |
| Parsing, encodings | `certmodel.py`, `evidence.py`, `der.py`, `canonical.py`, `timeutil.py`, `errors.py` | none | DER, signatures, canonical JSON, times |

Interaction: two API instances (`docker-compose.yml`) run the same code on one
volume and do not talk to each other. The handlers are `async` functions that
never await, so an instance handles one request at a time; but a handler calls
the store several times, each call is a transaction or a file operation, and
between two calls the other instance may do anything and this one may die.
Adjudication reads a sealed set through the loader, asks the path search, which
calls the revocation engine and the chain checks on each complete path.

What is hard here:

* **concurrency** - reads outside the transaction that acts on them
  (`assert_open`, `idempotent`), racing seals, racing uploads;
* **crashes and retries** - several transactions and files per request, a lost
  answer is a request sent again, and the same id must give the same answer;
* **determinism** - results must be byte-identical on any instance, although
  they are computed by different code paths (with and without name index);
* **search** - cycles, iterative deepening, a proof of rejection that must list
  every branch;
* **two timelines** - what was possessed by `knowledge_cutoff` says what was the
  case at `signed_at`; several selection rules interact.

What makes each component correct: the store loses nothing it acknowledged, seals
once, and answers only what is stored; an adjudication is a function of the
sealed set and the question; the search finds the least acceptable path if there
is one; a revocation conclusion rests on trusted evidence possessed in time; the
policies an accepted path is said to have are ones all its certificates stand
for; the verifier comes to the service's result from the package alone.
`PROJECT.json` lists the single hazards at their lines.

## 2. Modules

```
Problems            the list of refused evidence
Evidence            data and pure computations: batches, manifests, limits, results
  EvidenceSets      abstract life cycle of the sets
  EvidenceStore     the store, two or more instances, crashes   --implements--> EvidenceSets
    MCEvidenceStore     requests for TLC
    EvidenceStoreProofs     theorems: nothing is lost, the refinement
    EvidenceAnswerProofs    theorems: what answers are worth later
SharedDb            the database connections below the calls of EvidenceStore
  SharedDbProofs        theorems
PathFinder          the path search
  PathFinderProofs        theorems: what the search selects is sound
    PathFinderSearchProofs  theorems: it misses nothing
  Package           the search in the service and in the offline verifier
    MCPackage           graphs for TLC
    PackageProofs       theorems
ChainChecks         the whole-path gates       MCChainChecks  paths for TLC
  ChainChecksProofs     theorems
Revocation          one revocation evaluation  MCRevocation   evidence for TLC
  RevocationProofs      theorems
```

### EvidenceStore

A worker is an API instance. `pc[w]` names the store call the handler of `w`
makes next; an action is that call, with what the handler does with its result
up to the next call.

| action | code |
|---|---|
| `Submit` | a request arrives and is normalized |
| `GetSet`, `AssertOpen` | `get_set`, `assert_open` (no transaction) |
| `Idempotent`, `Save` | the two halves of `idempotent`, two transactions |
| `CreateSet`, `AddItems`, `Seal` | one transaction each |
| `PutBlob` | one blob (temporary file, rename) |
| `WriteSidecar` | the name index, after the commit of the seal |
| `ReadSet`, `Lookup`, `RunCore`, `SaveAdjudication` | `adjudicate` |
| `Respond` | the answer arrives; `replies` keeps it |
| `Crash` | the instance dies and restarts: tables and files stay |

Data: a `Content` is a byte string with its SHA-256, a query a normalized request
with its digest, a set id the digest of its create request (assumption
`CreateIsHashed`). What parsers make of bytes is given by the sets `Rejected`
(a structured refusal), `Unparsable` and `Unsealable` (any other exception, a
500). The verdict is a function of manifest and query; what a result adds to that
is `parse_rejected`, the list of refused evidence, which goes into the result in
the order in which it was met. `ParseProblems` builds it as the loader does:
anchors; without a name index all certificates in the order of the manifest; CRLs,
OCSP responses; then what the search looks up, in the order of the lookups
(`Found`). `Problems` represents such a list by its order relation, so that two
results are equal exactly if their lists are, order included. The anchors are
parsed in the order in which a process iterates over a Python set: `RunCore`
chooses any (`Listings`). `replies` keeps successes and conflicts, the answers the
properties speak of. A response that is lost is not an action: a client that did
not get it sends the request again, which `Submit` always allows. `WriteSidecar`
may fail: the seal is then committed, raises (500), and the set stays without a
name index.

### EvidenceSets

The promise: sets are created, grow by whole compatible batches, and are sealed
once with the manifest of all their rows; a success is answered only when what it
says is stored (`Justified`). `EvidenceStore` implements it (`Abstract ==
INSTANCE EvidenceSets WITH ...`, the four shared variables map to themselves).

### SharedDb

`EvidenceStore` takes each call to commit or not to run. `SharedDb` is what is
below: each instance has one connection, used by all its requests under a lock,
and waits at most `busy_timeout` for the other's write lock. `tx[i]` is the
transaction of the connection, `snap[i]` what it sees, `pending[i]` the rows in
it that are not committed.

| action | code |
|---|---|
| `Read` | a `SELECT` on a transaction that was left open (otherwise it changes nothing) |
| `Insert`, `InsertBusy` | the `INSERT` of `create_set`, `save`, `save_adjudication`: Python opens a transaction for it, nothing rolls it back when it fails |
| `Begin`, `BeginBusy`, `BeginInside` | `BEGIN IMMEDIATE` of `add_items` and `seal`: it succeeds, times out, or finds a transaction open (outside the `try` that rolls back) |
| `Write`, `Commit`, `Abandon` | the rows of the batch, the commit, the rollback on an exception |
| `CommitSeal`, `WriteIndex`, `IndexFails` | a seal commits, then writes the name index in the same `try`; if that fails it raises although it is committed |
| `Restart` | the container is restarted |

The rules of SQLite that it rests on were tried out with Python's `sqlite3` on a
WAL database: after an `INSERT` that timed out `in_transaction` is true; `BEGIN
IMMEDIATE` inside a transaction raises and still takes the write lock; after a
read on the open transaction and a commit of the other connection, no write
succeeds on it any more.

### PathFinder

A node is a certificate, numbered by its fingerprint. Which edges and which
complete paths pass is an input; the search is the code's, one action per
outcome of the loop body of `_dfs`: `Loop`, `Unfit`, `Refuse`, `Accept`,
`Descend`, `CutOff`; `Return` leaves a call, `Deepen` starts the next iteration,
`GiveUp` builds the rejection with `_annotate_dead_frontiers`.

### Package

The same search runs twice. In mode `service` it runs over the sealed set;
`Search` adds to each of its steps the problems `candidate_issuers` records while
it parses what has the right name, and to its first one the CRLs and OCSP
responses that do not parse; the list is kept in its order. A set without name
index starts with every certificate that does not parse. `EarlyReject` is the
result `run_core` gives before any search and before `load_revocation`. The
anchors are nodes, which parse. `Export` collects what the result refers to
(`_collect_references`) and hands that to the verifier, which starts with an
index of its own (`Within`); in mode `offline` the search runs again, and
`Compare` holds the two results against each other. CRLs and OCSP responses are
bundled whole, so the gates answer the same both times.

### ChainChecks

One complete path, root first, goes through the gates of `validate_static_chain`:
`CheckPathLen`, `CheckNames`, `CheckEku`, then `process_policies`, certificate by
certificate: `Match` makes the next level of the policy tree, `Map` applies one
mapping, `Adopt` consumes a level of the three counters and adopts the
certificate's limits, `WrapUp` intersects with what was asked;
`MappingInhibited` and `TreeEmpty` refuse. A node of the tree is its policy and
its lineage; the module's header says why the expected set is not needed.

### Revocation

One `evaluate`, without its cache. Each complete CRL (with the delta chosen for
it) and each OCSP response is one action, named for its outcome: passed over,
refused, stale, used. `Conclude` selects among the decisive items or explains
their absence from the tallies. `Cleared` and `Condemned` say the same things
declaratively, for the properties. Signer look-up and signatures are fields of an
item. The wording of reasons is abstracted to their kinds.

## 3. Runs

| run | result | bounds | what it shows |
|---|---|---|---|
| `MCEvidenceStore_uploads` | passes | 2 instances, 1 crash, 5 requests; limits 1 certificate, 1 CRL | `NoUploadLost`, `BlobsOfRows`, `RefMeansOneContent`, `RefusedForCause`, `SealedForGood`, refinement |
| `MCEvidenceStore_answers` | passes | 2 instances, 1 crash, 4 requests (create, upload, seal, ask), 2 refused certificates | `SameAnswer` and `Fetchable` where they hold; `PersistenceWins` under fairness |
| `SharedDb_busy` | passes | 2 instances, 6 writing calls, 1 restart | `RaisedIsOver`, `BatchOnNewest`, `SomeoneCanWrite` |
| `MCPackage_search` | passes | leaf, 5 CAs, `MaxDepth` 4, all graphs over 3 CAs | `WinnerIsLeast`, `EveryPathRefused`, `ProofCoversBranches`, `MarkedBranchesAreDead`, `PackageVerifies`, `VerifierEnds` |
| `MCChainChecks_gates` | passes | paths of 3 to 5 certificates, 3 policies, limits up to 2 | `PathLenAsRFC`, `CountersAreDue`, `PlainAnswer`, `AnswerIsConnected`, `NoInhibitedMapping` |
| `MCRevocation_evidence` | passes | up to 4 CRLs or 3 CRLs and 2 responses, about 14,000 combinations | `Grounded`, `RecordIsTrue`, `NewestDecides`, `FallbackExplained` |
| `MCEvidenceStore_index_race` | `SameAnswer` violated | 2 instances, no crash | finding 1 |
| `MCEvidenceStore_shared_id` | `Fetchable` violated | 1 instance, 2 sets | finding 2 |
| `MCEvidenceStore_key_race` | `OneContentPerKey` violated | 2 instances | finding 3 |
| `MCPackage_early` | `PackageVerifies` violated | an anchor that is not self-signed | finding 4 |
| `SharedDb_stuck` | `RaisesOnlyUnderContention` violated | 2 instances, 4 calls | finding 5 |
| `MCRevocation_archive` | `ArchiveCounts` violated | one CRL, made at 3 and in time, about 2 | finding 6 |

Why the bounds are enough. The races of the store are between two handlers, so
two instances show them; a third adds no new pair of calls. One crash separates
every two calls of a handler, and a request can be sent again without limit, so
what a crash leaves behind meets every later request. The requests of `uploads`
overlap in a ref, a request id, a CRL received twice and a certificate under two
refs; with a limit of one certificate both a set at its limit and one over it
occur. In `answers` the question may be asked before the upload has arrived, and
of a set sealed without it; it comes to two refused certificates, in the order of
their digests, so that their list is the same with and without the index - the
other order would be finding 1. A connection is spoilt by one failing call; six calls
let both be spoilt, read, overtaken and used again. In `search` all digraphs over
three CAs contain all loops of two and three certificates, diamonds and
cross-certificates; two further certificates put an anchor at the end of a chain
longer than the last iteration, and each gate input refuses at most one path,
which already forces the search past its first complete one; a certificate that
does not parse hangs on the leaf or on a CA the search may or may not reach: two
of them, met in the order of their numbers or against it, and CRLs and OCSP
responses that do not parse either. In
`gates` a limit of 0, 1 or 2 on a path of at most five certificates can run out
before, at and after every certificate, and mappings chain over two levels. In
`evidence` every item is absent, sound or has one flaw.

Deadlock: the store can always take another request and deadlock is checked. The
search, the gates and the evaluation end, the calls of `SharedDb` are bounded;
their configurations switch the check off. That not all connections are shut out
at a time is the invariant `SomeoneCanWrite`. It does not say that each can write:
an instance at rest may hold the write lock (after `BeginInside`), and then the
other one cannot write until that instance makes an `INSERT` or is restarted.

Fairness. `FairSpec` of the store asks weak fairness of a running handler (it is
sequential code on a busy timeout, and goes on unless its instance dies) and
strong fairness of resending an unanswered request: clients retry, as README
section 6 of the repository tells them to, and an instance is free again and
again. Nothing is assumed about crashes except their bound, and nothing about
the order in which clients are served. `PersistenceWins`, `<>(\A r : Done(r) \/ Hopeless(r))`, then says that refusals
do not stick to a request id; `Hopeless` excuses every upload to a sealed set. `PackageSpec` assumes weak fairness of its next
step: service and verifier are sequential programs.

### Findings

1. **Name index after the commit** (`storage.py:322`). The seal commits and then
   writes the index; between the two, and for good after a crash or a failed write
   there, an adjudication parses the whole set and reports every refused
   certificate, before refused CRLs and OCSP responses; others report only those
   they look up, after these and in the order of the lookups. One request, two
   different results, in the members of the list or in its order alone. (The
   package of the first kind need not verify either: the verifier always has an
   index.)
2. **Adjudication id without the set** (`storage.py:340`). The same question about
   a second set is answered 201, `INSERT OR IGNORE` drops the row, and its id is a
   404 under that set.
3. **Check and act** (`storage.py:139`). Two instances that both find a request id
   free both succeed, with different contents.
4. **Early results have no package that verifies** (`adjudge.py:132`). An anchor
   that is not signed by its own key ends the adjudication before the search; the
   package then holds the anchors alone, and the verifier finds no leaf.
5. **A timeout outlives its request** (`storage.py:155`). An `INSERT` that waits
   longer than `busy_timeout` leaves a transaction open on the instance's only
   connection. The next upload or seal raises although nobody else is at work;
   after a read and a commit of the other instance, every write raises until the
   instance is restarted; and an instance at rest may be left with the write lock,
   which shuts the other one out. What the theorems of `SharedDbProofs` save: a
   call that raised commits nothing afterwards (`RaisedIsOver`), and some instance
   can write (`SomeoneCanWrite`).
6. **Archival CRLs** (`revocation.py:217`). A CRL made after `signed_at` and
   possessed by the cutoff is stale whatever it lists, although section 4 rule 4 of
   the repository's README lets it condemn. (`ArchiveCounts` speaks of CRLs and
   responses made after `signed_at` only; for an expired one rule 6 asks for
   STALE.)

Met while modelling and not given a run:

* Rows are committed before the idempotency row (`api.py:157-164`): after a crash
  between the two and a seal, the retry of a stored upload is a 409.
* A failed write of the name index makes the seal a 500 although it is committed
  (`storage.py:322-334`: the rollback finds nothing to undo); the client's retry
  finds the set sealed and succeeds, without an index.
* The anchors are parsed in the iteration order of a Python set (`loader.py:55`),
  which differs between processes. An early result lists the refused ones in that
  order, so that two of them make the answer depend on the process.
* The delta with the greatest number is chosen before its date of receipt is
  looked at (`revocation.py:155`); if it came late, the base stands alone and a
  revocation recorded by an earlier delta is lost (README 156-158, 196-199).
* Mappings of one certificate move nodes one after the other (`chain.py:228`): a
  second mapping of the same policy finds no node and is lost (README 137-138).
* `check_path_len` counts a leaf that is a CA (`chain.py:124`; README 125 and RFC
  5280 do not); `PathLenAsRFC` therefore speaks of leaves that are not CAs.
* A certificate without policies always empties the tree, RFC 5280 refuses such a
  path only when a policy must be explicit; the counter of explicit policies
  matters to an anyPolicy leaf only (`chain.py:273-292`). The docstring of
  `check_name_constraints` speaks of all certificates below a CA, the code tests
  the leaf (`chain.py:88`).
* `_annotate_dead_frontiers` walks back over failed edges too, so that some dead
  branches stay unmarked (`pathfinder.py:226`; `MarkedBranchesAreDead` is the half
  that holds).
* A CRL the library cannot load makes the seal a 500 (`storage.py:294`, in
  `SealStatus`); an empty key usage counts as an absent one (`pathfinder.py:59`,
  `revocation.py:117`), a delta numbered 0 like one without a number
  (`revocation.py:156`, in `Rank`); `path_count` counts a path once per iteration
  (`pathfinder.py:194`); the leaf's `digitalSignature` (section 3.2) is not tested.

## 4. Proofs

The theorems hold for every value of the constants: any set of instances,
requests and contents, any limits and bounds, any certificate graph or path, any
evidence. Every invariant of a passing run is a theorem; three of them under
conditions, which exclude the situations of findings 1, 2 and 4 and
which the inputs of the passing runs meet. The theorems about the search are
about `PathFinder`'s specification; the run `search` checks them of both searches
of `Package`.

| module | theorem | statement |
|---|---|---|
| `EvidenceStoreProofs` | `Invariance` | `Spec => []Inv` |
| | `TypeCorrect` | `Spec => []TypeOK` |
| | `BlobsBeforeRows` | `Spec => []BlobsOfRows` |
| | `RefsAreStable` | `Spec => []RefMeansOneContent` |
| | `UploadsAreKept` | `Spec => []NoUploadLost` |
| | `SealedIsImmutable` | `Spec => SealedForGood` |
| | `Refinement` | `Spec => ImplementsEvidenceSets` |
| `EvidenceAnswerProofs` | `RefusalsStand` | `Spec => []RefusedForCause` |
| | `AnswersAreAlike` | `Spec => []AlikeButForProblems` |
| | `OneAnswer` | `Spec => []SameAnswer`, if `AlwaysListedAlike` |
| | `AnswersCanBeFetched` | `Spec => []Fetchable`, if also `OneSetPerQuery` |
| `SharedDbProofs` | `TypeCorrect` | `Spec => []TypeOK` |
| | `FailuresAreOver` | `Spec => RaisedIsOver` |
| | `BatchesAreSerial` | `Spec => []BatchOnNewest` |
| | `NoStandstill` | `Spec => []SomeoneCanWrite` |
| `PathFinderProofs` | `TypeCorrect` | `Spec => []TypeOK` |
| | `AcceptedPathIsSound` | `Spec => []WinnerIsSound` |
| | `FailuresAreRefusals` | `Spec => []OutcomesRefused` |
| `PathFinderSearchProofs` | `SelectionIsLeast` | `Spec => []WinnerIsLeast` |
| | `RejectionIsComplete` | `Spec => []EveryPathRefused` |
| | `RejectionProofCovers` | `Spec => []ProofCoversBranches` |
| | `MarksAreTrue` | `Spec => []MarkedBranchesAreDead` |
| `PackageProofs` | `VerifierAgrees` | `PackageSpec => []PackageVerifies`, if `EarlyHasLeaf` and `IndexOrFound` |
| | `VerifierAgreesOtherwise` | `PackageSpec => []AgreesOtherwise` |
| `ChainChecksProofs` | `TypeCorrect` | `Spec => []TypeOK` |
| | `AnswersAreConnected` | `Spec => []AnswerIsConnected` |
| | `InhibitionIsHeeded` | `Spec => []NoInhibitedMapping` |
| | `CountersFollowLimits` | `Spec => []CountersAreDue` |
| | `AnswerReadOff` | `Spec => []PlainAnswer` |
| | `LengthsAsRFC` | `Spec => []PathLenAsRFC` |
| `RevocationProofs` | `TypeCorrect` | `Spec => []TypeOK` |
| | `ConclusionsAreGrounded` | `Spec => []Grounded` |
| | `NewerIsNotIgnored` | `Spec => []NewestDecides` |
| | `FallbackIsExplained` | `Spec => []FallbackExplained` |
| | `RecordTellsTruth` | `Spec => []RecordIsTrue` |

Assumptions, all named in the modules and evaluated by TLC in the runs: the types
of the inputs (`RequestType`, `QueryType`, `FoundType`, `ContentType`, `LimitType`,
`CrashBound`, `DbBounds`, `SearchType`, `PackageType`, `ChainType` and the
`InputType` of the search and of the revocation engine); what is
finite because it came in one request or one sealed set (`BatchesFinite`,
`NodesFinite`); that `None` is none of the values it stands beside
(`NoneIsNoRecord`, `NoneIsNoRow`, `NoneIsNoRule`, `NoneIsNoItem`,
`NoneIsNoConclusion`); that a set id is the hash of its request
(`CreateIsHashed`), that fingerprints tell evidence apart (`Fingerprints`,
`DigestType`) and
that a REVOKED response has a time (`RevokedHasTime`).

The conditions of three theorems are operators of the proof modules:

* `AlwaysListedAlike`: whatever part of the uploads gets into a set, no certificate
  of it is refused; or only certificates are, and a question about the set gets to
  its search and looks them all up, in the order of their digests (the run
  `answers`). Then the list of refused evidence is the same with and without the
  name index, order included; otherwise it may depend on whether the index was
  there (finding 1). `AnswersAreAlike` needs no condition and says that the list is
  all that can differ: in its order, or in certificates the question does not
  reach.
* `OneSetPerQuery`: a normalized question is asked about one set (finding 2).
* `EarlyHasLeaf`: with an anchor that is not self-signed the leaf is an anchor
  (finding 4). `IndexOrFound`: the set has its name index, or there is no
  certificate that does not parse, or these are all named like the issuer of the
  leaf and no CRL or OCSP response is refused (finding 1, seen from the verifier).
  `VerifierAgreesOtherwise` needs neither: it says that without them the package
  of such an early result lacks the leaf, that the verifier's list of refused
  evidence is shorter or has the same entries in another order, and that nothing
  else can differ.

**Store.** The properties are not inductive: that an answer is justified depends
on what the handler held before it answered, and that on rows of the idempotency
table another instance may have written. `Inv` is the type invariant with three
parts: what is stored is consistent (`Stored`: an absent set has no rows, a
sealed set's manifest is the one of its rows, the references of stored rows are
compatible, blobs of rows exist), every answer given or kept in the idempotency
table, and every adjudication row, is justified by the tables (`Kept`), and each
handler's locals fit the call it is about to make (`Running`: a response about
to be saved is justified, blobs of a batch past `put_blob` exist, the manifest
read is the set's). Justification is stable because tables only grow
(`GrowsStep`, `JustifiedStable`), so the steps of other workers preserve all
three (`RunningFrame`, `OthersRest`). `NoUploadLost` needs in addition that a
manifest has an entry for each row no later than the row says; since the
earliest row of a content is a minimum of natural numbers, this uses
well-founded induction for its existence (`EarliestExists`). The refinement maps
`CreateSet`, `AddItems`, `Seal` and `Respond` to the abstract actions and every
other step to a stutter (`AbstractStep`).

**Answers.** A conflict has a cause in the tables, and a cause stays because tables
only grow. That is plain for a missing set or a key that is taken, not for the
limits of a seal, which are on numbers of distinct contents and on a sum. The
manifest has one entry for each content (`EarliestCounts`, a bijection), so the
numbers are those of sets that grow; the sum is defined by recursion over the
contents in an arbitrary order, and `SumIsWeight` shows that it is the cardinality
of a set of pairs, which grows too. For successes, `Exact` says of an answer that
it is determined by what is stored but for one Boolean, whether the index was
there, and the order in which refused anchors were parsed; it holds of answers given, of responses in the idempotency table and of
what handlers hold (`SayingAt`), and the rows of `adjudications` are likewise
exact and stay (`Filed`, `AdjsExact`). Two exact answers then differ in
`ParseProblems` alone, in the order of the list or where index and parser differ
(`ProblemsDiffer`).

**Connections.** The strengthening says that one connection at most is writing,
that what is pending on a connection is a row of the call at work on it (hence a
connection at rest has nothing pending, whatever transaction it has open), that a
seal at its name index is committed, and that the snapshot of a batch is the
newest. So what a later commit takes along is never of a call that raised. That some instance can write follows:
if none is writing, an instance whose transaction is stale is stale because
another one committed, and committing ended that one's transaction.

**Search.** `TypeOK` already says that the stack is a simple path of admitted
edges; the strengthening adds that it begins with the leaf, has no anchor and no
unfit certificate on it, and that each frame's parents are those of its
certificate. A winner is the stack with one more certificate.

For completeness a path is said to be pending if it leaves the stack with a parent
not yet visited. The invariant: every path within the bound of the iteration is
pending or done, that is refused if it is complete, with its edges listed if it is
not (`NoneSkipped`); the complete ones of earlier iterations are refused
(`ShorterTried`); the parents left at a frame come after the one on the stack
(`InOrder`, which makes the first hit the least). When the stack is the leaf with
nothing left, nothing is pending. `CompletePaths`, `Entered` and `Reaching` are
recursive functions; the proofs relate them to paths described as a whole (`Trail`,
`Complete`): each recursive function is shown to satisfy its equation, and a
statement about all its arguments follows by looking at a least argument at which it
would fail. That a walk with loops can be cut to a path, and that a path has at most
`Cardinality(Node)` certificates, is what makes `Entered` and `Reaching` the right
sets.

**Package.** The search is deterministic, so a step is a function of the input and
of what was found so far (`Move`; `StepIsMove` shows that every action is that
function). The invariant keeps the sequence of the service's records
(`Traced`) and says that the verifier's record is one of them (`AtMove`). A move
looks at the candidates of one certificate and the refused candidates of one; both
are in edges and problems, which only grow (`Grows`), so they are in the result and
in the package, and the move over the package is the same (`SameMove`), the order in
which it lists what it meets included (`SameBefore`, `LookedUpIsListed`). The first
move needs care, since a set without index starts with problems the verifier does
not have (`SameFirstMove`, with `NotingAgain` and `NotingNone`). Without the conditions: a move does not look
at the problems found before it (`MovedPlain`), so the verifier's record is one of
the service's but for its problems, which are among the service's (`NearMove`).

**Gates.** Each node of the tree carries its lineage; the invariant (`Rooted`) says
that for every set of policies closed under the mappings of the path, a node whose
lineage meets the set has all certificates up to its level assert a policy of the
set or anyPolicy. `Match` and `Map` keep it because the set is closed; at `WrapUp`
it is the property. For `NoInhibitedMapping`, the counter of mapping inhibition is
0 or leaves no more than each limit seen so far allows (`Pressing`).
`CountersAreDue` says what a counter is, not only a bound: the least of what the
limits seen so far leave (`Due`, over the sets `Dues`), carried over one certificate
more. For `PlainAnswer` the invariant (`PlainTree`) says which nodes the tree has: on
a path without mappings, one for each policy that is chained to the certificates so
far, and anyPolicy as long as it is open. `PathLenAsRFC` compares a count made anew
below every CA with one running count, whose value is shown to be the least room any
certificate above leaves (`RoomDues`).

**Revocation.** Every item found decisive is justified by the evidence (`Sound`),
every item that had to be found decisive was, once it has been looked at
(`BasesSeen`, `ResponsesSeen`), and the item selected precedes all others
(`Decided`). A base that is used is used with a delta that fits it, because among
finitely many deltas one beats all others (`BestExists`, by a smallest
counterexample). The proof needed an assumption the runs did not: a REVOKED
response has a revocation time (`RevokedHasTime`; `evidence.py:364-365` always
sets it); without one the code would condemn whenever the response is current.
For the fallback, the tallies are related to the items looked at (`TalliesTrue`: the
count of candidates is positive exactly if an item counts, a failure or staleness is
that of some item, and while nothing decisive or stale was found every candidate
failed); the record of the evidence is treated as the set of its entries, so
that `Mark`, which rewrites a sequence, becomes a map on entries.

Only model-checked: liveness (`PersistenceWins`, `VerifierEnds`), since fairness and
ENABLED are beyond the prover. The findings are counterexamples and stay runs.

## 5. Not modelled

* The verifier's checks of hashes, inventory and canonical encoding: functions on
  bytes. `Package` models the recomputation of the result, the check that depends
  on what was bundled.
* `certmodel.py`, `evidence.py`, `der.py`, `artifact.py`, `canonical.py`,
  `timeutil.py`, subtree matching of names: pure functions on bytes and strings,
  whose outcome per object is data of the models.
* The cache of the revocation engine over the certificates of a path: a key is a
  certificate and a role, and evaluations do not depend on each other.
* `put_package`, `package_path`: no caller. `main.py`: process start.
* Torn or unsynced files: the name index is written without `fsync`; a file is
  modelled as absent or complete.
* `EvidenceStore` and `SharedDb` are not composed: the store takes calls to be
  atomic, which `BatchOnNewest` and `RaisedIsOver` justify; a call that times
  out ends its handler as a crash does, and what it leaves on the connection is
  `SharedDb`'s subject.

## 6. What could come next

The search with gates computed by `ChainChecks` and `Revocation` instead of given;
`EvidenceStore` on top of `SharedDb`, with calls that raise; a ranking of the
states of the search, which would bound its steps without fairness; the chosen
delta and the verifier without name index as theorems of their own.
