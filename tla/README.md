# Verification of the pesticides OCR backend

The repository is a Hapi service in front of MongoDB. Applicants submit
registrations after proving that they can read mail at their contact address,
case officers search, export and soft delete them, and the dashboard counts
journeys. This directory holds TLA+ models of that service, checked with TLC,
and theorems about them proved with TLAPS.

Paths below are relative to the repository's `src/`.

## The system

Every instance of the service is one Node event loop; several run at once and
share nothing but MongoDB. So the concurrency that matters is between requests,
on one instance or on several, at each `await`, and between requests and what
the server does by itself: replication to the secondaries that plain reads go to
(`secondaryPreferred`, see `repositories/mongo-transaction.js`), and the TTL
indexes. Nothing is recovered at a restart: a request that dies leaves the
database as it is.

| Part | State it keeps | Operations | Interacts with | What is hard |
| --- | --- | --- | --- | --- |
| Audited repository (`repositories/`) | `ocr-registration`, `ocr-registration_history`, one transaction per call | `create`, `update`, `softDelete`, `withTransaction`, reads | every route that holds `request.registrations`; MongoDB transactions and the driver's retries | stale versions, write conflicts, work that fails half way or swallows an error, retries, lost answers |
| Rate limiter (`services/email-verification/rate-limiter.js`) | a cooldown per journey, three counters per window | `reserveSend`, `releaseSend` | link requests; the TTL index | several updates without a transaction, giving back, expiry, slow requests |
| Verification records and link requests (`verification-records.js`, `request-link.js`) | one record per link, an activation marker per journey | insert, delete, activate, mark verified, three reads | rate limiter, Notify, verification, gate | a slow or silent Notify, overlapping activations on snapshots, purge |
| Verification, gate and status (`verify-link.js`, `registration-gate.js`, `current-status.js`) | none | `POST /verify`, the check before `POST /register`, `GET /current` | records | races on one link, reads that lag |
| Registration submission (`services/registration`, `routes/registration/registration.js`) | none | `POST /register` | gate, audited repository, Google Analytics | reference collisions, check then act, lost answers |
| Deletion (`routes/registration/delete-registration.js`) | none | `DELETE /registrations/{reference}` | audited repository | the version loaded some time ago |
| Journey events (`services/metrics`, `routes/metrics`) | a collection per event, with a unique sparse nonce | beacons | Google Analytics | repeated and concurrent beacons |
| Journey metrics | none | monthly and yearly summaries | events, registrations | three reads at different moments |
| Search and export (`services/search`, `services/export`) | none | paged search, limited CSV export | audited repository | pages that shift between reads |
| Authentication (`auth/`) | cached key sets | bearer scheme, role check | Entra | which combination of token and configuration is let in |
| Configuration and infrastructure (`config.js`, `server.js`, `plugins/`) | connection, indexes | start, stop, validate | all of it | settings that must fit each other |
| Seed scripts (`scripts/`) | none | insert and delete `SED-` registrations | the registrations, without a version | unversioned documents next to versioned ones |

What makes each part correct:

- **Audited repository.** Every version of a registration has exactly one
  history entry and its last one is the stored document. A change is applied
  entirely or not at all. No acknowledged change is overwritten by one that did
  not see it. A deleted registration never changes. Every call ends.
- **Rate limiter.** No more emails are granted than the limits, and two of a
  journey are a cooldown apart, as far as the earlier request was prompt. What was
  not sent uses up nothing.
- **Links.** At most one link of a journey is live, and an applicant who was sent
  one is not left without. A link is used once, its record stays as it is and is
  kept as long as the verification counts. A registration is let through only
  for an address that was proved, for its journey and in time.
- **Submission.** Where the gate is on nothing is saved without a verification.
  A call saves one registration at most, under the reference it is told, and its
  event is sent only after the commit. What was saved is not removed or changed
  by other submissions, retries or seeds, whose prefix must not be the service's.
  Nobody is refused once every secondary shows the verification.
- **Events, metrics.** A session counts once. Drop-outs are not overstated, and
  the months make the years and the whole.
- **Search, export, deletion.** Only case officers are served. Equal dates do not
  make a registration appear on two pages or on none. An export is whole or
  refused. A deletion at the version shown is no conflict, and is told once.

## The modules

Each module below is one part, `MC...` gives it values for TLC, and `...Proofs`
holds its theorems: `AuditedRepositoryProofs` and `AuditedCallsProofs`,
`RateLimiterProofs`, `VerificationLinksProofs`, `JourneyLinksProofs`,
`ApplicantApiProofs`, `CaseOfficerApiProofs` with `JourneyMetricsProofs`.

### RegistrationStore and AuditedRepository

`RegistrationStore` is the promise of the audited repository: a set of
registrations and a set of history entries, and one action, `Transaction`, that
applies some changes with their entries or none. It knows nothing of snapshots,
conflicts, failures or retries.

`AuditedRepository` is `repositories/audited-repository.js` with
`registration-history.js`, `guards.js` and `mongo-transaction.js`, over MongoDB's
snapshot transactions. For each caller it has the transaction's `view`, the
registrations it has written (`wset`), the entries it has `added`, whether its
view is older than a later commit (`stale`), and the failure that
`withTransaction` remembers. `Create`, `ChangeExisting` (update and soft delete,
with the `visible` and `atVersion` filters) and `Append` are the steps of one
operation; `BeginSingle`, `BeginGroup`, `WorkReturns`, `WorkFails`, `WorkThrows`,
`Retry`, `Commit`, `Acknowledge`, `Lose` and `Return` are the transaction around
it. A registration's contents are its last author: enough to tell whose change
survived. `LegacyRef` are the registrations stored without a version
(`UNVERSIONED`), which have no history.

The work of a group may abort the transaction itself (`WorkAborts`). The session
is then in no transaction, so that `run` makes no change (`session.inTransaction()`),
and the call ends as the work does, or with the refusal (`AbortedCallEnds`).

The unique index on reference and version of the history is left out on purpose:
`HistoryComplete` holds without it, so it never rejects an entry. Locks on what a
transaction has written are released when it ends, so a failed attempt keeps
them until it is aborted. The driver gives up after `MaxRetries` attempts, as it
does after its time limit. `ImplementsStore` is the refinement: under
`Store == INSTANCE RegistrationStore` every step is a transaction or a stutter.

### RateLimiter

One action for each update of `rate-limiter.js`: `ClaimCooldown`, `Increment` for
each of the counters in parallel, the decision (`Allow`, `Deny`) on what the
request's own increments returned, `ReleaseCooldown` and `ReleaseCounter`. Each
update may fail with or without effect (`ClaimFails`, `IncrementFails`,
`ReleaseFails`, at most `MaxFaults` of them; a rejected release turns a refusal
into a failed call). `ExpireCooldown` and `ExpireCounter` are the TTL index, `Tick`
the clock. A request reads the clock once, in `Begin`, and sends its email in
`Send`, any time after it was granted. `late`, `sentAt` and `leaked` are history
variables: counted after its window, when the email went, and whether an update was
lost; `faults` counts the failures so far.

The code writes the cooldown's end from the time the request read at its
beginning, so the time between two emails is the cooldown less what the earlier
request took from that reading to its email. `CooldownHeld` says just that, of the
emails and not of the claims: a prompt request is followed by a full cooldown. That
a slow one is not is the finding `rate_cooldown`.

### VerificationLinks

The records of the links on the primary (`rec`) and as plain reads see them
(`replica`). A request asks the limiter (`Request`, `Grant`, `Refuse`), inserts
its record, has Notify deliver and perhaps answer (`Deliver`, `NotifyAnswers`,
`SendFails`), and then either undoes what it did (`DropRecord`, `FreeCooldown`,
`UndoEnds`, any of which may not happen) or activates the link in a transaction:
`Mark` writes the journey's marker and takes the snapshot, `WriteRecords`
supersedes and activates, `Commit` or `Abort` end it, with the driver's retry and
the lost answer. `Open`, `MarkVerified` and `ReadReason` are `verifyLinkToken`,
`GateOpen` is the gate, `Purge` the TTL index, `Replicate` the secondary.
`wins` and `proof` remember the verifications after the purge.

Of the limiter this module keeps the cooldown, counted like there from the time
that a request read at its beginning.

### JourneyLinks

`JourneyLinks` is the promise of the links, as `RegistrationStore` is that of the
repository. For each link it has a `phase` ("none" before there is a record, the
record's status, "gone" after it), what its record is `about` (journey, address,
when it was asked for) and when it was `used`; and each change is one step:
`AskFor` or `Forgo`, `GiveUp` or `GoLive`, which supersedes the journey's live
link in the same step, `Use` before the link expires, and `Expire`. It knows
nothing of emails, transactions, snapshots, retries and lost answers.

Two modules keep it, at different grains. `VerificationLinks`
(`ImplementsLinks`) has all of that and takes many steps to activate a link, of
which the commit is `GoLive`. `ApplicantApi` (`LinksAsPromised`) has the calls of
the whole API around the links, and takes the activation as one write. In both
`Phases`, `Abouts` and `Uses` read the abstract state off the records; a link
without a record is "none" while its request may still insert one, and "gone"
once it cannot. So what `ApplicantApi` takes from `VerificationLinks` is not only
its word: both are shown to make steps of one specification. `ApplicantApi`
starts with an earlier link in any state (`Before`) and purges nothing while it
counts.

### ApplicantApi and RegistrationForm

`ApplicantApi` is the public API as a whole: the two beacons, the three email
verification routes and `POST /register`, composed, with the settings (`tier`)
that open and close them, and the seed scripts beside them. `Receive` is a route
up to its first `await`: validation, the checks of the configuration and of the
journey token, in the order of the code, and the status and code it refuses with
(`Refusal`). Then a call takes one step per access to the database: `RecordEvent`,
`CheckGate`, `TryReference` (one round of `saveRegistration`'s loop), `Reserve`,
`Deliver`, `NotifyFails`, `Verify`, `VerifiedUnheard`, `Explain`, `Look` and
`Judge` (the two reads of the status), or `Fails`. A write may be applied and its
answer lost. `log` holds every version of the verification records; a plain read
sees any that some secondary still shows, and a later read perhaps an earlier one.
`CatchUp` is the slowest secondaries taking the next version, after which no read
shows the oldest again (`Oldest`); they need not ever do so. `NoFalseRefusal` is
about what all of them show: a submission can be refused because a read lagged,
but not any more once they have caught up with the verification.

It looks at the seams, so it takes from the other modules what they show: an
activation is one write (`VerificationLinks`: `ImplementsLinks`), creating a
registration is one step (`AuditedRepository`: `ImplementsStore`), and links are
not purged while they count (`ProofOutlives`). Of the limiter it takes nothing:
whether it refuses a send, and with which of its two codes, is open. The record of
a granted send may be stored although its answer is lost (`Reserve`). A registration is the call that stored it,
its journey and address, when its submission came in, and whether it passes the
schema. References are those of the seeds' prefix, `SED`, or of any other; a
deployment may have been given the former (`seedPrefix`), which its validation
allows, and then `delete-seed` takes the registrations of applicants as well.
`StoredForGood` excepts just that.

`RegistrationForm` is that schema, and the records that `seed.js` makes up, as
sets and predicates: a text is left out, blank, fine, too long or malformed. What
`seed.js` leaves undefined the driver stores as `Null`, which the schema would
refuse of a form; `ReadBack` takes it for an answer left out, as readers do.

### CaseOfficerApi, OfficerAuth and JourneyMetrics

`CaseOfficerApi` is the protected API while registrations come and go. `Start`
starts the service or refuses to, `Receive` is the bearer scheme, the route's
scope and its validation, `Read` one of the reads that `Promise.all` runs at
once, with the answer after the last, `Delete` the deletion with an answer that
may be lost. `log` holds every version of the database. A read is no snapshot: it
finds each document as any version has it (`Views`), so two documents of one result
may be as they never were together. `Begin`, `Submit` and
`NotEligible` are the applicants. An order that `sort` leaves open is any
(`Orders`), and what a search term matches is a constant.

`OfficerAuth` is the decisions before that: which settings the service starts
with, and which tokens are then answered with 401, 403 or let through.
`JourneyMetrics` is the counts by month, and the summary of three of them with
its months and years; rates are fractions.

## What is checked

| Run | Checks | Instance |
| --- | --- | --- |
| `audited_groups` | `IInv`, `RejectedLeavesNothing`, `ImplementsStore` | two callers, single and grouped changes, one new and one unversioned registration |
| `audited_versions` | `HistoryComplete`, `AcknowledgedIsRecorded`, `DeletedIsFrozen`, `CallsInv`, `EveryCallEnds` | two callers on one registration through three versions |
| `rate_grants` | `LimitHeld`, `CooldownHeld`, `CooldownInv` | three requests of one journey over two windows, a limit of two, any delay before an email |
| `rate_quota` | `QuotaReturned`, `QuotaInv` | two requests, two counters, one failing update, two windows |
| `links_live` | `OneLiveLink`, `NeverWithoutLink`, `ProofOutlives`, `UsedUpIsFinal`, `LinksInv`, `ImplementsLinks` | two requests of a journey, one verifier, until after the purge |
| `links_gate` | `UsedOnce`, `GateIsSound` | two links, verifiers, journeys and addresses |
| `applicant_api` | `GateHolds`, `OneCallOneRegistration`, `SessionCountsOnce`, `EventsMatchMilestones`, `AnswersComplete`, `NoFalseRefusal`, `StoredForGood`, `StatusAgreesWithGate`, `ApplicantInv`, `LinksAsPromised` | two calls of any kind, three deployments, two journeys, one address in two spellings, an earlier link in any state, two references and a seed |
| `case_officer_api` | `OnlyOfficersServed`, `EachListedOnce`, `LastPageIsLast`, `ExportComplete`, `ShownVersionWorks`, `DeletedOnce`, `DropOutsAreReal`, `MetricsAddUp`, `OfficerInv` | two calls out of 27 requests with nine tokens, eleven settings, three journeys in two initial states, two writes |

The inductive invariants `IInv`, `QuotaInv`, `LinksInv`, `ApplicantInv` and
`OfficerInv` begin with the type invariant `TypeOK` of their module, which is
therefore checked with them.

Each property of these has a mutant of a mapped definition, listed in
`PROJECT.json`, that breaks it: a dropped guard, a filter that forgets a field, a
release that is left out.

Bounds. Two callers are enough for a lost update, a write conflict and a stale
version, as each concerns two transactions and one document; three versions let
a caller be more than one behind. Three requests let one fail and give back
between two others. Two overlapping requests of a journey are what the
activation marker is for. In the runs of a journey the counter of the journey
stands for all three, which differ only in their key; `rate_quota` has two at
once, for the parallel updates. The clocks run past the end of a window, of a
cooldown, and of a record's retention, with every duration at least a tick, and
retention at its smallest allowed value, where it can fail. Requests, callers,
journeys and addresses that no configuration names are symmetric. Deadlock is
not checked in the runs of `RateLimiter`, `VerificationLinks` and the two APIs:
each request is made once and the clock stops, so they do stop.

In the API runs two calls are enough because each property concerns two at most:
two submissions colliding, a beacon and its repetition, two pages, two deletions,
or one call beside the writes. The links that calls meet are the earlier one and
the ones they send. Two attempts at a reference stand for ten (`MaxAttempts`),
so that the last one is reached. The deployments of `applicant_api` are one with
everything set up, one without email verification that uses the seeds' prefix, and
one without the secret and analytics. The two writes of `case_officer_api` are what a
deletion and its repetition, or the coming and going between two reads, need; a
month of one day and a year of two months let three days fall into three months
and two years. The settings of that run are the proper ones and ten with
something missing or wrong; its requests are a few of each kind, good and
bad.

Fairness, in `audited_versions` only. The event loop runs what is ready, and the
driver and the server answer every operation with a result or an error, so each
caller's steps are weakly fair, once it has begun a call. No caller has to begin
one. The driver's retries are bounded by its time limit, so giving up is one of
the steps; without it two callers could refuse each other's writes for ever.

## Where the code and its documentation disagree

| Run | What it shows |
| --- | --- |
| `rate_overshoot` | `rate-limiter.js` says that concurrent requests cannot overshoot a limit. A request that reads the clock in one window and increments after the TTL index has removed its counter starts a new counter, and is granted beyond the limit. `LimitHeld` is what does hold: no overshoot by requests counted in their own window. |
| `rate_cooldown` | `config.js` describes the resend cooldown as the minimum time between two verification emails for a journey. It is counted from the time the request read when it began: if a request stalls, its email and the next one can go in the same tick. `CooldownHeld` is what does hold. |
| `links_latest` | `README.md` says that only the latest link works. When Notify takes longer than the cooldown to answer the first of two requests, its activation supersedes the newer link. |
| `links_used` | `README.md` says that a used link is answered with `TOKEN_ALREADY_USED`. The reason is read from a secondary that may not have seen the use yet, and then is `TOKEN_INVALID`. |

## What is proved

Forty-eight theorems, in eight modules. Each component has one or two inductive
invariants, stated at the end of its module and checked there by TLC, a proof
that every step keeps it (one lemma for each action, and frame lemmas for what
the action leaves alone), and the properties that follow. All the safety and
action properties that the passing runs check, and the three refinements, are
theorems.

`AuditedRepositoryProofs`, for any number of registrations, callers, versions and
retries:

- `Invariance`: `Spec => []IInv`. `HistoryComplete` speaks of committed data only
  and is not inductive: whether a commit keeps it depends on what the transaction
  has gathered. `IInv` adds, for each caller, that it is the only writer of what
  it has written (`OnlyWriter`), that it sees a registration as committed
  unless its view is stale there (`ViewCurrent`), that its writes and entries
  together keep the history complete but for the one entry due
  (`WritesRecorded`), and that its program counter agrees with that
  (`ControlConsistent`). Lemmas say that `Recorded` looks only at its own
  reference and extends by one version and its entry; then there is one step for
  each action.
- `TypeCorrect` and `HistoryIsComplete` follow from it.
- `DeletionIsFinal`: no step changes a deleted registration or its history. Only
  `Commit` changes committed data, and the invariant shows that no transaction
  has a deleted registration among its writes.

`AuditedCallsProofs`, about what callers are told:

- `CallsInvariance`: `Spec => []CallsInv`, which adds to `IInv` that no entry of an
  attempt is stored before it commits (`AttemptsUnseen`), that a single change
  which committed is the one that its caller asked for (`SingleRecorded`), and
  that the entries of an open transaction tell which change creates and which
  deletes (`EntriesTell`).
- `RejectionIsClean` and `AcknowledgementIsTrue` are `RejectedLeavesNothing` and
  `AcknowledgedIsRecorded`.
- `RepositoryImplementsStore`: the refinement. `Commit` is one `Transaction` of
  `RegistrationStore`, with the transaction's writes and entries as its changes;
  that they are legal changes of the store is what `IInv` and `EntriesTell` say.
  Every other step is a stutter.

`RateLimiterProofs`, for any number of requests and journeys, any limits, faults
and durations:

- `ClaimsHold`: `Spec => []CooldownInv`. That of two requests which claimed a
  journey's cooldown one sends its email a cooldown after the time that the other
  began with (`ClaimsApart`) is not inductive by itself. What makes it so is
  `ClaimsKept`: until its cooldown ends, a request that claimed it finds its own
  claim in the document, since others are refused, the TTL index is too early, and a
  release removes only its own claim, after which its request is no claimant.
  `NoNewClaim` covers every step but the claim itself.
- `CooldownIsHeld`: `Spec => []CooldownHeld`. Of two requests of a journey whose
  emails went, the later one's email is no earlier than its claim, which is no
  earlier than the cooldown after the time that the other began with; what that one
  took until its email is what the two may lack of a cooldown.
- `QuotaInvariance`: `Spec => []QuotaInv`. `LimitHeld` counts requests that were
  granted; what the counter says of them is known only through those that hold
  it, granted or about to give it back. `CountsHolders` says that while its window
  is open a counter is at least their number, and exactly that unless an update
  was lost; `PassesLimit` that those it has let through in its window are no more
  than the limit. An increment that returns no more than the limit saw a counter
  with room for one. `CooldownOwned` says who will give a cooldown back.
- `QuotaTyped` (no counter falls below zero), `LimitIsHeld` and `QuotaIsReturned`.

`VerificationLinksProofs`, for any number of links, verifications, journeys and
addresses, and lifetimes that `RetentionAssumption` allows, which is
`validateRetention`:

- `LinksInvariance`: `Spec => []LinksInv`. That one link is live is decided by
  what an activation copied into its snapshot long before it commits.
  `MarkerKept` says that while it is open no other activation of the journey is,
  and no link has gone live that the snapshot does not show; `LocksKept` that what
  it has written stays as it is; `CopiesTrue` that every copy of a record, the
  secondary's included, was once true; and `ProofKept` that a used link is proved
  once and kept as long as it must be.
- `AtMostOneLive`, `LinkKept`, `OnceUsed`, `ProofKeptLong`, `GateSound` and, of
  steps, `UsedUpStays` follow, as does `LinksTyped`.
- `LinksKeepPromise`: `Spec => ImplementsLinks`, the refinement. A commit takes
  from its snapshot which links it supersedes, so that it is `GoLive`, which
  supersedes those that are pending *now*, needs `MarkerKept` and `LocksKept`:
  what the snapshot did not show or has changed since would have refused the
  commit (`CommitGoesLive`). A verification is `Use` because its call came in
  when it did (`Opened`: its time is no later than the clock) and its update
  found the link unexpired at that time. Dropping a record is `GiveUp`, the purge
  `Expire`; of a link's other steps nothing is shown, or that it will never have
  a record (`FailsEarly`).

`JourneyLinksProofs`, about whoever keeps that promise:

- `LiveOnce`, `UsedEarlyEnough` and `NoneComesBack`: one live link of a journey,
  verified in time, and what is superseded, verified or gone stays so. Here each
  is inductive with the types alone, as `GoLive` is one step.

`ApplicantApiProofs`, for any number of calls, any requests, deployments, seeds
and failures:

- `ApplicantInvariance`: `Spec => []ApplicantInv`. `GateHolds` compares a stored
  registration with the verifications at its submission; the call checked them
  one or more steps before it stores. `CallStage` carries the proof from the
  check to the save, `ProofsKept` says that what any version of the records shows
  as verified still is, which makes a lagging read safe, and `StoredOnce` and
  `CountedOnce` that a call has stored nothing before the step that ends it.
- `GateIsHeld`, `StoredOnlyOnce`, `StoredComplete`, `SessionsCountOnce`,
  `AnalyticsMatch`, `ApplicantTyped` and, of steps, `RegistrationsStay`,
  `RefusalsAreDue` and `StatusIsTrue` follow. `RefusalsAreDue` takes a verification
  that the oldest version still to be seen shows: by `ProofsKept` every version that
  the gate may read has it. `RegistrationsStay` is about any deployment: a
  registration is submitted under the service's own prefix, and removed only where
  that is the seeds'. `StoredComplete` rests on a lemma
  about each list of the form: whatever the seed script draws passes the schema.
- `LinksPromised`: `Spec => LinksAsPromised`, the refinement of `JourneyLinks`.
  Besides the invariant it needs that no call came in later than now (`Begun`).
- `ApiLiveOnce` and `ApiNoneComesBack` are then the theorems of
  `JourneyLinksProofs`, taken through the refinement
  (`Kept == INSTANCE JourneyLinksProofs WITH ...`): no step of the API is looked
  at again.

`CaseOfficerApiProofs`, for any number of calls, registrations, days, writes, and
any settings and requests:

- `OfficerInvariance`: `Spec => []OfficerInv`. An answer is made of reads of
  versions that may be gone when it is given, and the properties compare the
  answers of two calls. `LogInOrder` says what a version means for the later
  ones: a registration stays as it is or is deleted, for good. `ReadsAreTrue`
  says that what a call has read is the result for documents that some version each
  has, `CallStage` that only
  what was admitted and is valid gets so far and that the answer is made of all
  the reads, `DeletionStage` that a deletion's answer stays true: after 409, no
  version ever shows the registration at the version that was sent.
- `OnlyOfficers`: the service starts on a deployed tier in live mode only, where
  a token is verified.
- `ListedOnce`: in any order that the database may return (`Orders`) the position
  of a registration is the number of those that sort before it (`Position`,
  which needs `searchSort` to leave no ties), and pages are cut by position. What
  two pages read agrees on the dates of what both found, as no version changes
  those, so on these numbers. That no
  registration is on both holds for any two pages, that none is on neither for
  the first two, which need no third to be looked at.
- `LastPage`: division rounded up counts the pages. `ExportsComplete`: the one
  row more tells whether there are too many. `DropOutsReal` counts: those that
  started are at most those that did not end and those that did. `ShownVersions`
  and `DeletedAtMostOnce` follow from `DeletionStage`.
- `SummariesAddUp`: the months of a summary make up its years and its totals, and
  none is listed without a document (`MonthHasSome`).
  `JourneyMetricsProofs` shows that the sum over some months of the documents of
  each is the number of documents of these months. The sum is a fold
  (`MapThenSumSet`), so this is an induction over sets of months; as the
  library's induction theorems cannot be used, it is done by hand: if some finite
  set of months were a counterexample there would be a smallest one (strict
  inclusion of finite sets is well-founded), and one month less is none. Then
  each document with a date has one month, and the undated, which only a request
  without bounds counts, are what the totals have more.

What the proofs assume are the modules' named ASSUME clauses, which TLC evaluates
for every instance: durations and limits are positive and retention covers both
lifetimes, as `config.validate` demands; sets of documents are finite; the
settings and requests to be looked at are of the form that the routes receive;
and the values that stand for nothing are none of the data. Two say something
about references: that each starts with one prefix only, as a prefix has no hyphen
(`ReferenceAssumption`), and that they are ordered like numbers
(`SessionAssumption`).

Model-checked only:

- `EveryCallEnds`: liveness under fairness, which is out of the prover's reach.
- The four properties under "Where the code and its documentation disagree",
  which do not hold.

## What is not modelled

- Retry-After and the other times that are only reported.
- Formatting, hashing, CSV, regular expressions, logging and audit events: text,
  with no state that anything reads back. The email and the reference patterns
  are valid or not.
- The signature checks of tokens and Entra's keys: libraries.
- Connecting to MongoDB, the proxy, tracing and the orderly stop. A process that
  dies in the middle of a call is `Lose` in `AuditedRepository`, and a call that
  takes no further step everywhere else.
- The delivery of a server event to Google Analytics, which nothing waits for.
- That secondaries ever catch up, and that an applicant who was refused tries
  again: `NoFalseRefusal` says what follows once they do.
- What an applicant does about a failed activation, or a submission whose answer
  was lost: a second submission is another call and stores a second registration.
- Liveness of the HTTP calls. They wait for MongoDB and for Notify, which has no
  timeout, so there is no fairness that the code would justify.
- The clock is one for all instances. Clock skew between instances would shift
  the moments at which requests read it, which `Begin` and `Request` already
  leave arbitrarily early, but not into the future.

## Plan

1. *Done.* `RegistrationStore`, `AuditedRepository` and its proofs;
   `RateLimiter` and the proof of the cooldown; `VerificationLinks`.
2. *Done.* The two APIs: `ApplicantApi` with `RegistrationForm`, `CaseOfficerApi`
   with `OfficerAuth` and `JourneyMetrics`.
3. *Done.* Inductive invariants of every component, the refinement of
   `RegistrationStore`, and the properties that follow.
4. *Done.* `JourneyLinks` as the promise of the links, kept by both modules that
   have them, and the sums of the metrics.

What could follow: a promise of the rate limiter, for the step in which
`ApplicantApi` reserves a send, which now leaves it open; and the liveness of link
requests, should the call to Notify get a timeout.
