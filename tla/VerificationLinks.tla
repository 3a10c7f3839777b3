-------------------------- MODULE VerificationLinks --------------------------
(***************************************************************************)
(* The life of magic links: a request stores a record, has Notify send the *)
(* email and activates the link in a transaction (request-link.js,         *)
(* verification-records.js); whoever opens the link verifies the address   *)
(* (verify-link.js); the status, the registration gate and the reason of a *)
(* refusal are plain reads (current-status.js, registration-gate.js).      *)
(*                                                                         *)
(* Requests of one journey overlap when a call to Notify outlasts the      *)
(* cooldown.  An activation is a snapshot transaction that first writes    *)
(* the journey's activation marker.  Plain reads go to a secondary, which  *)
(* shows the database as it was at some earlier moment                     *)
(* (mongo-transaction.js:1-2).  The TTL index purges records.              *)
(*                                                                         *)
(* Of the rate limiter, modelled in RateLimiter, this keeps the cooldown:  *)
(* a request is granted only when none runs for its journey.               *)
(***************************************************************************)
EXTENDS Integers, FiniteSets

CONSTANTS
    Link,         \* requests for a link, each with its record and token
    Verifier,     \* calls of verifyLinkToken in progress
    Journey,
    Email,
    LinkTtl,      \* linkTtlSeconds, in ticks
    VerifiedTtl,  \* verifiedTtlSeconds
    Retention,    \* recordRetentionSeconds
    Cooldown,     \* resendCooldownSeconds
    MaxTime,      \* bound: the clock stops here
    None          \* no record, no link, no time

\* validateRetention refuses to start the service otherwise.
ASSUME RetentionAssumption ==
    /\ LinkTtl \in Nat \ {0}
    /\ VerifiedTtl \in Nat \ {0}
    /\ Retention \in Nat
    /\ Retention >= LinkTtl + VerifiedTtl

ASSUME ClockAssumption == Cooldown \in Nat \ {0} /\ MaxTime \in Nat

ASSUME NoneAssumption == None \notin Int \cup Link

Status == {"sending", "pending", "superseded", "verified"}

Record == [journey : Journey, email : Email, status : Status,
           createdAt : Nat, verifiedAt : Nat \cup {None}]

ASSUME NoRecordAssumption == None \notin Record

VARIABLES
    clock,
    rec,       \* the record of each link on the primary
    replica,   \* the records as plain reads see them
    granted,   \* whose cooldown runs for each journey, as RateLimiter has it
    pc,        \* where the request for each link is
    asked,     \* what it was asked for, and when
    delivered, \* the links whose email has arrived
    snapshot,  \* the records as the link's activation sees them
    locked,    \* the records its open transaction has written
    vpc,       \* where each verification is
    vlink,     \* the link it was given
    vtime,     \* the time it read when it began
    verdict,   \* what it told the caller
    wins,      \* how many verifications of the link succeeded
    proof      \* when the link was verified, remembered after the purge

vars == <<clock, rec, replica, granted, pc, asked, delivered, snapshot, locked,
          vpc, vlink, vtime, verdict, wins, proof>>

requesting == <<granted, pc, asked, delivered, snapshot, locked>>
verifying == <<vpc, vlink, vtime, verdict, wins, proof>>

NoAsk == [journey |-> None, email |-> None, at |-> 0]

Ask == [journey : Journey, email : Email, at : Nat]

Verdicts == {"none", "verified", "TOKEN_ALREADY_USED", "TOKEN_SUPERSEDED",
             "TOKEN_EXPIRED", "TOKEN_INVALID"}

TypeOK ==
    /\ clock \in 0..MaxTime
    /\ rec \in [Link -> Record \cup {None}]
    /\ replica \in [Link -> Record \cup {None}]
    /\ granted \in [Journey -> Link \cup {None}]
    /\ pc \in [Link -> {"idle", "asking", "inserting", "sending", "undoing", "activating",
                        "marked", "written", "sent", "failed"}]
    /\ asked \in [Link -> Ask \cup {NoAsk}]
    /\ delivered \in SUBSET Link
    /\ snapshot \in [Link -> [Link -> Record \cup {None}]]
    /\ locked \in [Link -> SUBSET Link]
    /\ vpc \in [Verifier -> {"idle", "marking", "reading", "done"}]
    /\ vlink \in [Verifier -> Link \cup {None}]
    /\ vtime \in [Verifier -> Nat]
    /\ verdict \in [Verifier -> Verdicts]
    /\ wins \in [Link -> Nat]
    /\ proof \in [Link -> Nat \cup {None}]

-----------------------------------------------------------------------------
(* Records                                                                 *)

ExpiresAt(d) == d.createdAt + LinkTtl

\* What goes wrong if retention does not cover the verification.
PurgeAtExpiry(d) == d.createdAt + LinkTtl

PurgeAt(d) == d.createdAt + Retention

HasStatus(d, s) == d # None /\ d.status = s

NewRecord(a) == [journey |-> a.journey, email |-> a.email, status |-> "sending",
                 createdAt |-> a.at, verifiedAt |-> None]

\* The records of the link's journey that its activation supersedes.
Superseded(l, records) ==
    {m \in Link \ {l} : /\ HasStatus(records[m], "pending")
                        /\ records[m].journey = asked[l].journey}

\* A document that an open activation has written: other writers wait.
Locked(m) == \E l \in Link : m \in locked[l]

\* What goes wrong without the marker: activations overlap unnoticed.
NoMarker(l) == FALSE

\* The activation marker of the journey is held by another open activation.
MarkerHeld(l) ==
    \E m \in Link \ {l} : /\ pc[m] \in {"marked", "written"}
                          /\ asked[m].journey = asked[l].journey

\* What goes wrong if the filter forgets the status.
VerifiableTwice(d, time) == d # None /\ ExpiresAt(d) > time

\* What goes wrong if the filter forgets the expiry.
VerifiableLate(d, time) == HasStatus(d, "pending")

\* markVerified's filter.
Verifiable(d, time) == HasStatus(d, "pending") /\ ExpiresAt(d) > time

\* rejection: why the link did not verify, from what a later read shows.
Rejection(d, time) ==
    CASE HasStatus(d, "verified") -> "TOKEN_ALREADY_USED"
      [] HasStatus(d, "superseded") -> "TOKEN_SUPERSEDED"
      [] HasStatus(d, "pending") /\ ExpiresAt(d) <= time -> "TOKEN_EXPIRED"
      [] OTHER -> "TOKEN_INVALID"

\* What goes wrong if the gate forgets how long a verification counts.
EverVerified(d, j, e, time) ==
    HasStatus(d, "verified") /\ d.journey = j /\ d.email = e

\* findRecentVerification's filter.
RecentlyVerified(d, j, e, time) ==
    /\ HasStatus(d, "verified")
    /\ d.journey = j /\ d.email = e
    /\ d.verifiedAt > time - VerifiedTtl

\* isEmailVerifiedForJourney: a registration with this address is let through.
GateOpen(j, e) == \E l \in Link : RecentlyVerified(replica[l], j, e, clock)

-----------------------------------------------------------------------------
Init ==
    /\ clock = 0
    /\ rec = [l \in Link |-> None]
    /\ replica = [l \in Link |-> None]
    /\ granted = [j \in Journey |-> None]
    /\ pc = [l \in Link |-> "idle"]
    /\ asked = [l \in Link |-> NoAsk]
    /\ delivered = {}
    /\ snapshot = [l \in Link |-> [m \in Link |-> None]]
    /\ locked = [l \in Link |-> {}]
    /\ vpc = [v \in Verifier |-> "idle"]
    /\ vlink = [v \in Verifier |-> None]
    /\ vtime = [v \in Verifier |-> 0]
    /\ verdict = [v \in Verifier |-> "none"]
    /\ wins = [l \in Link |-> 0]
    /\ proof = [l \in Link |-> None]

Tick ==
    /\ clock < MaxTime
    /\ clock' = clock + 1
    /\ UNCHANGED <<rec, replica, requesting, verifying>>

\* requestVerificationLink reads the clock.
Request(l, j, e) ==
    /\ pc[l] = "idle"
    /\ pc' = [pc EXCEPT ![l] = "asking"]
    /\ asked' = [asked EXCEPT ![l] = [journey |-> j, email |-> e, at |-> clock]]
    /\ UNCHANGED <<clock, rec, replica, granted, delivered, snapshot, locked,
                   verifying>>

\* The journey's cooldown runs for a request that began at this time.
CoolingDown(j, time) == granted[j] # None /\ asked[granted[j]].at + Cooldown > time

\* reserveSend: no cooldown is running, or it ended and the TTL index cleared it.
Grant(l) ==
    LET j == asked[l].journey IN
    /\ pc[l] = "asking"
    /\ ~CoolingDown(j, clock)
    /\ pc' = [pc EXCEPT ![l] = "inserting"]
    /\ granted' = [granted EXCEPT ![j] = l]
    /\ UNCHANGED <<clock, rec, replica, asked, delivered, snapshot, locked,
                   verifying>>

\* The cooldown or a counter refuses the request, or an update fails.
Refuse(l) ==
    /\ pc[l] = "asking"
    /\ pc' = [pc EXCEPT ![l] = "failed"]
    /\ UNCHANGED <<clock, rec, replica, granted, asked, delivered, snapshot,
                   locked, verifying>>

\* insertSendingRecord: the record exists before the email goes.
Insert(l) ==
    /\ pc[l] = "inserting"
    /\ rec' = [rec EXCEPT ![l] = NewRecord(asked[l])]
    /\ pc' = [pc EXCEPT ![l] = "sending"]
    /\ UNCHANGED <<clock, replica, granted, asked, delivered, snapshot, locked,
                   verifying>>

\* Notify sends the email, some time before or without an answer to the call.
Deliver(l) ==
    /\ pc[l] = "sending"
    /\ l \notin delivered
    /\ delivered' = delivered \cup {l}
    /\ UNCHANGED <<clock, rec, replica, granted, pc, asked, snapshot, locked,
                   verifying>>

NotifyAnswers(l) ==
    /\ pc[l] = "sending"
    /\ l \in delivered
    /\ pc' = [pc EXCEPT ![l] = "activating"]
    /\ UNCHANGED <<clock, rec, replica, granted, asked, delivered, snapshot,
                   locked, verifying>>

\* The insert or the call to Notify fails: the request will be undone.  (An
\* insert applied without an answer is Insert, SendFails and no DropRecord.)
SendFails(l) ==
    /\ pc[l] \in {"inserting", "sending"}
    /\ pc' = [pc EXCEPT ![l] = "undoing"]
    /\ UNCHANGED <<clock, rec, replica, granted, asked, delivered, snapshot,
                   locked, verifying>>

\* undoSend deletes the record, if it is still sending, and meanwhile gives the
\* cooldown back, if it is still this request's.  Either may fail, and so be
\* left out; the caller gets the first error all the same.
DropRecord(l) ==
    /\ pc[l] = "undoing"
    /\ HasStatus(rec[l], "sending")
    /\ rec' = [rec EXCEPT ![l] = None]
    /\ UNCHANGED <<clock, replica, requesting, verifying>>

FreeCooldown(l) ==
    LET j == asked[l].journey IN
    /\ pc[l] = "undoing"
    /\ granted[j] = l
    /\ granted' = [granted EXCEPT ![j] = None]
    /\ UNCHANGED <<clock, rec, replica, pc, asked, delivered, snapshot, locked,
                   verifying>>

UndoEnds(l) ==
    /\ pc[l] = "undoing"
    /\ pc' = [pc EXCEPT ![l] = "failed"]
    /\ UNCHANGED <<clock, rec, replica, granted, asked, delivered, snapshot,
                   locked, verifying>>

\* activateRecord: the transaction writes the marker, which another open
\* activation of the journey makes the driver retry, and takes its snapshot.
Mark(l) ==
    /\ pc[l] = "activating"
    /\ ~MarkerHeld(l)
    /\ pc' = [pc EXCEPT ![l] = "marked"]
    /\ snapshot' = [snapshot EXCEPT ![l] = rec]
    /\ UNCHANGED <<clock, rec, replica, granted, asked, delivered, locked,
                   verifying>>

\* The transaction writes the journey's pending records and its own.
Touched(l) == Superseded(l, snapshot[l]) \cup {l}

\* What goes wrong if only missing records conflict: a stale snapshot overwrites
\* a link that was verified meanwhile.
ChangedUnnoticed(l) == \E m \in Touched(l) : rec[m] = None \/ Locked(m)

\* One of them changed since the snapshot, or another transaction wrote it.
Conflicts(l) ==
    \E m \in Touched(l) : rec[m] # snapshot[l][m] \/ Locked(m)

WriteRecords(l) ==
    /\ pc[l] = "marked"
    /\ HasStatus(snapshot[l][l], "sending")
    /\ ~Conflicts(l)
    /\ locked' = [locked EXCEPT ![l] = Touched(l)]
    /\ pc' = [pc EXCEPT ![l] = "written"]
    /\ UNCHANGED <<clock, rec, replica, granted, asked, delivered, snapshot,
                   verifying>>

NoSnapshot == [m \in Link |-> None]

\* The transaction is aborted.  The driver runs it again after a conflict or a
\* transient error; otherwise, as when the record is no longer sending, the
\* request fails with the email sent and its quota used.
Abort(l) ==
    /\ pc[l] \in {"marked", "written"}
    /\ \/ pc' = [pc EXCEPT ![l] = "activating"]
       \/ pc' = [pc EXCEPT ![l] = "failed"]
    /\ locked' = [locked EXCEPT ![l] = {}]
    /\ snapshot' = [snapshot EXCEPT ![l] = NoSnapshot]
    /\ UNCHANGED <<clock, rec, replica, granted, asked, delivered, verifying>>

\* What goes wrong outside a transaction: links are superseded for nothing.
SupersedesOnly(l) ==
    [m \in Link |->
        IF m \in locked[l] \ {l} THEN [rec[m] EXCEPT !.status = "superseded"]
        ELSE rec[m]]

\* What the activation makes of the records.
Activated(l) ==
    [m \in Link |->
        IF m = l THEN [rec[l] EXCEPT !.status = "pending"]
        ELSE IF m \in locked[l] THEN [rec[m] EXCEPT !.status = "superseded"]
        ELSE rec[m]]

\* The commit; if its answer is lost for good the request fails all the same.
Commit(l) ==
    /\ pc[l] = "written"
    /\ rec' = Activated(l)
    /\ locked' = [locked EXCEPT ![l] = {}]
    /\ snapshot' = [snapshot EXCEPT ![l] = NoSnapshot]
    /\ \/ pc' = [pc EXCEPT ![l] = "sent"]
       \/ pc' = [pc EXCEPT ![l] = "failed"]
    /\ UNCHANGED <<clock, replica, granted, asked, delivered, verifying>>

\* verifyLinkToken, given the token of a link that was emailed.
Open(v, l) ==
    /\ vpc[v] = "idle"
    /\ l \in delivered
    /\ vpc' = [vpc EXCEPT ![v] = "marking"]
    /\ vlink' = [vlink EXCEPT ![v] = l]
    /\ vtime' = [vtime EXCEPT ![v] = clock]
    /\ UNCHANGED <<clock, rec, replica, requesting, verdict, wins, proof>>

\* markVerified: one atomic update on the primary, which waits for an open
\* transaction that has written the record.
MarkVerified(v) ==
    LET l == vlink[v] IN
    /\ vpc[v] = "marking"
    /\ ~Locked(l)
    /\ \/ /\ Verifiable(rec[l], vtime[v])
          /\ rec' = [rec EXCEPT ![l] = [@ EXCEPT !.status = "verified",
                                                 !.verifiedAt = vtime[v]]]
          /\ vpc' = [vpc EXCEPT ![v] = "done"]
          /\ verdict' = [verdict EXCEPT ![v] = "verified"]
          /\ wins' = [wins EXCEPT ![l] = @ + 1]
          /\ proof' = [proof EXCEPT ![l] = vtime[v]]
       \/ /\ ~Verifiable(rec[l], vtime[v])
          /\ vpc' = [vpc EXCEPT ![v] = "reading"]
          /\ UNCHANGED <<rec, verdict, wins, proof>>
    /\ UNCHANGED <<clock, replica, requesting, vlink, vtime>>

\* findByTokenHash: the reason comes from a later, plain read.
ReadReason(v) ==
    /\ vpc[v] = "reading"
    /\ verdict' = [verdict EXCEPT ![v] = Rejection(replica[vlink[v]], vtime[v])]
    /\ vpc' = [vpc EXCEPT ![v] = "done"]
    /\ UNCHANGED <<clock, rec, replica, requesting, vlink, vtime, wins, proof>>

Answer(v) ==
    /\ vpc[v] = "done"
    /\ vpc' = [vpc EXCEPT ![v] = "idle"]
    /\ vlink' = [vlink EXCEPT ![v] = None]
    /\ vtime' = [vtime EXCEPT ![v] = 0]
    /\ verdict' = [verdict EXCEPT ![v] = "none"]
    /\ UNCHANGED <<clock, rec, replica, requesting, wins, proof>>

\* The TTL index on purgeAt removes a record, some time after.
Purge(l) ==
    /\ rec[l] # None
    /\ PurgeAt(rec[l]) <= clock
    /\ ~Locked(l)
    /\ rec' = [rec EXCEPT ![l] = None]
    /\ UNCHANGED <<clock, replica, requesting, verifying>>

\* The secondary catches up.
Replicate ==
    /\ replica # rec
    /\ replica' = rec
    /\ UNCHANGED <<clock, rec, requesting, verifying>>

Next ==
    \/ Tick
    \/ \E l \in Link :
        \/ \E j \in Journey, e \in Email : Request(l, j, e)
        \/ Grant(l) \/ Refuse(l)
        \/ Insert(l) \/ Deliver(l) \/ NotifyAnswers(l) \/ SendFails(l)
        \/ DropRecord(l) \/ FreeCooldown(l) \/ UndoEnds(l)
        \/ Mark(l) \/ WriteRecords(l) \/ Abort(l) \/ Commit(l)
        \/ Purge(l)
    \/ \E v \in Verifier :
        \/ \E l \in Link : Open(v, l)
        \/ MarkVerified(v) \/ ReadReason(v) \/ Answer(v)
    \/ Replicate

Spec == Init /\ [][Next]_vars

-----------------------------------------------------------------------------
(* Properties                                                              *)

Live(j) == {l \in Link : HasStatus(rec[l], "pending") /\ rec[l].journey = j}

\* "At most one link is ever live" for a journey (verification-records.js:45),
\* however the activations of its requests overlap and are retried.
OneLiveLink == \A j \in Journey : Cardinality(Live(j)) <= 1

\* An applicant who was told that a link is on its way is not left without:
\* it is live or used, or another link of the journey took its place, unless
\* the retention of the record is over.
NeverWithoutLink ==
    \A l \in Link : pc[l] = "sent" =>
        \E m \in Link :
            /\ asked[m].journey = asked[l].journey
            /\ \/ HasStatus(rec[m], "pending") \/ HasStatus(rec[m], "verified")
               \/ pc[m] \in {"sent", "failed"} /\ asked[m].at + Retention <= clock

\* A used or superseded link stays so until it is purged, which is not before
\* its time: no activation, undone request or second use brings it back.
UsedUpIsFinal ==
    [][\A l \in Link :
        HasStatus(rec[l], "verified") \/ HasStatus(rec[l], "superseded") =>
            \/ rec'[l] = rec[l]
            \/ rec'[l] = None /\ rec[l].createdAt + Retention <= clock]_vars

\* "Of any number of concurrent attempts, exactly one succeeds" (README.md:301).
UsedOnce == \A l \in Link : wins[l] <= 1

\* The record outlives its verification: as long as a verification counts, the
\* primary has it, with the time it was made.
ProofOutlives ==
    \A l \in Link :
        proof[l] # None /\ clock < proof[l] + VerifiedTtl =>
            HasStatus(rec[l], "verified") /\ rec[l].verifiedAt = proof[l]

\* A registration is let through only for an address whose emailed link was
\* used before it expired and within the verified TTL, however far behind the
\* gate's reads are.
GateIsSound ==
    \A j \in Journey, e \in Email : GateOpen(j, e) =>
        \E l \in delivered :
            /\ asked[l].journey = j /\ asked[l].email = e
            /\ proof[l] # None
            /\ proof[l] < asked[l].at + LinkTtl
            /\ clock < proof[l] + VerifiedTtl

\* "A new link supersedes the journey's earlier ones, so only the latest works"
\* (README.md:257).
OnlyLatestWorks ==
    \A l, m \in Link :
        HasStatus(rec[l], "pending") /\ HasStatus(rec[m], "superseded")
            /\ rec[l].journey = rec[m].journey
            => rec[l].createdAt >= rec[m].createdAt

\* "TOKEN_ALREADY_USED: the link has been used" (README.md:309): a link that
\* was used, and is not purged, is not reported as unknown.
UsedIsToldSo ==
    \A v \in Verifier :
        LET l == vlink[v] IN
        vpc[v] = "reading" /\ HasStatus(rec[l], "verified") =>
            Rejection(replica[l], vtime[v]) # "TOKEN_INVALID"

-----------------------------------------------------------------------------
(* Why it works: the inductive invariant                                   *)

Activating == {"marked", "written"}

\* d is what the record of l is, or once was: it says what was asked for, and
\* if it is verified it has the time at which l was.
VersionOf(l, d) ==
    d # None =>
        /\ pc[l] \notin {"idle", "asking", "inserting"}
        /\ d.journey = asked[l].journey /\ d.email = asked[l].email
        /\ d.createdAt = asked[l].at
        /\ d.status = "verified" => d.verifiedAt # None /\ d.verifiedAt = proof[l]

\* Whatever copy is read, the secondary's or a snapshot, it was once so.
CopiesTrue(l) ==
    VersionOf(l, rec[l]) /\ VersionOf(l, replica[l]) /\ \A m \in Link : VersionOf(l, snapshot[m][l])

\* A request has a past time and a known journey; its record is on its way
\* until the activation commits, and its email goes only after the insert.
RequestKnown(l) ==
    /\ pc[l] # "idle" => asked[l] \in Ask /\ asked[l].at <= clock
    /\ pc[l] \notin {"sent", "failed"} /\ rec[l] # None => rec[l].status = "sending"
    /\ l \in delivered => pc[l] \notin {"idle", "asking", "inserting"}

\* A link that was used is proved once, in time, and its record is there until
\* it may be purged.
ProofKept(l) ==
    /\ wins[l] = IF proof[l] = None THEN 0 ELSE 1
    /\ proof[l] # None =>
        /\ l \in delivered
        /\ proof[l] < asked[l].at + LinkTtl
        /\ \/ HasStatus(rec[l], "verified")
           \/ rec[l] = None /\ asked[l].at + Retention <= clock

\* The marker: no other activation of the journey is open, so none of its links
\* has gone live since the snapshot.
MarkerKept(l) ==
    pc[l] \in Activating =>
        \A m \in Link \ {l} : asked[m].journey = asked[l].journey =>
            /\ pc[m] \notin Activating
            /\ HasStatus(rec[m], "pending") => HasStatus(snapshot[l][m], "pending")

\* What an activation has written stays as its snapshot has it, since nobody
\* else can write it.
LocksKept(l) ==
    /\ pc[l] # "written" => locked[l] = {}
    /\ pc[l] = "written" =>
        /\ locked[l] = Touched(l)
        /\ HasStatus(rec[l], "sending")
        /\ \A m \in locked[l] \ {l} : HasStatus(rec[m], "pending")
        /\ \A m \in Link \ {l} : locked[m] \cap locked[l] = {}

LinkInv(l) ==
    CopiesTrue(l) /\ RequestKnown(l) /\ ProofKept(l) /\ MarkerKept(l) /\ LocksKept(l)

\* Two live links of one journey are one.
OnlyLive ==
    \A l, m \in Link :
        /\ HasStatus(rec[l], "pending") /\ HasStatus(rec[m], "pending")
        /\ asked[l].journey = asked[m].journey
        => l = m

VerifierKnown(v) == vpc[v] # "idle" => vlink[v] \in delivered

LinksInv ==
    /\ TypeOK
    /\ \A l \in Link : LinkInv(l)
    /\ \A v \in Verifier : VerifierKnown(v)
    /\ OnlyLive
    /\ NeverWithoutLink

-----------------------------------------------------------------------------
(* Links keep the promise of JourneyLinks                                  *)

\* A link without a record has none yet, or no more.
Phase(l) ==
    IF rec[l] # None THEN rec[l].status
    ELSE IF pc[l] \in {"idle", "asking", "inserting"} THEN "none" ELSE "gone"

About(d) ==
    IF d = None THEN None ELSE [journey |-> d.journey, email |-> d.email, at |-> d.createdAt]

UsedAt(d) == IF HasStatus(d, "verified") THEN d.verifiedAt ELSE None

Phases == [l \in Link |-> Phase(l)]
Abouts == [l \in Link |-> About(rec[l])]
Uses == [l \in Link |-> UsedAt(rec[l])]

Promise == INSTANCE JourneyLinks WITH
    Before <- {}, phase <- Phases, about <- Abouts, used <- Uses

\* Overlapping activations, retries, late answers, failed undoings and purges
\* come to one step of JourneyLinks each, or to none: only the commit makes a
\* link live and supersedes the live one, and only an atomic update verifies it,
\* in time.
ImplementsLinks == Promise!Spec
=============================================================================
