----------------------------- MODULE ApplicantApi -----------------------------
(***************************************************************************)
(* The public API as the applicants' frontend calls it: the journey        *)
(* beacons, the three email verification routes and POST /register, with   *)
(* the settings that open or close each of them, beside the seed scripts.  *)
(*                                                                         *)
(* A call runs its checks up to the first await as one step (Receive), and *)
(* then one step per access to the database.  How a link is sent, used and *)
(* purged and how its quota is kept, VerificationLinks and RateLimiter     *)
(* have in detail: here an activation is one write, a transaction that     *)
(* stores a registration is one too, and whether the quota grants a link   *)
(* is open.  A plain read goes to any secondary, so it shows any version   *)
(* of the verification records that not all of them have left behind, and  *)
(* a later read may show an earlier one.  A write may be applied and its   *)
(* answer lost.                                                            *)
(***************************************************************************)
EXTENDS RegistrationForm

CONSTANTS
    Tier,          \* the settings of the deployments to be looked at
    Call,          \* HTTP calls, each made once
    Earlier,       \* a link that was sent before
    Journey,       \* sessions of the frontend: the nonces it signs
    Spelling,      \* addresses as they are typed
    Lower,         \* what trimming and lower-casing makes of each
    Reference,     \* the references of any prefix but that of the seeds
    SeedReference, \* those that start with SED, the seeds' prefix
    MaxAttempts,   \* MAX_REFERENCE_RETRIES
    LinkTtl, VerifiedTtl,
    MaxTime,       \* bound: the clock stops here
    MaxOpen,       \* bound: calls in progress at once
    None

\* secret: journey tokens are signed under one.  others: the other settings that
\* email verification needs are there.  required: the gate is on.  seedPrefix:
\* REFERENCE_PREFIX is SED, which nothing forbids.
TierSettings == [secret : BOOLEAN, others : BOOLEAN, required : BOOLEAN, analytics : BOOLEAN,
                 seedPrefix : BOOLEAN]

ASSUME TierAssumption == Tier \subseteq TierSettings

ASSUME ApplicantTimesAssumption ==
    /\ LinkTtl \in Nat \ {0} /\ VerifiedTtl \in Nat \ {0}
    /\ MaxTime \in Nat /\ MaxAttempts \in Nat \ {0}

ASSUME LowerAssumption ==
    Lower \in [Spelling -> Spelling] /\ \A e \in Spelling : Lower[Lower[e]] = Lower[e]

ASSUME NoneAssumption ==
    None \notin Journey \cup Spelling \cup Call \cup {Earlier} \cup Reference

\* Somebody uses the frontend, and types an address.
ASSUME SomebodyAssumption == Journey # {} /\ Spelling # {}

\* The earlier link was sent by a call that is over.
ASSUME EarlierAssumption == Earlier \notin Call

\* A prefix has no hyphen, so a reference starts with one prefix only.
ASSUME ReferenceAssumption == Reference \cap SeedReference = {}

References == Reference \cup SeedReference

Link == Call \cup {Earlier}

Event == {"start", "not eligible"}

Kind == Event \cup {"register", "send", "verify", "current"}

VARIABLES
    tier,     \* the settings the service was started with
    clock,
    log,      \* the versions of the verification records, the last is current
    docs,     \* the documents of each journey event
    register, \* the registrations, by reference
    pc,       \* where each call is
    ask,      \* what it asks
    began,    \* when it came in, until it is answered
    attempt,  \* how many references it has found taken
    latest,   \* the journey's latest link, as a status read found it
    answer,   \* its status and code
    sent      \* how many server events it sent to analytics

vars == <<tier, clock, log, docs, register, pc, ask, began, attempt, latest, answer, sent>>

LinkRecord == [journey : Journey, email : Spelling, createdAt : Nat, verifiedAt : Nat,
               status : {"sending", "pending", "superseded", "verified"}]

Records == [Link -> LinkRecord \cup {None}]

Request == [kind : Kind, journey : Journey, signed : BOOLEAN, valid : BOOLEAN,
            email : Spelling, link : Link \cup {None}]

NoRequest == [kind |-> "none"]

Registration == [call : Call \cup {None}, journey : Journey \cup {None},
                 email : Spelling \cup {None}, received : 0..MaxTime, valid : BOOLEAN]

\* An answer: its status, its code or the reference it gives, and, of a link,
\* whether it is the caller's own.
Statuses == {200, 201, 202, 204, 400, 401, 403, 404, 409, 410, 429, 500, 502, 503}

Codes == {"", "VALIDATION_ERROR", "SERVICE_NOT_CONFIGURED", "JOURNEY_TOKEN_INVALID",
          "EMAIL_NOT_VERIFIED", "RESEND_COOLDOWN", "RATE_LIMITED", "EMAIL_SEND_FAILED",
          "TOKEN_INVALID", "TOKEN_EXPIRED", "TOKEN_SUPERSEDED", "TOKEN_ALREADY_USED",
          "VERIFICATION_FAILED", "VERIFIED", "none", "pending", "verified", "expired"}

Answers == (Statuses \X (Codes \cup References)) \cup (Statuses \X Codes \X BOOLEAN)

ASSUME NoDocumentAssumption == None \notin LinkRecord \cup Registration \cup Answers

TypeOK ==
    /\ tier \in Tier
    /\ clock \in 0..MaxTime
    /\ log \in Seq(Records) /\ log # <<>>
    /\ docs \in [Event -> SUBSET [call : Call, nonce : Journey \cup {None}]]
    /\ register \in [References -> Registration \cup {None}]
    /\ pc \in [Call -> {"idle", "record", "check", "save", "send", "deliver",
                        "verify", "explain", "look", "judge", "done"}]
    /\ ask \in [Call -> Request \cup {NoRequest}]
    /\ began \in [Call -> 0..MaxTime]
    /\ attempt \in [Call -> 0..MaxAttempts - 1]
    /\ latest \in [Call -> LinkRecord \cup {None}]
    /\ answer \in [Call -> Answers \cup {None}]
    /\ sent \in [Call -> 0..1]

-----------------------------------------------------------------------------
(* What the routes check before they wait for anything                     *)

\* verifiedNonce: the nonce of a token signed under the secret, if there is one.
VerifiedNonce(q) == IF tier.secret /\ q.signed THEN q.journey ELSE None

\* missingEmailVerificationSettings, of which the token's secret is one.
MissingSettings == ~tier.secret \/ ~tier.others

BadRequest == <<400, "VALIDATION_ERROR">>
BadForm == <<400, "">>
NotConfigured == <<503, "SERVICE_NOT_CONFIGURED">>
TokenInvalid == <<401, "JOURNEY_TOKEN_INVALID">>
BeaconInvalid == <<401, "">>
NotVerified == <<403, "EMAIL_NOT_VERIFIED">>

\* beaconRoute accepts unsigned beacons where there is no secret.
BeaconRefusal(q) == IF tier.secret /\ VerifiedNonce(q) = None THEN BeaconInvalid ELSE None

\* requireJourneyId refuses everything where there is no secret.
JourneyRefusal(q) ==
    IF ~tier.secret THEN NotConfigured
    ELSE IF VerifiedNonce(q) = None THEN TokenInvalid ELSE None

\* What goes wrong if the gate opens where it cannot check, as beacons do.
GateOpenRefusal(q) == IF ~tier.required \/ MissingSettings THEN None ELSE JourneyRefusal(q)

\* requireVerifiedContactEmail, before its read.
GateRefusal(q) ==
    IF ~tier.required THEN None
    ELSE IF MissingSettings THEN NotConfigured ELSE JourneyRefusal(q)

\* POST /email-verifications, before it looks at the quota.
SendRefusal(q) ==
    IF ~q.valid THEN BadRequest
    ELSE IF MissingSettings THEN NotConfigured ELSE JourneyRefusal(q)

\* Anyone may use a link, but what is no token is not looked up.
VerifyRefusal(q) == IF ~q.valid THEN <<400, "TOKEN_INVALID">> ELSE None

\* The answer to a call that is refused at once, otherwise None.
Refusal(q) ==
    CASE q.kind \in Event -> BeaconRefusal(q)
      [] q.kind = "register" -> IF ~q.valid THEN BadForm ELSE GateRefusal(q)
      [] q.kind = "send" -> SendRefusal(q)
      [] q.kind = "verify" -> VerifyRefusal(q)
      [] q.kind = "current" -> JourneyRefusal(q)

\* Whether the gate has to read the verifications of a registration.
GateReads(q) == tier.required /\ tier.secret

\* Where an accepted call goes first.
FirstStep(q) ==
    CASE q.kind \in Event -> "record"
      [] q.kind = "register" -> IF GateReads(q) THEN "check" ELSE "save"
      [] q.kind = "send" -> "send"
      [] q.kind = "verify" -> "verify"
      [] q.kind = "current" -> "look"

\* Whether some filled-in form passes the schema, and whether some does not.
FormValidity == {FormValid(f) : f \in SomeForms}

\* Somebody and an address, where it does not matter which.
Anyone == CHOOSE j \in Journey : TRUE
AnyEmail == Lower[CHOOSE e \in Spelling : TRUE]

\* Journey tokens that are signed, and one that is not.
Signed(j) == [journey |-> j, signed |-> TRUE]
Tokens == {Signed(j) : j \in Journey} \cup {[journey |-> Anyone, signed |-> FALSE]}

RequestWith(k, t, v, e, l) ==
    [kind |-> k, journey |-> t.journey, signed |-> t.signed, valid |-> v, email |-> e, link |-> l]

WellFormed(k, t, e, l) == RequestWith(k, t, TRUE, e, l)

\* The requests that differ in what the handlers look at: any token, spelling or
\* link, and what is wrong in itself.
Requests ==
    {WellFormed(k, t, AnyEmail, None) : k \in Kind, t \in Tokens}
    \cup {WellFormed(k, Signed(Anyone), e, None) : k \in {"register", "send"}, e \in Spelling}
    \cup {WellFormed("verify", Signed(j), AnyEmail, l) : j \in Journey, l \in Link}
    \cup {RequestWith(k, Signed(Anyone), v, AnyEmail, None) :
            k \in {"register", "send", "verify"}, v \in FormValidity}

-----------------------------------------------------------------------------
(* The verification records                                                *)

Current == log[Len(log)]

\* Any version that a secondary may show, and the first that any still shows.
Versions == {log[i] : i \in DOMAIN log}
Oldest == log[1]

\* A write makes a new version, if it changes anything.
Write(records) ==
    log' = IF records = Current THEN log ELSE Append(log, records)

\* What goes wrong if addresses are compared as they are typed.
AsTyped(e) == e

\* normalisedEmailSchema: what POST /email-verifications makes of the address it
\* stores, /register of its contact address, and the gate of that once more.
NormaliseEmail(e) == Lower[e]

\* findRecentVerification: the verifications that count.
RecentVerifications(records, j, e, since) ==
    {l \in Link : /\ records[l] # None
                  /\ records[l].status = "verified"
                  /\ records[l].journey = j /\ records[l].email = e
                  /\ records[l].verifiedAt > since}

\* findLatestRecord: the journey's links created last, of those that were sent.
LatestLinks(records, j) ==
    LET links == {l \in Link : /\ records[l] # None /\ records[l].journey = j
                               /\ records[l].status # "sending"}
    IN  {l \in links : \A m \in links : records[m].createdAt <= records[l].createdAt}

ExpiresAt(d) == d.createdAt + LinkTtl

\* markVerified's filter.
Verifiable(d, time) == d # None /\ d.status = "pending" /\ ExpiresAt(d) > time

\* rejection: why a link did not verify, as the version read shows it.
RejectionCode(d, time) ==
    CASE d # None /\ d.status = "verified" -> "TOKEN_ALREADY_USED"
      [] d # None /\ d.status = "superseded" -> "TOKEN_SUPERSEDED"
      [] d # None /\ d.status = "pending" /\ ExpiresAt(d) <= time -> "TOKEN_EXPIRED"
      [] OTHER -> "TOKEN_INVALID"

\* Whether the caller's journey is the link's.
SameJourney(q, d) == d # None /\ VerifiedNonce(q) = d.journey

\* verifyRejectedError
RejectedAnswer(q, d, code) ==
    CASE code \in {"TOKEN_EXPIRED", "TOKEN_SUPERSEDED"} -> <<410, code>>
      [] code = "TOKEN_ALREADY_USED" -> <<409, code, SameJourney(q, d)>>
      [] OTHER -> <<404, "TOKEN_INVALID">>

\* What goes wrong if the latest link's own status decides.
StatusOfLatest(d, records, time) ==
    CASE d.status = "verified" -> "verified"
      [] d.status = "pending" /\ ExpiresAt(d) > time -> "pending"
      [] OTHER -> "expired"

\* currentVerificationStatus, from the latest link and a second read.
StatusFrom(d, records, time) ==
    IF RecentVerifications(records, d.journey, d.email, time - VerifiedTtl) # {}
    THEN "verified"
    ELSE IF d.status = "pending" /\ ExpiresAt(d) > time THEN "pending"
    ELSE "expired"

\* What goes wrong if the filter of the links to supersede forgets the journey.
ActivatedForAll(c) ==
    [l \in Link |->
        IF l = c THEN [Current[c] EXCEPT !.status = "pending"]
        ELSE IF Current[l] # None /\ Current[l].status = "pending"
             THEN [Current[l] EXCEPT !.status = "superseded"]
        ELSE Current[l]]

\* activateRecord: the link goes live and the journey's others do not.
Activated(c) ==
    [l \in Link |->
        IF l = c THEN [Current[c] EXCEPT !.status = "pending"]
        ELSE IF /\ Current[l] # None /\ Current[l].status = "pending"
                /\ Current[l].journey = Current[c].journey
             THEN [Current[l] EXCEPT !.status = "superseded"]
        ELSE Current[l]]

-----------------------------------------------------------------------------
Sent(d) == [d EXCEPT !.status = "pending"]

\* The journey's earlier link when the service starts: none, sent, or used.
EarlierLinks ==
    LET d == [journey |-> Anyone, createdAt |-> 0, verifiedAt |-> 0,
              email |-> AnyEmail, status |-> "verified"]
    IN  {None, d, Sent(d)}

Init ==
    /\ tier \in Tier
    /\ clock = 0
    /\ \E d \in EarlierLinks : log = <<[l \in Link |-> IF l = Earlier THEN d ELSE None]>>
    /\ docs = [e \in Event |-> {}]
    /\ register = [r \in References |-> None]
    /\ pc = [c \in Call |-> "idle"]
    /\ ask = [c \in Call |-> NoRequest]
    /\ began = [c \in Call |-> 0]
    /\ attempt = [c \in Call |-> 0]
    /\ latest = [c \in Call |-> None]
    /\ answer = [c \in Call |-> None]
    /\ sent = [c \in Call |-> 0]

Tick ==
    /\ clock < MaxTime
    /\ clock' = clock + 1
    /\ UNCHANGED <<tier, log, docs, register, pc, ask, began, attempt, latest, answer, sent>>

\* The secondaries that still showed the oldest version of the verification
\* records have caught up with the next.
CatchUp ==
    /\ Len(log) > 1
    /\ log' = Tail(log)
    /\ UNCHANGED <<tier, clock, docs, register, pc, ask, began, attempt, latest, answer, sent>>

\* A call ends with this answer.
Answer(c, a) ==
    /\ pc' = [pc EXCEPT ![c] = "done"]
    /\ answer' = [answer EXCEPT ![c] = a]
    /\ began' = [began EXCEPT ![c] = 0]

Goto(c, step) == pc' = [pc EXCEPT ![c] = step] /\ UNCHANGED <<answer, began>>

Open == {c \in Call : pc[c] \notin {"idle", "done"}}

\* A request comes in, is validated and runs up to its first await.
Receive(c, q) ==
    /\ pc[c] = "idle"
    /\ Cardinality(Open) < MaxOpen
    /\ ask' = [ask EXCEPT ![c] = q]
    /\ IF Refusal(q) # None THEN Answer(c, Refusal(q))
       ELSE /\ pc' = [pc EXCEPT ![c] = FirstStep(q)]
            /\ began' = [began EXCEPT ![c] = clock]
            /\ UNCHANGED answer
    /\ UNCHANGED <<tier, clock, log, docs, register, attempt, latest, sent>>

\* What goes wrong without the unique index on the nonce.
NeverDuplicate(e, nonce) == FALSE

\* The sparse unique index already holds the nonce, if there is one.
DuplicateNonce(e, nonce) == nonce # None /\ \E d \in docs[e] : d.nonce = nonce

\* What goes wrong if the event goes out before the write is known to be done.
EventsEagerly(stored, acknowledged) == IF tier.analytics THEN 1 ELSE 0

\* sendServerEvent, where analytics is set up: once a write is acknowledged.
Events(stored, acknowledged) == IF tier.analytics /\ stored /\ acknowledged THEN 1 ELSE 0

\* recordEvent: the insert counts, is a repetition, or its answer is lost.
RecordEvent(c) ==
    LET e == ask[c].kind
        nonce == VerifiedNonce(ask[c])
        stored == ~DuplicateNonce(e, nonce)
    IN  /\ pc[c] = "record"
        /\ docs' = IF stored THEN [docs EXCEPT ![e] = @ \cup {[call |-> c, nonce |-> nonce]}]
                   ELSE docs
        /\ \E acknowledged \in BOOLEAN :
              /\ Answer(c, IF acknowledged THEN <<204, "">> ELSE <<500, "">>)
              /\ sent' = [sent EXCEPT ![c] = @ + Events(stored, acknowledged)]
        /\ UNCHANGED <<tier, clock, log, register, ask, attempt, latest>>

\* isEmailVerifiedForJourney, on whatever version the read is shown.
CheckGate(c) ==
    LET q == ask[c] IN
    /\ pc[c] = "check"
    /\ \E records \in Versions :
        IF RecentVerifications(records, VerifiedNonce(q), NormaliseEmail(q.email),
                               began[c] - VerifiedTtl) # {}
        THEN Goto(c, "save") ELSE Answer(c, NotVerified)
    /\ UNCHANGED <<tier, clock, log, docs, register, ask, attempt, latest, sent>>

\* What goes wrong if any failed save is tried again under a new reference.
AnyError(outcome) == outcome # "committed"

\* isReferenceCollision
IsReferenceCollision(outcome) == outcome = "collision"

\* What goes wrong if the loop runs once too often.
OneAttemptMore(taken) == taken < MaxAttempts

\* Whether another reference is tried after this many were taken, and this one.
AttemptsLeft(taken) == taken + 1 < MaxAttempts

\* How registrations.create can end for this reference: its transaction may
\* also fail, or commit and the answer be lost.
Outcomes(r) ==
    {"failed"} \cup IF register[r] = None THEN {"committed", "lost"} ELSE {"collision"}

Applied(outcome) == outcome \in {"committed", "lost"}

Submission(c) == [call |-> c, journey |-> VerifiedNonce(ask[c]), valid |-> ask[c].valid,
                  email |-> Lower[ask[c].email], received |-> began[c]]

\* What generateReference may give under the service's own prefix.
OwnReferences == IF tier.seedPrefix THEN SeedReference ELSE Reference

\* One round of saveRegistration's loop.
TryReference(c, r, outcome) ==
    /\ pc[c] = "save"
    /\ outcome \in Outcomes(r)
    /\ register' = IF Applied(outcome) THEN [register EXCEPT ![r] = Submission(c)] ELSE register
    /\ sent' = [sent EXCEPT ![c] = @ + Events(Applied(outcome), outcome = "committed")]
    /\ IF outcome = "committed"
       THEN Answer(c, <<201, r>>) /\ UNCHANGED attempt
       ELSE IF IsReferenceCollision(outcome) /\ AttemptsLeft(attempt[c])
       THEN attempt' = [attempt EXCEPT ![c] = @ + 1] /\ UNCHANGED <<pc, answer, began>>
       ELSE Answer(c, <<500, "">>) /\ UNCHANGED attempt
    /\ UNCHANGED <<tier, clock, log, docs, ask, latest>>

\* requestVerificationLink up to the email: the quota refuses it, or it is
\* granted and its record is stored, whether or not the answer is heard.
Reserve(c) ==
    LET q == ask[c] IN
    /\ pc[c] = "send"
    /\ \/ \E code \in {"RESEND_COOLDOWN", "RATE_LIMITED"} : Answer(c, <<429, code>>) /\ UNCHANGED log
       \/ /\ Goto(c, "deliver") \/ Answer(c, <<500, "">>)
          /\ Write([Current EXCEPT ![c] = [journey |-> q.journey, email |-> NormaliseEmail(q.email),
                createdAt |-> began[c], verifiedAt |-> 0, status |-> "sending"]])
    /\ UNCHANGED <<tier, clock, docs, register, ask, attempt, latest, sent>>

\* The email goes and the link is activated, unless that fails.
Deliver(c) ==
    /\ pc[c] = "deliver"
    /\ \/ Answer(c, <<202, "">>) /\ Write(Activated(c))
       \/ Answer(c, <<500, "">>) /\ (Write(Activated(c)) \/ UNCHANGED log)
    /\ UNCHANGED <<tier, clock, docs, register, ask, attempt, latest, sent>>

\* Notify refuses: the record is dropped, as far as that works.
NotifyFails(c) ==
    /\ pc[c] = "deliver"
    /\ Answer(c, <<502, "EMAIL_SEND_FAILED">>)
    /\ Write([Current EXCEPT ![c] = None]) \/ UNCHANGED log
    /\ UNCHANGED <<tier, clock, docs, register, ask, attempt, latest, sent>>

Used(d, time) == [d EXCEPT !.status = "verified", !.verifiedAt = time]

\* markVerified, for a link that may be unknown.
Verify(c) ==
    LET q == ask[c]
        d == IF q.link = None THEN None ELSE Current[q.link]
    IN  /\ pc[c] = "verify"
        /\ IF Verifiable(d, began[c])
           THEN /\ Write([Current EXCEPT ![q.link] = Used(d, began[c])])
                /\ Answer(c, <<200, "VERIFIED", SameJourney(q, d)>>)
           ELSE Goto(c, "explain") /\ UNCHANGED log
        /\ UNCHANGED <<tier, clock, docs, register, ask, attempt, latest, sent>>

\* The link is verified and the answer is lost.
VerifiedUnheard(c) ==
    LET q == ask[c] IN
    /\ pc[c] = "verify" /\ q.link # None
    /\ Verifiable(Current[q.link], began[c])
    /\ Write([Current EXCEPT ![q.link] = Used(Current[q.link], began[c])])
    /\ Answer(c, <<500, "VERIFICATION_FAILED">>)
    /\ UNCHANGED <<tier, clock, docs, register, ask, attempt, latest, sent>>

\* findByTokenHash and the answer it leads to.
Explain(c) ==
    LET q == ask[c] IN
    /\ pc[c] = "explain"
    /\ \E records \in Versions :
        LET d == IF q.link = None THEN None ELSE records[q.link]
        IN  Answer(c, RejectedAnswer(q, d, RejectionCode(d, began[c])))
    /\ UNCHANGED <<tier, clock, log, docs, register, ask, attempt, latest, sent>>

\* currentVerificationStatus reads the latest link, and then its verification.
Look(c) ==
    /\ pc[c] = "look"
    /\ \E records \in Versions :
        LET links == LatestLinks(records, ask[c].journey) IN
        \/ links = {} /\ Answer(c, <<200, "none">>) /\ UNCHANGED latest
        \/ \E l \in links : Goto(c, "judge") /\ latest' = [latest EXCEPT ![c] = records[l]]
    /\ UNCHANGED <<tier, clock, log, docs, register, ask, attempt, sent>>

Judge(c) ==
    /\ pc[c] = "judge"
    /\ \E records \in Versions : Answer(c, <<200, StatusFrom(latest[c], records, began[c])>>)
    /\ latest' = [latest EXCEPT ![c] = None]
    /\ UNCHANGED <<tier, clock, log, docs, register, ask, attempt, sent>>

\* A read or an update of the call fails.
Fails(c) ==
    /\ pc[c] \in {"record", "check", "send", "verify", "explain", "look", "judge"}
    /\ Answer(c, IF ask[c].kind = "verify" THEN <<500, "VERIFICATION_FAILED">> ELSE <<500, "">>)
    /\ latest' = [latest EXCEPT ![c] = None]
    /\ UNCHANGED <<tier, clock, log, docs, register, ask, attempt, sent>>

\* Whether the schema would pass the seeded records, as they are read.
SeedValidity == {FormValid(ReadBack(f)) : f \in SeedForms}

\* seed: a made-up registration under a free reference of its own prefix.
Seed(r) ==
    /\ register[r] = None
    /\ \E v \in SeedValidity :
        register' = [register EXCEPT ![r] = [call |-> None, journey |-> None, email |-> None,
                                            received |-> 0, valid |-> v]]
    /\ UNCHANGED <<tier, clock, log, docs, pc, ask, began, attempt, latest, answer, sent>>

\* What goes wrong if the prefix is left out of the filter.
AnyReference == References

\* What deleteSeed's regular expression matches.
Seeded == SeedReference

DeleteSeed ==
    /\ \E r \in Seeded : register[r] # None
    /\ register' = [r \in DOMAIN register |-> IF r \in Seeded THEN None ELSE register[r]]
    /\ UNCHANGED <<tier, clock, log, docs, pc, ask, began, attempt, latest, answer, sent>>

Next ==
    \/ Tick \/ CatchUp
    \/ \E c \in Call :
        \/ pc[c] = "idle" /\ \E q \in Requests : Receive(c, q)
        \/ RecordEvent(c)
        \/ CheckGate(c)
        \/ \E r \in OwnReferences : \E o \in Outcomes(r) : TryReference(c, r, o)
        \/ Reserve(c) \/ Deliver(c) \/ NotifyFails(c)
        \/ Verify(c) \/ VerifiedUnheard(c) \/ Explain(c)
        \/ Look(c) \/ Judge(c)
        \/ Fails(c)
    \/ \E r \in SeedReference : Seed(r)
    \/ DeleteSeed

Spec == Init /\ [][Next]_vars

-----------------------------------------------------------------------------
(* Properties                                                              *)

\* The references that a call's registration is stored under.
StoredBy(c) == {r \in References : register[r] # None /\ register[r].call = c}

CountedBy(c) == {e \in Event : \E d \in docs[e] : d.call = c}

Status(c) == IF answer[c] = None THEN 0 ELSE answer[c][1]

\* What a call was told of as stored went with the seeds since: it may, where the
\* service's own prefix is theirs.
GoneWithSeeds(c) == tier.seedPrefix /\ Status(c) = 201 /\ StoredBy(c) = {}

\* Where the gate is on, every registration's journey had its contact address
\* verified by magic link, recently enough when the submission came in: between
\* the check and the save nothing takes that back, whatever is not configured
\* and however late the reads are (routes/registration/registration.js:256).
GateHolds ==
    tier.required => \A r \in References : register[r] # None /\ register[r].call # None =>
        \E l \in Link :
            /\ Current[l] # None /\ Current[l].status = "verified"
            /\ Current[l].journey = register[r].journey
            /\ Current[l].email = register[r].email
            /\ Current[l].verifiedAt + VerifiedTtl > register[r].received

\* Once every secondary shows a verification, whatever was done since and
\* however the address is typed, no submission of its journey and address that
\* it is recent enough for is refused: whoever is turned away because a read
\* lagged gets through by trying again (email-address.js:3).
NoFalseRefusal ==
    [][\A c \in Call : pc[c] = "check" /\ answer'[c] = NotVerified =>
        \A l \in Link :
            \/ Oldest[l] = None
            \/ Oldest[l].status # "verified"
            \/ Oldest[l].journey # ask[c].journey
            \/ Oldest[l].email # Lower[ask[c].email]
            \/ Oldest[l].verifiedAt + VerifiedTtl <= began[c]]_vars

\* A submission stores one registration at most, through all its attempts at a
\* reference; it is told the reference of the one it stored, and stores nothing
\* when it is refused (services/registration/registration.js:26).
OneCallOneRegistration ==
    \A c \in Call :
        /\ Cardinality(StoredBy(c)) <= 1
        /\ Status(c) = 201 => StoredBy(c) = {answer[c][2]} \/ GoneWithSeeds(c)
        /\ Status(c) \in 400..499 => StoredBy(c) = {}

\* No later call, retry or seeding changes or removes a registration that an
\* applicant submitted, nor does the removal of seeds: unless the service itself
\* uses their prefix, where it removes them all (delete-seed.js:29).
StoredForGood ==
    [][\A r \in References : register[r] # None /\ register[r].call # None =>
        \/ register'[r] = register[r]
        \/ tier.seedPrefix /\ DeleteSeed]_vars

\* Every registration has the answers its activities call for: submitted ones
\* and those of the seed script, which nothing validates.
AnswersComplete ==
    \A r \in References : register[r] # None => register[r].valid

\* Where tokens are signed, an acknowledged beacon counts its session exactly
\* once, however often it is sent and whichever answers are lost
\* (record-event.js:4).
SessionCountsOnce ==
    tier.secret => \A e \in Event, c \in Call :
        LET counted(j) == {d \in docs[e] : d.nonce = j} IN
        /\ \A j \in Journey : Cardinality(counted(j)) <= 1
        /\ counted(None) = {}
        /\ ask[c].kind = e /\ Status(c) = 204 => counted(ask[c].journey) # {}

\* The events a call has stored, counting a registration that went with the seeds.
Milestones(c) ==
    Cardinality(CountedBy(c)) + IF GoneWithSeeds(c) THEN 1 ELSE Cardinality(StoredBy(c))

\* Analytics hears once of what a call stored and acknowledged, and of nothing
\* else: "Deduplicated beacons and failed or rolled-back writes do not send
\* events" (README.md).
EventsMatchMilestones ==
    \A c \in Call :
        sent[c] = IF tier.analytics /\ Status(c) \in {201, 204}
                  THEN Milestones(c) ELSE 0

\* A browser that is told "verified" may submit: the address that the status
\* speaks of passes the gate's own test, from the records as they are now
\* (current-status.js:16).
StatusAgreesWithGate ==
    [][\A c \in Call : pc[c] = "judge" /\ answer'[c] = <<200, "verified">> =>
        RecentVerifications(Current, ask[c].journey, latest[c].email,
                            began[c] - VerifiedTtl) # {}]_vars

-----------------------------------------------------------------------------
(* Why it works: the inductive invariant                                   *)

\* What a version of the records shows as verified is so in every later one.
ProofsKept ==
    \A i \in DOMAIN log : \A k \in i..Len(log) : \A l \in Link :
        log[i][l] # None /\ log[i][l].status = "verified" => log[k][l] = log[i][l]

\* Every stored address is in its normal spelling.
Normalised ==
    \A v \in Versions, l \in Link : v[l] # None => Lower[v[l].email] = v[l].email

\* A verification that lets j submit with e what it received at this time.
Proved(j, e, time) ==
    \E l \in Link :
        /\ Current[l] # None /\ Current[l].status = "verified"
        /\ Current[l].journey = j /\ Current[l].email = e
        /\ Current[l].verifiedAt + VerifiedTtl > time

\* A call has no record before it reserved one, and a link that is being
\* delivered is nobody's yet.
LinkStage(c) ==
    /\ pc[c] \notin {"deliver", "done"} => Current[c] = None
    /\ pc[c] = "deliver" => Current[c] # None /\ Current[c].status = "sending"

\* The steps that a kind of request goes through.
StepsOf(k) ==
    CASE k \in Event -> {"record"}
      [] k = "register" -> {"check", "save"}
      [] k = "send" -> {"send", "deliver"}
      [] k = "verify" -> {"verify", "explain"}
      [] k = "current" -> {"look", "judge"}

\* What each point of a call knows: only accepted requests go on, and where the
\* gate is on none comes to the save without its proof.
CallStage(c) ==
    /\ IF pc[c] = "idle" THEN ask[c] = NoRequest ELSE ask[c] \in Requests
    /\ answer[c] = None <=> pc[c] # "done"
    /\ pc[c] \notin {"idle", "done"} =>
         Refusal(ask[c]) = None /\ pc[c] \in StepsOf(ask[c].kind)
    /\ pc[c] = "judge" => latest[c] # None /\ latest[c].journey = ask[c].journey
    /\ pc[c] = "check" => tier.required
    /\ pc[c] = "save" /\ tier.required =>
         Proved(ask[c].journey, Lower[ask[c].email], began[c])

\* A call has stored nothing until its last attempt, under a reference of the
\* service, which told it what it stored or lost its answer.
StoredOnce(c) ==
    \/ StoredBy(c) = {} /\ (Status(c) = 201 => tier.seedPrefix)
    \/ \E r \in OwnReferences :
         /\ StoredBy(c) = {r}
         /\ pc[c] = "done" /\ ask[c].kind = "register"
         /\ answer[c] = <<201, r>> \/ Status(c) = 500

\* Nor has a beacon counted before it is over.
CountedOnce(c) ==
    \/ CountedBy(c) = {}
    \/ /\ ask[c].kind \in Event /\ CountedBy(c) = {ask[c].kind}
       /\ pc[c] = "done" /\ Status(c) \in {204, 500}

\* Where tokens are signed, each event counts every session it knows once, and
\* those of the beacons it acknowledged.
SessionsCounted ==
    tier.secret => \A e \in Event :
        /\ \A d \in docs[e] : d.nonce # None
        /\ \A d, f \in docs[e] : d.nonce = f.nonce => d = f
        /\ \A c \in Call : ask[c].kind = e /\ Status(c) = 204 =>
              \E d \in docs[e] : d.nonce = ask[c].journey

ApplicantInv ==
    /\ TypeOK
    /\ ProofsKept /\ Normalised
    /\ \A c \in Call : LinkStage(c) /\ CallStage(c) /\ StoredOnce(c) /\ CountedOnce(c)
    /\ SessionsCounted /\ EventsMatchMilestones
    /\ GateHolds /\ AnswersComplete

-----------------------------------------------------------------------------
(* The links of the API keep the promise of JourneyLinks too               *)

\* A link without a record has none yet, unless its call is over.
Phase(l) ==
    IF Current[l] # None THEN Current[l].status
    ELSE IF l \in Call /\ pc[l] = "done" /\ ask[l].kind = "send" THEN "gone" ELSE "none"

About(d) ==
    IF d = None THEN None ELSE [journey |-> d.journey, email |-> d.email, at |-> d.createdAt]

UsedAt(d) == IF d # None /\ d.status = "verified" THEN d.verifiedAt ELSE None

Phases == [l \in Link |-> Phase(l)]
Abouts == [l \in Link |-> About(Current[l])]
Uses == [l \in Link |-> UsedAt(Current[l])]

\* Nothing is purged here while it counts.
Promise == INSTANCE JourneyLinks WITH
    Before <- {Earlier}, Email <- Spelling, Retention <- LinkTtl + VerifiedTtl,
    phase <- Phases, about <- Abouts, used <- Uses

\* Whatever the calls do at once, and whichever answers are lost, they make steps
\* of the same promise that VerificationLinks keeps: no call supersedes another
\* journey's link or brings one back, and a link is verified before it expires.
LinksAsPromised == Promise!Spec
=============================================================================
