----------------------------- MODULE RateLimiter -----------------------------
(***************************************************************************)
(* The limits on verification emails                                       *)
(* (services/email-verification/rate-limiter.js): one cooldown per journey *)
(* and three counters per fixed window, shared by every instance through   *)
(* MongoDB, with no transaction around them.                               *)
(*                                                                         *)
(* Each request reads the clock once, claims its journey's cooldown, counts *)
(* itself in three counters in parallel and then decides; if it is refused *)
(* or the email fails it gives back what it took.  Meanwhile the TTL index *)
(* removes cooldowns and counters that have ended, and any update may fail *)
(* before or after the server applied it.  A crash is a request that never *)
(* takes another step, which every specification without fairness allows.  *)
(*                                                                         *)
(* A counter that is missing counts as 0: the upsert starts it at 1 and a  *)
(* release leaves it alone.                                                *)
(***************************************************************************)
EXTENDS Integers, FiniteSets

CONSTANTS
    Request,       \* calls of requestVerificationLink, each made once
    Journey,
    Email,
    Limits,        \* the counters in use: all three in the code
    MaxPerEmail,   \* maxSendsPerEmailPerHour
    MaxPerJourney, \* maxSendsPerJourneyPerHour
    MaxGlobal,     \* maxSendsGlobalPerHour
    WindowLength,  \* WINDOW_MS, in ticks of the model's clock
    Cooldown,      \* resendCooldownSeconds, in ticks
    MaxTime,       \* bound: the clock stops here
    MaxFaults,     \* bound: so many updates fail
    Nobody         \* no request, journey or address

ASSUME TimesAssumption ==
    /\ WindowLength \in Nat \ {0}
    /\ Cooldown \in Nat \ {0}
    /\ MaxTime \in Nat
    /\ MaxFaults \in Nat

ASSUME LimitsAssumption ==
    /\ MaxPerEmail \in Nat \ {0}
    /\ MaxPerJourney \in Nat \ {0}
    /\ MaxGlobal \in Nat \ {0}

ASSUME NobodyAssumption == Nobody \notin Request \cup Journey \cup Email

ASSUME CountersAssumption == Limits \subseteq {"email", "journey", "global"}

Bucket == {b \in ({"email"} \X Email) \cup ({"journey"} \X Journey)
                    \cup {<<"global", "global">>} : b[1] \in Limits}

Windows == 0..(MaxTime \div WindowLength)

VARIABLES
    clock,     \* the wall clock the instances share
    cooldown,  \* the cooldown document of each journey, or Free
    count,     \* the counters, by bucket and window
    pc,        \* where each request is
    journey,   \* what the request is for
    email,
    at,        \* the time it read when it began
    claimed,   \* whether it still has a cooldown to give back
    held,      \* the counters it would give back
    seen,      \* what each of its increments returned
    answer,    \* what it will tell the caller once it has given all back
    late,      \* it was counted after its window had ended
    sentAt,    \* when its email went
    faults,    \* how many updates have failed
    leaked     \* one of them failed in a way that uses up quota

vars == <<clock, cooldown, count, pc, journey, email, at, claimed, held, seen,
          answer, late, sentAt, faults, leaked>>

request == <<journey, email, at>>
ghosts == <<late, sentAt, faults, leaked>>

\* An increment that has not settled, and one that was rejected.
Unsettled == -1
Rejected == -2

\* No cooldown document.
Free == [endsAt |-> 0, claim |-> Nobody]

WindowOf(t) == t \div WindowLength
WindowEnd(w) == (w + 1) * WindowLength

BucketOf(r, limit) ==
    CASE limit = "email" -> <<"email", email[r]>>
      [] limit = "journey" -> <<"journey", journey[r]>>
      [] limit = "global" -> <<"global", "global">>

MaxOf(limit) ==
    CASE limit = "email" -> MaxPerEmail
      [] limit = "journey" -> MaxPerJourney
      [] limit = "global" -> MaxGlobal

TypeOK ==
    /\ clock \in 0..MaxTime
    /\ cooldown \in [Journey -> [endsAt : Nat, claim : Request \cup {Nobody}]]
    /\ count \in [Bucket \X Windows -> Nat]
    /\ pc \in [Request -> {"idle", "claiming", "counting", "releasing",
                           "allowed", "sent", "refused", "failed"}]
    /\ journey \in [Request -> Journey \cup {Nobody}]
    /\ email \in [Request -> Email \cup {Nobody}]
    /\ at \in [Request -> 0..MaxTime]
    /\ claimed \in [Request -> BOOLEAN]
    /\ held \in [Request -> SUBSET Limits]
    /\ seen \in [Request -> [Limits -> Nat \cup {Unsettled, Rejected}]]
    /\ answer \in [Request -> {"none", "refused", "failed"}]
    /\ late \in [Request -> BOOLEAN]
    /\ sentAt \in [Request -> 0..MaxTime]
    /\ faults \in 0..MaxFaults
    /\ leaked \in BOOLEAN

-----------------------------------------------------------------------------
NothingSeen == [limit \in Limits |-> Unsettled]

Init ==
    /\ clock = 0
    /\ cooldown = [j \in Journey |-> Free]
    /\ count = [k \in Bucket \X Windows |-> 0]
    /\ pc = [r \in Request |-> "idle"]
    /\ journey = [r \in Request |-> Nobody]
    /\ email = [r \in Request |-> Nobody]
    /\ at = [r \in Request |-> 0]
    /\ claimed = [r \in Request |-> FALSE]
    /\ held = [r \in Request |-> {}]
    /\ seen = [r \in Request |-> NothingSeen]
    /\ answer = [r \in Request |-> "none"]
    /\ late = [r \in Request |-> FALSE]
    /\ sentAt = [r \in Request |-> 0]
    /\ faults = 0
    /\ leaked = FALSE

Tick ==
    /\ clock < MaxTime
    /\ clock' = clock + 1
    /\ UNCHANGED <<cooldown, count, pc, request, claimed, held, seen, answer,
                   ghosts>>

\* A request for journey j and address e begins and reads the clock.
Begin(r, j, e) ==
    /\ pc[r] = "idle"
    /\ pc' = [pc EXCEPT ![r] = "claiming"]
    /\ journey' = [journey EXCEPT ![r] = j]
    /\ email' = [email EXCEPT ![r] = e]
    /\ at' = [at EXCEPT ![r] = clock]
    /\ UNCHANGED <<clock, cooldown, count, claimed, held, seen, answer, ghosts>>

\* The call is over and its variables are gone.
Forget(r) ==
    /\ journey' = [journey EXCEPT ![r] = Nobody]
    /\ email' = [email EXCEPT ![r] = Nobody]
    /\ at' = [at EXCEPT ![r] = 0]
    /\ late' = [late EXCEPT ![r] = FALSE]

\* What goes wrong if the upsert's filter matches a running cooldown.
NeverRunning(r) == FALSE

\* claimCooldown: the upsert replaces a cooldown that ended by the time the
\* request read, or inserts one.  Otherwise the duplicate key is the refusal.
Running(r) ==
    LET d == cooldown[journey[r]] IN d.claim # Nobody /\ d.endsAt > at[r]

ClaimCooldown(r) ==
    /\ pc[r] = "claiming"
    /\ ~Running(r)
    /\ cooldown' = [cooldown EXCEPT ![journey[r]] =
                      [endsAt |-> at[r] + Cooldown, claim |-> r]]
    /\ claimed' = [claimed EXCEPT ![r] = TRUE]
    /\ pc' = [pc EXCEPT ![r] = "counting"]
    /\ UNCHANGED <<clock, count, request, held, seen, answer, ghosts>>

RefuseCooldown(r) ==
    /\ pc[r] = "claiming"
    /\ Running(r)
    /\ pc' = [pc EXCEPT ![r] = "refused"]
    /\ Forget(r)
    /\ UNCHANGED <<clock, cooldown, count, claimed, held, seen, answer,
                   sentAt, faults, leaked>>

\* One more of the updates fails.
Fault == faults < MaxFaults /\ faults' = faults + 1

\* The claim fails with another error, perhaps after it was applied; nothing
\* is given back.
ClaimFails(r) ==
    /\ pc[r] = "claiming"
    /\ Fault
    /\ pc' = [pc EXCEPT ![r] = "failed"]
    /\ Forget(r)
    /\ \/ UNCHANGED <<cooldown, leaked>>
       \/ /\ ~Running(r)
          /\ cooldown' = [cooldown EXCEPT ![journey[r]] =
                            [endsAt |-> at[r] + Cooldown, claim |-> r]]
          /\ leaked' = TRUE
    /\ UNCHANGED <<clock, count, claimed, held, seen, answer, sentAt>>

Counter(r, limit) == <<BucketOf(r, limit), WindowOf(at[r])>>

\* increment: one of the three parallel upserts, atomic on its document.
Increment(r, limit) ==
    LET k == Counter(r, limit) IN
    /\ pc[r] = "counting"
    /\ seen[r][limit] = Unsettled
    /\ count' = [count EXCEPT ![k] = @ + 1]
    /\ seen' = [seen EXCEPT ![r][limit] = count[k] + 1]
    /\ held' = [held EXCEPT ![r] = @ \cup {limit}]
    /\ late' = [late EXCEPT ![r] = @ \/ clock >= WindowEnd(WindowOf(at[r]))]
    /\ UNCHANGED <<clock, cooldown, pc, request, claimed, answer, sentAt,
                   faults, leaked>>

\* An increment is rejected: not applied, or applied without an answer, in
\* which case it is not given back.
IncrementFails(r, limit) ==
    LET k == Counter(r, limit) IN
    /\ pc[r] = "counting"
    /\ seen[r][limit] = Unsettled
    /\ Fault
    /\ seen' = [seen EXCEPT ![r][limit] = Rejected]
    /\ \/ UNCHANGED <<count, leaked>>
       \/ /\ count' = [count EXCEPT ![k] = @ + 1]
          /\ leaked' = TRUE
    /\ UNCHANGED <<clock, cooldown, pc, request, claimed, held, answer, late,
                   sentAt>>

Settled(r) == \A limit \in Limits : seen[r][limit] # Unsettled

AnyRejected(r) == \E limit \in Limits : seen[r][limit] = Rejected

\* What goes wrong with an off-by-one: one email more than the limit.
ExceededByMore(r) == \E limit \in Limits : seen[r][limit] > MaxOf(limit) + 1

Exceeded(r) == \E limit \in Limits : seen[r][limit] > MaxOf(limit)

Allow(r) ==
    /\ pc[r] = "counting"
    /\ Settled(r) /\ ~AnyRejected(r) /\ ~Exceeded(r)
    /\ pc' = [pc EXCEPT ![r] = "allowed"]
    /\ seen' = [seen EXCEPT ![r] = NothingSeen]
    /\ UNCHANGED <<clock, cooldown, count, request, claimed, held, answer,
                   ghosts>>

\* A counter was exceeded, or an update failed: everything is given back.
Deny(r) ==
    /\ pc[r] = "counting"
    /\ Settled(r) /\ (AnyRejected(r) \/ Exceeded(r))
    /\ pc' = [pc EXCEPT ![r] = "releasing"]
    /\ answer' = [answer EXCEPT ![r] =
                    IF AnyRejected(r) THEN "failed" ELSE "refused"]
    /\ seen' = [seen EXCEPT ![r] = NothingSeen]
    /\ UNCHANGED <<clock, cooldown, count, request, claimed, held, ghosts>>

\* The email went, or it did not and undoSend releases the reservation.
Send(r) ==
    /\ pc[r] = "allowed"
    /\ pc' = [pc EXCEPT ![r] = "sent"]
    /\ sentAt' = [sentAt EXCEPT ![r] = clock]
    /\ UNCHANGED <<clock, cooldown, count, request, claimed, held, seen,
                   answer, late, faults, leaked>>

SendFails(r) ==
    /\ pc[r] = "allowed"
    /\ pc' = [pc EXCEPT ![r] = "releasing"]
    /\ answer' = [answer EXCEPT ![r] = "failed"]
    /\ UNCHANGED <<clock, cooldown, count, request, claimed, held, seen, ghosts>>

\* What goes wrong without the claim's id: a slow failure clears the cooldown
\* that a later request has claimed.
ReleaseAnyCooldown(r) ==
    /\ pc[r] = "releasing"
    /\ claimed[r]
    /\ claimed' = [claimed EXCEPT ![r] = FALSE]
    /\ cooldown' = [cooldown EXCEPT ![journey[r]] = Free]
    /\ UNCHANGED <<clock, count, pc, request, held, seen, answer, ghosts>>

\* releaseSend, the deletion of the cooldown, if it is still this claim.
ReleaseCooldown(r) ==
    /\ pc[r] = "releasing"
    /\ claimed[r]
    /\ claimed' = [claimed EXCEPT ![r] = FALSE]
    /\ cooldown' = IF cooldown[journey[r]].claim = r
                   THEN [cooldown EXCEPT ![journey[r]] = Free]
                   ELSE cooldown
    /\ UNCHANGED <<clock, count, pc, request, held, seen, answer, ghosts>>

\* What goes wrong if a refused request is not taken off the counters.
ForgetCounter(r, limit) ==
    /\ pc[r] = "releasing"
    /\ limit \in held[r]
    /\ held' = [held EXCEPT ![r] = @ \ {limit}]
    /\ UNCHANGED <<clock, cooldown, count, pc, request, claimed, seen, answer,
                   ghosts>>

\* What goes wrong without the filter on a positive count.
ReleaseBelowZero(r, limit) ==
    LET k == Counter(r, limit) IN
    /\ pc[r] = "releasing"
    /\ limit \in held[r]
    /\ held' = [held EXCEPT ![r] = @ \ {limit}]
    /\ count' = [count EXCEPT ![k] = @ - 1]
    /\ UNCHANGED <<clock, cooldown, pc, request, claimed, seen, answer, ghosts>>

\* releaseSend, one of the parallel decrements; it never goes below 0.
ReleaseCounter(r, limit) ==
    LET k == Counter(r, limit) IN
    /\ pc[r] = "releasing"
    /\ limit \in held[r]
    /\ held' = [held EXCEPT ![r] = @ \ {limit}]
    /\ count' = [count EXCEPT ![k] = IF @ > 0 THEN @ - 1 ELSE @]
    /\ UNCHANGED <<clock, cooldown, pc, request, claimed, seen, answer, ghosts>>

\* A release is rejected and is not tried again.  The call fails, a refused
\* one too; the other releases, which are under way, still settle.
ReleaseFails(r) ==
    /\ pc[r] = "releasing"
    /\ claimed[r] \/ held[r] # {}
    /\ Fault
    /\ \/ claimed[r] /\ claimed' = [claimed EXCEPT ![r] = FALSE] /\ UNCHANGED held
       \/ /\ \E limit \in held[r] : held' = [held EXCEPT ![r] = @ \ {limit}]
          /\ UNCHANGED claimed
    /\ answer' = [answer EXCEPT ![r] = "failed"]
    /\ leaked' = TRUE
    /\ UNCHANGED <<clock, cooldown, count, pc, request, seen, late, sentAt>>

\* Everything is given back: the caller is refused or told of the failure.
Released(r) ==
    /\ pc[r] = "releasing"
    /\ ~claimed[r] /\ held[r] = {}
    /\ pc' = [pc EXCEPT ![r] = answer[r]]
    /\ answer' = [answer EXCEPT ![r] = "none"]
    /\ Forget(r)
    /\ UNCHANGED <<clock, cooldown, count, claimed, held, seen, sentAt, faults,
                   leaked>>

\* The TTL index on windowEndsAt removes what has ended, some time later.
ExpireCooldown(j) ==
    /\ cooldown[j].claim # Nobody
    /\ cooldown[j].endsAt <= clock
    /\ cooldown' = [cooldown EXCEPT ![j] = Free]
    /\ UNCHANGED <<clock, count, pc, request, claimed, held, seen, answer, ghosts>>

ExpireCounter(b, w) ==
    /\ count[<<b, w>>] > 0
    /\ WindowEnd(w) <= clock
    /\ count' = [count EXCEPT ![<<b, w>>] = 0]
    /\ UNCHANGED <<clock, cooldown, pc, request, claimed, held, seen, answer,
                   ghosts>>

Next ==
    \/ Tick
    \/ \E r \in Request :
        \/ \E j \in Journey, e \in Email : Begin(r, j, e)
        \/ ClaimCooldown(r) \/ RefuseCooldown(r) \/ ClaimFails(r)
        \/ \E limit \in Limits : \/ Increment(r, limit)
                                 \/ IncrementFails(r, limit)
                                 \/ ReleaseCounter(r, limit)
        \/ Allow(r) \/ Deny(r)
        \/ Send(r) \/ SendFails(r)
        \/ ReleaseCooldown(r) \/ ReleaseFails(r) \/ Released(r)
    \/ \E j \in Journey : ExpireCooldown(j)
    \/ \E b \in Bucket, w \in Windows : ExpireCounter(b, w)

Spec == Init /\ [][Next]_vars

-----------------------------------------------------------------------------
(* Properties                                                              *)

\* The requests that have leave to send an email, or have sent it.
Granted == {r \in Request : pc[r] \in {"allowed", "sent"}}

GrantedIn(b, w) ==
    {r \in Granted : /\ b \in {BucketOf(r, limit) : limit \in Limits}
                     /\ WindowOf(at[r]) = w}

\* Concurrent requests cannot overshoot a limit: of the requests counted in
\* their own window, no more than the limit are granted, whatever others take,
\* give back or lose in between.
LimitHeld ==
    \A b \in Bucket, w \in Windows :
        Cardinality({r \in GrantedIn(b, w) : ~late[r]}) <= MaxOf(b[1])

\* How long a request took from reading the clock to its email.
Took(r) == sentAt[r] - at[r]

\* Two emails of a journey go a cooldown apart, less what the earlier request
\* took from reading the clock to its email: the cooldown runs from that
\* reading.  Nothing else brings two emails closer, not a failed request that
\* gives its claim back late, nor a cooldown that ends under a slow one.
CooldownHeld ==
    \A r, s \in Request :
        r # s /\ pc[r] = "sent" /\ pc[s] = "sent" /\ journey[r] = journey[s] =>
            \/ sentAt[s] - sentAt[r] >= Cooldown - Took(r)
            \/ sentAt[r] - sentAt[s] >= Cooldown - Took(s)

\* "Minimum time between two verification emails for the same journey"
\* (config.js:237), taken for every request, however slow.
CooldownBetweenEmails ==
    \A r, s \in Request :
        r # s /\ pc[r] = "sent" /\ pc[s] = "sent" /\ journey[r] = journey[s] =>
            \/ sentAt[s] - sentAt[r] >= Cooldown
            \/ sentAt[r] - sentAt[s] >= Cooldown

\* The requests that have claimed their journey's cooldown and may yet send.
Claimants == {r \in Request : pc[r] \in {"counting", "allowed", "sent"}}

\* What the requests and the cooldowns look like, as far as they matter here.
ClaimTypes ==
    /\ clock \in Nat
    /\ cooldown \in [Journey -> [endsAt : Nat, claim : Request \cup {Nobody}]]
    /\ pc \in [Request -> {"idle", "claiming", "counting", "releasing",
                           "allowed", "sent", "refused", "failed"}]
    /\ journey \in [Request -> Journey \cup {Nobody}]
    /\ at \in [Request -> Nat]
    /\ sentAt \in [Request -> Nat]
    /\ answer \in [Request -> {"none", "refused", "failed"}]
    /\ \A r \in Request :
        /\ at[r] <= clock
        /\ pc[r] \in {"claiming", "counting", "releasing", "allowed", "sent"} =>
                journey[r] \in Journey
        /\ pc[r] = "releasing" => answer[r] # "none"

\* A claimant keeps its cooldown until it ends: nobody else claims, clears or
\* expires it.
ClaimsKept ==
    \A r \in Claimants :
        clock < at[r] + Cooldown =>
            cooldown[journey[r]] = [endsAt |-> at[r] + Cooldown, claim |-> r]

\* When a claimant's email went, or the earliest that it still may.
EmailTime(r) == IF pc[r] = "sent" THEN sentAt[r] ELSE clock

\* Of two claimants of a journey's cooldown one claimed when the other's had
\* ended, so its email goes no earlier than that.
ClaimsApart ==
    \A r, s \in Claimants :
        r # s /\ journey[r] = journey[s] =>
            \/ EmailTime(s) >= at[r] + Cooldown
            \/ EmailTime(r) >= at[s] + Cooldown

\* Why the cooldown holds: an inductive invariant.  A cooldown is cleared only
\* by its own claim, which is then no claimant, or once it has ended.
CooldownInv == ClaimTypes /\ ClaimsKept /\ ClaimsApart

\* A refused or failed request uses up no quota and starts no cooldown: when
\* no request is in progress and no update was lost, the open counters show
\* the emails that were sent, and no more.
QuotaReturned ==
    (\A r \in Request :
        pc[r] \in {"idle", "sent", "refused", "failed"} ) /\ ~leaked =>
            /\ \A b \in Bucket, w \in Windows :
                clock < WindowEnd(w) =>
                    count[<<b, w>>] = Cardinality(GrantedIn(b, w))
            /\ \A j \in Journey :
                cooldown[j].claim # Nobody => pc[cooldown[j].claim] = "sent"

\* "Each step is a single atomic update, so concurrent requests can't overshoot
\* a limit" (rate-limiter.js:112-115), taken for every request.
NeverOvershoots ==
    \A b \in Bucket, w \in Windows :
        Cardinality(GrantedIn(b, w)) <= MaxOf(b[1])
-----------------------------------------------------------------------------
(* Why the limits hold: the inductive invariant of the counters            *)

\* What each point of a request knows: it holds the counters whose increment
\* it has an answer from, and all of them when it is allowed; it has nothing
\* before it claimed its cooldown and after it gave everything back.
RequestKnown(r) ==
    /\ pc[r] \in {"claiming", "counting", "releasing", "allowed", "sent"} =>
         journey[r] \in Journey /\ email[r] \in Email
    /\ pc[r] \in {"idle", "claiming", "refused", "failed"} =>
         held[r] = {} /\ ~claimed[r]
    /\ pc[r] \in {"idle", "claiming"} => seen[r] = NothingSeen
    /\ pc[r] = "counting" =>
         held[r] = {limit \in Limits : seen[r][limit] \notin {Unsettled, Rejected}}
    /\ pc[r] \in {"allowed", "sent"} => held[r] = Limits
    /\ pc[r] = "releasing" => answer[r] # "none"

\* The requests that would give back one of the counter of b in window w.
Holders(b, w) ==
    {r \in Request : b[1] \in held[r] /\ Counter(r, b[1]) = <<b, w>>}

\* Those it has let through, counted in its own window.
Passed(b, w) ==
    {r \in Holders(b, w) :
        /\ r \in Claimants /\ ~late[r]
        /\ pc[r] = "counting" => seen[r][b[1]] <= MaxOf(b[1])}

\* While its window is open a counter covers its holders, and counts no more
\* than them unless an update was lost.
CountsHolders(b, w) ==
    /\ IsFiniteSet(Holders(b, w))
    /\ clock < WindowEnd(w) =>
         /\ count[<<b, w>>] >= Cardinality(Holders(b, w))
         /\ ~leaked => count[<<b, w>>] = Cardinality(Holders(b, w))

\* A counter lets no more through than its limit, in its window and after it.
PassesLimit(b, w) == Cardinality(Passed(b, w)) <= MaxOf(b[1])

\* A cooldown belongs to a request that will still give it back, or has sent.
CooldownOwned(j) ==
    cooldown[j].claim # Nobody =>
        LET r == cooldown[j].claim IN
        /\ claimed[r] /\ journey[r] = j
        /\ pc[r] \in {"counting", "releasing", "allowed", "sent"}

QuotaInv ==
    /\ TypeOK
    /\ \A r \in Request : RequestKnown(r)
    /\ \A b \in Bucket, w \in Windows : CountsHolders(b, w) /\ PassesLimit(b, w)
    /\ ~leaked => \A j \in Journey : CooldownOwned(j)
=============================================================================
