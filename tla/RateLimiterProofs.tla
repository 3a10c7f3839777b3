-------------------------- MODULE RateLimiterProofs --------------------------
(***************************************************************************)
(* Proofs about RateLimiter: two emails of a journey are a cooldown apart, *)
(* less the earlier request's own delay, no limit is overshot within its   *)
(* window and nothing is used up by what is not sent, for any number of    *)
(* requests, journeys, addresses, limits, faults and any durations.        *)
(***************************************************************************)
EXTENDS RateLimiter, FiniteSetTheorems, TLAPS

-----------------------------------------------------------------------------
(* The cooldown                                                            *)

\* At the start nobody has claimed anything.
LEMMA CooldownInvInit == Init => CooldownInv
BY TimesAssumption
   DEF Init, CooldownInv, ClaimTypes, ClaimsKept, ClaimsApart, Claimants, Free

\* The time of an email is a time.
LEMMA EmailTimeType ==
    ASSUME ClaimTypes, NEW r \in Request
    PROVE  EmailTime(r) \in Nat
BY DEF ClaimTypes, EmailTime

\* An email that may still go goes no earlier than now, and one that went has
\* gone: a step that keeps or sends it does not make it earlier.
LEMMA EmailNoEarlier ==
    ASSUME ClaimTypes, NEW r \in Request, clock' \in Nat, clock' >= clock,
           sentAt'[r] = sentAt[r], pc'[r] = "sent" <=> pc[r] = "sent"
    PROVE  EmailTime(r)' >= EmailTime(r)
BY DEF ClaimTypes, EmailTime

\* A step that adds no claimant, and changes neither a claimant's variables nor
\* a cooldown it still has, keeps the claims.
LEMMA ClaimsStay ==
    ASSUME CooldownInv, ClaimTypes', Claimants' \subseteq Claimants,
           clock' >= clock,
           \A r \in Claimants' :
              /\ journey'[r] = journey[r]
              /\ at'[r] = at[r]
              /\ EmailTime(r)' >= EmailTime(r)
              /\ clock' < at[r] + Cooldown =>
                    cooldown'[journey[r]] = cooldown[journey[r]]
    PROVE  CooldownInv'
<1>1. \A r \in Claimants' : r \in Request /\ at[r] \in Nat
  BY DEF Claimants, CooldownInv, ClaimTypes
<1>2. ClaimsKept'
  <2> SUFFICES ASSUME NEW r \in Claimants', clock' < at'[r] + Cooldown
               PROVE  cooldown'[journey'[r]] =
                        [endsAt |-> at'[r] + Cooldown, claim |-> r]
    BY DEF ClaimsKept
  <2>1. clock < at[r] + Cooldown
    BY <1>1, TimesAssumption DEF CooldownInv, ClaimTypes
  <2> QED BY <2>1 DEF CooldownInv, ClaimsKept
<1>3. ClaimsApart'
  <2> SUFFICES ASSUME NEW q \in Claimants', NEW r \in Claimants', q # r,
                      journey'[q] = journey'[r]
               PROVE  \/ EmailTime(r)' >= at'[q] + Cooldown
                      \/ EmailTime(q)' >= at'[r] + Cooldown
    BY DEF ClaimsApart
  <2>1. \/ EmailTime(r) >= at[q] + Cooldown
        \/ EmailTime(q) >= at[r] + Cooldown
    BY DEF CooldownInv, ClaimsApart
  <2>2. EmailTime(q) \in Nat /\ EmailTime(r) \in Nat
    BY <1>1, EmailTimeType DEF CooldownInv
  <2>3. EmailTime(q)' \in Nat /\ EmailTime(r)' \in Nat
    BY <1>1, EmailTimeType DEF EmailTime, ClaimTypes
  <2>4. /\ EmailTime(q)' >= EmailTime(q) /\ EmailTime(r)' >= EmailTime(r)
        /\ at'[q] = at[q] /\ at'[r] = at[r]
    OBVIOUS
  <2>5. at[q] + Cooldown \in Nat /\ at[r] + Cooldown \in Nat
    BY <1>1, TimesAssumption
  <2> QED BY <2>1, <2>2, <2>3, <2>4, <2>5
<1> QED BY <1>2, <1>3 DEF CooldownInv

\* Nor does a step that sends no email either.
LEMMA NoNewClaim ==
    ASSUME CooldownInv, ClaimTypes', Claimants' \subseteq Claimants,
           clock' >= clock,
           \A r \in Claimants' :
              /\ journey'[r] = journey[r]
              /\ at'[r] = at[r]
              /\ sentAt'[r] = sentAt[r]
              /\ pc'[r] = "sent" <=> pc[r] = "sent"
              /\ clock' < at[r] + Cooldown =>
                    cooldown'[journey[r]] = cooldown[journey[r]]
    PROVE  CooldownInv'
<1>1. ASSUME NEW r \in Claimants' PROVE EmailTime(r)' >= EmailTime(r)
  <2>1. r \in Request /\ clock' \in Nat /\ ClaimTypes
    BY <1>1 DEF Claimants, CooldownInv, ClaimTypes
  <2>2. sentAt'[r] = sentAt[r] /\ (pc'[r] = "sent" <=> pc[r] = "sent")
    BY <1>1
  <2> QED BY <2>1, <2>2, EmailNoEarlier
<1> QED BY <1>1, ClaimsStay

\* The document of a claimant whose cooldown has not ended makes every other
\* request that began by now find it running.
LEMMA ClaimantRuns ==
    ASSUME CooldownInv, NEW r \in Claimants, NEW s \in Request,
           journey[s] = journey[r], clock < at[r] + Cooldown
    PROVE  Running(s)
<1>1. cooldown[journey[s]] = [endsAt |-> at[r] + Cooldown, claim |-> r]
  BY DEF CooldownInv, ClaimsKept
<1>2. r \in Request /\ r # Nobody
  BY NobodyAssumption DEF Claimants
<1>3. at[r] + Cooldown > at[s]
  BY <1>2, TimesAssumption DEF CooldownInv, ClaimTypes
<1> QED BY <1>1, <1>2, <1>3 DEF Running

\* The claim of a request that finds no cooldown running.
LEMMA ClaimStep ==
    ASSUME CooldownInv, NEW s \in Request, ClaimCooldown(s)
    PROVE  CooldownInv'
<1> USE DEF request
<1>1. journey[s] \in Journey /\ at[s] \in Nat /\ at[s] <= clock /\ clock \in Nat
  BY DEF CooldownInv, ClaimTypes, ClaimCooldown
<1>2. Claimants' = Claimants \cup {s} /\ s \notin Claimants
  BY DEF Claimants, ClaimCooldown, CooldownInv, ClaimTypes
<1>3. UNCHANGED <<clock, journey, at>>
  BY DEF ClaimCooldown
<1>4. /\ cooldown' = [cooldown EXCEPT ![journey[s]] =
                        [endsAt |-> at[s] + Cooldown, claim |-> s]]
      /\ sentAt' = sentAt
      /\ pc' = [pc EXCEPT ![s] = "counting"]
      /\ answer' = answer
  BY DEF ClaimCooldown, ghosts
<1>5. \A r \in Claimants :
        /\ r \in Request /\ at[r] \in Nat /\ r # s
        /\ journey[r] = journey[s] => clock >= at[r] + Cooldown
  <2> SUFFICES ASSUME NEW r \in Claimants
               PROVE  /\ r \in Request /\ at[r] \in Nat /\ r # s
                      /\ journey[r] = journey[s] => clock >= at[r] + Cooldown
    OBVIOUS
  <2>1. r \in Request /\ at[r] \in Nat /\ r # s
    BY <1>2 DEF Claimants, CooldownInv, ClaimTypes
  <2>2. ASSUME journey[r] = journey[s], clock < at[r] + Cooldown
        PROVE  FALSE
    BY <2>2, ClaimantRuns DEF ClaimCooldown
  <2> QED BY <1>1, <2>1, <2>2, TimesAssumption
<1>6. ClaimTypes'
  <2>1. [endsAt |-> at[s] + Cooldown, claim |-> s]
          \in [endsAt : Nat, claim : Request \cup {Nobody}]
    BY <1>1, TimesAssumption
  <2>2. cooldown' \in [Journey -> [endsAt : Nat, claim : Request \cup {Nobody}]]
    BY <1>4, <2>1 DEF CooldownInv, ClaimTypes
  <2> QED BY <1>1, <1>3, <1>4, <2>2 DEF CooldownInv, ClaimTypes
<1>7. ClaimsKept'
  <2> SUFFICES ASSUME NEW r \in Claimants', clock < at[r] + Cooldown
               PROVE  cooldown'[journey[r]] =
                        [endsAt |-> at[r] + Cooldown, claim |-> r]
    BY <1>3 DEF ClaimsKept
  <2>1. CASE r = s
    BY <1>1, <1>4, <2>1 DEF CooldownInv, ClaimTypes
  <2>2. CASE r # s
    <3>1. r \in Claimants /\ journey[r] # journey[s]
      BY <1>1, <1>2, <1>5, <2>2, TimesAssumption
    <3> QED BY <1>4, <3>1 DEF CooldownInv, ClaimsKept, ClaimTypes
  <2> QED BY <2>1, <2>2
<1>8. ClaimsApart'
  <2> SUFFICES ASSUME NEW q \in Claimants', NEW r \in Claimants', q # r,
                      journey[q] = journey[r]
               PROVE  \/ EmailTime(r)' >= at[q] + Cooldown
                      \/ EmailTime(q)' >= at[r] + Cooldown
    BY <1>3 DEF ClaimsApart
  <2>1. EmailTime(s)' = clock
    BY <1>3, <1>4 DEF CooldownInv, ClaimTypes, EmailTime
  <2>2. CASE q = s
    BY <1>2, <1>5, <2>1, <2>2
  <2>3. CASE r = s
    BY <1>2, <1>5, <2>1, <2>3
  <2>4. CASE q # s /\ r # s
    <3>1. q \in Claimants /\ r \in Claimants
      BY <1>2, <2>4
    <3>2. pc'[q] = pc[q] /\ pc'[r] = pc[r]
      BY <1>4, <1>5, <2>4, <3>1 DEF CooldownInv, ClaimTypes
    <3>3. EmailTime(q)' = EmailTime(q) /\ EmailTime(r)' = EmailTime(r)
      BY <1>3, <1>4, <3>2 DEF EmailTime
    <3> QED BY <3>1, <3>3 DEF CooldownInv, ClaimsApart
  <2> QED BY <2>2, <2>3, <2>4
<1> QED BY <1>6, <1>7, <1>8 DEF CooldownInv

\* Only the claim itself needs more than NoNewClaim.
LEMMA CooldownInvStep == CooldownInv /\ [Next]_vars => CooldownInv'
<1> SUFFICES ASSUME CooldownInv, [Next]_vars
             PROVE  CooldownInv'
  OBVIOUS
<1> USE DEF request, ghosts
<1>1. CASE UNCHANGED vars
  <2>1. ClaimTypes' /\ Claimants' = Claimants
    BY <1>1 DEF CooldownInv, ClaimTypes, Claimants, vars
  <2> QED BY <1>1, <2>1, NoNewClaim DEF CooldownInv, ClaimTypes, vars
<1>2. CASE Tick
  <2>1. ClaimTypes' /\ Claimants' = Claimants /\ clock' >= clock
    BY <1>2 DEF CooldownInv, ClaimTypes, Claimants, Tick
  <2> QED BY <1>2, <2>1, NoNewClaim DEF Tick
<1>3. ASSUME NEW r \in Request, NEW j \in Journey, NEW e \in Email,
             Begin(r, j, e)
      PROVE  CooldownInv'
  <2>1. ClaimTypes' /\ Claimants' = Claimants /\ r \notin Claimants
    BY <1>3 DEF CooldownInv, ClaimTypes, Claimants, Begin
  <2> QED BY <1>3, <2>1, NoNewClaim
          DEF Begin, CooldownInv, ClaimTypes, Claimants
<1>4. ASSUME NEW r \in Request, ClaimCooldown(r)
      PROVE  CooldownInv'
  BY <1>4, ClaimStep
<1>5. ASSUME NEW r \in Request, RefuseCooldown(r)
      PROVE  CooldownInv'
  <2>1. ClaimTypes' /\ Claimants' = Claimants /\ r \notin Claimants
    BY <1>5, NobodyAssumption
       DEF CooldownInv, ClaimTypes, Claimants, RefuseCooldown, Forget
  <2> QED BY <1>5, <2>1, NoNewClaim
          DEF RefuseCooldown, Forget, CooldownInv, ClaimTypes, Claimants
<1>6. ASSUME NEW r \in Request, ClaimFails(r)
      PROVE  CooldownInv'
  <2>1. /\ journey[r] \in Journey /\ at[r] \in Nat /\ clock \in Nat
        /\ clock' = clock /\ sentAt' = sentAt
        /\ \A s \in Request : s # r => at'[s] = at[s] /\ journey'[s] = journey[s]
    BY <1>6 DEF CooldownInv, ClaimTypes, ClaimFails, Forget
  <2>2. cooldown' \in [Journey -> [endsAt : Nat, claim : Request \cup {Nobody}]]
    <3>1. [endsAt |-> at[r] + Cooldown, claim |-> r]
            \in [endsAt : Nat, claim : Request \cup {Nobody}]
      BY <2>1, TimesAssumption
    <3> QED BY <1>6, <3>1 DEF CooldownInv, ClaimTypes, ClaimFails
  <2>3. ClaimTypes' /\ Claimants' = Claimants /\ r \notin Claimants
    BY <1>6, <2>1, <2>2 DEF CooldownInv, ClaimTypes, Claimants, ClaimFails, Forget
  <2>4. ASSUME NEW s \in Claimants', clock' < at[s] + Cooldown
        PROVE  cooldown'[journey[s]] = cooldown[journey[s]]
    <3>1. journey[s] = journey[r] => Running(r)
      BY <2>1, <2>3, <2>4, ClaimantRuns
    <3>2. journey[s] \in Journey
      BY <2>3, <2>4 DEF CooldownInv, ClaimTypes, Claimants
    <3>3. \/ cooldown' = cooldown
          \/ /\ ~Running(r)
             /\ cooldown' = [cooldown EXCEPT ![journey[r]] =
                               [endsAt |-> at[r] + Cooldown, claim |-> r]]
      BY <1>6 DEF ClaimFails
    <3> QED BY <3>1, <3>2, <3>3 DEF CooldownInv, ClaimTypes
  <2>5. ASSUME NEW s \in Claimants'
        PROVE  s \in Request /\ s # r /\ (pc'[s] = "sent" <=> pc[s] = "sent")
    BY <1>6, <2>3, <2>5 DEF ClaimFails, Claimants, CooldownInv, ClaimTypes
  <2>6. clock' >= clock /\ Claimants' \subseteq Claimants
    BY <2>1, <2>3
  <2>7. \A s \in Claimants' :
          journey'[s] = journey[s] /\ at'[s] = at[s] /\ sentAt'[s] = sentAt[s]
    BY <2>1, <2>5
  <2> QED BY <2>3, <2>4, <2>5, <2>6, <2>7, NoNewClaim
<1>7. ASSUME NEW r \in Request, NEW limit \in Limits,
             \/ Increment(r, limit)
             \/ IncrementFails(r, limit)
             \/ ReleaseCounter(r, limit)
      PROVE  CooldownInv'
  <2>1. UNCHANGED <<clock, cooldown, pc, journey, at, sentAt, answer>>
    BY <1>7 DEF Increment, IncrementFails, ReleaseCounter
  <2>2. ClaimTypes' /\ Claimants' = Claimants
    BY <2>1 DEF CooldownInv, ClaimTypes, Claimants
  <2> QED BY <2>1, <2>2, NoNewClaim DEF CooldownInv, ClaimTypes
<1>s. ASSUME NEW r \in Request, Send(r)
      PROVE  CooldownInv'
  <2>1. /\ UNCHANGED <<clock, cooldown, journey, at, answer>>
        /\ r \in Claimants /\ pc[r] = "allowed"
        /\ pc' = [pc EXCEPT ![r] = "sent"]
        /\ sentAt' = [sentAt EXCEPT ![r] = clock]
    BY <1>s DEF Send, Claimants
  <2>2. ClaimTypes' /\ Claimants' \subseteq Claimants
    BY <2>1 DEF CooldownInv, ClaimTypes, Claimants
  <2>3. ASSUME NEW q \in Claimants'
        PROVE  EmailTime(q)' >= EmailTime(q)
    <3>1. q \in Request /\ clock \in Nat
      BY <2>3 DEF Claimants, CooldownInv, ClaimTypes
    <3>2. CASE q = r
      BY <2>1, <3>1, <3>2 DEF EmailTime, CooldownInv, ClaimTypes
    <3>3. CASE q # r
      <4>1. pc'[q] = pc[q] /\ sentAt'[q] = sentAt[q]
        BY <2>1, <3>1, <3>3 DEF CooldownInv, ClaimTypes
      <4> QED BY <2>1, <3>1, <4>1, EmailNoEarlier DEF CooldownInv, ClaimTypes
    <3> QED BY <3>2, <3>3
  <2>4. \A q \in Claimants' :
           clock' < at[q] + Cooldown => cooldown'[journey[q]] = cooldown[journey[q]]
    BY <2>1
  <2>5. clock' >= clock
    BY <2>1 DEF CooldownInv, ClaimTypes
  <2> QED BY <2>1, <2>2, <2>3, <2>4, <2>5, ClaimsStay
<1>8. ASSUME NEW r \in Request, Allow(r) \/ Deny(r) \/ SendFails(r)
      PROVE  CooldownInv'
  <2>1. /\ UNCHANGED <<clock, cooldown, journey, at, sentAt>>
        /\ r \in Claimants /\ pc[r] # "sent"
        /\ \/ UNCHANGED answer /\ pc' = [pc EXCEPT ![r] = "allowed"]
           \/ /\ pc' = [pc EXCEPT ![r] = "releasing"]
              /\ \E a \in {"failed", "refused"} :
                    answer' = [answer EXCEPT ![r] = a]
    BY <1>8 DEF Allow, Deny, SendFails, Claimants
  <2>2. ClaimTypes' /\ Claimants' \subseteq Claimants
    BY <2>1 DEF CooldownInv, ClaimTypes, Claimants
  <2>3. \A q \in Claimants' : pc'[q] = "sent" <=> pc[q] = "sent"
    BY <2>1 DEF CooldownInv, ClaimTypes, Claimants
  <2> QED BY <2>1, <2>2, <2>3, NoNewClaim DEF CooldownInv, ClaimTypes
<1>9. ASSUME NEW r \in Request, ReleaseCooldown(r)
      PROVE  CooldownInv'
  <2>1. UNCHANGED <<clock, pc, journey, at, sentAt, answer>>
    BY <1>9 DEF ReleaseCooldown
  <2>2. cooldown' \in [Journey -> [endsAt : Nat, claim : Request \cup {Nobody}]]
    BY <1>9 DEF ReleaseCooldown, CooldownInv, ClaimTypes, Free
  <2>3. ClaimTypes' /\ Claimants' = Claimants /\ r \notin Claimants
    BY <1>9, <2>1, <2>2 DEF CooldownInv, ClaimTypes, Claimants, ReleaseCooldown
  <2>4. ASSUME NEW s \in Claimants, clock < at[s] + Cooldown
        PROVE  cooldown'[journey[s]] = cooldown[journey[s]]
    <3>1. cooldown[journey[s]] = [endsAt |-> at[s] + Cooldown, claim |-> s]
      BY <2>4 DEF CooldownInv, ClaimsKept
    <3>2. cooldown[journey[s]].claim = s /\ s # r
      BY <2>3, <2>4, <3>1
    <3> QED BY <1>9, <3>2 DEF ReleaseCooldown, CooldownInv, ClaimTypes
  <2> QED BY <2>1, <2>3, <2>4, NoNewClaim DEF CooldownInv, ClaimTypes
<1>10. ASSUME NEW r \in Request, ReleaseFails(r)
       PROVE  CooldownInv'
  <2>1. /\ UNCHANGED <<clock, cooldown, pc, journey, at, sentAt>>
        /\ answer' = [answer EXCEPT ![r] = "failed"]
    BY <1>10 DEF ReleaseFails
  <2>2. ClaimTypes' /\ Claimants' = Claimants
    BY <2>1 DEF CooldownInv, ClaimTypes, Claimants
  <2> QED BY <2>1, <2>2, NoNewClaim DEF CooldownInv, ClaimTypes
<1>11. ASSUME NEW r \in Request, Released(r)
       PROVE  CooldownInv'
  <2>1. answer[r] \in {"refused", "failed"} /\ r \notin Claimants
    BY <1>11 DEF Released, CooldownInv, ClaimTypes, Claimants
  <2>2. ClaimTypes' /\ Claimants' = Claimants
    BY <1>11, <2>1 DEF CooldownInv, ClaimTypes, Claimants, Released, Forget
  <2> QED BY <1>11, <2>1, <2>2, NoNewClaim
          DEF Released, Forget, CooldownInv, ClaimTypes, Claimants
<1>12. ASSUME NEW j \in Journey, ExpireCooldown(j)
       PROVE  CooldownInv'
  <2>1. UNCHANGED <<clock, pc, journey, at, sentAt, answer>>
    BY <1>12 DEF ExpireCooldown
  <2>2. cooldown' \in [Journey -> [endsAt : Nat, claim : Request \cup {Nobody}]]
    BY <1>12 DEF ExpireCooldown, CooldownInv, ClaimTypes, Free
  <2>3. ClaimTypes' /\ Claimants' = Claimants
    BY <2>1, <2>2 DEF CooldownInv, ClaimTypes, Claimants
  <2>4. ASSUME NEW s \in Claimants, clock < at[s] + Cooldown
        PROVE  cooldown'[journey[s]] = cooldown[journey[s]]
    <3>1. cooldown[journey[s]] = [endsAt |-> at[s] + Cooldown, claim |-> s]
      BY <2>4 DEF CooldownInv, ClaimsKept
    <3>2. s \in Request /\ at[s] \in Nat /\ clock \in Nat
      BY <2>4 DEF Claimants, CooldownInv, ClaimTypes
    <3>3. j # journey[s]
      BY <1>12, <2>4, <3>1, <3>2, TimesAssumption DEF ExpireCooldown
    <3> QED BY <1>12, <3>3 DEF ExpireCooldown, CooldownInv, ClaimTypes
  <2> QED BY <2>1, <2>3, <2>4, NoNewClaim DEF CooldownInv, ClaimTypes
<1>13. ASSUME NEW b \in Bucket, NEW w \in Windows, ExpireCounter(b, w)
       PROVE  CooldownInv'
  <2>1. UNCHANGED <<clock, cooldown, pc, journey, at, sentAt, answer>>
    BY <1>13 DEF ExpireCounter
  <2>2. ClaimTypes' /\ Claimants' = Claimants
    BY <2>1 DEF CooldownInv, ClaimTypes, Claimants
  <2> QED BY <2>1, <2>2, NoNewClaim DEF CooldownInv, ClaimTypes
<1> QED BY <1>1, <1>2, <1>3, <1>4, <1>5, <1>6, <1>7, <1>8, <1>9, <1>10,
           <1>11, <1>12, <1>13, <1>s
        DEF Next

\* Every claimant keeps its cooldown to the end, and of two claimants one sends
\* after the other's has ended, whatever is given back, lost or expired.
THEOREM ClaimsHold == Spec => []CooldownInv
<1>1. Init => CooldownInv
  BY CooldownInvInit
<1>2. CooldownInv /\ [Next]_vars => CooldownInv'
  BY CooldownInvStep
<1> QED BY <1>1, <1>2, PTL DEF Spec

\* Two emails of a journey go a cooldown apart, less what the earlier request
\* took from reading the clock to its email: no failed, slow or concurrent
\* request brings them closer.
THEOREM CooldownIsHeld == Spec => []CooldownHeld
<1>1. ASSUME CooldownInv PROVE CooldownHeld
  <2> SUFFICES ASSUME NEW r \in Request, NEW s \in Request, r # s,
                      pc[r] = "sent", pc[s] = "sent", journey[r] = journey[s]
               PROVE  \/ sentAt[s] - sentAt[r] >= Cooldown - Took(r)
                      \/ sentAt[r] - sentAt[s] >= Cooldown - Took(s)
    BY DEF CooldownHeld
  <2>1. \/ sentAt[s] >= at[r] + Cooldown
        \/ sentAt[r] >= at[s] + Cooldown
    BY <1>1 DEF CooldownInv, ClaimsApart, Claimants, EmailTime
  <2>2. /\ sentAt[r] \in Nat /\ sentAt[s] \in Nat
        /\ at[r] \in Nat /\ at[s] \in Nat
    BY <1>1 DEF CooldownInv, ClaimTypes
  <2> QED BY <2>1, <2>2, TimesAssumption DEF Took
<1> QED BY <1>1, ClaimsHold, PTL

-----------------------------------------------------------------------------
(* Windows, buckets and limits                                             *)

\* The window of a time that the clock can show is one of the windows.
LEMMA WindowType ==
    ASSUME NEW t \in 0..MaxTime
    PROVE  WindowOf(t) \in Windows
<1>1. t \in Nat /\ t <= MaxTime /\ MaxTime \in Nat /\ WindowLength \in Nat \ {0}
  BY TimesAssumption
<1> QED BY <1>1 DEF WindowOf, Windows

LEMMA WindowEndType == \A w \in Windows : WindowEnd(w) \in Int
<1>1. MaxTime \div WindowLength \in Int
  BY TimesAssumption
<1> QED BY <1>1, TimesAssumption DEF WindowEnd, Windows

\* A request counts itself in one bucket per limit, which names the limit.
LEMMA BucketType ==
    ASSUME NEW r, journey[r] \in Journey, email[r] \in Email,
           NEW limit \in Limits
    PROVE  BucketOf(r, limit) \in Bucket /\ BucketOf(r, limit)[1] = limit
<1>1. limit \in {"email", "journey", "global"}
  BY CountersAssumption
<1>2. CASE limit = "email"
  <2>1. BucketOf(r, limit) = <<"email", email[r]>>
    BY <1>2 DEF BucketOf
  <2>2. <<"email", email[r]>> \in {"email"} \X Email
    OBVIOUS
  <2> QED BY <1>2, <2>1, <2>2 DEF Bucket
<1>3. CASE limit = "journey"
  <2>1. BucketOf(r, limit) = <<"journey", journey[r]>>
    BY <1>3 DEF BucketOf
  <2>2. <<"journey", journey[r]>> \in {"journey"} \X Journey
    OBVIOUS
  <2> QED BY <1>3, <2>1, <2>2 DEF Bucket
<1>4. CASE limit = "global"
  BY <1>4 DEF BucketOf, Bucket
<1> QED BY <1>1, <1>2, <1>3, <1>4

LEMMA LimitType == \A limit \in Limits : MaxOf(limit) \in Nat
BY LimitsAssumption, CountersAssumption DEF MaxOf

LEMMA BucketLimit == \A b \in Bucket : b[1] \in Limits
BY DEF Bucket

\* The counter of a request in progress is one of the counters.
LEMMA CounterType ==
    ASSUME TypeOK, NEW r \in Request, journey[r] \in Journey,
           email[r] \in Email, NEW limit \in Limits
    PROVE  /\ Counter(r, limit) \in Bucket \X Windows
           /\ Counter(r, limit)[1] = BucketOf(r, limit)
           /\ Counter(r, limit)[1][1] = limit
           /\ count[Counter(r, limit)] \in Nat
<1>1. at[r] \in 0..MaxTime
  BY DEF TypeOK
<1> QED BY <1>1, WindowType, BucketType DEF Counter, TypeOK

-----------------------------------------------------------------------------
(* Type correctness                                                        *)

LEMMA NothingSeenType ==
    NothingSeen \in [Limits -> Nat \cup {Unsettled, Rejected}]
BY DEF NothingSeen

LEMMA TypeInit == Init => TypeOK
<1> SUFFICES ASSUME Init PROVE TypeOK
  OBVIOUS
<1>1. 0 \in 0..MaxTime /\ 0 \in 0..MaxFaults
  BY TimesAssumption
<1>2. Free \in [endsAt : Nat, claim : Request \cup {Nobody}]
  BY DEF Free
<1> QED BY <1>1, <1>2, NothingSeenType DEF Init, TypeOK

\* The documents keep their type: a cooldown that is claimed, a counter that
\* is incremented.
LEMMA ClaimType ==
    ASSUME TypeOK, NEW r \in Request
    PROVE  [endsAt |-> at[r] + Cooldown, claim |-> r]
             \in [endsAt : Nat, claim : Request \cup {Nobody}]
<1>1. at[r] + Cooldown \in Nat
  BY TimesAssumption DEF TypeOK
<1> QED BY <1>1

LEMMA ForgetType ==
    ASSUME TypeOK, NEW r \in Request, Forget(r)
    PROVE  /\ journey' \in [Request -> Journey \cup {Nobody}]
           /\ email' \in [Request -> Email \cup {Nobody}]
           /\ at' \in [Request -> 0..MaxTime]
           /\ late' \in [Request -> BOOLEAN]
BY TimesAssumption DEF TypeOK, Forget

LEMMA FaultType ==
    ASSUME TypeOK, Fault
    PROVE  faults' \in 0..MaxFaults
BY TimesAssumption DEF TypeOK, Fault

LEMMA TypeStep ==
    ASSUME TypeOK, \A r \in Request : RequestKnown(r), [Next]_vars
    PROVE  TypeOK'
<1> USE DEF request, ghosts
<1>1. CASE UNCHANGED vars
  BY <1>1 DEF TypeOK, vars
<1>2. CASE Tick
  <2>1. clock + 1 \in 0..MaxTime
    BY <1>2, TimesAssumption DEF TypeOK, Tick
  <2> QED BY <1>2, <2>1 DEF TypeOK, Tick
<1>3. ASSUME NEW r \in Request, NEW j \in Journey, NEW e \in Email,
             Begin(r, j, e)
      PROVE  TypeOK'
  BY <1>3 DEF TypeOK, Begin
<1>4. ASSUME NEW r \in Request, ClaimCooldown(r)
      PROVE  TypeOK'
  BY <1>4, ClaimType DEF TypeOK, ClaimCooldown
<1>5. ASSUME NEW r \in Request, RefuseCooldown(r)
      PROVE  TypeOK'
  BY <1>5, ForgetType DEF TypeOK, RefuseCooldown
<1>6. ASSUME NEW r \in Request, ClaimFails(r)
      PROVE  TypeOK'
  <2>1. cooldown' \in [Journey -> [endsAt : Nat, claim : Request \cup {Nobody}]]
    <3>1. cooldown \in [Journey -> [endsAt : Nat, claim : Request \cup {Nobody}]]
      BY DEF TypeOK
    <3>2. \/ cooldown' = cooldown
          \/ cooldown' = [cooldown EXCEPT ![journey[r]] =
                            [endsAt |-> at[r] + Cooldown, claim |-> r]]
      BY <1>6 DEF ClaimFails
    <3> QED BY <3>1, <3>2, ClaimType
  <2>2. leaked' \in BOOLEAN
    BY <1>6 DEF TypeOK, ClaimFails
  <2> QED BY <1>6, <2>1, <2>2, ForgetType, FaultType DEF TypeOK, ClaimFails
<1>7. ASSUME NEW r \in Request, NEW limit \in Limits, Increment(r, limit)
      PROVE  TypeOK'
  <2>1. count[Counter(r, limit)] \in Nat /\ count[Counter(r, limit)] + 1 \in Nat
    BY <1>7, CounterType DEF RequestKnown, Increment
  <2>2. count' \in [Bucket \X Windows -> Nat]
    BY <1>7, <2>1 DEF TypeOK, Increment
  <2>3. seen' \in [Request -> [Limits -> Nat \cup {Unsettled, Rejected}]]
    BY <1>7, <2>1 DEF TypeOK, Increment
  <2>4. late' \in [Request -> BOOLEAN]
    BY <1>7 DEF TypeOK, Increment
  <2> QED BY <1>7, <2>2, <2>3, <2>4 DEF TypeOK, Increment
<1>8. ASSUME NEW r \in Request, NEW limit \in Limits, IncrementFails(r, limit)
      PROVE  TypeOK'
  <2>1. count[Counter(r, limit)] \in Nat /\ count[Counter(r, limit)] + 1 \in Nat
    BY <1>8, CounterType DEF RequestKnown, IncrementFails
  <2>2. count' \in [Bucket \X Windows -> Nat] /\ leaked' \in BOOLEAN
    BY <1>8, <2>1 DEF TypeOK, IncrementFails
  <2>3. seen' \in [Request -> [Limits -> Nat \cup {Unsettled, Rejected}]]
    BY <1>8 DEF TypeOK, IncrementFails
  <2> QED BY <1>8, <2>2, <2>3, FaultType DEF TypeOK, IncrementFails
<1>9. ASSUME NEW r \in Request, NEW limit \in Limits, ReleaseCounter(r, limit)
      PROVE  TypeOK'
  <2>1. count[Counter(r, limit)] \in Nat
    BY <1>9, CounterType DEF RequestKnown, ReleaseCounter
  <2>2. count' \in [Bucket \X Windows -> Nat]
    <3>1. (IF count[Counter(r, limit)] > 0 THEN count[Counter(r, limit)] - 1
                                           ELSE count[Counter(r, limit)]) \in Nat
      BY <2>1
    <3> QED BY <1>9, <3>1 DEF TypeOK, ReleaseCounter
  <2> QED BY <1>9, <2>2 DEF TypeOK, ReleaseCounter
<1>10. ASSUME NEW r \in Request, Allow(r) \/ Send(r)
       PROVE  TypeOK'
  <2>1. CASE Allow(r)
    BY <2>1, NothingSeenType DEF TypeOK, Allow
  <2>2. CASE Send(r)
    BY <2>2 DEF TypeOK, Send
  <2> QED BY <1>10, <2>1, <2>2
<1>11. ASSUME NEW r \in Request, Deny(r) \/ SendFails(r)
       PROVE  TypeOK'
  <2>1. CASE Deny(r)
    BY <2>1, NothingSeenType DEF TypeOK, Deny
  <2>2. CASE SendFails(r)
    BY <2>2 DEF TypeOK, SendFails
  <2> QED BY <1>11, <2>1, <2>2
<1>12. ASSUME NEW r \in Request, ReleaseCooldown(r)
       PROVE  TypeOK'
  BY <1>12 DEF TypeOK, ReleaseCooldown, Free
<1>13. ASSUME NEW r \in Request, ReleaseFails(r)
       PROVE  TypeOK'
  <2>1. claimed' \in [Request -> BOOLEAN] /\ held' \in [Request -> SUBSET Limits]
    <3>1. held[r] \in SUBSET Limits
      BY DEF TypeOK
    <3>2. CASE claimed' = [claimed EXCEPT ![r] = FALSE] /\ held' = held
      BY <3>2 DEF TypeOK
    <3>3. ASSUME NEW limit \in held[r],
                 held' = [held EXCEPT ![r] = @ \ {limit}], claimed' = claimed
          PROVE  claimed' \in [Request -> BOOLEAN] /\ held' \in [Request -> SUBSET Limits]
      BY <3>1, <3>3 DEF TypeOK
    <3> QED BY <1>13, <3>2, <3>3 DEF ReleaseFails
  <2>2. faults' \in 0..MaxFaults
    BY <1>13, FaultType DEF TypeOK, ReleaseFails
  <2>3. /\ UNCHANGED <<clock, cooldown, count, pc, journey, email, at, seen,
                       late, sentAt>>
        /\ leaked' = TRUE /\ answer' = [answer EXCEPT ![r] = "failed"]
    BY <1>13 DEF ReleaseFails, request
  <2> QED BY <2>1, <2>2, <2>3 DEF TypeOK
<1>14. ASSUME NEW r \in Request, Released(r)
       PROVE  TypeOK'
  <2>1. answer[r] \in {"refused", "failed"}
    BY <1>14 DEF TypeOK, RequestKnown, Released
  <2> QED BY <1>14, <2>1, ForgetType, TimesAssumption DEF TypeOK, Released
<1>15. ASSUME NEW j \in Journey, ExpireCooldown(j)
       PROVE  TypeOK'
  BY <1>15 DEF TypeOK, ExpireCooldown, Free
<1>16. ASSUME NEW b \in Bucket, NEW w \in Windows, ExpireCounter(b, w)
       PROVE  TypeOK'
  BY <1>16 DEF TypeOK, ExpireCounter
<1> QED BY <1>1, <1>2, <1>3, <1>4, <1>5, <1>6, <1>7, <1>8, <1>9, <1>10,
           <1>11, <1>12, <1>13, <1>14, <1>15, <1>16 DEF Next

-----------------------------------------------------------------------------
(* What each request knows                                                 *)

\* Only the request that takes a step learns or forgets anything.
LEMMA OthersKnow ==
    ASSUME NEW s \in Request, RequestKnown(s), pc'[s] = pc[s],
           journey'[s] = journey[s], email'[s] = email[s], held'[s] = held[s],
           claimed'[s] = claimed[s], seen'[s] = seen[s], answer'[s] = answer[s]
    PROVE  RequestKnown(s)'
BY DEF RequestKnown

LEMMA KnownStep ==
    ASSUME TypeOK, NEW s \in Request, RequestKnown(s), [Next]_vars
    PROVE  RequestKnown(s)'
<1> USE DEF request, ghosts
<1>1. CASE UNCHANGED <<pc, journey, email, held, claimed, seen, answer>>
  BY <1>1, OthersKnow
<1>2. ASSUME NEW r \in Request, NEW j \in Journey, NEW e \in Email,
             Begin(r, j, e)
      PROVE  RequestKnown(s)'
  <2>1. CASE r = s
    BY <1>2, <2>1 DEF TypeOK, RequestKnown, Begin
  <2> QED BY <1>2, <2>1, OthersKnow DEF TypeOK, Begin
<1>3. ASSUME NEW r \in Request, ClaimCooldown(r)
      PROVE  RequestKnown(s)'
  <2>1. CASE r = s
    <3>1. held[s] = {} /\ seen[s] = NothingSeen /\ pc'[s] = "counting"
      BY <1>3, <2>1 DEF TypeOK, RequestKnown, ClaimCooldown
    <3>2. \A limit \in Limits : seen[s][limit] = Unsettled
      BY <3>1 DEF NothingSeen
    <3> QED BY <1>3, <2>1, <3>1, <3>2 DEF RequestKnown, ClaimCooldown
  <2> QED BY <1>3, <2>1, OthersKnow DEF TypeOK, ClaimCooldown
<1>4. ASSUME NEW r \in Request, RefuseCooldown(r) \/ ClaimFails(r)
      PROVE  RequestKnown(s)'
  <2>1. CASE r = s
    BY <1>4, <2>1 DEF TypeOK, RequestKnown, RefuseCooldown, ClaimFails, Forget
  <2> QED BY <1>4, <2>1, OthersKnow DEF TypeOK, RefuseCooldown, ClaimFails,
                                        Forget
<1>5. ASSUME NEW r \in Request, NEW limit \in Limits,
             Increment(r, limit) \/ IncrementFails(r, limit)
      PROVE  RequestKnown(s)'
  <2>1. CASE r = s
    <3>1. /\ pc[s] = "counting" /\ pc' = pc /\ seen[s][limit] = Unsettled
          /\ UNCHANGED <<journey, email, claimed, answer>>
          /\ held[s] = {l \in Limits : seen[s][l] \notin {Unsettled, Rejected}}
      BY <1>5, <2>1 DEF RequestKnown, Increment, IncrementFails
    <3>2. \A l \in Limits \ {limit} : seen'[s][l] = seen[s][l]
      BY <1>5, <2>1 DEF TypeOK, Increment, IncrementFails
    <3>3. CASE Increment(r, limit)
      <4>1. count[Counter(r, limit)] \in Nat
        BY <2>1, <3>1, CounterType DEF RequestKnown
      <4>2. seen'[s][limit] = count[Counter(r, limit)] + 1
        BY <2>1, <3>3 DEF TypeOK, Increment
      <4>3. seen'[s][limit] \notin {Unsettled, Rejected}
        BY <4>1, <4>2 DEF Unsettled, Rejected
      <4>4. held'[s] = held[s] \cup {limit}
        BY <2>1, <3>3 DEF TypeOK, Increment
      <4>5. held'[s] = {l \in Limits : seen'[s][l] \notin {Unsettled, Rejected}}
        BY <3>1, <3>2, <4>3, <4>4
      <4> QED BY <3>1, <4>5 DEF RequestKnown
    <3>4. CASE IncrementFails(r, limit)
      <4>1. seen'[s][limit] = Rejected /\ held' = held
        BY <2>1, <3>4 DEF TypeOK, IncrementFails
      <4>2. held[s] = {l \in Limits : seen'[s][l] \notin {Unsettled, Rejected}}
        BY <3>1, <3>2, <4>1
      <4> QED BY <3>1, <4>1, <4>2 DEF RequestKnown
    <3> QED BY <1>5, <3>3, <3>4
  <2> QED BY <1>5, <2>1, OthersKnow DEF TypeOK, Increment, IncrementFails
<1>6. ASSUME NEW r \in Request, Allow(r)
      PROVE  RequestKnown(s)'
  <2>1. CASE r = s
    <3>1. held[s] = Limits
      BY <1>6, <2>1 DEF RequestKnown, Allow, Settled, AnyRejected
    <3>2. pc'[s] = "allowed" /\ UNCHANGED <<journey, email, held>>
      BY <1>6, <2>1 DEF TypeOK, Allow
    <3> QED BY <1>6, <2>1, <3>1, <3>2 DEF RequestKnown, Allow
  <2> QED BY <1>6, <2>1, OthersKnow DEF TypeOK, Allow
<1>7. ASSUME NEW r \in Request, Deny(r) \/ Send(r) \/ SendFails(r)
      PROVE  RequestKnown(s)'
  <2>1. CASE r = s
    BY <1>7, <2>1 DEF TypeOK, RequestKnown, Deny, Send, SendFails
  <2> QED BY <1>7, <2>1, OthersKnow DEF TypeOK, Deny, Send, SendFails
<1>8. ASSUME NEW r \in Request,
             \/ ReleaseCooldown(r) \/ ReleaseFails(r)
             \/ \E limit \in Limits : ReleaseCounter(r, limit)
      PROVE  RequestKnown(s)'
  <2>1. /\ pc[r] = "releasing" /\ UNCHANGED <<pc, journey, email, seen>>
        /\ answer' = answer \/ answer' = [answer EXCEPT ![r] = "failed"]
        /\ \A q \in Request \ {r} :
             held'[q] = held[q] /\ claimed'[q] = claimed[q] /\ answer'[q] = answer[q]
    BY <1>8 DEF TypeOK, ReleaseCooldown, ReleaseFails, ReleaseCounter
  <2>2. CASE r = s
    BY <2>1, <2>2 DEF TypeOK, RequestKnown
  <2> QED BY <2>1, <2>2, OthersKnow
<1>9. ASSUME NEW r \in Request, Released(r)
      PROVE  RequestKnown(s)'
  <2>1. CASE r = s
    BY <1>9, <2>1 DEF TypeOK, RequestKnown, Released, Forget
  <2> QED BY <1>9, <2>1, OthersKnow DEF TypeOK, Released, Forget
<1> QED BY <1>1, <1>2, <1>3, <1>4, <1>5, <1>6, <1>7, <1>8, <1>9
        DEF Next, vars, Tick, ExpireCooldown, ExpireCounter

-----------------------------------------------------------------------------
(* The cooldowns                                                           *)

\* Unless an update is lost, every step leaves each cooldown with an owner that
\* still answers for it.
LEMMA OwnedStep ==
    ASSUME TypeOK, \A r \in Request : RequestKnown(r),
           \A j \in Journey : CooldownOwned(j), [Next]_vars, ~leaked',
           NEW j \in Journey
    PROVE  CooldownOwned(j)'
<1> USE DEF request, ghosts
<1> DEFINE o == cooldown[j].claim
<1>1. CooldownOwned(j) /\ o \in Request \cup {Nobody}
  BY DEF TypeOK
<1>2. CASE /\ cooldown'[j] = cooldown[j]
           /\ o # Nobody =>
                /\ claimed'[o] = claimed[o] /\ journey'[o] = journey[o]
                /\ pc'[o] \in {"counting", "releasing", "allowed", "sent"}
  BY <1>1, <1>2 DEF CooldownOwned
<1>3. CASE cooldown'[j] = Free
  BY <1>3 DEF CooldownOwned, Free
<1>4. CASE UNCHANGED <<cooldown, claimed, journey, pc>>
  BY <1>1, <1>4 DEF CooldownOwned
<1>5. ASSUME NEW r \in Request, NEW i \in Journey, NEW e \in Email,
             Begin(r, i, e)
      PROVE  CooldownOwned(j)'
  <2>1. o # r
    BY <1>1, <1>5, NobodyAssumption DEF CooldownOwned, Begin
  <2> QED BY <1>1, <1>2, <1>5, <2>1 DEF TypeOK, Begin, CooldownOwned
<1>6. ASSUME NEW r \in Request, ClaimCooldown(r)
      PROVE  CooldownOwned(j)'
  <2>1. /\ pc'[r] = "counting" /\ claimed'[r] = TRUE /\ journey' = journey
        /\ r # Nobody /\ journey[r] \in Journey
    BY <1>6, NobodyAssumption DEF TypeOK, ClaimCooldown, RequestKnown
  <2>2. CASE j = journey[r]
    <3>1. cooldown'[j].claim = r
      BY <1>6, <2>1, <2>2 DEF TypeOK, ClaimCooldown
    <3> QED BY <2>1, <2>2, <3>1 DEF CooldownOwned
  <2>3. CASE j # journey[r]
    <3>1. cooldown'[j] = cooldown[j] /\ o # r
      BY <1>1, <1>6, <2>1, <2>3 DEF TypeOK, ClaimCooldown, CooldownOwned
    <3> QED BY <1>1, <1>2, <1>6, <3>1 DEF TypeOK, ClaimCooldown, CooldownOwned
  <2> QED BY <2>2, <2>3
<1>7. ASSUME NEW r \in Request, RefuseCooldown(r) \/ ClaimFails(r)
      PROVE  CooldownOwned(j)'
  <2>1. o # r
    BY <1>1, <1>7, NobodyAssumption
       DEF CooldownOwned, RefuseCooldown, ClaimFails
  <2>2. cooldown' = cooldown /\ claimed' = claimed
    BY <1>7 DEF RefuseCooldown, ClaimFails
  <2>3. o # Nobody => journey'[o] = journey[o] /\ pc'[o] = pc[o]
    BY <1>1, <1>7, <2>1 DEF TypeOK, RefuseCooldown, ClaimFails, Forget
  <2> QED BY <1>1, <1>2, <2>2, <2>3 DEF CooldownOwned
<1>8. ASSUME NEW r \in Request, Allow(r) \/ Deny(r) \/ Send(r) \/ SendFails(r)
      PROVE  CooldownOwned(j)'
  <2>1. /\ UNCHANGED <<cooldown, claimed, journey>>
        /\ \E p \in {"allowed", "releasing", "sent"} : pc' = [pc EXCEPT ![r] = p]
    BY <1>8 DEF Allow, Deny, Send, SendFails
  <2> QED BY <1>1, <1>2, <2>1 DEF TypeOK, CooldownOwned
<1>9. ASSUME NEW r \in Request, ReleaseCooldown(r)
      PROVE  CooldownOwned(j)'
  <2>1. CASE o = r
    <3>1. journey[r] = j
      BY <1>1, <2>1, NobodyAssumption DEF CooldownOwned
    <3> QED BY <1>3, <1>9, <2>1, <3>1 DEF TypeOK, ReleaseCooldown
  <2>2. CASE o # r
    <3>1. cooldown'[j] = cooldown[j] \/ cooldown'[j] = Free
      BY <1>9 DEF TypeOK, ReleaseCooldown
    <3> QED BY <1>1, <1>2, <1>3, <1>9, <2>2, <3>1
            DEF TypeOK, ReleaseCooldown, CooldownOwned
  <2> QED BY <2>1, <2>2
<1>10. ASSUME NEW r \in Request, Released(r)
       PROVE  CooldownOwned(j)'
  <2>1. o # r
    BY <1>1, <1>10, NobodyAssumption DEF CooldownOwned, Released
  <2> QED BY <1>1, <1>2, <1>10, <2>1 DEF TypeOK, Released, Forget, CooldownOwned
<1>11. ASSUME NEW i \in Journey, ExpireCooldown(i)
       PROVE  CooldownOwned(j)'
  <2>1. cooldown'[j] = Free \/ cooldown'[j] = cooldown[j]
    BY <1>11 DEF TypeOK, ExpireCooldown
  <2> QED BY <1>1, <1>2, <1>3, <1>11, <2>1 DEF ExpireCooldown, CooldownOwned
<1>12. ASSUME NEW r \in Request, ReleaseFails(r)
       PROVE  FALSE
  BY <1>12 DEF ReleaseFails
<1> QED BY <1>4, <1>5, <1>6, <1>7, <1>8, <1>9, <1>10, <1>11, <1>12
        DEF Next, vars, Tick, Increment, IncrementFails, ReleaseCounter,
            ExpireCounter

-----------------------------------------------------------------------------
(* The counters                                                            *)

CountersOK ==
    \A b \in Bucket, w \in Windows : CountsHolders(b, w) /\ PassesLimit(b, w)

\* A request takes up no more of any counter than before: it holds nothing, or
\* no more than it held for the same counters, and it is let through only by
\* what they showed.
HoldsNoMore(q) ==
    \/ held'[q] = {}
    \/ /\ held'[q] \subseteq held[q]
       /\ journey'[q] = journey[q] /\ email'[q] = email[q]
       /\ at'[q] = at[q] /\ late'[q] = late[q]
       /\ q \in Claimants' => q \in Claimants
       /\ q \in Claimants' /\ pc[q] = "counting" =>
            \/ pc'[q] = "counting"
               /\ \A limit \in held'[q] : seen'[q][limit] = seen[q][limit]
            \/ \A limit \in held'[q] : seen[q][limit] <= MaxOf(limit)
       /\ q \in Claimants' /\ pc'[q] = "counting" => pc[q] = "counting"

LEMMA HoldersShrink ==
    ASSUME \A q \in Request : HoldsNoMore(q), TypeOK, TypeOK',
           NEW b \in Bucket, NEW w \in Windows
    PROVE  /\ Holders(b, w)' \subseteq Holders(b, w)
           /\ Passed(b, w)' \subseteq Passed(b, w)
           /\ (\A q \in Request : held'[q] = held[q]) =>
                Holders(b, w)' = Holders(b, w)
<1>1. ASSUME NEW q \in Request, held'[q] # {}
      PROVE  Counter(q, b[1])' = Counter(q, b[1])
  BY <1>1 DEF HoldsNoMore, Counter, BucketOf
<1>2. Holders(b, w)' \subseteq Holders(b, w)
  BY <1>1 DEF Holders, HoldsNoMore
<1>3. Passed(b, w)' \subseteq Passed(b, w)
  <2> SUFFICES ASSUME NEW q \in Passed(b, w)'
               PROVE  q \in Passed(b, w)
    OBVIOUS
  <2>1. /\ q \in Request /\ q \in Holders(b, w) /\ b[1] \in held'[q]
        /\ q \in Claimants' /\ ~late'[q]
        /\ pc'[q] = "counting" => seen'[q][b[1]] <= MaxOf(b[1])
    BY <1>2 DEF Passed, Holders
  <2>2. q \in Claimants /\ ~late[q]
    BY <2>1 DEF HoldsNoMore
  <2>3. pc[q] = "counting" => seen[q][b[1]] <= MaxOf(b[1])
    BY <2>1 DEF HoldsNoMore
  <2> QED BY <2>1, <2>2, <2>3 DEF Passed
<1>4. (\A q \in Request : held'[q] = held[q]) => Holders(b, w)' = Holders(b, w)
  BY <1>1, <1>2 DEF Holders
<1> QED BY <1>2, <1>3, <1>4

\* A step after which nobody holds more keeps the counters, if it lowers none
\* whose window is open and, unless an update was lost, changes none of those.
LEMMA CountersStay ==
    ASSUME TypeOK, TypeOK', CountersOK, clock' >= clock,
           \A q \in Request : HoldsNoMore(q),
           ~leaked' => ~leaked /\ \A q \in Request : held'[q] = held[q],
           \A b \in Bucket, w \in Windows : clock' < WindowEnd(w) =>
              /\ count'[<<b, w>>] >= count[<<b, w>>]
              /\ ~leaked' => count'[<<b, w>>] = count[<<b, w>>]
    PROVE  CountersOK'
<1> SUFFICES ASSUME NEW b \in Bucket, NEW w \in Windows
             PROVE  CountsHolders(b, w)' /\ PassesLimit(b, w)'
  BY DEF CountersOK
<1>1. CountsHolders(b, w) /\ PassesLimit(b, w)
  BY DEF CountersOK
<1>2. /\ Holders(b, w)' \subseteq Holders(b, w)
      /\ Passed(b, w)' \subseteq Passed(b, w)
      /\ ~leaked' => Holders(b, w)' = Holders(b, w)
  BY HoldersShrink
<1>3. IsFiniteSet(Holders(b, w))
  BY <1>1 DEF CountsHolders
<1>4. /\ IsFiniteSet(Holders(b, w)')
      /\ Cardinality(Holders(b, w)') <= Cardinality(Holders(b, w))
      /\ Cardinality(Holders(b, w)') \in Nat
      /\ Cardinality(Holders(b, w)) \in Nat
  BY <1>2, <1>3, FS_Subset, FS_CardinalityType
<1>5. /\ Cardinality(Passed(b, w)') <= Cardinality(Passed(b, w))
      /\ Cardinality(Passed(b, w)') \in Nat
      /\ Cardinality(Passed(b, w)) \in Nat
  <2>1. Passed(b, w) \subseteq Holders(b, w)
    BY DEF Passed
  <2>2. IsFiniteSet(Passed(b, w))
    BY <1>3, <2>1, FS_Subset
  <2> QED BY <1>2, <2>2, FS_Subset, FS_CardinalityType
<1>6. MaxOf(b[1]) \in Nat /\ MaxOf(b[1])' = MaxOf(b[1])
  BY LimitType, BucketLimit
<1>7. /\ clock \in Int /\ clock' \in Int /\ WindowEnd(w) \in Int
      /\ <<b, w>> \in Bucket \X Windows
      /\ count[<<b, w>>] \in Nat /\ count'[<<b, w>>] \in Nat
  BY WindowEndType DEF TypeOK
<1>8. CountsHolders(b, w)'
  <2>1. clock' < WindowEnd(w) => clock < WindowEnd(w)
    BY <1>7
  <2> QED BY <1>1, <1>2, <1>4, <1>7, <2>1 DEF CountsHolders
<1>9. PassesLimit(b, w)'
  BY <1>1, <1>5, <1>6 DEF PassesLimit
<1> QED BY <1>8, <1>9

\* An increment adds its request to the holders of that counter.  If it is in
\* time, the answer is at least the number of holders, so that one within the
\* limit leaves no more than the limit let through.
LEMMA IncrementStep ==
    ASSUME TypeOK, TypeOK', \A q \in Request : RequestKnown(q), CountersOK,
           NEW r \in Request, NEW limit \in Limits, Increment(r, limit)
    PROVE  CountersOK'
<1> USE DEF request, ghosts
<1> DEFINE k == Counter(r, limit)
<1>1. /\ pc[r] = "counting" /\ seen[r][limit] = Unsettled
      /\ limit \notin held[r]
      /\ journey[r] \in Journey /\ email[r] \in Email
      /\ UNCHANGED <<clock, pc, journey, email, at, leaked>>
  BY DEF Increment, RequestKnown
<1>2. /\ k \in Bucket \X Windows /\ k[1][1] = limit
      /\ count[k] \in Nat
  BY <1>1, CounterType
<1>3. /\ count' = [count EXCEPT ![k] = count[k] + 1]
      /\ seen'[r][limit] = count[k] + 1
      /\ \A l \in Limits \ {limit} : seen'[r][l] = seen[r][l]
      /\ held'[r] = held[r] \cup {limit}
      /\ late'[r] = (late[r] \/ clock >= WindowEnd(WindowOf(at[r])))
      /\ \A q \in Request \ {r} :
           seen'[q] = seen[q] /\ held'[q] = held[q] /\ late'[q] = late[q]
  BY DEF TypeOK, Increment
<1>4. \A q \in Request, l \in Limits : Counter(q, l)' = Counter(q, l)
  BY <1>1 DEF Counter, BucketOf
<1> SUFFICES ASSUME NEW b \in Bucket, NEW w \in Windows
             PROVE  CountsHolders(b, w)' /\ PassesLimit(b, w)'
  BY DEF CountersOK
<1>5. CountsHolders(b, w) /\ PassesLimit(b, w) /\ IsFiniteSet(Holders(b, w))
  BY DEF CountersOK, CountsHolders
<1>6. b[1] \in Limits /\ MaxOf(b[1]) \in Nat
  BY LimitType, BucketLimit
<1>7. CASE <<b, w>> = k
  <2>1. b = k[1] /\ w = k[2] /\ b[1] = limit /\ w = WindowOf(at[r])
    BY <1>2, <1>7 DEF Counter
  <2>2. Holders(b, w)' = Holders(b, w) \cup {r} /\ r \notin Holders(b, w)
    BY <1>1, <1>3, <1>4, <1>6, <1>7, <2>1 DEF Holders
  <2>3. /\ IsFiniteSet(Holders(b, w)')
        /\ Cardinality(Holders(b, w)') = Cardinality(Holders(b, w)) + 1
        /\ Cardinality(Holders(b, w)) \in Nat
    BY <1>5, <2>2, FS_AddElement, FS_CardinalityType
  <2>4. count'[<<b, w>>] = count[<<b, w>>] + 1 /\ count[<<b, w>>] \in Nat
    BY <1>2, <1>3, <1>7 DEF TypeOK
  <2>5. CountsHolders(b, w)'
    BY <1>1, <1>5, <2>3, <2>4 DEF CountsHolders
  <2>6. Passed(b, w)' \subseteq Passed(b, w) \cup {r} /\ r \notin Passed(b, w)
    <3> SUFFICES ASSUME NEW q \in Passed(b, w)', q # r
                 PROVE  q \in Passed(b, w)
      BY <2>2 DEF Passed
    <3> QED BY <1>1, <1>3, <2>2 DEF Passed, Claimants, Holders
  <2>7. IsFiniteSet(Passed(b, w))
    <3>1. Passed(b, w) \subseteq Holders(b, w)
      BY DEF Passed
    <3> QED BY <1>5, <3>1, FS_Subset
  <2>8. PassesLimit(b, w)'
    <3>1. CASE r \notin Passed(b, w)'
      <4>1. Passed(b, w)' \subseteq Passed(b, w)
        BY <2>6, <3>1
      <4>2. /\ Cardinality(Passed(b, w)') <= Cardinality(Passed(b, w))
            /\ Cardinality(Passed(b, w)') \in Nat
            /\ Cardinality(Passed(b, w)) \in Nat
        BY <2>7, <4>1, FS_Subset, FS_CardinalityType
      <4> QED BY <1>5, <1>6, <4>2 DEF PassesLimit
    <3>2. CASE r \in Passed(b, w)'
      <4>1. ~late'[r] /\ seen'[r][limit] <= MaxOf(limit)
        BY <1>1, <2>1, <3>2 DEF Passed
      <4>2. clock < WindowEnd(w)
        <5>1. clock \in Int /\ WindowEnd(w) \in Int
          BY WindowEndType DEF TypeOK
        <5>2. ~(clock >= WindowEnd(w))
          BY <1>3, <2>1, <4>1, Zenon
        <5> QED BY <5>1, <5>2
      <4>3. Cardinality(Holders(b, w)') <= MaxOf(limit)
        <5>1. count[<<b, w>>] >= Cardinality(Holders(b, w))
          BY <1>5, <4>2 DEF CountsHolders
        <5> QED BY <1>3, <1>6, <1>7, <2>1, <2>3, <2>4, <4>1, <5>1
      <4>4. Passed(b, w)' \subseteq Holders(b, w)'
        BY DEF Passed
      <4>5. /\ Cardinality(Passed(b, w)') <= Cardinality(Holders(b, w)')
            /\ Cardinality(Passed(b, w)') \in Nat
            /\ Cardinality(Holders(b, w)') \in Nat
        BY <2>3, <4>4, FS_Subset, FS_CardinalityType
      <4> QED BY <1>6, <2>1, <4>3, <4>5 DEF PassesLimit
    <3> QED BY <3>1, <3>2
  <2> QED BY <2>5, <2>8
<1>8. CASE <<b, w>> # k
  <2>1. Holders(b, w)' = Holders(b, w)
    <3>1. Counter(r, b[1]) = <<b, w>> => b[1] # limit
      BY <1>8
    <3> QED BY <1>3, <1>4, <1>6, <3>1 DEF Holders
  <2>2. Passed(b, w)' \subseteq Passed(b, w)
    <3> SUFFICES ASSUME NEW q \in Passed(b, w)'
                 PROVE  q \in Passed(b, w)
      OBVIOUS
    <3>1. /\ q \in Holders(b, w) /\ q \in Request /\ q \in Claimants
          /\ ~late'[q] /\ pc'[q] = pc[q]
          /\ pc[q] = "counting" => seen'[q][b[1]] <= MaxOf(b[1])
      BY <1>1, <2>1 DEF Passed, Claimants, Holders
    <3>2. ~late[q]
      BY <1>3, <3>1
    <3>3. q = r => b[1] # limit
      BY <1>8, <3>1 DEF Holders
    <3>4. seen'[q][b[1]] = seen[q][b[1]]
      BY <1>3, <1>6, <3>1, <3>3
    <3> QED BY <3>1, <3>2, <3>4 DEF Passed
  <2>3. count'[<<b, w>>] = count[<<b, w>>]
    BY <1>2, <1>3, <1>8 DEF TypeOK
  <2>4. CountsHolders(b, w)'
    BY <1>1, <1>5, <2>1, <2>3 DEF CountsHolders
  <2>5. PassesLimit(b, w)'
    <3>1. Passed(b, w) \subseteq Holders(b, w)
      BY DEF Passed
    <3>2. IsFiniteSet(Passed(b, w))
      BY <1>5, <3>1, FS_Subset
    <3>3. /\ Cardinality(Passed(b, w)') <= Cardinality(Passed(b, w))
          /\ Cardinality(Passed(b, w)') \in Nat
          /\ Cardinality(Passed(b, w)) \in Nat
      BY <2>2, <3>2, FS_Subset, FS_CardinalityType
    <3> QED BY <1>5, <1>6, <3>3 DEF PassesLimit
  <2> QED BY <2>4, <2>5
<1> QED BY <1>7, <1>8

\* A release takes its request off the holders of that counter; the counter was
\* positive, because it covered them, unless its window has ended.
LEMMA ReleaseStep ==
    ASSUME TypeOK, TypeOK', \A q \in Request : RequestKnown(q), CountersOK,
           NEW r \in Request, NEW limit \in Limits, ReleaseCounter(r, limit)
    PROVE  CountersOK'
<1> USE DEF request, ghosts
<1> DEFINE k == Counter(r, limit)
<1>1. /\ pc[r] = "releasing" /\ limit \in held[r]
      /\ journey[r] \in Journey /\ email[r] \in Email
      /\ UNCHANGED <<clock, pc, journey, email, at, late, seen, leaked>>
  BY DEF ReleaseCounter, RequestKnown
<1>2. k \in Bucket \X Windows /\ k[1][1] = limit /\ count[k] \in Nat
  BY <1>1, CounterType
<1>3. /\ count'[k] = IF count[k] > 0 THEN count[k] - 1 ELSE count[k]
      /\ \A c \in Bucket \X Windows : c # k => count'[c] = count[c]
      /\ held'[r] = held[r] \ {limit}
      /\ \A q \in Request \ {r} : held'[q] = held[q]
  BY <1>2 DEF TypeOK, ReleaseCounter
<1>4. \A q \in Request, l \in Limits : Counter(q, l)' = Counter(q, l)
  BY <1>1 DEF Counter, BucketOf
<1>5. \A q \in Request : HoldsNoMore(q)
  BY <1>1, <1>3 DEF HoldsNoMore, Claimants
<1> SUFFICES ASSUME NEW b \in Bucket, NEW w \in Windows
             PROVE  CountsHolders(b, w)' /\ PassesLimit(b, w)'
  BY DEF CountersOK
<1>6. CountsHolders(b, w) /\ PassesLimit(b, w) /\ IsFiniteSet(Holders(b, w))
  BY DEF CountersOK, CountsHolders
<1>7. PassesLimit(b, w)'
  <2>1. Passed(b, w)' \subseteq Passed(b, w)
    BY <1>5, HoldersShrink
  <2>2. Passed(b, w) \subseteq Holders(b, w)
    BY DEF Passed
  <2>3. IsFiniteSet(Passed(b, w))
    BY <1>6, <2>2, FS_Subset
  <2>4. /\ Cardinality(Passed(b, w)') <= Cardinality(Passed(b, w))
        /\ Cardinality(Passed(b, w)') \in Nat
        /\ Cardinality(Passed(b, w)) \in Nat
    BY <2>1, <2>3, FS_Subset, FS_CardinalityType
  <2>5. MaxOf(b[1]) \in Nat
    BY LimitType, BucketLimit
  <2> QED BY <1>6, <2>4, <2>5 DEF PassesLimit
<1>8. CountsHolders(b, w)'
  <2>1. b[1] \in Limits
    BY BucketLimit
  <2>2. CASE <<b, w>> = k
    <3>1. b[1] = limit
      BY <1>2, <2>2
    <3>2. Holders(b, w)' = Holders(b, w) \ {r} /\ r \in Holders(b, w)
      BY <1>1, <1>3, <1>4, <2>1, <2>2, <3>1 DEF Holders
    <3>3. /\ IsFiniteSet(Holders(b, w)')
          /\ Cardinality(Holders(b, w)') = Cardinality(Holders(b, w)) - 1
          /\ Cardinality(Holders(b, w)) \in Nat
          /\ Cardinality(Holders(b, w)') \in Nat
      BY <1>6, <3>2, FS_RemoveElement, FS_CardinalityType
    <3> QED BY <1>1, <1>2, <1>3, <1>6, <2>2, <3>3 DEF CountsHolders
  <2>3. CASE <<b, w>> # k
    <3>1. Counter(r, b[1]) = <<b, w>> => b[1] # limit
      BY <2>3
    <3>2. Holders(b, w)' = Holders(b, w)
      BY <1>3, <1>4, <2>1, <3>1 DEF Holders
    <3>3. count'[<<b, w>>] = count[<<b, w>>]
      BY <1>3, <2>3
    <3> QED BY <1>1, <1>6, <3>2, <3>3 DEF CountsHolders
  <2> QED BY <2>2, <2>3
<1> QED BY <1>7, <1>8

-----------------------------------------------------------------------------
(* The inductive invariant                                                 *)

LEMMA QuotaInvInit == Init => QuotaInv
<1> SUFFICES ASSUME Init PROVE QuotaInv
  OBVIOUS
<1>1. TypeOK
  BY TypeInit
<1>2. \A r \in Request : RequestKnown(r)
  BY DEF Init, RequestKnown
<1>3. ASSUME NEW b \in Bucket, NEW w \in Windows
      PROVE  CountsHolders(b, w) /\ PassesLimit(b, w)
  <2>1. Holders(b, w) = {} /\ Passed(b, w) = {}
    BY DEF Init, Holders, Passed
  <2>2. count[<<b, w>>] = 0
    BY DEF Init
  <2>3. MaxOf(b[1]) \in Nat
    BY LimitType, BucketLimit
  <2> QED BY <2>1, <2>2, <2>3, FS_EmptySet DEF CountsHolders, PassesLimit
<1>4. \A j \in Journey : CooldownOwned(j)
  BY DEF Init, CooldownOwned, Free
<1> QED BY <1>1, <1>2, <1>3, <1>4 DEF QuotaInv

\* A request that a step leaves alone holds no more after it.
LEMMA HoldsAsBefore ==
    ASSUME NEW q \in Request, pc'[q] = pc[q], journey'[q] = journey[q],
           email'[q] = email[q], at'[q] = at[q], held'[q] = held[q],
           late'[q] = late[q], seen'[q] = seen[q]
    PROVE  HoldsNoMore(q)
BY DEF HoldsNoMore, Claimants

\* Every step but an increment and a release leaves nobody holding more.
LEMMA CountersStep ==
    ASSUME QuotaInv, TypeOK', [Next]_vars
    PROVE  CountersOK'
<1> USE DEF request, ghosts
<1>t. TypeOK /\ CountersOK /\ \A q \in Request : RequestKnown(q)
  BY DEF QuotaInv, CountersOK
<1>c. clock \in Int /\ \A c \in Bucket \X Windows : count[c] \in Nat
  BY <1>t DEF TypeOK
<1>p. /\ DOMAIN pc = Request /\ DOMAIN journey = Request /\ DOMAIN email = Request
      /\ DOMAIN at = Request /\ DOMAIN held = Request /\ DOMAIN late = Request
      /\ DOMAIN seen = Request
  BY <1>t DEF TypeOK
<1>1. CASE /\ clock' >= clock
           /\ UNCHANGED <<count, pc, journey, email, at, held, late, seen, leaked>>
  <2>1. \A q \in Request : HoldsNoMore(q)
    BY <1>1, HoldsAsBefore
  <2> QED BY <1>t, <1>c, <1>1, <2>1, CountersStay
<1>2. ASSUME NEW r \in Request, NEW j \in Journey, NEW e \in Email,
             Begin(r, j, e)
      PROVE  CountersOK'
  <2>o. ASSUME NEW q \in Request, q # r PROVE HoldsNoMore(q)
    BY <1>p, <1>2, <2>o, HoldsAsBefore DEF Begin
  <2>r. HoldsNoMore(r)
    <3>1. held'[r] = {}
      BY <1>t, <1>2 DEF Begin, RequestKnown
    <3> QED BY <3>1 DEF HoldsNoMore
  <2>1. \A q \in Request : HoldsNoMore(q)
    BY <2>o, <2>r
  <2> QED BY <1>t, <1>c, <1>2, <2>1, CountersStay DEF Begin
<1>3. ASSUME NEW r \in Request, ClaimCooldown(r)
      PROVE  CountersOK'
  <2>o. ASSUME NEW q \in Request, q # r PROVE HoldsNoMore(q)
    BY <1>p, <1>3, <2>o, HoldsAsBefore DEF ClaimCooldown
  <2>r. HoldsNoMore(r)
    <3>1. held'[r] = {}
      BY <1>t, <1>3 DEF ClaimCooldown, RequestKnown
    <3> QED BY <3>1 DEF HoldsNoMore
  <2>1. \A q \in Request : HoldsNoMore(q)
    BY <2>o, <2>r
  <2> QED BY <1>t, <1>c, <1>3, <2>1, CountersStay DEF ClaimCooldown
<1>4. ASSUME NEW r \in Request, RefuseCooldown(r) \/ ClaimFails(r)
      PROVE  CountersOK'
  <2>o. ASSUME NEW q \in Request, q # r PROVE HoldsNoMore(q)
    BY <1>p, <1>4, <2>o, HoldsAsBefore DEF RefuseCooldown, ClaimFails, Forget
  <2>r. HoldsNoMore(r)
    <3>1. held'[r] = {}
      BY <1>t, <1>4 DEF RefuseCooldown, ClaimFails, RequestKnown
    <3> QED BY <3>1 DEF HoldsNoMore
  <2>1. \A q \in Request : HoldsNoMore(q)
    BY <2>o, <2>r
  <2>2. UNCHANGED <<clock, count, held>> /\ (~leaked' => ~leaked)
    BY <1>4 DEF RefuseCooldown, ClaimFails
  <2> QED BY <1>t, <1>c, <2>1, <2>2, CountersStay
<1>5. ASSUME NEW r \in Request, NEW limit \in Limits, Increment(r, limit)
      PROVE  CountersOK'
  BY <1>t, <1>5, IncrementStep
<1>6. ASSUME NEW r \in Request, NEW limit \in Limits, IncrementFails(r, limit)
      PROVE  CountersOK'
  <2>1. pc[r] = "counting" /\ seen[r][limit] = Unsettled /\ limit \notin held[r]
    BY <1>t, <1>6 DEF IncrementFails, RequestKnown
  <2>2. \A q \in Request : HoldsNoMore(q)
    <3>1. \A l \in held[r] : seen'[r][l] = seen[r][l]
      BY <1>t, <1>6, <2>1 DEF TypeOK, IncrementFails
    <3>2. HoldsNoMore(r)
      BY <1>6, <3>1 DEF HoldsNoMore, Claimants, IncrementFails
    <3>3. ASSUME NEW q \in Request, q # r PROVE HoldsNoMore(q)
      BY <1>p, <1>6, <3>3, HoldsAsBefore DEF IncrementFails
    <3> QED BY <3>2, <3>3
  <2>3. UNCHANGED <<clock, held>>
    BY <1>6 DEF IncrementFails
  <2>4. \/ UNCHANGED <<count, leaked>>
        \/ leaked' = TRUE /\ \A c \in Bucket \X Windows : count'[c] >= count[c]
    <3>1. Counter(r, limit) \in Bucket \X Windows
      BY <1>t, <2>1, CounterType DEF RequestKnown
    <3>2. CASE UNCHANGED <<count, leaked>>
      BY <3>2
    <3>3. CASE /\ count' = [count EXCEPT ![Counter(r, limit)] = @ + 1]
               /\ leaked' = TRUE
      <4>1. \A c \in Bucket \X Windows :
              count'[c] = count[c] \/ count'[c] = count[c] + 1
        BY <1>t, <3>1, <3>3 DEF TypeOK
      <4>2. \A c \in Bucket \X Windows : count'[c] >= count[c]
        BY <1>c, <4>1
      <4> QED BY <3>3, <4>2
    <3> QED BY <1>6, <3>2, <3>3 DEF IncrementFails
  <2> QED BY <1>t, <1>c, <2>2, <2>3, <2>4, CountersStay
<1>7. ASSUME NEW r \in Request, NEW limit \in Limits, ReleaseCounter(r, limit)
      PROVE  CountersOK'
  BY <1>t, <1>7, ReleaseStep
<1>8. ASSUME NEW r \in Request, Allow(r)
      PROVE  CountersOK'
  <2>1. \A limit \in held[r] : seen[r][limit] <= MaxOf(limit)
    <3>1. \A limit \in Limits : ~(seen[r][limit] > MaxOf(limit))
      BY <1>8 DEF Allow, Exceeded
    <3>2. \A limit \in held[r] :
            limit \in Limits /\ seen[r][limit] \in Nat /\ MaxOf(limit) \in Nat
      BY <1>t, <1>8, LimitType DEF TypeOK, Allow, RequestKnown
    <3> QED BY <3>1, <3>2
  <2>o. ASSUME NEW q \in Request, q # r PROVE HoldsNoMore(q)
    BY <1>p, <1>8, <2>o, HoldsAsBefore DEF Allow
  <2>r. HoldsNoMore(r)
    <3>1. pc[r] = "counting" /\ UNCHANGED <<held, journey, email, at, late>>
      BY <1>8 DEF Allow
    <3>2. pc'[r] = "allowed"
      BY <1>p, <1>8 DEF Allow
    <3> QED BY <2>1, <3>1, <3>2 DEF HoldsNoMore, Claimants
  <2>2. \A q \in Request : HoldsNoMore(q)
    BY <2>o, <2>r
  <2> QED BY <1>t, <1>c, <1>8, <2>2, CountersStay DEF Allow
<1>9. ASSUME NEW r \in Request, Deny(r) \/ Send(r) \/ SendFails(r)
      PROVE  CountersOK'
  <2>o. ASSUME NEW q \in Request, q # r PROVE HoldsNoMore(q)
    BY <1>p, <1>9, <2>o, HoldsAsBefore DEF Deny, Send, SendFails
  <2>r. HoldsNoMore(r)
    <3>1. UNCHANGED <<held, journey, email, at, late>>
      BY <1>9 DEF Deny, Send, SendFails
    <3>2. \/ pc'[r] = "releasing"
          \/ pc[r] = "allowed" /\ pc'[r] = "sent"
      BY <1>p, <1>9 DEF Deny, Send, SendFails
    <3> QED BY <3>1, <3>2 DEF HoldsNoMore, Claimants
  <2>1. \A q \in Request : HoldsNoMore(q)
    BY <2>o, <2>r
  <2>2. UNCHANGED <<clock, count, held, leaked>>
    BY <1>9 DEF Deny, Send, SendFails
  <2> QED BY <1>t, <1>c, <2>1, <2>2, CountersStay
<1>10. ASSUME NEW r \in Request, ReleaseCooldown(r)
       PROVE  CountersOK'
  BY <1>1, <1>c, <1>10 DEF ReleaseCooldown
<1>11. ASSUME NEW r \in Request, ReleaseFails(r)
       PROVE  CountersOK'
  <2>o. ASSUME NEW q \in Request, q # r PROVE HoldsNoMore(q)
    BY <1>p, <1>11, <2>o, HoldsAsBefore DEF ReleaseFails
  <2>r. HoldsNoMore(r)
    <3>1. pc[r] = "releasing" /\ UNCHANGED <<pc, journey, email, at, late>>
      BY <1>11 DEF ReleaseFails
    <3>2. held'[r] \subseteq held[r]
      BY <1>p, <1>11 DEF ReleaseFails
    <3> QED BY <3>1, <3>2 DEF HoldsNoMore, Claimants
  <2>1. \A q \in Request : HoldsNoMore(q)
    BY <2>o, <2>r
  <2>2. UNCHANGED <<clock, count>> /\ leaked' = TRUE
    BY <1>11 DEF ReleaseFails
  <2> QED BY <1>t, <1>c, <2>1, <2>2, CountersStay
<1>12. ASSUME NEW r \in Request, Released(r)
       PROVE  CountersOK'
  <2>o. ASSUME NEW q \in Request, q # r PROVE HoldsNoMore(q)
    BY <1>p, <1>12, <2>o, HoldsAsBefore DEF Released, Forget
  <2>r. HoldsNoMore(r)
    <3>1. held'[r] = {}
      BY <1>t, <1>12 DEF Released, RequestKnown
    <3> QED BY <3>1 DEF HoldsNoMore
  <2>1. \A q \in Request : HoldsNoMore(q)
    BY <2>o, <2>r
  <2> QED BY <1>t, <1>c, <1>12, <2>1, CountersStay DEF Released
<1>13. ASSUME NEW b \in Bucket, NEW w \in Windows, ExpireCounter(b, w)
       PROVE  CountersOK'
  <2>1. \A q \in Request : HoldsNoMore(q)
    BY <1>13 DEF HoldsNoMore, Claimants, ExpireCounter
  <2>2. UNCHANGED <<clock, held, leaked>>
    BY <1>13 DEF ExpireCounter
  <2>3. ASSUME NEW c \in Bucket, NEW v \in Windows, clock' < WindowEnd(v)
        PROVE  count'[<<c, v>>] = count[<<c, v>>]
    <3>1. <<c, v>> # <<b, w>>
      BY <1>13, <1>c, <2>2, <2>3, WindowEndType DEF ExpireCounter
    <3> QED BY <1>t, <1>13, <3>1 DEF TypeOK, ExpireCounter
  <2> QED BY <1>t, <1>c, <2>1, <2>2, <2>3, CountersStay
<1>14. CASE Tick
  BY <1>1, <1>c, <1>14 DEF Tick
<1>15. CASE \E j \in Journey : ExpireCooldown(j)
  BY <1>1, <1>c, <1>15 DEF ExpireCooldown
<1>16. CASE UNCHANGED vars
  BY <1>1, <1>c, <1>16 DEF vars
<1> QED BY <1>2, <1>3, <1>4, <1>5, <1>6, <1>7, <1>8, <1>9, <1>10, <1>11,
           <1>12, <1>13, <1>14, <1>15, <1>16 DEF Next

\* A lost update is never found again.
LEMMA LeakedStays ==
    ASSUME [Next]_vars, ~leaked'
    PROVE  ~leaked
BY DEF Next, vars, ghosts, Tick, Begin, ClaimCooldown, RefuseCooldown,
       ClaimFails, Increment, IncrementFails, ReleaseCounter, Allow, Deny,
       Send, SendFails, ReleaseCooldown, ReleaseFails, Released,
       ExpireCooldown, ExpireCounter

LEMMA QuotaInvStep == QuotaInv /\ [Next]_vars => QuotaInv'
<1> SUFFICES ASSUME QuotaInv, [Next]_vars PROVE QuotaInv'
  OBVIOUS
<1>1. TypeOK /\ TypeOK' /\ \A r \in Request : RequestKnown(r)
  BY TypeStep DEF QuotaInv
<1>2. \A r \in Request : RequestKnown(r)'
  BY <1>1, KnownStep
<1>3. CountersOK'
  BY <1>1, CountersStep
<1>4. ~leaked' => \A j \in Journey : CooldownOwned(j)'
  <2> SUFFICES ASSUME ~leaked' PROVE \A j \in Journey : CooldownOwned(j)'
    OBVIOUS
  <2>1. \A j \in Journey : CooldownOwned(j)
    BY LeakedStays DEF QuotaInv
  <2> QED BY <1>1, <2>1, OwnedStep
<1> QED BY <1>1, <1>2, <1>3, <1>4 DEF QuotaInv, CountersOK

\* The counters cover those who hold them, let no more through than the limit,
\* and count and leave no more than that unless an update was lost.
THEOREM QuotaInvariance == Spec => []QuotaInv
<1>1. Init => QuotaInv
  BY QuotaInvInit
<1>2. QuotaInv /\ [Next]_vars => QuotaInv'
  BY QuotaInvStep
<1> QED BY <1>1, <1>2, PTL DEF Spec

-----------------------------------------------------------------------------
(* Theorems                                                                *)

\* The documents and the requests stay well typed: no counter goes below zero,
\* however releases, expiry and lost updates meet.
THEOREM QuotaTyped == Spec => []TypeOK
BY QuotaInvariance, PTL DEF QuotaInv

\* A request that is granted is a holder of each of its counters.
LEMMA GrantedHold ==
    ASSUME QuotaInv, NEW b \in Bucket, NEW w \in Windows
    PROVE  GrantedIn(b, w) = {r \in Holders(b, w) : r \in Granted}
<1>1. ASSUME NEW r \in Granted
      PROVE  r \in GrantedIn(b, w) <=> r \in Holders(b, w)
  <2>1. /\ r \in Request /\ held[r] = Limits
        /\ journey[r] \in Journey /\ email[r] \in Email
    BY <1>1 DEF QuotaInv, RequestKnown, Granted
  <2>2. b[1] \in Limits
    BY BucketLimit
  <2>3. b \in {BucketOf(r, limit) : limit \in Limits} <=> BucketOf(r, b[1]) = b
    BY <2>1, <2>2, BucketType
  <2> QED BY <2>1, <2>2, <2>3 DEF GrantedIn, Holders, Counter
<1> QED BY <1>1 DEF GrantedIn, Granted, Holders

\* Concurrent requests cannot overshoot a limit: of those counted in their own
\* window no more are granted than the limit, whatever others take or give back.
THEOREM LimitIsHeld == Spec => []LimitHeld
<1>1. ASSUME QuotaInv, NEW b \in Bucket, NEW w \in Windows
      PROVE  Cardinality({r \in GrantedIn(b, w) : ~late[r]}) <= MaxOf(b[1])
  <2> DEFINE onTime == {r \in GrantedIn(b, w) : ~late[r]}
  <2>1. onTime \subseteq Passed(b, w)
    BY <1>1, GrantedHold DEF Passed, Granted, Claimants, Holders
  <2>2. Passed(b, w) \subseteq Holders(b, w) /\ IsFiniteSet(Holders(b, w))
    BY <1>1 DEF Passed, QuotaInv, CountsHolders
  <2>3. IsFiniteSet(Passed(b, w))
    BY <2>2, FS_Subset
  <2>4. /\ Cardinality(onTime) <= Cardinality(Passed(b, w))
        /\ Cardinality(onTime) \in Nat /\ Cardinality(Passed(b, w)) \in Nat
    BY <2>1, <2>3, FS_Subset, FS_CardinalityType
  <2>5. Cardinality(Passed(b, w)) <= MaxOf(b[1]) /\ MaxOf(b[1]) \in Nat
    BY <1>1, LimitType, BucketLimit DEF QuotaInv, PassesLimit
  <2> QED BY <2>4, <2>5
<1>2. QuotaInv => LimitHeld
  BY <1>1 DEF LimitHeld
<1> QED BY <1>2, QuotaInvariance, PTL

\* What is refused or fails uses up no quota and leaves no cooldown, unless an
\* update was lost.
THEOREM QuotaIsReturned == Spec => []QuotaReturned
<1>1. QuotaInv => QuotaReturned
  <2> SUFFICES ASSUME QuotaInv, ~leaked,
                      \A r \in Request :
                         pc[r] \in {"idle", "sent", "refused", "failed"}
               PROVE  /\ \A b \in Bucket, w \in Windows :
                           clock < WindowEnd(w) =>
                             count[<<b, w>>] = Cardinality(GrantedIn(b, w))
                      /\ \A j \in Journey :
                           cooldown[j].claim # Nobody =>
                             pc[cooldown[j].claim] = "sent"
    BY DEF QuotaReturned
  <2>1. ASSUME NEW b \in Bucket, NEW w \in Windows, clock < WindowEnd(w)
        PROVE  count[<<b, w>>] = Cardinality(GrantedIn(b, w))
    <3>1. \A r \in Holders(b, w) : r \in Granted
      BY DEF QuotaInv, RequestKnown, Holders, Granted
    <3>2. GrantedIn(b, w) = Holders(b, w)
      BY <3>1, GrantedHold
    <3> QED BY <2>1, <3>2 DEF QuotaInv, CountsHolders
  <2>2. ASSUME NEW j \in Journey, cooldown[j].claim # Nobody
        PROVE  pc[cooldown[j].claim] = "sent"
    <3>1. cooldown[j].claim \in Request
      BY <2>2 DEF QuotaInv, TypeOK
    <3> QED BY <2>2, <3>1 DEF QuotaInv, CooldownOwned
  <2> QED BY <2>1, <2>2
<1> QED BY <1>1, QuotaInvariance, PTL
=============================================================================
