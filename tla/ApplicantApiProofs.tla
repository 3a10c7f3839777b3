-------------------------- MODULE ApplicantApiProofs --------------------------
(***************************************************************************)
(* Proofs about the applicants' API: the gate holds, a submission stores   *)
(* one registration at most, a session counts once and what a browser is   *)
(* told is true, for any number of calls, journeys, addresses, references  *)
(* and attempts, under any settings.                                       *)
(***************************************************************************)
EXTENDS ApplicantApi, FiniteSetTheorems, SequenceTheorems, TLAPS

-----------------------------------------------------------------------------
(* Requests and refusals                                                   *)

LEMMA FormValidityType == FormValidity \subseteq BOOLEAN
BY DEF FormValidity, FormValid

\* Every record that the seed script builds passes the schema as it is read back.
LEMMA SeedsAreValid == SeedValidity \subseteq {TRUE}
<1> SUFFICES ASSUME NEW f \in SeedForms PROVE FormValid(ReadBack(f))
  BY DEF SeedValidity
<1>1. PICK b \in PickSubset(BusinessActivities), o \in {Null, "fine"},
           a \in PickSubset(AddressActivities), q \in QuantityTypes,
           s \in SeedSectors, k \in {0, 4},
           x \in SeedAdditionalAddresses :
        f = SeedForm(b, o, a, q, s, k, x)
  BY SMT DEF SeedForms
<1> DEFINE g == ReadBack(f)
<1>2. /\ g.businessActivities = b /\ g.mainCustomer = "fine" /\ g.businessName = "fine"
      /\ g.primaryContact = FineContact
      /\ g.addressActivities = a /\ g.quantity = {[type |-> q, amount |-> 1]}
      /\ g.sectors = s /\ g.memberSchemes = k /\ g.additionalAddresses = x
  BY <1>1 DEF SeedForm, ReadBack
<1>3. AddressValid(g.address) /\ AddressValid(FineAddress)
  <2>1. AsRead(o) \in {Absent, "fine"}
    BY DEF AsRead
  <2>2. f.address = [line1 |-> "fine", line2 |-> o, town |-> "fine", county |-> o,
                     postcode |-> "fine"]
    BY <1>1 DEF SeedForm, SeedAddress, FineAddress
  <2>3. g.address = [f.address EXCEPT !.line2 = AsRead(f.address.line2),
                                     !.county = AsRead(f.address.county)]
    BY <1>1 DEF SeedForm, ReadBack
  <2>4. /\ g.address.line1 = "fine" /\ g.address.town = "fine" /\ g.address.postcode = "fine"
        /\ g.address.line2 = AsRead(o) /\ g.address.county = AsRead(o)
    BY <2>2, <2>3
  <2>5. AddressValid(g.address)
    BY <2>1, <2>4 DEF AddressValid, RequiredText, OptionalText
  <2> QED BY <2>5 DEF FineAddress, AddressValid, RequiredText, OptionalText
<1> HIDE DEF g
<1>4. ContactValid(FineContact)
  BY DEF FineContact, ContactValid, RequiredText
<1>5. Ticked(BusinessActivities, b) /\ Ticked(AddressActivities, a)
  BY DEF PickSubset, Ticked
<1>6. QuantityValid(g)
  <2> DEFINE w == [type |-> q, amount |-> 1]
  <2>1. w.type \in QuantityTypes /\ w.amount > 0
    OBVIOUS
  <2>2. g.quantity = {w}
    BY <1>2
  <2> HIDE DEF w
  <2> QED BY <2>1, <2>2 DEF QuantityValid
<1>7. SectorsValid(g)
  BY <1>2 DEF SectorsValid, SeedSectors, PickSubset
<1>8. /\ Len(x) <= MaxAdditionalAddresses
      /\ \A i \in DOMAIN x : AdditionalAddressValid(x[i])
  <2>1. CASE x = <<>>
    BY <2>1 DEF MaxAdditionalAddresses
  <2>2. ASSUME NEW y \in PickSubset(AddressActivities), x = <<SeedAdditionalAddress(y)>>
        PROVE  /\ Len(x) <= MaxAdditionalAddresses
               /\ \A i \in DOMAIN x : AdditionalAddressValid(x[i])
    <3>1. Len(x) = 1 /\ DOMAIN x = {1} /\ x[1] = SeedAdditionalAddress(y)
      BY <2>2
    <3>2. AdditionalAddressValid(SeedAdditionalAddress(y))
      BY <1>3, <1>4
         DEF AdditionalAddressValid, SeedAdditionalAddress, PickSubset, Ticked
    <3> QED BY <3>1, <3>2 DEF MaxAdditionalAddresses
  <2> QED BY <2>1, <2>2 DEF SeedAdditionalAddresses
<1>9. MainCustomerValid(g) /\ RequiredText(g.businessName) /\ g.memberSchemes \in 0..MaxMemberSchemes
  BY <1>2 DEF MainCustomerValid, RequiredText, MaxMemberSchemes
<1>10. FormValid(g)
  BY <1>2, <1>3, <1>4, <1>5, <1>6, <1>7, <1>8, <1>9 DEF FormValid
<1> QED BY <1>10 DEF g

LEMMA AnybodyType ==
    Anyone \in Journey /\ AnyEmail \in Spelling /\ Lower[AnyEmail] = AnyEmail
BY SomebodyAssumption, LowerAssumption DEF Anyone, AnyEmail

LEMMA RequestWithType ==
    ASSUME NEW k \in Kind, NEW t \in Tokens, NEW v \in BOOLEAN, NEW e \in Spelling,
           NEW l \in Link \cup {None}
    PROVE  RequestWith(k, t, v, e, l) \in Request
<1>1. t.journey \in Journey /\ t.signed \in BOOLEAN
  <2>1. CASE t = [journey |-> Anyone, signed |-> FALSE]
    BY <2>1, AnybodyType
  <2>2. ASSUME NEW j \in Journey, t = Signed(j)
        PROVE  t.journey \in Journey /\ t.signed \in BOOLEAN
    BY <2>2 DEF Signed
  <2> QED BY <2>1, <2>2 DEF Tokens
<1> QED BY <1>1 DEF RequestWith, Request

\* The requests are typed.
LEMMA RequestType == Requests \subseteq Request
<1> SUFFICES ASSUME NEW q \in Requests PROVE q \in Request
  OBVIOUS
<1>1. /\ \A j \in Journey : Signed(j) \in Tokens
      /\ Anyone \in Journey /\ AnyEmail \in Spelling
  BY AnybodyType DEF Tokens
<1>2. "register" \in Kind /\ "send" \in Kind /\ "verify" \in Kind
  BY DEF Kind
<1>3. \A k \in Kind, t \in Tokens, e \in Spelling, l \in Link \cup {None} :
        WellFormed(k, t, e, l) \in Request
  BY RequestWithType DEF WellFormed
<1>4. \A k \in Kind, t \in Tokens, v \in FormValidity :
        RequestWith(k, t, v, AnyEmail, None) \in Request
  BY <1>1, RequestWithType, FormValidityType
<1>5. \/ \E k \in Kind, t \in Tokens : q = WellFormed(k, t, AnyEmail, None)
      \/ \E k \in {"register", "send"}, e \in Spelling :
            q = WellFormed(k, Signed(Anyone), e, None)
      \/ \E j \in Journey, l \in Link : q = WellFormed("verify", Signed(j), AnyEmail, l)
      \/ \E k \in {"register", "send", "verify"}, v \in FormValidity :
            q = RequestWith(k, Signed(Anyone), v, AnyEmail, None)
  BY DEF Requests
<1>6. CASE \E k \in Kind, t \in Tokens : q = WellFormed(k, t, AnyEmail, None)
  BY <1>1, <1>3, <1>6
<1>7. CASE \E k \in {"register", "send"}, e \in Spelling :
             q = WellFormed(k, Signed(Anyone), e, None)
  BY <1>1, <1>2, <1>3, <1>7
<1>8. CASE \E j \in Journey, l \in Link : q = WellFormed("verify", Signed(j), AnyEmail, l)
  BY <1>1, <1>2, <1>3, <1>8
<1>9. CASE \E k \in {"register", "send", "verify"}, v \in FormValidity :
             q = RequestWith(k, Signed(Anyone), v, AnyEmail, None)
  BY <1>1, <1>2, <1>4, <1>9
<1> QED BY <1>5, <1>6, <1>7, <1>8, <1>9

LEMMA AnswerType ==
    ASSUME NEW s \in Statuses
    PROVE  /\ \A k \in Codes \cup References :
                 <<s, k>> \in Answers /\ <<s, k>> # None /\ <<s, k>>[1] = s
           /\ \A k \in Codes, b \in BOOLEAN :
                 <<s, k, b>> \in Answers /\ <<s, k, b>> # None /\ <<s, k, b>>[1] = s
BY NoDocumentAssumption DEF Answers

\* An answer of a status and a code.
Plain(s, k) == <<s, k>>

LEMMA PlainType ==
    ASSUME NEW s \in Statuses, NEW k \in Codes \cup References
    PROVE  Plain(s, k) \in Answers
BY AnswerType DEF Plain

\* The refusals are answers of their status.
LEMMA RefusalsAreAnswers ==
    /\ BadRequest \in Answers /\ BadRequest # None /\ BadRequest[1] = 400
    /\ BadForm \in Answers /\ BadForm # None /\ BadForm[1] = 400
    /\ NotConfigured \in Answers /\ NotConfigured # None /\ NotConfigured[1] = 503
    /\ TokenInvalid \in Answers /\ TokenInvalid # None /\ TokenInvalid[1] = 401
    /\ BeaconInvalid \in Answers /\ BeaconInvalid # None /\ BeaconInvalid[1] = 401
    /\ NotVerified \in Answers /\ NotVerified # None /\ NotVerified[1] = 403
<1>1. 400 \in Statuses /\ 401 \in Statuses /\ 403 \in Statuses /\ 503 \in Statuses
  BY DEF Statuses
<1>2. /\ "" \in Codes \cup References /\ "VALIDATION_ERROR" \in Codes \cup References
      /\ "SERVICE_NOT_CONFIGURED" \in Codes \cup References
      /\ "JOURNEY_TOKEN_INVALID" \in Codes \cup References
      /\ "EMAIL_NOT_VERIFIED" \in Codes \cup References
  BY DEF Codes
<1>3. /\ BadRequest = Plain(400, "VALIDATION_ERROR") /\ BadForm = Plain(400, "")
      /\ NotConfigured = Plain(503, "SERVICE_NOT_CONFIGURED")
      /\ TokenInvalid = Plain(401, "JOURNEY_TOKEN_INVALID") /\ BeaconInvalid = Plain(401, "")
      /\ NotVerified = Plain(403, "EMAIL_NOT_VERIFIED")
  BY DEF Plain, BadRequest, BadForm, NotConfigured, TokenInvalid, BeaconInvalid, NotVerified
<1>4. BadRequest \in Answers
  BY <1>1, <1>2, <1>3, PlainType
<1>5. BadForm \in Answers
  BY <1>1, <1>2, <1>3, PlainType
<1>6. NotConfigured \in Answers
  BY <1>1, <1>2, <1>3, PlainType
<1>7. TokenInvalid \in Answers
  BY <1>1, <1>2, <1>3, PlainType
<1>8. BeaconInvalid \in Answers
  BY <1>1, <1>2, <1>3, PlainType
<1>9. NotVerified \in Answers
  BY <1>1, <1>2, <1>3, PlainType
<1>10. \A a \in Answers : a # None
  BY NoDocumentAssumption
<1>11. /\ BadRequest[1] = 400 /\ BadForm[1] = 400 /\ NotConfigured[1] = 503
       /\ TokenInvalid[1] = 401 /\ BeaconInvalid[1] = 401 /\ NotVerified[1] = 403
  BY DEF BadRequest, BadForm, NotConfigured, TokenInvalid, BeaconInvalid, NotVerified
<1> QED BY <1>4, <1>5, <1>6, <1>7, <1>8, <1>9, <1>10, <1>11

\* Which checks are made of which request.
LEMMA RefusalOf ==
    ASSUME NEW q
    PROVE  /\ q.kind \in Event => Refusal(q) = BeaconRefusal(q)
           /\ q.kind = "register" =>
                Refusal(q) = IF ~q.valid THEN BadForm ELSE GateRefusal(q)
           /\ q.kind = "send" => Refusal(q) = SendRefusal(q)
           /\ q.kind = "verify" => Refusal(q) = VerifyRefusal(q)
           /\ q.kind = "current" => Refusal(q) = JourneyRefusal(q)
BY DEF Refusal, Event

\* A call that is refused at once is told why, by a status of its own.
LEMMA RefusalType ==
    ASSUME NEW q \in Requests, Refusal(q) # None
    PROVE  /\ Refusal(q) \in Answers
           /\ Refusal(q)[1] \in {400, 401, 503}
<1>1. q.kind \in Kind
  BY RequestType DEF Request
<1>2. Refusal(q) \in {BadRequest, BadForm, NotConfigured, TokenInvalid, BeaconInvalid,
                       <<400, "TOKEN_INVALID">>}
  <2>1. JourneyRefusal(q) \in {NotConfigured, TokenInvalid, None}
    BY DEF JourneyRefusal
  <2>2. GateRefusal(q) \in {NotConfigured, TokenInvalid, None}
    BY <2>1 DEF GateRefusal
  <2>3. SendRefusal(q) \in {BadRequest, NotConfigured, TokenInvalid, None}
    BY <2>1 DEF SendRefusal
  <2>4. BeaconRefusal(q) \in {BeaconInvalid, None} /\ VerifyRefusal(q) \in {<<400, "TOKEN_INVALID">>, None}
    BY DEF BeaconRefusal, VerifyRefusal
  <2> QED BY <1>1, <2>1, <2>2, <2>3, <2>4, RefusalOf DEF Kind
<1>3. <<400, "TOKEN_INVALID">> \in Answers /\ <<400, "TOKEN_INVALID">>[1] = 400
  <2>1. 400 \in Statuses /\ "TOKEN_INVALID" \in Codes
    BY DEF Statuses, Codes
  <2> QED BY <2>1, AnswerType
<1> QED BY <1>2, <1>3, RefusalsAreAnswers

LEMMA TierType ==
    ASSUME TypeOK
    PROVE  /\ tier.secret \in BOOLEAN /\ tier.others \in BOOLEAN
           /\ tier.required \in BOOLEAN /\ tier.analytics \in BOOLEAN
           /\ tier.seedPrefix \in BOOLEAN
BY TierAssumption DEF TypeOK, TierSettings

\* What is known of a request that no check refused.
LEMMA Accepted ==
    ASSUME TypeOK, NEW q \in Requests, Refusal(q) = None
    PROVE  /\ q.kind \in Event /\ tier.secret => VerifiedNonce(q) = q.journey
           /\ q.kind = "register" => q.valid
           /\ q.kind = "register" /\ tier.required => VerifiedNonce(q) = q.journey
           /\ q.kind = "register" /\ tier.required => GateReads(q)
<1>1. q.kind \in Kind /\ q.journey \in Journey /\ q.valid \in BOOLEAN
  BY RequestType DEF Request
<1>2. VerifiedNonce(q) # None => VerifiedNonce(q) = q.journey
  BY DEF VerifiedNonce
<1>3. CASE q.kind \in Event
  <2>1. BeaconRefusal(q) = None
    BY <1>3, RefusalOf
  <2>2. tier.secret => VerifiedNonce(q) # None
    BY <2>1, RefusalsAreAnswers DEF BeaconRefusal
  <2> QED BY <1>2, <1>3, <2>2 DEF Event
<1>4. CASE q.kind = "register"
  <2>0. Refusal(q) = IF ~q.valid THEN BadForm ELSE GateRefusal(q)
    BY <1>4, RefusalOf
  <2>1. q.valid /\ GateRefusal(q) = None
    BY <2>0, <1>1, RefusalsAreAnswers
  <2>2. tier.required => ~MissingSettings /\ JourneyRefusal(q) = None
    BY <2>1, RefusalsAreAnswers DEF GateRefusal
  <2>3. tier.required => tier.secret /\ VerifiedNonce(q) # None
    BY <2>2, RefusalsAreAnswers DEF MissingSettings, JourneyRefusal
  <2> QED BY <1>2, <1>4, <2>1, <2>3 DEF Event, GateReads
<1> QED BY <1>3, <1>4

\* Its first step is one of its kind's, and is not the save where the gate is on.
LEMMA FirstStepType ==
    ASSUME TypeOK, NEW q \in Requests, Refusal(q) = None
    PROVE  /\ FirstStep(q) \in StepsOf(q.kind)
           /\ FirstStep(q) \in {"record", "check", "save", "send", "verify", "look"}
           /\ FirstStep(q) = "check" => tier.required
           /\ FirstStep(q) = "save" => ~tier.required
<1>1. q.kind \in Kind
  BY RequestType DEF Request
<1>2. CASE q.kind \in Event
  BY <1>2 DEF FirstStep, StepsOf, Event
<1>3. CASE q.kind = "register"
  <2>1. FirstStep(q) = IF GateReads(q) THEN "check" ELSE "save"
    BY <1>3 DEF FirstStep, Event
  <2>2. StepsOf(q.kind) = {"check", "save"}
    BY <1>3 DEF StepsOf, Event
  <2> QED BY <1>3, <2>1, <2>2, Accepted DEF GateReads
<1>4. CASE q.kind \in {"send", "verify", "current"}
  BY <1>4 DEF FirstStep, StepsOf, Event
<1> QED BY <1>1, <1>2, <1>3, <1>4 DEF Kind

\* Refusals depend on the request and the settings only.
LEMMA RefusalStays ==
    ASSUME tier' = tier, NEW q
    PROVE  Refusal(q)' = Refusal(q) /\ VerifiedNonce(q)' = VerifiedNonce(q)
BY DEF Refusal, BeaconRefusal, GateRefusal, SendRefusal, VerifyRefusal, JourneyRefusal,
       MissingSettings, VerifiedNonce

-----------------------------------------------------------------------------
(* The versions of the verification records                                *)

LEMMA VersionsType ==
    ASSUME TypeOK
    PROVE  /\ Current \in Versions /\ Current \in Records
           /\ \A v \in Versions : v \in Records
<1>1. Len(log) \in Nat \ {0} /\ DOMAIN log = 1..Len(log)
  BY DEF TypeOK
<1>2. Len(log) \in DOMAIN log
  BY <1>1
<1>3. \A i \in DOMAIN log : log[i] \in Records
  BY <1>1 DEF TypeOK
<1> QED BY <1>2, <1>3 DEF Current, Versions

\* A write shows its records from then on, and reads may still show the earlier ones.
LEMMA WriteShows ==
    ASSUME TypeOK, NEW records \in Records, Write(records)
    PROVE  /\ log' \in Seq(Records) /\ log' # <<>>
           /\ Current' = records
           /\ Versions' \subseteq Versions \cup {records}
<1>1. log \in Seq(Records) /\ log # <<>> /\ Len(log) \in Nat \ {0}
  BY DEF TypeOK
<1>2. CASE records = Current
  <2>1. log' = log
    BY <1>2 DEF Write
  <2> QED BY <1>1, <1>2, <2>1 DEF Current, Versions
<1>3. CASE records # Current
  <2>1. log' = Append(log, records)
    BY <1>3 DEF Write
  <2>2. /\ log' \in Seq(Records) /\ Len(log') = Len(log) + 1
        /\ log'[Len(log) + 1] = records
        /\ \A i \in 1..Len(log) : log'[i] = log[i]
    BY <1>1, <2>1
  <2>3. log' # <<>> /\ Current' = records
    BY <1>1, <2>2 DEF Current
  <2>4. ASSUME NEW i \in DOMAIN log'
        PROVE  log'[i] \in Versions \cup {records}
    <3>1. i \in 1..Len(log) + 1 /\ DOMAIN log = 1..Len(log)
      BY <1>1, <2>2, <2>4
    <3>2. CASE i \in 1..Len(log)
      BY <2>2, <3>1, <3>2 DEF Versions
    <3>3. CASE i = Len(log) + 1
      BY <2>2, <3>3
    <3> QED BY <1>1, <3>1, <3>2, <3>3
  <2> QED BY <2>2, <2>3, <2>4 DEF Versions
<1> QED BY <1>2, <1>3

LEMMA NoWrite ==
    ASSUME TypeOK, log' = log
    PROVE  /\ log' \in Seq(Records) /\ log' # <<>>
           /\ Current' = Current /\ Versions' = Versions
BY DEF TypeOK, Current, Versions

\* What a write must leave as it was: verified links, normal spellings.
Extends(records) ==
    /\ \A l \in Link : Current[l] # None /\ Current[l].status = "verified" => records[l] = Current[l]
    /\ \A l \in Link : records[l] # None => Lower[records[l].email] = records[l].email

\* A verified link is still as any version shows it.
LEMMA ProofsStand ==
    ASSUME TypeOK, ProofsKept, NEW v \in Versions, NEW l \in Link,
           v[l] # None, v[l].status = "verified"
    PROVE  Current[l] = v[l]
<1>1. Len(log) \in Nat /\ DOMAIN log = 1..Len(log)
  BY DEF TypeOK
<1>2. PICK i \in DOMAIN log : v = log[i]
  BY DEF Versions
<1>3. i \in Nat /\ Len(log) \in i..Len(log)
  BY <1>1, <1>2
<1> QED BY <1>2, <1>3 DEF ProofsKept, Current

LEMMA RecordsKept ==
    ASSUME TypeOK, ProofsKept, Normalised, NEW records \in Records,
           Extends(records), Write(records)
    PROVE  ProofsKept' /\ Normalised'
<1>1. Current' = records /\ Versions' \subseteq Versions \cup {records}
  BY WriteShows
<1>2. ProofsKept'
  <2>1. CASE records = Current
    BY <2>1 DEF Write, ProofsKept
  <2>2. CASE records # Current
    <3>1. log \in Seq(Records) /\ log' = Append(log, records)
      BY <2>2 DEF Write, TypeOK
    <3>2. /\ Len(log) \in Nat /\ Len(log') = Len(log) + 1 /\ DOMAIN log' = 1..Len(log')
          /\ DOMAIN log = 1..Len(log)
          /\ log'[Len(log')] = records /\ \A i \in 1..Len(log) : log'[i] = log[i]
      BY <3>1
    <3> SUFFICES ASSUME NEW i \in DOMAIN log', NEW k \in i..Len(log'), NEW l \in Link,
                        log'[i][l] # None, log'[i][l].status = "verified"
                 PROVE  log'[k][l] = log'[i][l]
      BY DEF ProofsKept
    <3>3. CASE k \in 1..Len(log)
      <4>1. i \in DOMAIN log /\ k \in i..Len(log) /\ log'[i] = log[i] /\ log'[k] = log[k]
        BY <3>2, <3>3
      <4> QED BY <4>1 DEF ProofsKept
    <3>4. CASE i \in 1..Len(log) /\ k = Len(log')
      <4>1. log'[i] = log[i] /\ log[i] \in Versions
        BY <3>2, <3>4 DEF Versions
      <4>2. Current[l] = log[i][l]
        BY <4>1, ProofsStand
      <4> QED BY <3>2, <3>4, <4>1, <4>2 DEF Extends
    <3>5. CASE i = Len(log')
      BY <3>2, <3>5
    <3> QED BY <3>2, <3>3, <3>4, <3>5
  <2> QED BY <2>1, <2>2
<1>3. Normalised'
  BY <1>1 DEF Normalised, Extends
<1> QED BY <1>2, <1>3

LEMMA RecordsUntouched ==
    ASSUME TypeOK, ProofsKept, Normalised, log' = log
    PROVE  ProofsKept' /\ Normalised'
BY NoWrite DEF ProofsKept, Normalised

\* A version that no secondary shows any more takes nothing with it.
LEMMA CaughtUp ==
    ASSUME TypeOK, ProofsKept, Normalised, CatchUp
    PROVE  /\ log' \in Seq(Records) /\ log' # <<>> /\ Current' = Current
           /\ ProofsKept' /\ Normalised'
<1>1. log \in Seq(Records) /\ Len(log) \in Nat /\ Len(log) > 1 /\ log' = Tail(log)
  BY DEF TypeOK, CatchUp
<1>2. /\ log' \in Seq(Records) /\ Len(log') = Len(log) - 1
      /\ DOMAIN log' = 1..Len(log') /\ DOMAIN log = 1..Len(log)
      /\ \A i \in 1..Len(log') : log'[i] = log[i + 1]
  <2>1. log # <<>>
    BY <1>1
  <2>2. log' \in Seq(Records) /\ Len(log') = Len(log) - 1
    BY <1>1, <2>1, HeadTailProperties
  <2>3. \A i \in 1..Len(log') : log'[i] = log[i + 1]
    BY <1>1, <2>1, <2>2, HeadTailProperties
  <2> QED BY <1>1, <2>2, <2>3
<1>3. log' # <<>> /\ Len(log') \in Nat \ {0}
  BY <1>1, <1>2
<1>4. Current' = Current
  BY <1>1, <1>2, <1>3 DEF Current
<1>5. ProofsKept'
  <2> SUFFICES ASSUME NEW i \in DOMAIN log', NEW k \in i..Len(log'), NEW l \in Link,
                      log'[i][l] # None, log'[i][l].status = "verified"
               PROVE  log'[k][l] = log'[i][l]
    BY DEF ProofsKept
  <2>1. /\ i + 1 \in DOMAIN log /\ k + 1 \in (i + 1)..Len(log)
        /\ log'[i] = log[i + 1] /\ log'[k] = log[k + 1]
    BY <1>1, <1>2
  <2> QED BY <2>1 DEF ProofsKept
<1>6. Normalised'
  <2>1. \A i \in DOMAIN log' : log'[i] \in Versions
    BY <1>1, <1>2 DEF Versions
  <2> QED BY <2>1 DEF Normalised, Versions
<1> QED BY <1>2, <1>3, <1>4, <1>5, <1>6

-----------------------------------------------------------------------------
(* What a step of one call leaves to the others                            *)

\* No verified link changes.
LinksStay ==
    \A l \in Link : Current[l] # None /\ Current[l].status = "verified" => Current'[l] = Current[l]

\* The other calls are where they were, and so are the links they look after.
OthersWait(c) ==
    /\ tier' = tier
    /\ LinksStay
    /\ \A d \in Call \ {c} :
         /\ pc'[d] = pc[d] /\ ask'[d] = ask[d] /\ began'[d] = began[d]
         /\ latest'[d] = latest[d] /\ answer'[d] = answer[d] /\ sent'[d] = sent[d]
         /\ pc[d] # "done" => Current'[d] = Current[d]

LEMMA ProofStays ==
    ASSUME LinksStay, NEW j, NEW e, NEW time, Proved(j, e, time)
    PROVE  Proved(j, e, time)'
BY DEF LinksStay, Proved

LEMMA OthersStage ==
    ASSUME ApplicantInv, NEW c, OthersWait(c), NEW d \in Call \ {c}
    PROVE  LinkStage(d)' /\ CallStage(d)' /\ Status(d)' = Status(d)
<1>1. LinkStage(d) /\ CallStage(d)
  BY DEF ApplicantInv
<1>2. /\ pc'[d] = pc[d] /\ ask'[d] = ask[d] /\ began'[d] = began[d] /\ tier' = tier
      /\ latest'[d] = latest[d] /\ answer'[d] = answer[d]
      /\ pc[d] # "done" => Current'[d] = Current[d]
  BY DEF OthersWait
<1>3. LinkStage(d)'
  BY <1>1, <1>2 DEF LinkStage
<1>4. Refusal(ask[d])' = Refusal(ask[d])
  BY <1>2, RefusalStays
<1>5. pc[d] = "save" /\ tier.required => Proved(ask[d].journey, Lower[ask[d].email], began[d])'
  BY <1>1, <1>2, ProofStays DEF CallStage, OthersWait
<1>6. CallStage(d)'
  BY <1>1, <1>2, <1>4, <1>5 DEF CallStage
<1> QED BY <1>2, <1>3, <1>6 DEF Status

\* A registration that has its proof keeps it.
LEMMA GateStays ==
    ASSUME GateHolds, LinksStay, tier' = tier, register' = register
    PROVE  GateHolds'
<1>1. ASSUME NEW r \in References, tier.required, register[r] # None, register[r].call # None
      PROVE  Proved(register[r].journey, register[r].email, register[r].received)'
  BY <1>1, ProofStays DEF GateHolds, Proved
<1> QED BY <1>1 DEF GateHolds, Proved

\* What the invariant says of a call in progress.
LEMMA InProgress ==
    ASSUME ApplicantInv, NEW c \in Call, pc[c] # "done"
    PROVE  /\ answer[c] = None /\ Status(c) = 0
           /\ StoredBy(c) = {} /\ CountedBy(c) = {} /\ sent[c] = 0
<1>1. CallStage(c) /\ StoredOnce(c) /\ CountedOnce(c)
  BY DEF ApplicantInv
<1>2. answer[c] = None /\ Status(c) = 0
  BY <1>1 DEF CallStage, Status
<1>3. StoredBy(c) = {} /\ CountedBy(c) = {}
  BY <1>1 DEF StoredOnce, CountedOnce
<1>4. sent[c] = IF tier.analytics /\ Status(c) \in {201, 204} THEN Milestones(c) ELSE 0
  BY DEF ApplicantInv, EventsMatchMilestones
<1> QED BY <1>2, <1>3, <1>4

\* What a call has to tell analytics depends on what it stored and was told.
LEMMA SameMilestones ==
    ASSUME NEW c, tier' = tier, StoredBy(c)' = StoredBy(c), CountedBy(c)' = CountedBy(c),
           Status(c)' = Status(c)
    PROVE  Milestones(c)' = Milestones(c)
BY DEF Milestones, GoneWithSeeds

\* A step that stores nothing and acknowledges nothing leaves the accounts as they were.
LEMMA QuietCall ==
    ASSUME ApplicantInv, NEW c \in Call, pc[c] # "done", OthersWait(c),
           UNCHANGED <<docs, register, sent>>, Status(c)' \notin {201, 204}
    PROVE  /\ \A d \in Call : StoredOnce(d)' /\ CountedOnce(d)'
           /\ SessionsCounted' /\ EventsMatchMilestones'
           /\ GateHolds' /\ AnswersComplete'
<1>1. \A d \in Call : StoredBy(d)' = StoredBy(d) /\ CountedBy(d)' = CountedBy(d)
  BY DEF StoredBy, CountedBy
<1>2. /\ tier' = tier
      /\ \A d \in Call \ {c} :
           /\ pc'[d] = pc[d] /\ ask'[d] = ask[d] /\ answer'[d] = answer[d]
           /\ Status(d)' = Status(d)
  BY OthersStage DEF OthersWait
<1>3. /\ StoredBy(c) = {} /\ CountedBy(c) = {} /\ sent[c] = 0
  BY InProgress
<1>4. ASSUME NEW d \in Call
      PROVE  StoredOnce(d)' /\ CountedOnce(d)'
  <2>1. StoredOnce(d) /\ CountedOnce(d)
    BY DEF ApplicantInv
  <2>2. CASE d = c
    <3>1. StoredBy(c)' = {} /\ CountedBy(c)' = {} /\ Status(c)' # 201
      BY <1>1, <1>3
    <3> QED BY <2>2, <3>1 DEF StoredOnce, CountedOnce
  <2>3. CASE d # c
    <3>1. d \in Call \ {c}
      BY <2>3
    <3>2. StoredOnce(d)'
      BY <1>1, <1>2, <2>1, <3>1 DEF StoredOnce, OwnReferences
    <3>3. CountedOnce(d)'
      BY <1>1, <1>2, <2>1, <3>1 DEF CountedOnce
    <3> QED BY <3>2, <3>3
  <2> QED BY <2>2, <2>3
<1>5. SessionsCounted'
  <2>1. SessionsCounted
    BY DEF ApplicantInv
  <2>2. \A d \in Call : Status(d)' = 204 => ask'[d] = ask[d] /\ Status(d) = 204
    BY <1>2
  <2> QED BY <1>2, <2>1, <2>2 DEF SessionsCounted
<1>6. EventsMatchMilestones'
  <2>1. ASSUME NEW d \in Call
        PROVE  sent'[d] = IF tier'.analytics /\ Status(d)' \in {201, 204}
                          THEN Milestones(d)' ELSE 0
    <3>1. CASE d = c
      BY <1>3, <3>1
    <3>2. CASE d # c
      <4>1. Status(d)' = Status(d) /\ Milestones(d)' = Milestones(d)
        BY <1>1, <1>2, <3>2, SameMilestones
      <4> QED BY <1>2, <3>2, <4>1 DEF ApplicantInv, EventsMatchMilestones
    <3> QED BY <3>1, <3>2
  <2> QED BY <2>1 DEF EventsMatchMilestones
<1>7. GateHolds' /\ AnswersComplete'
  <2>1. GateHolds'
    BY GateStays DEF ApplicantInv, OthersWait
  <2> QED BY <2>1 DEF ApplicantInv, AnswersComplete
<1> QED BY <1>4, <1>5, <1>6, <1>7

\* Then the invariant rests on what the step does to its own call.
LEMMA QuietStep ==
    ASSUME ApplicantInv, NEW c \in Call, pc[c] # "done", OthersWait(c),
           UNCHANGED <<docs, register, sent>>, Status(c)' \notin {201, 204},
           TypeOK', ProofsKept', Normalised', LinkStage(c)', CallStage(c)'
    PROVE  ApplicantInv'
<1>1. \A d \in Call : LinkStage(d)' /\ CallStage(d)'
  BY OthersStage
<1> QED BY <1>1, QuietCall DEF ApplicantInv

\* A call that is answered is over.
LEMMA AnswerStage ==
    ASSUME ApplicantInv, NEW c \in Call, pc[c] \notin {"idle", "done"},
           NEW a \in Answers, Answer(c, a), ask' = ask
    PROVE  /\ LinkStage(c)' /\ CallStage(c)'
           /\ pc'[c] = "done" /\ answer'[c] = a /\ Status(c)' = a[1]
           /\ pc' \in [Call -> {"idle", "record", "check", "save", "send", "deliver",
                                "verify", "explain", "look", "judge", "done"}]
           /\ answer' \in [Call -> Answers \cup {None}]
           /\ began' \in [Call -> 0..MaxTime]
           /\ \A d \in Call \ {c} :
                pc'[d] = pc[d] /\ began'[d] = began[d] /\ answer'[d] = answer[d]
<1>1. TypeOK /\ CallStage(c) /\ 0 \in 0..MaxTime
  BY ApplicantTimesAssumption DEF ApplicantInv
<1>2. /\ pc'[c] = "done" /\ answer'[c] = a
      /\ pc' \in [Call -> {"idle", "record", "check", "save", "send", "deliver",
                            "verify", "explain", "look", "judge", "done"}]
      /\ answer' \in [Call -> Answers \cup {None}]
      /\ began' \in [Call -> 0..MaxTime]
      /\ \A d \in Call \ {c} :
           pc'[d] = pc[d] /\ began'[d] = began[d] /\ answer'[d] = answer[d]
  BY <1>1 DEF TypeOK, Answer
<1>3. a # None
  BY NoDocumentAssumption
<1>4. LinkStage(c)' /\ CallStage(c)'
  BY <1>1, <1>2, <1>3 DEF LinkStage, CallStage
<1> QED BY <1>2, <1>3, <1>4 DEF Status

\* A call that goes on has no answer yet.
LEMMA GotoStage ==
    ASSUME ApplicantInv, NEW c \in Call, pc[c] # "done",
           NEW step \in {"save", "deliver", "explain", "judge"}, Goto(c, step)
    PROVE  /\ pc'[c] = step /\ answer'[c] = None /\ Status(c)' = 0
           /\ pc' \in [Call -> {"idle", "record", "check", "save", "send", "deliver",
                                "verify", "explain", "look", "judge", "done"}]
           /\ answer' = answer /\ began' = began
           /\ \A d \in Call \ {c} : pc'[d] = pc[d]
<1>1. TypeOK
  BY DEF ApplicantInv
<1> QED BY <1>1, InProgress DEF TypeOK, Goto, Status

-----------------------------------------------------------------------------
(* Each step keeps the invariant                                           *)

LEMMA ReceiveStep ==
    ASSUME ApplicantInv, NEW c \in Call, NEW q \in Requests, Receive(c, q)
    PROVE  ApplicantInv'
<1>1. /\ TypeOK /\ ProofsKept /\ Normalised /\ LinkStage(c) /\ CallStage(c)
      /\ pc[c] = "idle" /\ log' = log /\ tier' = tier
      /\ UNCHANGED <<docs, register, sent>> /\ UNCHANGED <<clock, attempt, latest>>
  BY DEF ApplicantInv, Receive
<1>2. q \in Request /\ 0 \in 0..MaxTime /\ clock \in 0..MaxTime
  BY <1>1, RequestType, ApplicantTimesAssumption DEF TypeOK
<1>3. ask' = [ask EXCEPT ![c] = q] /\ ask'[c] = q
  BY <1>1 DEF Receive, TypeOK
<1>4. /\ Current' = Current /\ Versions' = Versions
      /\ log' \in Seq(Records) /\ log' # <<>>
  BY <1>1, NoWrite
<1>5. ProofsKept' /\ Normalised'
  BY <1>1, RecordsUntouched
<1>6. answer[c] = None
  BY <1>1, InProgress
<1>7. CASE Refusal(q) # None
  <2>1. Answer(c, Refusal(q)) /\ Refusal(q) \in Answers
        /\ Refusal(q) # None /\ Refusal(q)[1] \in {400, 401, 503}
    BY <1>7, RefusalType DEF Receive
  <2>2. /\ pc' = [pc EXCEPT ![c] = "done"]
        /\ answer' = [answer EXCEPT ![c] = Refusal(q)]
        /\ began' = [began EXCEPT ![c] = 0]
    BY <2>1 DEF Answer
  <2>3. TypeOK'
    BY <1>1, <1>2, <1>3, <1>4, <2>1, <2>2 DEF TypeOK
  <2>4. pc'[c] = "done" /\ answer'[c] = Refusal(q) /\ Status(c)' \in {400, 401, 503}
    BY <1>1, <2>1, <2>2 DEF TypeOK, Status
  <2>5. OthersWait(c)
    BY <1>1, <1>3, <1>4, <2>2 DEF TypeOK, OthersWait, LinksStay
  <2>6. LinkStage(c)'
    BY <2>4 DEF LinkStage
  <2>7. CallStage(c)'
    BY <1>3, <2>1, <2>4 DEF CallStage
  <2> QED BY <1>1, <1>5, <2>3, <2>4, <2>5, <2>6, <2>7, QuietStep
<1>8. CASE Refusal(q) = None
  <2>1. /\ pc' = [pc EXCEPT ![c] = FirstStep(q)]
        /\ began' = [began EXCEPT ![c] = clock]
        /\ answer' = answer
    BY <1>8 DEF Receive
  <2>2. /\ FirstStep(q) \in StepsOf(q.kind)
        /\ FirstStep(q) \in {"record", "check", "save", "send", "verify", "look"}
        /\ FirstStep(q) = "check" => tier.required
        /\ FirstStep(q) = "save" => ~tier.required
    BY <1>1, <1>8, FirstStepType
  <2>3. TypeOK'
    BY <1>1, <1>2, <1>3, <1>4, <2>1, <2>2 DEF TypeOK
  <2>4. pc'[c] = FirstStep(q) /\ answer'[c] = None /\ Status(c)' = 0
    BY <1>1, <1>6, <2>1 DEF TypeOK, Status
  <2>5. OthersWait(c)
    BY <1>1, <1>3, <1>4, <2>1 DEF TypeOK, OthersWait, LinksStay
  <2>6. LinkStage(c)'
    BY <1>1, <1>4, <2>2, <2>4 DEF LinkStage
  <2>7. Refusal(ask[c])' = None
    BY <1>1, <1>3, <1>8, RefusalStays
  <2>8. CallStage(c)'
    BY <1>1, <1>3, <2>2, <2>4, <2>7 DEF CallStage
  <2> QED BY <1>1, <1>5, <2>3, <2>4, <2>5, <2>6, <2>8, QuietStep
<1> QED BY <1>7, <1>8

\* A call that is answered and changes nothing else.
LEMMA AnswerStep ==
    ASSUME ApplicantInv, NEW c \in Call, pc[c] \notin {"idle", "done"},
           NEW a \in Answers, Answer(c, a), a[1] \notin {201, 204},
           UNCHANGED <<tier, clock, log, docs, register, ask, attempt, sent>>,
           latest' \in [Call -> LinkRecord \cup {None}],
           \A d \in Call \ {c} : latest'[d] = latest[d]
    PROVE  ApplicantInv'
<1>1. TypeOK /\ ProofsKept /\ Normalised
  BY DEF ApplicantInv
<1>2. /\ LinkStage(c)' /\ CallStage(c)' /\ Status(c)' = a[1]
      /\ pc' \in [Call -> {"idle", "record", "check", "save", "send", "deliver",
                           "verify", "explain", "look", "judge", "done"}]
      /\ answer' \in [Call -> Answers \cup {None}]
      /\ began' \in [Call -> 0..MaxTime]
      /\ \A d \in Call \ {c} :
           pc'[d] = pc[d] /\ began'[d] = began[d] /\ answer'[d] = answer[d]
  BY AnswerStage
<1>3. Current' = Current /\ log' \in Seq(Records) /\ log' # <<>> /\ ProofsKept' /\ Normalised'
  BY <1>1, NoWrite, RecordsUntouched
<1>4. TypeOK'
  BY <1>1, <1>2, <1>3 DEF TypeOK
<1>5. OthersWait(c)
  BY <1>2, <1>3 DEF OthersWait, LinksStay
<1> QED BY <1>2, <1>3, <1>4, <1>5, QuietStep

\* Steps that a plain read leads to.
LEMMA CheckGateStep ==
    ASSUME ApplicantInv, NEW c \in Call, CheckGate(c)
    PROVE  ApplicantInv'
<1>1. /\ TypeOK /\ ProofsKept /\ Normalised /\ LinkStage(c) /\ CallStage(c)
      /\ pc[c] = "check"
      /\ UNCHANGED <<tier, clock, log, docs, register, ask, attempt, latest, sent>>
  BY DEF ApplicantInv, CheckGate
<1>2. PICK records \in Versions :
        IF RecentVerifications(records, VerifiedNonce(ask[c]), NormaliseEmail(ask[c].email),
                               began[c] - VerifiedTtl) # {}
        THEN Goto(c, "save") ELSE Answer(c, NotVerified)
  BY DEF CheckGate
<1>3. CASE Answer(c, NotVerified)
  <2>1. NotVerified \in Answers /\ NotVerified[1] = 403
    <3>1. 403 \in Statuses /\ "EMAIL_NOT_VERIFIED" \in Codes \cup References
      BY DEF Statuses, Codes
    <3> QED BY <3>1, AnswerType DEF NotVerified
  <2>2. latest \in [Call -> LinkRecord \cup {None}]
    BY <1>1 DEF TypeOK
  <2> QED BY <1>1, <1>3, <2>1, <2>2, AnswerStep
<1>4. ASSUME NEW l \in RecentVerifications(records, VerifiedNonce(ask[c]),
                   NormaliseEmail(ask[c].email), began[c] - VerifiedTtl),
             Goto(c, "save")
      PROVE  ApplicantInv'
  <2>1. /\ pc'[c] = "save" /\ answer'[c] = None /\ Status(c)' = 0
        /\ pc' \in [Call -> {"idle", "record", "check", "save", "send", "deliver",
                             "verify", "explain", "look", "judge", "done"}]
        /\ answer' = answer /\ began' = began
        /\ \A d \in Call \ {c} : pc'[d] = pc[d]
    BY <1>1, <1>4, GotoStage
  <2>2. /\ Current' = Current /\ log' \in Seq(Records) /\ log' # <<>>
        /\ ProofsKept' /\ Normalised'
    BY <1>1, NoWrite, RecordsUntouched
  <2>3. TypeOK'
    BY <1>1, <2>1, <2>2 DEF TypeOK
  <2>4. OthersWait(c)
    BY <1>1, <2>1, <2>2 DEF OthersWait, LinksStay
  <2>5. LinkStage(c)'
    BY <1>1, <2>1, <2>2 DEF LinkStage
  <2>6. /\ ask[c] \in Requests /\ Refusal(ask[c]) = None /\ tier.required
        /\ "check" \in StepsOf(ask[c].kind) /\ ask[c].kind \in Kind
    BY <1>1, RequestType DEF CallStage, Request
  <2>7. ask[c].kind = "register" /\ "save" \in StepsOf(ask[c].kind)
    BY <2>6 DEF StepsOf, Kind, Event
  <2>8. VerifiedNonce(ask[c]) = ask[c].journey
    BY <1>1, <2>6, <2>7, Accepted
  <2>9. Proved(ask[c].journey, Lower[ask[c].email], began[c])
    <3>1. /\ l \in Link /\ records[l] # None /\ records[l].status = "verified"
          /\ records[l].journey = ask[c].journey
          /\ records[l].email = Lower[ask[c].email]
          /\ records[l].verifiedAt > began[c] - VerifiedTtl
      BY <1>4, <2>8 DEF RecentVerifications, NormaliseEmail
    <3>2. Current[l] = records[l]
      BY <1>1, <1>2, <3>1, ProofsStand
    <3>3. records[l] \in LinkRecord /\ records[l].verifiedAt \in Nat
      BY <1>1, <1>2, <3>1, VersionsType DEF Records, LinkRecord
    <3>4. records[l].verifiedAt + VerifiedTtl > began[c]
      BY <1>1, <3>1, <3>3, ApplicantTimesAssumption DEF TypeOK
    <3> QED BY <3>1, <3>2, <3>4 DEF Proved
  <2>10. Refusal(ask[c])' = Refusal(ask[c])
    BY <1>1, RefusalStays
  <2>11. Proved(ask[c].journey, Lower[ask[c].email], began[c])'
    BY <1>1, <2>1, <2>2, <2>9 DEF Proved
  <2>12. CallStage(c)'
    BY <1>1, <2>1, <2>6, <2>7, <2>10, <2>11 DEF CallStage
  <2> QED BY <1>1, <2>1, <2>2, <2>3, <2>4, <2>5, <2>12, QuietStep
<1> QED BY <1>2, <1>3, <1>4

LEMMA RejectedAnswerType ==
    ASSUME NEW q, NEW d, NEW time, NEW code, code = RejectionCode(d, time)
    PROVE  /\ RejectedAnswer(q, d, code) \in Answers
           /\ RejectedAnswer(q, d, code)[1] \in {404, 409, 410}
<1>1. code \in {"TOKEN_EXPIRED", "TOKEN_SUPERSEDED", "TOKEN_ALREADY_USED", "TOKEN_INVALID"}
  BY DEF RejectionCode
<1>2. SameJourney(q, d) \in BOOLEAN
  BY DEF SameJourney
<1>3. /\ {404, 409, 410} \subseteq Statuses
      /\ {"TOKEN_EXPIRED", "TOKEN_SUPERSEDED", "TOKEN_ALREADY_USED", "TOKEN_INVALID"} \subseteq Codes
  BY DEF Statuses, Codes
<1>4. CASE code \in {"TOKEN_EXPIRED", "TOKEN_SUPERSEDED"}
  <2>1. RejectedAnswer(q, d, code) = <<410, code>>
    BY <1>4 DEF RejectedAnswer
  <2> QED BY <1>3, <1>4, <2>1, AnswerType
<1>5. CASE code = "TOKEN_ALREADY_USED"
  <2>1. RejectedAnswer(q, d, code) = <<409, code, SameJourney(q, d)>>
    BY <1>5 DEF RejectedAnswer
  <2> QED BY <1>2, <1>3, <1>5, <2>1, AnswerType
<1>6. CASE code = "TOKEN_INVALID"
  <2>1. RejectedAnswer(q, d, code) = <<404, "TOKEN_INVALID">>
    BY <1>6 DEF RejectedAnswer
  <2> QED BY <1>3, <1>6, <2>1, AnswerType
<1> QED BY <1>1, <1>4, <1>5, <1>6

LEMMA ExplainStep ==
    ASSUME ApplicantInv, NEW c \in Call, Explain(c)
    PROVE  ApplicantInv'
<1>1. /\ pc[c] = "explain" /\ latest \in [Call -> LinkRecord \cup {None}]
      /\ UNCHANGED <<tier, clock, log, docs, register, ask, attempt, latest, sent>>
  BY DEF ApplicantInv, TypeOK, Explain
<1>2. PICK d : Answer(c, RejectedAnswer(ask[c], d, RejectionCode(d, began[c])))
  BY DEF Explain
<1> DEFINE a == RejectedAnswer(ask[c], d, RejectionCode(d, began[c]))
<1>3. a \in Answers /\ a[1] \notin {201, 204}
  BY RejectedAnswerType
<1> HIDE DEF a
<1>4. Answer(c, a)
  BY <1>2 DEF a
<1> QED BY <1>1, <1>3, <1>4, AnswerStep

LEMMA FailsStep ==
    ASSUME ApplicantInv, NEW c \in Call, Fails(c)
    PROVE  ApplicantInv'
<1> DEFINE a == IF ask[c].kind = "verify" THEN Plain(500, "VERIFICATION_FAILED") ELSE Plain(500, "")
<1>1. /\ pc[c] \notin {"idle", "done"} /\ Answer(c, a)
      /\ latest \in [Call -> LinkRecord \cup {None}]
      /\ latest' = [latest EXCEPT ![c] = None]
      /\ UNCHANGED <<tier, clock, log, docs, register, ask, attempt, sent>>
  BY DEF ApplicantInv, TypeOK, Fails, Plain
<1>2. a \in Answers /\ a[1] = 500
  <2>1. 500 \in Statuses
    BY DEF Statuses
  <2>2. "VERIFICATION_FAILED" \in Codes \cup References /\ "" \in Codes \cup References
    BY DEF Codes
  <2>3. Plain(500, "VERIFICATION_FAILED") \in Answers
    BY <2>1, <2>2, PlainType
  <2>4. Plain(500, "") \in Answers
    BY <2>1, <2>2, PlainType
  <2>5. Plain(500, "VERIFICATION_FAILED")[1] = 500 /\ Plain(500, "")[1] = 500
    BY DEF Plain
  <2> QED BY <2>3, <2>4, <2>5
<1> HIDE DEF a
<1> QED BY <1>1, <1>2, AnswerStep

\* What currentVerificationStatus tells, and what it read first.
LEMMA JudgeStep ==
    ASSUME ApplicantInv, NEW c \in Call, Judge(c)
    PROVE  ApplicantInv'
<1>1. /\ pc[c] = "judge"
      /\ latest \in [Call -> LinkRecord \cup {None}]
      /\ latest' = [latest EXCEPT ![c] = None]
      /\ UNCHANGED <<tier, clock, log, docs, register, ask, attempt, sent>>
  BY DEF ApplicantInv, TypeOK, Judge
<1>2. PICK records \in Versions : Answer(c, <<200, StatusFrom(latest[c], records, began[c])>>)
  BY DEF Judge
<1>3. StatusFrom(latest[c], records, began[c]) \in {"verified", "pending", "expired"}
  BY DEF StatusFrom
<1> DEFINE a == <<200, StatusFrom(latest[c], records, began[c])>>
<1>4. a \in Answers /\ a[1] = 200
  <2>1. 200 \in Statuses /\ {"verified", "pending", "expired"} \subseteq Codes
    BY DEF Statuses, Codes
  <2> QED BY <1>3, <2>1, AnswerType
<1> HIDE DEF a
<1>5. Answer(c, a)
  BY <1>2 DEF a
<1> QED BY <1>1, <1>4, <1>5, AnswerStep

LEMMA LookStep ==
    ASSUME ApplicantInv, NEW c \in Call, Look(c)
    PROVE  ApplicantInv'
<1>1. /\ TypeOK /\ ProofsKept /\ Normalised /\ LinkStage(c) /\ CallStage(c)
      /\ pc[c] = "look" /\ latest \in [Call -> LinkRecord \cup {None}]
      /\ UNCHANGED <<tier, clock, log, docs, register, ask, attempt, sent>>
  BY DEF ApplicantInv, TypeOK, Look
<1>2. PICK records \in Versions :
        LET links == LatestLinks(records, ask[c].journey) IN
        \/ links = {} /\ Answer(c, <<200, "none">>) /\ UNCHANGED latest
        \/ \E l \in links : Goto(c, "judge") /\ latest' = [latest EXCEPT ![c] = records[l]]
  BY DEF Look
<1>3. CASE Answer(c, <<200, "none">>) /\ UNCHANGED latest
  <2>1. 200 \in Statuses /\ "none" \in Codes
    BY DEF Statuses, Codes
  <2>2. <<200, "none">> \in Answers /\ <<200, "none">>[1] = 200
    BY <2>1, AnswerType
  <2> QED BY <1>1, <1>3, <2>2, AnswerStep
<1>4. ASSUME NEW l \in LatestLinks(records, ask[c].journey), Goto(c, "judge"),
             latest' = [latest EXCEPT ![c] = records[l]]
      PROVE  ApplicantInv'
  <2>1. /\ pc'[c] = "judge" /\ answer'[c] = None /\ Status(c)' = 0
        /\ pc' \in [Call -> {"idle", "record", "check", "save", "send", "deliver",
                             "verify", "explain", "look", "judge", "done"}]
        /\ answer' = answer /\ began' = began
        /\ \A d \in Call \ {c} : pc'[d] = pc[d]
    BY <1>1, <1>4, GotoStage
  <2>2. /\ Current' = Current /\ log' \in Seq(Records) /\ log' # <<>>
        /\ ProofsKept' /\ Normalised'
    BY <1>1, NoWrite, RecordsUntouched
  <2>3. /\ l \in Link /\ records[l] # None /\ records[l].journey = ask[c].journey
        /\ records[l] \in LinkRecord
    BY <1>1, <1>2, <1>4, VersionsType DEF LatestLinks, Records
  <2>4. TypeOK'
    BY <1>1, <1>4, <2>1, <2>2, <2>3 DEF TypeOK
  <2>5. OthersWait(c)
    BY <1>1, <1>4, <2>1, <2>2 DEF OthersWait, LinksStay
  <2>6. LinkStage(c)'
    BY <1>1, <2>1, <2>2 DEF LinkStage
  <2>7. /\ ask[c] \in Requests /\ Refusal(ask[c]) = None
        /\ "look" \in StepsOf(ask[c].kind) /\ ask[c].kind \in Kind
    BY <1>1, RequestType DEF CallStage, Request
  <2>8. "judge" \in StepsOf(ask[c].kind)
    BY <2>7 DEF StepsOf, Kind, Event
  <2>9. Refusal(ask[c])' = Refusal(ask[c])
    BY <1>1, RefusalStays
  <2>10. latest'[c] = records[l]
    BY <1>1, <1>4
  <2>11. CallStage(c)'
    BY <1>1, <2>1, <2>3, <2>7, <2>8, <2>9, <2>10 DEF CallStage
  <2> QED BY <1>1, <2>1, <2>2, <2>4, <2>5, <2>6, <2>11, QuietStep
<1> QED BY <1>2, <1>3, <1>4

\* A call that is answered as it writes.
LEMMA WriteStep ==
    ASSUME ApplicantInv, NEW c \in Call, pc[c] \notin {"idle", "done"},
           NEW a \in Answers, Answer(c, a), a[1] \notin {201, 204},
           NEW records \in Records, Write(records), Extends(records),
           \A d \in Call \ {c} : pc[d] # "done" => records[d] = Current[d],
           UNCHANGED <<tier, clock, docs, register, ask, attempt, latest, sent>>
    PROVE  ApplicantInv'
<1>1. TypeOK /\ ProofsKept /\ Normalised
  BY DEF ApplicantInv
<1>2. /\ LinkStage(c)' /\ CallStage(c)' /\ Status(c)' = a[1]
      /\ pc' \in [Call -> {"idle", "record", "check", "save", "send", "deliver",
                           "verify", "explain", "look", "judge", "done"}]
      /\ answer' \in [Call -> Answers \cup {None}]
      /\ began' \in [Call -> 0..MaxTime]
      /\ \A d \in Call \ {c} :
           pc'[d] = pc[d] /\ began'[d] = began[d] /\ answer'[d] = answer[d]
  BY AnswerStage
<1>3. log' \in Seq(Records) /\ log' # <<>> /\ Current' = records
  BY <1>1, WriteShows
<1>4. ProofsKept' /\ Normalised'
  BY <1>1, RecordsKept
<1>5. TypeOK'
  BY <1>1, <1>2, <1>3 DEF TypeOK
<1>6. OthersWait(c)
  BY <1>2, <1>3 DEF OthersWait, LinksStay, Extends
<1> QED BY <1>2, <1>4, <1>5, <1>6, QuietStep

LEMMA ReserveStep ==
    ASSUME ApplicantInv, NEW c \in Call, Reserve(c)
    PROVE  ApplicantInv'
<1>1. /\ TypeOK /\ ProofsKept /\ Normalised /\ LinkStage(c) /\ CallStage(c)
      /\ pc[c] = "send" /\ latest \in [Call -> LinkRecord \cup {None}]
      /\ UNCHANGED <<tier, clock, docs, register, ask, attempt, latest, sent>>
  BY DEF ApplicantInv, TypeOK, Reserve
<1> DEFINE d == [journey |-> ask[c].journey, email |-> NormaliseEmail(ask[c].email),
                 createdAt |-> began[c], verifiedAt |-> 0, status |-> "sending"]
           records == [Current EXCEPT ![c] = d]
           lost == Plain(500, "")
<1>2. \/ \E k \in {"RESEND_COOLDOWN", "RATE_LIMITED"} : Answer(c, <<429, k>>) /\ UNCHANGED log
      \/ Goto(c, "deliver") /\ Write(records)
      \/ Answer(c, lost) /\ Write(records)
  BY DEF Reserve, Plain
<1>l. lost \in Answers /\ lost[1] = 500
  <2>1. 500 \in Statuses /\ "" \in Codes \cup References
    BY DEF Statuses, Codes
  <2>2. lost \in Answers
    BY <2>1, PlainType
  <2> QED BY <2>2 DEF Plain
<1> HIDE DEF lost
<1>3. ASSUME NEW k \in {"RESEND_COOLDOWN", "RATE_LIMITED"}, Answer(c, <<429, k>>), UNCHANGED log
      PROVE  ApplicantInv'
  <2>1. 429 \in Statuses /\ "RESEND_COOLDOWN" \in Codes /\ "RATE_LIMITED" \in Codes
    BY DEF Statuses, Codes
  <2>2. <<429, k>> \in Answers /\ <<429, k>>[1] = 429
    BY <2>1, AnswerType
  <2> QED BY <1>1, <1>3, <2>2, AnswerStep
<1>4. CASE Write(records) /\ (Goto(c, "deliver") \/ Answer(c, lost))
  <2>2. /\ ask[c] \in Requests /\ Refusal(ask[c]) = None
        /\ "send" \in StepsOf(ask[c].kind) /\ ask[c].kind \in Kind
        /\ ask[c].journey \in Journey /\ ask[c].email \in Spelling
    BY <1>1, RequestType DEF CallStage, Request
  <2>3. ask[c].kind = "send" /\ "deliver" \in StepsOf(ask[c].kind)
    BY <2>2 DEF StepsOf, Kind, Event
  <2>4. /\ NormaliseEmail(ask[c].email) \in Spelling
        /\ Lower[NormaliseEmail(ask[c].email)] = NormaliseEmail(ask[c].email)
    BY <2>2, LowerAssumption DEF NormaliseEmail
  <2>5. /\ d \in LinkRecord /\ d # None /\ d.status = "sending" /\ Lower[d.email] = d.email
    <3>1. began[c] \in Nat /\ 0 \in Nat
      BY <1>1, ApplicantTimesAssumption DEF TypeOK
    <3> QED BY <2>2, <2>4, <3>1, NoDocumentAssumption DEF LinkRecord
  <2>6. Current \in Records /\ c \in Link /\ Current[c] = None
    BY <1>1, VersionsType DEF Link, LinkStage
  <2> HIDE DEF d
  <2>7. records \in Records /\ records[c] = d /\ \A l \in Link \ {c} : records[l] = Current[l]
    BY <2>5, <2>6 DEF Records
  <2>8. Extends(records)
    <3>1. \A l \in Link : Current[l] # None => Lower[Current[l].email] = Current[l].email
      BY <1>1, VersionsType DEF Normalised
    <3> HIDE DEF records
    <3> QED BY <2>5, <2>6, <2>7, <3>1 DEF Extends
  <2> HIDE DEF records
  <2>9. CASE Answer(c, lost)
    <3>1. \A x \in Call \ {c} : pc[x] # "done" => records[x] = Current[x]
      BY <2>7 DEF Link
    <3> QED BY <1>1, <1>4, <1>l, <2>7, <2>8, <2>9, <3>1, WriteStep
  <2>10. CASE Goto(c, "deliver")
    <3>1. /\ pc'[c] = "deliver" /\ answer'[c] = None /\ Status(c)' = 0
          /\ pc' \in [Call -> {"idle", "record", "check", "save", "send", "deliver",
                               "verify", "explain", "look", "judge", "done"}]
          /\ answer' = answer /\ began' = began
          /\ \A x \in Call \ {c} : pc'[x] = pc[x]
      BY <1>1, <2>10, GotoStage
    <3>2. /\ log' \in Seq(Records) /\ log' # <<>> /\ Current' = records
          /\ ProofsKept' /\ Normalised'
      BY <1>1, <1>4, <2>7, <2>8, WriteShows, RecordsKept
    <3>3. TypeOK'
      BY <1>1, <3>1, <3>2 DEF TypeOK
    <3>4. OthersWait(c)
      BY <1>1, <3>1, <2>6, <2>7, <2>8, <3>2 DEF OthersWait, LinksStay, Extends, Link
    <3>5. LinkStage(c)'
      BY <3>1, <2>5, <2>7, <3>2 DEF LinkStage
    <3>6. Refusal(ask[c])' = Refusal(ask[c])
      BY <1>1, RefusalStays
    <3>7. CallStage(c)'
      BY <1>1, <3>1, <2>2, <2>3, <3>6 DEF CallStage
    <3> QED BY <1>1, <3>1, <3>2, <3>3, <3>4, <3>5, <3>7, QuietStep
  <2> QED BY <1>4, <2>9, <2>10
<1> QED BY <1>2, <1>3, <1>4

\* The call whose link is changed is not yet over: nobody else's is sent or waits.
LEMMA OtherLinks ==
    ASSUME ApplicantInv, NEW d \in Call, pc[d] # "done"
    PROVE  Current[d] = None \/ Current[d].status = "sending"
BY DEF ApplicantInv, LinkStage

\* activateRecord changes no address, and no link but its own and pending ones.
LEMMA ActivatedType ==
    ASSUME TypeOK, NEW c \in Link, Current[c] # None
    PROVE  /\ Activated(c) \in Records
           /\ \A l \in Link : Activated(c)[l] = None <=> Current[l] = None
           /\ \A l \in Link : Current[l] # None => Activated(c)[l].email = Current[l].email
           /\ \A l \in Link \ {c} : Current[l] = None \/ Current[l].status # "pending" =>
                Activated(c)[l] = Current[l]
<1>1. Current \in Records
  BY VersionsType
<1>2. \A l \in Link : Current[l] # None => Current[l] \in LinkRecord
  BY <1>1 DEF Records
<1>3. \A d \in LinkRecord :
        /\ [d EXCEPT !.status = "pending"] \in LinkRecord
        /\ [d EXCEPT !.status = "superseded"] \in LinkRecord
        /\ [d EXCEPT !.status = "pending"].email = d.email
        /\ [d EXCEPT !.status = "superseded"].email = d.email
  BY DEF LinkRecord
<1>4. \A d \in LinkRecord : d # None
  BY NoDocumentAssumption
<1>5. ASSUME NEW l \in Link
      PROVE  /\ Activated(c)[l] \in LinkRecord \cup {None}
             /\ Activated(c)[l] = None <=> Current[l] = None
             /\ Current[l] # None => Activated(c)[l].email = Current[l].email
             /\ l # c /\ (Current[l] = None \/ Current[l].status # "pending") =>
                  Activated(c)[l] = Current[l]
  <2>1. Activated(c)[l] =
          IF l = c THEN [Current[c] EXCEPT !.status = "pending"]
          ELSE IF /\ Current[l] # None /\ Current[l].status = "pending"
                  /\ Current[l].journey = Current[c].journey
               THEN [Current[l] EXCEPT !.status = "superseded"]
          ELSE Current[l]
    BY DEF Activated
  <2> QED BY <1>1, <1>2, <1>3, <1>4, <2>1
<1>6. Activated(c) \in Records
  BY <1>5 DEF Activated, Records
<1> QED BY <1>5, <1>6

LEMMA DeliverStep ==
    ASSUME ApplicantInv, NEW c \in Call, Deliver(c)
    PROVE  ApplicantInv'
<1>1. /\ TypeOK /\ Normalised /\ LinkStage(c) /\ c \in Link
      /\ pc[c] = "deliver" /\ latest \in [Call -> LinkRecord \cup {None}]
      /\ UNCHANGED <<tier, clock, docs, register, ask, attempt, latest, sent>>
  BY DEF ApplicantInv, TypeOK, Deliver, Link
<1>2. Current[c] # None /\ Current[c].status = "sending"
  BY <1>1 DEF LinkStage
<1>3. Extends(Activated(c))
  <2>1. \A l \in Link : Current[l] # None => Lower[Current[l].email] = Current[l].email
    BY <1>1, VersionsType DEF Normalised
  <2> QED BY <1>1, <1>2, <2>1, ActivatedType DEF Extends
<1>4. \A d \in Call \ {c} : pc[d] # "done" => Activated(c)[d] = Current[d]
  BY <1>1, <1>2, OtherLinks, ActivatedType DEF Link
<1>5. Activated(c) \in Records
  BY <1>1, <1>2, ActivatedType
<1>6. ASSUME NEW a \in Answers, a[1] \notin {201, 204}, Answer(c, a),
             Write(Activated(c)) \/ UNCHANGED log
      PROVE  ApplicantInv'
  <2>1. CASE Write(Activated(c))
    BY <1>1, <1>3, <1>4, <1>5, <1>6, <2>1, WriteStep
  <2>2. CASE UNCHANGED log
    BY <1>1, <1>6, <2>2, AnswerStep
  <2> QED BY <1>6, <2>1, <2>2
<1> DEFINE accepted == Plain(202, "")
           lost == Plain(500, "")
<1>7. /\ accepted \in Answers /\ accepted[1] = 202
      /\ lost \in Answers /\ lost[1] = 500
  <2>1. 202 \in Statuses /\ 500 \in Statuses
    BY DEF Statuses
  <2>2. "" \in Codes \cup References
    BY DEF Codes
  <2>3. accepted \in Answers
    BY <2>1, <2>2, PlainType
  <2>4. accepted[1] = 202
    BY DEF Plain
  <2>5. lost \in Answers
    BY <2>1, <2>2, PlainType
  <2>6. lost[1] = 500
    BY DEF Plain
  <2> QED BY <2>3, <2>4, <2>5, <2>6
<1>8. \/ Answer(c, accepted) /\ Write(Activated(c))
      \/ Answer(c, lost) /\ (Write(Activated(c)) \/ UNCHANGED log)
  BY DEF Deliver, Plain
<1> HIDE DEF accepted, lost
<1> QED BY <1>6, <1>7, <1>8

LEMMA NotifyFailsStep ==
    ASSUME ApplicantInv, NEW c \in Call, NotifyFails(c)
    PROVE  ApplicantInv'
<1>1. /\ TypeOK /\ Normalised /\ LinkStage(c) /\ c \in Link
      /\ pc[c] = "deliver" /\ latest \in [Call -> LinkRecord \cup {None}]
      /\ UNCHANGED <<tier, clock, docs, register, ask, attempt, latest, sent>>
  BY DEF ApplicantInv, TypeOK, NotifyFails, Link
<1> DEFINE a == <<502, "EMAIL_SEND_FAILED">>
           records == [Current EXCEPT ![c] = None]
<1>2. Answer(c, a) /\ (Write(records) \/ UNCHANGED log)
  BY DEF NotifyFails
<1>3. a \in Answers /\ a[1] = 502
  <2>1. 502 \in Statuses /\ "EMAIL_SEND_FAILED" \in Codes
    BY DEF Statuses, Codes
  <2> QED BY <2>1, AnswerType
<1>4. Current \in Records
  BY <1>1, VersionsType
<1>5. records \in Records /\ records[c] = None /\ \A l \in Link \ {c} : records[l] = Current[l]
  BY <1>1, <1>4 DEF Records
<1> HIDE DEF a, records
<1>6. Extends(records)
  <2>1. \A l \in Link : Current[l] # None => Lower[Current[l].email] = Current[l].email
    BY <1>1, VersionsType DEF Normalised
  <2>2. Current[c].status = "sending"
    BY <1>1 DEF LinkStage
  <2> QED BY <1>5, <2>1, <2>2 DEF Extends
<1>7. \A d \in Call \ {c} : pc[d] # "done" => records[d] = Current[d]
  BY <1>5 DEF Link
<1>8. CASE Write(records)
  BY <1>1, <1>2, <1>3, <1>5, <1>6, <1>7, <1>8, WriteStep
<1>9. CASE UNCHANGED log
  BY <1>1, <1>2, <1>3, <1>9, AnswerStep
<1> QED BY <1>2, <1>8, <1>9

\* markVerified, whether its answer is heard or not.
LEMMA UseStep ==
    ASSUME ApplicantInv, NEW c \in Call, pc[c] = "verify",
           NEW l \in Link, Verifiable(Current[l], began[c]),
           Write([Current EXCEPT ![l] = Used(Current[l], began[c])]),
           NEW a \in Answers, Answer(c, a), a[1] \notin {201, 204},
           UNCHANGED <<tier, clock, docs, register, ask, attempt, latest, sent>>
    PROVE  ApplicantInv'
<1>1. /\ TypeOK /\ Normalised /\ Current \in Records
      /\ Current[l] # None /\ Current[l].status = "pending"
  BY VersionsType DEF ApplicantInv, Verifiable
<1> DEFINE records == [Current EXCEPT ![l] = Used(Current[l], began[c])]
<1>2. /\ Used(Current[l], began[c]) \in LinkRecord
      /\ Used(Current[l], began[c]).email = Current[l].email
  <2>1. Current[l] \in LinkRecord
    BY <1>1 DEF Records
  <2>2. began[c] \in Nat
    BY <1>1, ApplicantTimesAssumption DEF TypeOK
  <2> QED BY <2>1, <2>2 DEF LinkRecord, Used
<1>3. /\ records \in Records /\ records[l] = Used(Current[l], began[c])
      /\ \A m \in Link \ {l} : records[m] = Current[m]
  BY <1>1, <1>2 DEF Records
<1>4. Write(records)
  OBVIOUS
<1> HIDE DEF records
<1>5. Extends(records)
  <2>1. \A m \in Link : Current[m] # None => Lower[Current[m].email] = Current[m].email
    BY <1>1, VersionsType DEF Normalised
  <2> QED BY <1>1, <1>2, <1>3, <2>1 DEF Extends
<1>6. \A d \in Call \ {c} : pc[d] # "done" => records[d] = Current[d]
  BY <1>1, <1>3, OtherLinks DEF Link
<1> QED BY <1>3, <1>4, <1>5, <1>6, WriteStep

LEMMA VerifyStep ==
    ASSUME ApplicantInv, NEW c \in Call, Verify(c) \/ VerifiedUnheard(c)
    PROVE  ApplicantInv'
<1>1. /\ TypeOK /\ ProofsKept /\ Normalised /\ LinkStage(c) /\ CallStage(c)
      /\ pc[c] = "verify" /\ latest \in [Call -> LinkRecord \cup {None}]
      /\ UNCHANGED <<tier, clock, docs, register, ask, attempt, latest, sent>>
  BY DEF ApplicantInv, TypeOK, Verify, VerifiedUnheard
<1>2. /\ ask[c] \in Requests /\ Refusal(ask[c]) = None
      /\ "verify" \in StepsOf(ask[c].kind) /\ ask[c].kind \in Kind
      /\ ask[c].link \in Link \cup {None}
  BY <1>1, RequestType DEF CallStage, Request
<1>3. 200 \in Statuses /\ 500 \in Statuses
  BY DEF Statuses
<1>4. "VERIFIED" \in Codes /\ "VERIFICATION_FAILED" \in Codes
  BY DEF Codes
<1>5. ASSUME ask[c].link # None, Verifiable(Current[ask[c].link], began[c]),
             Write([Current EXCEPT ![ask[c].link] = Used(Current[ask[c].link], began[c])]),
             NEW a \in Answers, Answer(c, a), a[1] \notin {201, 204}
      PROVE  ApplicantInv'
  <2>1. ask[c].link \in Link
    BY <1>2, <1>5
  <2> QED BY <1>1, <1>5, <2>1, UseStep
<1>6. CASE VerifiedUnheard(c)
  <2>1. <<500, "VERIFICATION_FAILED">> \in Answers /\ <<500, "VERIFICATION_FAILED">>[1] = 500
    BY <1>3, <1>4, AnswerType
  <2>2. /\ ask[c].link # None /\ Verifiable(Current[ask[c].link], began[c])
        /\ Write([Current EXCEPT ![ask[c].link] = Used(Current[ask[c].link], began[c])])
        /\ Answer(c, <<500, "VERIFICATION_FAILED">>)
    BY <1>6 DEF VerifiedUnheard
  <2> QED BY <1>5, <2>1, <2>2
<1>7. CASE Verify(c)
  <2> DEFINE d == IF ask[c].link = None THEN None ELSE Current[ask[c].link]
  <2>1. IF Verifiable(d, began[c])
        THEN /\ Write([Current EXCEPT ![ask[c].link] = Used(d, began[c])])
             /\ Answer(c, <<200, "VERIFIED", SameJourney(ask[c], d)>>)
        ELSE Goto(c, "explain") /\ UNCHANGED log
    BY <1>7 DEF Verify
  <2>2. CASE Verifiable(d, began[c])
    <3>1. d # None /\ d = Current[ask[c].link] /\ ask[c].link # None
      BY <2>2 DEF Verifiable
    <3>2. SameJourney(ask[c], d) \in BOOLEAN
      BY DEF SameJourney
    <3> DEFINE a == <<200, "VERIFIED", SameJourney(ask[c], d)>>
    <3>3. a \in Answers /\ a[1] = 200
      BY <1>3, <1>4, <3>2, AnswerType
    <3>4. Answer(c, a) /\ Write([Current EXCEPT ![ask[c].link] = Used(d, began[c])])
      BY <2>1, <2>2
    <3> HIDE DEF a, d
    <3> QED BY <1>5, <2>2, <3>1, <3>3, <3>4
  <2>3. CASE Goto(c, "explain") /\ UNCHANGED log
    <3>1. /\ pc'[c] = "explain" /\ answer'[c] = None /\ Status(c)' = 0
          /\ pc' \in [Call -> {"idle", "record", "check", "save", "send", "deliver",
                               "verify", "explain", "look", "judge", "done"}]
          /\ answer' = answer /\ began' = began
          /\ \A x \in Call \ {c} : pc'[x] = pc[x]
      BY <1>1, <2>3, GotoStage
    <3>2. /\ Current' = Current /\ log' \in Seq(Records) /\ log' # <<>>
          /\ ProofsKept' /\ Normalised'
      BY <1>1, <2>3, NoWrite, RecordsUntouched
    <3>3. TypeOK'
      BY <1>1, <3>1, <3>2 DEF TypeOK
    <3>4. OthersWait(c)
      BY <1>1, <3>1, <3>2 DEF OthersWait, LinksStay
    <3>5. LinkStage(c)'
      BY <1>1, <3>1, <3>2 DEF LinkStage
    <3>6. "explain" \in StepsOf(ask[c].kind)
      BY <1>2 DEF StepsOf, Kind, Event
    <3>7. Refusal(ask[c])' = Refusal(ask[c])
      BY <1>1, RefusalStays
    <3>8. CallStage(c)'
      BY <1>1, <1>2, <3>1, <3>6, <3>7 DEF CallStage
    <3> QED BY <1>1, <3>1, <3>2, <3>3, <3>4, <3>5, <3>8, QuietStep
  <2> QED BY <2>1, <2>2, <2>3
<1> QED BY <1>6, <1>7

\* A beacon counts for nobody but itself, once, and tells analytics of it once.
LEMMA RecordEventStep ==
    ASSUME ApplicantInv, NEW c \in Call, RecordEvent(c)
    PROVE  ApplicantInv'
<1> DEFINE e == ask[c].kind
           nonce == VerifiedNonce(ask[c])
           stored == ~DuplicateNonce(e, nonce)
           f == [call |-> c, nonce |-> nonce]
           heard == Plain(204, "")
           lost == Plain(500, "")
<1>1. /\ TypeOK /\ CallStage(c) /\ pc[c] = "record"
      /\ ProofsKept /\ Normalised /\ SessionsCounted /\ EventsMatchMilestones /\ GateHolds
      /\ AnswersComplete
      /\ UNCHANGED <<tier, clock, log, register, ask, attempt, latest>>
  BY DEF ApplicantInv, RecordEvent
<1>2. /\ ask[c] \in Requests /\ Refusal(ask[c]) = None
      /\ "record" \in StepsOf(e) /\ e \in Kind /\ ask[c].journey \in Journey
  BY <1>1, RequestType DEF CallStage, Request
<1>3. e \in Event
  BY <1>2 DEF StepsOf, Kind, Event
<1>4. tier.secret => nonce = ask[c].journey
  BY <1>1, <1>2, <1>3, Accepted
<1>5. nonce \in Journey \cup {None}
  BY <1>2 DEF VerifiedNonce
<1>6. /\ StoredBy(c) = {} /\ CountedBy(c) = {} /\ sent[c] = 0
  BY <1>1, InProgress
<1>7. /\ heard \in Answers /\ heard[1] = 204
      /\ lost \in Answers /\ lost[1] = 500
  <2>1. 204 \in Statuses /\ 500 \in Statuses
    BY DEF Statuses
  <2>2. "" \in Codes \cup References
    BY DEF Codes
  <2>3. heard \in Answers
    BY <2>1, <2>2, PlainType
  <2>4. heard[1] = 204
    BY DEF Plain
  <2>5. lost \in Answers
    BY <2>1, <2>2, PlainType
  <2>6. lost[1] = 500
    BY DEF Plain
  <2> QED BY <2>3, <2>4, <2>5, <2>6
<1>8. docs' = IF stored THEN [docs EXCEPT ![e] = @ \cup {f}] ELSE docs
  BY DEF RecordEvent
<1>9. PICK acknowledged \in BOOLEAN :
        /\ Answer(c, IF acknowledged THEN heard ELSE lost)
        /\ sent' = [sent EXCEPT ![c] = @ + Events(stored, acknowledged)]
  BY DEF RecordEvent, Plain
<1> DEFINE a == IF acknowledged THEN heard ELSE lost
<1>10. a \in Answers /\ Answer(c, a) /\ a[1] = IF acknowledged THEN 204 ELSE 500
  BY <1>7, <1>9
<1> HIDE DEF heard, lost, a
<1>11. /\ LinkStage(c)' /\ CallStage(c)' /\ Status(c)' = a[1] /\ pc'[c] = "done"
       /\ pc' \in [Call -> {"idle", "record", "check", "save", "send", "deliver",
                            "verify", "explain", "look", "judge", "done"}]
       /\ answer' \in [Call -> Answers \cup {None}]
       /\ began' \in [Call -> 0..MaxTime]
       /\ \A d \in Call \ {c} :
            pc'[d] = pc[d] /\ began'[d] = began[d] /\ answer'[d] = answer[d]
  BY <1>1, <1>10, AnswerStage
<1>12. Current' = Current /\ log' \in Seq(Records) /\ log' # <<>> /\ ProofsKept' /\ Normalised'
  BY <1>1, NoWrite, RecordsUntouched
<1>13. Events(stored, acknowledged) = IF tier.analytics /\ stored /\ acknowledged THEN 1 ELSE 0
  BY DEF Events
<1>14. /\ sent'[c] = Events(stored, acknowledged) /\ sent' \in [Call -> 0..1]
       /\ \A d \in Call \ {c} : sent'[d] = sent[d]
  <2>1. Events(stored, acknowledged) \in 0..1
    BY <1>13
  <2>2. sent' = [sent EXCEPT ![c] = sent[c] + Events(stored, acknowledged)]
    BY <1>9
  <2>3. sent[c] + Events(stored, acknowledged) = Events(stored, acknowledged)
    BY <1>6, <2>1
  <2> QED BY <1>1, <2>1, <2>2, <2>3 DEF TypeOK
<1>15. /\ docs' \in [Event -> SUBSET [call : Call, nonce : Journey \cup {None}]]
       /\ docs'[e] = IF stored THEN docs[e] \cup {f} ELSE docs[e]
       /\ \A g \in Event \ {e} : docs'[g] = docs[g]
  <2>1. f \in [call : Call, nonce : Journey \cup {None}]
    BY <1>5
  <2>2. docs \in [Event -> SUBSET [call : Call, nonce : Journey \cup {None}]]
    BY <1>1 DEF TypeOK
  <2> HIDE DEF f, stored
  <2> QED BY <1>3, <1>8, <2>1, <2>2
<1>16. TypeOK'
  BY <1>1, <1>11, <1>12, <1>14, <1>15 DEF TypeOK
<1>17. OthersWait(c)
  BY <1>1, <1>11, <1>12, <1>14 DEF OthersWait, LinksStay
<1>18. \A d \in Call : StoredBy(d)' = StoredBy(d)
  BY <1>1 DEF StoredBy
<1>19. /\ CountedBy(c)' = IF stored THEN {e} ELSE {}
       /\ \A d \in Call \ {c} : CountedBy(d)' = CountedBy(d)
  <2>1. f.call = c
    OBVIOUS
  <2> HIDE DEF f, e
  <2>2. CountedBy(c)' = IF stored THEN {e} ELSE {}
    BY <1>3, <1>6, <1>15, <2>1 DEF CountedBy
  <2>3. ASSUME NEW d \in Call \ {c} PROVE CountedBy(d)' = CountedBy(d)
    BY <1>3, <1>15, <2>1 DEF CountedBy
  <2> QED BY <2>2, <2>3
<1>20. ASSUME NEW d \in Call
       PROVE  LinkStage(d)' /\ CallStage(d)' /\ StoredOnce(d)' /\ CountedOnce(d)'
  <2>1. CASE d = c
    <3>1. StoredOnce(c)'
      BY <1>6, <1>10, <1>11, <1>18 DEF StoredOnce
    <3>2. CountedOnce(c)'
      BY <1>1, <1>3, <1>10, <1>11, <1>19 DEF CountedOnce
    <3> QED BY <1>11, <2>1, <3>1, <3>2
  <2>2. CASE d # c
    <3>1. d \in Call \ {c} /\ StoredOnce(d) /\ CountedOnce(d)
      BY <2>2 DEF ApplicantInv
    <3>2. /\ LinkStage(d)' /\ CallStage(d)' /\ Status(d)' = Status(d)
          /\ pc'[d] = pc[d] /\ ask'[d] = ask[d] /\ answer'[d] = answer[d]
      BY <1>17, <3>1, OthersStage DEF OthersWait
    <3>3. StoredOnce(d)'
      BY <1>1, <1>18, <3>1, <3>2 DEF StoredOnce, OwnReferences
    <3>4. CountedOnce(d)'
      BY <1>19, <3>1, <3>2 DEF CountedOnce
    <3> QED BY <3>2, <3>3, <3>4
  <2> QED BY <2>1, <2>2
<1>21. SessionsCounted'
  <2> SUFFICES ASSUME tier.secret, NEW g \in Event
               PROVE  /\ \A d \in docs'[g] : d.nonce # None
                      /\ \A d, h \in docs'[g] : d.nonce = h.nonce => d = h
                      /\ \A d \in Call : ask'[d].kind = g /\ Status(d)' = 204 =>
                            \E h \in docs'[g] : h.nonce = ask'[d].journey
    BY <1>1 DEF SessionsCounted
  <2>1. /\ \A d \in docs[g] : d.nonce # None
        /\ \A d, h \in docs[g] : d.nonce = h.nonce => d = h
        /\ \A d \in Call : ask[d].kind = g /\ Status(d) = 204 =>
              \E h \in docs[g] : h.nonce = ask[d].journey
    BY <1>1 DEF SessionsCounted
  <2>2. nonce = ask[c].journey /\ nonce # None
    BY <1>2, <1>4, NoneAssumption
  <2>3. stored <=> ~\E d \in docs[e] : d.nonce = nonce
    BY <2>2 DEF DuplicateNonce
  <2>4. f.nonce = nonce
    OBVIOUS
  <2>5. \A d \in Call \ {c} : Status(d)' = Status(d) /\ ask'[d] = ask[d]
    BY <1>1, <1>17, OthersStage
  <2>6. \E h \in docs'[e] : h.nonce = ask[c].journey
    BY <1>15, <2>2, <2>3, <2>4
  <2>7. \A h \in docs[g] : h \in docs'[g]
    BY <1>15
  <2>8. \A h \in docs'[g] : h \in docs[g] \/ (g = e /\ stored /\ h = f)
    BY <1>15
  <2>9. \A d \in docs'[g] : d.nonce # None
    BY <2>1, <2>2, <2>4, <2>8
  <2> HIDE DEF f, nonce, stored, e
  <2>10. \A d, h \in docs'[g] : d.nonce = h.nonce => d = h
    BY <2>1, <2>3, <2>4, <2>8
  <2>11. ASSUME NEW d \in Call, ask'[d].kind = g, Status(d)' = 204
         PROVE  \E h \in docs'[g] : h.nonce = ask'[d].journey
    <3>1. CASE d = c
      BY <1>1, <2>6, <2>11, <3>1 DEF e
    <3>2. CASE d # c
      BY <2>1, <2>5, <2>7, <2>11, <3>2
    <3> QED BY <3>1, <3>2
  <2> QED BY <2>9, <2>10, <2>11
<1>22. EventsMatchMilestones'
  <2>1. ASSUME NEW d \in Call
        PROVE  sent'[d] = IF tier'.analytics /\ Status(d)' \in {201, 204}
                          THEN Milestones(d)' ELSE 0
    <3>1. CASE d = c
      <4>1. Cardinality(StoredBy(c)') = 0
        BY <1>6, <1>18, FS_EmptySet
      <4>2. Cardinality(CountedBy(c)') = IF stored THEN 1 ELSE 0
        BY <1>19, FS_EmptySet, FS_Singleton
      <4>3. Status(c)' = IF acknowledged THEN 204 ELSE 500
        BY <1>10, <1>11
      <4>4. Milestones(c)' = Cardinality(CountedBy(c)') + Cardinality(StoredBy(c)')
        BY <4>3 DEF Milestones, GoneWithSeeds
      <4> HIDE DEF stored
      <4> QED BY <1>1, <1>13, <1>14, <3>1, <4>1, <4>2, <4>3, <4>4
    <3>2. CASE d # c
      <4>1. Status(d)' = Status(d)
        BY <1>17, <3>2, OthersStage
      <4>2. Milestones(d)' = Milestones(d)
        BY <1>1, <1>18, <1>19, <3>2, <4>1, SameMilestones
      <4> QED BY <1>1, <1>14, <3>2, <4>1, <4>2 DEF EventsMatchMilestones
    <3> QED BY <3>1, <3>2
  <2> QED BY <2>1 DEF EventsMatchMilestones
<1>23. GateHolds' /\ AnswersComplete'
  <2>1. GateHolds'
    BY <1>1, <1>17, GateStays DEF OthersWait
  <2> QED BY <1>1, <2>1 DEF AnswersComplete
<1> QED BY <1>12, <1>16, <1>20, <1>21, <1>22, <1>23 DEF ApplicantInv

\* A submission stores under a free reference, with what it proved, and the
\* attempt that does is its last.
LEMMA SubmissionType ==
    ASSUME ApplicantInv, NEW c \in Call, pc[c] = "save"
    PROVE  /\ ask[c] \in Requests /\ ask[c].kind = "register"
           /\ Submission(c) \in Registration /\ Submission(c) # None
           /\ Submission(c).call = c /\ Submission(c).valid
           /\ tier.required =>
                Proved(Submission(c).journey, Submission(c).email, Submission(c).received)
<1>1. TypeOK /\ CallStage(c)
  BY DEF ApplicantInv
<1>2. /\ ask[c] \in Requests /\ Refusal(ask[c]) = None
      /\ "save" \in StepsOf(ask[c].kind) /\ ask[c].kind \in Kind
      /\ ask[c].journey \in Journey /\ ask[c].email \in Spelling /\ ask[c].valid \in BOOLEAN
  BY <1>1, RequestType DEF CallStage, Request
<1>3. ask[c].kind = "register"
  BY <1>2 DEF StepsOf, Kind, Event
<1>4. ask[c].valid /\ (tier.required => VerifiedNonce(ask[c]) = ask[c].journey)
  BY <1>1, <1>2, <1>3, Accepted
<1>5. VerifiedNonce(ask[c]) \in Journey \cup {None} /\ Lower[ask[c].email] \in Spelling
  BY <1>2, LowerAssumption DEF VerifiedNonce
<1>6. /\ Submission(c) \in Registration
      /\ Submission(c).call = c /\ Submission(c).valid = ask[c].valid
      /\ Submission(c).journey = VerifiedNonce(ask[c])
      /\ Submission(c).email = Lower[ask[c].email] /\ Submission(c).received = began[c]
  <2>1. began[c] \in 0..MaxTime
    BY <1>1 DEF TypeOK
  <2> QED BY <1>2, <1>5, <2>1 DEF Submission, Registration
<1>7. Submission(c) # None
  BY <1>6, NoDocumentAssumption
<1>8. tier.required => Proved(Submission(c).journey, Submission(c).email, Submission(c).received)
  BY <1>1, <1>4, <1>6 DEF CallStage
<1> QED BY <1>2, <1>3, <1>4, <1>6, <1>7, <1>8

LEMMA TryReferenceStep ==
    ASSUME ApplicantInv, NEW c \in Call, NEW r \in OwnReferences, NEW outcome,
           TryReference(c, r, outcome)
    PROVE  ApplicantInv'
<1> DEFINE stored == Applied(outcome)
           told == Plain(201, r)
           lost == Plain(500, "")
<1>1. /\ TypeOK /\ CallStage(c) /\ LinkStage(c) /\ pc[c] = "save" /\ outcome \in Outcomes(r)
      /\ ProofsKept /\ Normalised /\ SessionsCounted /\ EventsMatchMilestones /\ GateHolds
      /\ AnswersComplete
      /\ UNCHANGED <<tier, clock, log, docs, ask, latest>>
  BY DEF ApplicantInv, TryReference
<1>2. /\ ask[c] \in Requests /\ ask[c].kind = "register"
      /\ Submission(c) \in Registration /\ Submission(c) # None
      /\ Submission(c).call = c /\ Submission(c).valid
      /\ tier.required =>
           Proved(Submission(c).journey, Submission(c).email, Submission(c).received)
  BY <1>1, SubmissionType
<1>3. /\ StoredBy(c) = {} /\ CountedBy(c) = {} /\ sent[c] = 0
      /\ answer[c] = None /\ Status(c) = 0
  BY <1>1, InProgress
<1>r. r \in References /\ OwnReferences' = OwnReferences
  BY <1>1 DEF References, OwnReferences
<1>4. stored => register[r] = None
  BY <1>1 DEF Outcomes, Applied
<1>5. outcome = "committed" => stored
  BY DEF Applied
<1>6. IsReferenceCollision(outcome) => ~stored
  BY DEF Applied, IsReferenceCollision
<1>7. /\ told \in Answers /\ told[1] = 201
      /\ lost \in Answers /\ lost[1] = 500
  <2>1. 201 \in Statuses /\ 500 \in Statuses
    BY DEF Statuses
  <2>2. "" \in Codes \cup References /\ r \in Codes \cup References
    BY <1>r DEF Codes
  <2>3. told \in Answers
    BY <2>1, <2>2, PlainType
  <2>4. told[1] = 201
    BY DEF Plain
  <2>5. lost \in Answers
    BY <2>1, <2>2, PlainType
  <2>6. lost[1] = 500
    BY DEF Plain
  <2> QED BY <2>3, <2>4, <2>5, <2>6
<1>8. \/ outcome = "committed" /\ Answer(c, told) /\ UNCHANGED attempt
      \/ /\ IsReferenceCollision(outcome) /\ AttemptsLeft(attempt[c])
         /\ attempt' = [attempt EXCEPT ![c] = @ + 1] /\ UNCHANGED <<pc, answer, began>>
      \/ outcome # "committed" /\ Answer(c, lost) /\ UNCHANGED attempt
  <2>1. IF outcome = "committed"
        THEN Answer(c, <<201, r>>) /\ UNCHANGED attempt
        ELSE IF IsReferenceCollision(outcome) /\ AttemptsLeft(attempt[c])
        THEN attempt' = [attempt EXCEPT ![c] = @ + 1] /\ UNCHANGED <<pc, answer, began>>
        ELSE Answer(c, <<500, "">>) /\ UNCHANGED attempt
    BY DEF TryReference
  <2>2. told = <<201, r>> /\ lost = <<500, "">>
    BY DEF Plain
  <2> HIDE DEF told, lost
  <2>3. CASE outcome = "committed"
    BY <2>1, <2>2, <2>3
  <2>4. CASE outcome # "committed" /\ IsReferenceCollision(outcome) /\ AttemptsLeft(attempt[c])
    BY <2>1, <2>4
  <2>5. CASE outcome # "committed" /\ ~(IsReferenceCollision(outcome) /\ AttemptsLeft(attempt[c]))
    BY <2>1, <2>2, <2>5
  <2> QED BY <2>3, <2>4, <2>5
<1>9. /\ register' = IF stored THEN [register EXCEPT ![r] = Submission(c)] ELSE register
      /\ sent' = [sent EXCEPT ![c] = @ + Events(stored, outcome = "committed")]
  BY DEF TryReference
<1> HIDE DEF told, lost
<1>10. /\ pc' \in [Call -> {"idle", "record", "check", "save", "send", "deliver",
                            "verify", "explain", "look", "judge", "done"}]
       /\ answer' \in [Call -> Answers \cup {None}]
       /\ began' \in [Call -> 0..MaxTime]
       /\ attempt' \in [Call -> 0..MaxAttempts - 1]
       /\ \A d \in Call \ {c} :
            pc'[d] = pc[d] /\ began'[d] = began[d] /\ answer'[d] = answer[d]
       /\ LinkStage(c)' /\ CallStage(c)'
       /\ \/ stored /\ pc'[c] = "done" /\ outcome = "committed"
             /\ answer'[c] = told /\ Status(c)' = 201
          \/ stored /\ pc'[c] = "done" /\ outcome # "committed" /\ Status(c)' = 500
          \/ ~stored /\ outcome # "committed" /\ Status(c)' \in {0, 500}
  <2>1. CASE IsReferenceCollision(outcome) /\ AttemptsLeft(attempt[c])
             /\ attempt' = [attempt EXCEPT ![c] = @ + 1] /\ UNCHANGED <<pc, answer, began>>
    <3>1. attempt[c] + 1 \in 0..MaxAttempts - 1
      BY <1>1, <2>1, ApplicantTimesAssumption DEF TypeOK, AttemptsLeft
    <3>2. Refusal(ask[c])' = Refusal(ask[c])
      BY <1>1, RefusalStays
    <3>3. Current' = Current
      BY <1>1, NoWrite
    <3>4. tier.required => Proved(ask[c].journey, Lower[ask[c].email], began[c])'
      BY <1>1, <2>1, <3>3 DEF CallStage, Proved
    <3>5. CallStage(c)'
      BY <1>1, <2>1, <3>2, <3>4 DEF CallStage
    <3>6. LinkStage(c)'
      BY <1>1, <2>1, <3>3 DEF LinkStage
    <3>7. Status(c)' = 0
      BY <1>3, <2>1 DEF Status
    <3> QED BY <1>1, <1>5, <1>6, <2>1, <3>1, <3>5, <3>6, <3>7 DEF TypeOK
  <2>2. ASSUME NEW a \in Answers, Answer(c, a), UNCHANGED attempt
        PROVE  /\ LinkStage(c)' /\ CallStage(c)'
               /\ pc'[c] = "done" /\ answer'[c] = a /\ Status(c)' = a[1]
               /\ pc' \in [Call -> {"idle", "record", "check", "save", "send", "deliver",
                                    "verify", "explain", "look", "judge", "done"}]
               /\ answer' \in [Call -> Answers \cup {None}]
               /\ began' \in [Call -> 0..MaxTime]
               /\ attempt' \in [Call -> 0..MaxAttempts - 1]
               /\ \A d \in Call \ {c} :
                    pc'[d] = pc[d] /\ began'[d] = began[d] /\ answer'[d] = answer[d]
    BY <1>1, <2>2, AnswerStage DEF TypeOK
  <2>3. CASE outcome = "committed" /\ Answer(c, told) /\ UNCHANGED attempt
    BY <1>5, <1>7, <2>2, <2>3
  <2>4. CASE outcome # "committed" /\ Answer(c, lost) /\ UNCHANGED attempt
    BY <1>7, <2>2, <2>4
  <2> QED BY <1>8, <2>1, <2>3, <2>4
<1> HIDE DEF stored
<1>11. Current' = Current /\ log' \in Seq(Records) /\ log' # <<>> /\ ProofsKept' /\ Normalised'
  BY <1>1, NoWrite, RecordsUntouched
<1>12. Events(stored, outcome = "committed") =
         IF tier.analytics /\ outcome = "committed" THEN 1 ELSE 0
  BY <1>5 DEF Events
<1>13. /\ sent'[c] = IF tier.analytics /\ outcome = "committed" THEN 1 ELSE 0
       /\ sent' \in [Call -> 0..1]
       /\ \A d \in Call \ {c} : sent'[d] = sent[d]
  <2>1. sent' = [sent EXCEPT ![c] = sent[c] + Events(stored, outcome = "committed")]
    BY <1>9
  <2>2. /\ sent[c] + Events(stored, outcome = "committed") \in 0..1
        /\ sent[c] + Events(stored, outcome = "committed") =
             IF tier.analytics /\ outcome = "committed" THEN 1 ELSE 0
    BY <1>3, <1>12
  <2> QED BY <1>1, <2>1, <2>2 DEF TypeOK
<1>14. /\ register' \in [References -> Registration \cup {None}]
       /\ stored => register'[r] = Submission(c)
       /\ ~stored => register'[r] = register[r]
       /\ \A s \in References \ {r} : register'[s] = register[s]
  BY <1>1, <1>2, <1>9, <1>r DEF TypeOK
<1>15. TypeOK'
  BY <1>1, <1>10, <1>11, <1>13, <1>14 DEF TypeOK
<1>16. OthersWait(c)
  BY <1>1, <1>10, <1>11, <1>13 DEF OthersWait, LinksStay
<1>17. /\ StoredBy(c)' = IF stored THEN {r} ELSE {}
       /\ \A d \in Call \ {c} : StoredBy(d)' = StoredBy(d)
  <2>1. StoredBy(c)' = IF stored THEN {r} ELSE {}
    BY <1>2, <1>3, <1>14, <1>r DEF StoredBy
  <2>2. ASSUME NEW d \in Call \ {c} PROVE StoredBy(d)' = StoredBy(d)
    BY <1>2, <1>4, <1>14, <1>r DEF StoredBy
  <2> QED BY <2>1, <2>2
<1>18. \A d \in Call : CountedBy(d)' = CountedBy(d)
  BY <1>1 DEF CountedBy
<1>19. ASSUME NEW d \in Call
       PROVE  LinkStage(d)' /\ CallStage(d)' /\ StoredOnce(d)' /\ CountedOnce(d)'
  <2>1. CASE d = c
    <3>1. StoredOnce(c)'
      <4>1. CASE ~stored
        BY <1>10, <1>17, <4>1 DEF StoredOnce
      <4>2. CASE stored
        BY <1>1, <1>2, <1>10, <1>17, <1>r, <4>2 DEF StoredOnce, told, Plain
      <4> QED BY <4>1, <4>2
    <3>2. CountedOnce(c)'
      BY <1>3, <1>18 DEF CountedOnce
    <3> QED BY <1>10, <2>1, <3>1, <3>2
  <2>2. CASE d # c
    <3>1. d \in Call \ {c} /\ StoredOnce(d) /\ CountedOnce(d)
      BY <2>2 DEF ApplicantInv
    <3>2. /\ LinkStage(d)' /\ CallStage(d)' /\ Status(d)' = Status(d)
          /\ pc'[d] = pc[d] /\ ask'[d] = ask[d] /\ answer'[d] = answer[d]
      BY <1>16, <3>1, OthersStage DEF OthersWait
    <3>3. StoredOnce(d)'
      BY <1>1, <1>17, <1>r, <3>1, <3>2 DEF StoredOnce
    <3>4. CountedOnce(d)'
      BY <1>18, <3>1, <3>2 DEF CountedOnce
    <3> QED BY <3>2, <3>3, <3>4
  <2> QED BY <2>1, <2>2
<1>20. SessionsCounted'
  <2>1. \A d \in Call : Status(d)' = 204 => Status(d) = 204 /\ ask'[d] = ask[d]
    <3>1. Status(c)' # 204
      BY <1>10
    <3> QED BY <1>1, <1>16, <3>1, OthersStage
  <2> QED BY <1>1, <2>1 DEF SessionsCounted
<1>21. EventsMatchMilestones'
  <2>1. ASSUME NEW d \in Call
        PROVE  sent'[d] = IF tier'.analytics /\ Status(d)' \in {201, 204}
                          THEN Milestones(d)' ELSE 0
    <3>1. CASE d = c
      <4>1. Cardinality(CountedBy(c)') = 0
        BY <1>3, <1>18, FS_EmptySet
      <4>2. outcome = "committed" => Cardinality(StoredBy(c)') = 1
        <5>1. Cardinality({r}) = 1
          BY FS_Singleton
        <5>2. outcome = "committed" => stored
          BY <1>10
        <5> QED BY <1>17, <5>1, <5>2
      <4>3. Status(c)' \in {201, 204} <=> outcome = "committed"
        BY <1>10
      <4>4. outcome = "committed" => ~GoneWithSeeds(c)'
        BY <1>10, <1>17 DEF GoneWithSeeds
      <4>5. outcome = "committed" => Milestones(c)' = 1
        BY <4>1, <4>2, <4>4 DEF Milestones
      <4> QED BY <1>1, <1>13, <3>1, <4>3, <4>5
    <3>2. CASE d # c
      <4>1. Status(d)' = Status(d)
        BY <1>16, <3>2, OthersStage
      <4>2. Milestones(d)' = Milestones(d)
        BY <1>1, <1>17, <1>18, <3>2, <4>1, SameMilestones
      <4> QED BY <1>1, <1>13, <3>2, <4>1, <4>2 DEF EventsMatchMilestones
    <3> QED BY <3>1, <3>2
  <2> QED BY <2>1 DEF EventsMatchMilestones
<1>22. GateHolds'
  <2>1. ASSUME NEW s \in References, tier.required, register'[s] # None, register'[s].call # None
        PROVE  Proved(register[s].journey, register[s].email, register[s].received)'
    <3>1. CASE s = r /\ stored
      BY <1>2, <1>11, <1>14, <2>1, <3>1 DEF Proved
    <3>2. CASE ~(s = r /\ stored)
      <4>1. register'[s] = register[s]
        BY <1>14, <3>2
      <4> QED BY <1>1, <1>11, <2>1, <4>1 DEF GateHolds, Proved
    <3> QED BY <3>1, <3>2
  <2> QED BY <1>1, <2>1 DEF GateHolds, Proved
<1>23. AnswersComplete'
  BY <1>1, <1>2, <1>14 DEF AnswersComplete, TypeOK
<1> QED BY <1>11, <1>15, <1>19, <1>20, <1>21, <1>22, <1>23 DEF ApplicantInv

\* Steps that no call makes: the clock, the secondaries and the seed scripts, which
\* change nothing that an applicant submitted, unless they remove it under a prefix
\* that is theirs too.
LEMMA OutsideStep ==
    ASSUME ApplicantInv, clock' \in 0..MaxTime,
           UNCHANGED <<tier, docs, pc, ask, began, attempt, latest, answer, sent>>,
           log' \in Seq(Records), log' # <<>>, Current' = Current, ProofsKept', Normalised',
           register' \in [References -> Registration \cup {None}],
           \A r \in References : register'[r] # None =>
             register'[r].valid /\ (register'[r] = register[r] \/ register'[r].call = None),
           \A d \in Call : StoredBy(d)' = StoredBy(d) \/ (tier.seedPrefix /\ StoredBy(d)' = {})
    PROVE  ApplicantInv'
<1>1. TypeOK /\ SessionsCounted /\ EventsMatchMilestones /\ GateHolds
  BY DEF ApplicantInv
<1>2. TypeOK'
  BY <1>1 DEF TypeOK
<1>3. /\ tier' = tier /\ OwnReferences' = OwnReferences
      /\ \A d \in Call : CountedBy(d)' = CountedBy(d) /\ Status(d)' = Status(d)
  BY DEF OwnReferences, CountedBy, Status
<1>4. ASSUME NEW d \in Call
      PROVE  LinkStage(d)' /\ CallStage(d)' /\ StoredOnce(d)' /\ CountedOnce(d)'
  <2>1. LinkStage(d) /\ CallStage(d) /\ StoredOnce(d) /\ CountedOnce(d)
    BY DEF ApplicantInv
  <2>2. Refusal(ask[d])' = Refusal(ask[d])
    BY RefusalStays
  <2>3. Proved(ask[d].journey, Lower[ask[d].email], began[d]) =>
          Proved(ask[d].journey, Lower[ask[d].email], began[d])'
    BY DEF Proved
  <2>4. LinkStage(d)'
    BY <2>1 DEF LinkStage
  <2>5. CallStage(d)'
    BY <2>1, <2>2, <2>3 DEF CallStage
  <2>6. StoredOnce(d)'
    <3>1. CASE StoredBy(d)' = StoredBy(d)
      BY <1>3, <2>1, <3>1 DEF StoredOnce
    <3>2. CASE tier.seedPrefix /\ StoredBy(d)' = {}
      BY <1>3, <3>2 DEF StoredOnce
    <3> QED BY <3>1, <3>2
  <2>7. CountedOnce(d)'
    BY <1>3, <2>1 DEF CountedOnce
  <2> QED BY <2>4, <2>5, <2>6, <2>7
<1>5. SessionsCounted'
  BY <1>1, <1>3 DEF SessionsCounted
<1>6. EventsMatchMilestones'
  <2>1. ASSUME NEW d \in Call, Status(d) \in {201, 204}
        PROVE  Milestones(d)' = Milestones(d)
    <3>1. CASE StoredBy(d)' = StoredBy(d)
      BY <1>3, <3>1, SameMilestones
    <3>2. CASE Status(d) = 204
      <4>1. StoredBy(d) = {}
        <5>1. \A r \in References : answer[d] = <<201, r>> => Status(d) = 201
          <6>1. ASSUME NEW r \in References, answer[d] = <<201, r>> PROVE Status(d) = 201
            <7>1. <<201, r>> # None
              BY AnswerType DEF Statuses
            <7> QED BY <6>1, <7>1 DEF Status
          <6> QED BY <6>1
        <5>2. OwnReferences \subseteq References
          BY DEF OwnReferences, References
        <5> QED BY <3>2, <5>1, <5>2 DEF ApplicantInv, StoredOnce
      <4> QED BY <3>1, <4>1
    <3>3. CASE Status(d) = 201 /\ tier.seedPrefix /\ StoredBy(d)' = {}
      <4>1. StoredBy(d) = {} \/ \E r \in OwnReferences : StoredBy(d) = {r}
        BY DEF ApplicantInv, StoredOnce
      <4>2. ~GoneWithSeeds(d) => Cardinality(StoredBy(d)) = 1
        <5>1. StoredBy(d) = {} => GoneWithSeeds(d)
          BY <3>3 DEF GoneWithSeeds
        <5>2. \A r \in OwnReferences : Cardinality({r}) = 1
          BY FS_Singleton
        <5> QED BY <4>1, <5>1, <5>2
      <4>3. Milestones(d) = Cardinality(CountedBy(d)) + 1
        BY <4>2 DEF Milestones
      <4>4. GoneWithSeeds(d)'
        BY <1>3, <3>3 DEF GoneWithSeeds
      <4>5. Milestones(d)' = Cardinality(CountedBy(d)') + 1
        BY <4>4 DEF Milestones
      <4> QED BY <1>3, <4>3, <4>5
    <3> QED BY <2>1, <3>1, <3>2, <3>3
  <2> QED BY <1>1, <1>3, <2>1 DEF EventsMatchMilestones
<1>7. GateHolds'
  BY <1>1 DEF GateHolds
<1>8. AnswersComplete'
  BY DEF AnswersComplete
<1> QED BY <1>2, <1>4, <1>5, <1>6, <1>7, <1>8 DEF ApplicantInv

\* The clock and the secondaries touch no registration.
LEMMA RegisterUntouched ==
    ASSUME ApplicantInv, register' = register
    PROVE  /\ register' \in [References -> Registration \cup {None}]
           /\ \A r \in References : register'[r] # None =>
                register'[r].valid /\ register'[r] = register[r]
           /\ \A d \in Call : StoredBy(d)' = StoredBy(d)
BY DEF ApplicantInv, TypeOK, AnswersComplete, StoredBy

LEMMA CatchUpStep ==
    ASSUME ApplicantInv, CatchUp
    PROVE  ApplicantInv'
<1>1. TypeOK /\ ProofsKept /\ Normalised
  BY DEF ApplicantInv
<1>2. UNCHANGED <<tier, clock, docs, register, pc, ask, began, attempt, latest, answer, sent>>
  BY DEF CatchUp
<1>3. clock' \in 0..MaxTime
  BY <1>1, <1>2 DEF TypeOK
<1> QED BY <1>1, <1>2, <1>3, CaughtUp, RegisterUntouched, OutsideStep

LEMMA SeedStep ==
    ASSUME ApplicantInv, NEW r \in SeedReference, Seed(r)
    PROVE  ApplicantInv'
<1>1. /\ TypeOK /\ ProofsKept /\ Normalised /\ AnswersComplete
      /\ register[r] = None /\ r \in References
      /\ UNCHANGED <<tier, clock, log, docs, pc, ask, began, attempt, latest, answer, sent>>
  BY DEF ApplicantInv, Seed, References
<1>2. PICK v \in SeedValidity :
        register' = [register EXCEPT ![r] = [call |-> None, journey |-> None, email |-> None,
                                            received |-> 0, valid |-> v]]
  BY DEF Seed
<1> DEFINE d == [call |-> None, journey |-> None, email |-> None, received |-> 0, valid |-> v]
<1>3. d \in Registration /\ d.valid /\ d.call = None
  <2>1. v = TRUE
    BY Zenon, SeedsAreValid
  <2>2. 0 \in 0..MaxTime
    BY ApplicantTimesAssumption
  <2> QED BY <2>1, <2>2 DEF Registration
<1> HIDE DEF d
<1>4. register' = [register EXCEPT ![r] = d]
  BY <1>2 DEF d
<1>5. /\ register' \in [References -> Registration \cup {None}]
      /\ register'[r] = d /\ \A s \in References \ {r} : register'[s] = register[s]
  BY <1>1, <1>3, <1>4 DEF TypeOK
<1>6. \A s \in References : register'[s] # None =>
        register'[s].valid /\ (register'[s] = register[s] \/ register'[s].call = None)
  BY <1>1, <1>3, <1>5 DEF AnswersComplete
<1>7. ASSUME NEW c \in Call
      PROVE  StoredBy(c)' = StoredBy(c)
  <2>1. d.call # c
    BY <1>3, NoneAssumption
  <2> QED BY <1>1, <1>5, <2>1 DEF StoredBy
<1>8. clock' \in 0..MaxTime /\ log' \in Seq(Records) /\ log' # <<>> /\ Current' = Current
  BY <1>1, NoWrite DEF TypeOK
<1>9. ProofsKept' /\ Normalised'
  BY <1>1, RecordsUntouched
<1> QED BY <1>1, <1>5, <1>6, <1>7, <1>8, <1>9, OutsideStep

\* The removal of seeds reaches what a call stored only under their prefix.
LEMMA DeleteSeedStep ==
    ASSUME ApplicantInv, DeleteSeed
    PROVE  ApplicantInv'
<1>1. /\ TypeOK /\ ProofsKept /\ Normalised /\ AnswersComplete
      /\ UNCHANGED <<tier, clock, log, docs, pc, ask, began, attempt, latest, answer, sent>>
  BY DEF ApplicantInv, DeleteSeed
<1>2. /\ register' \in [References -> Registration \cup {None}]
      /\ \A s \in References :
           register'[s] = IF s \in SeedReference THEN None ELSE register[s]
  BY <1>1 DEF TypeOK, DeleteSeed, Seeded
<1>3. \A s \in References : register'[s] # None =>
        register'[s].valid /\ (register'[s] = register[s] \/ register'[s].call = None)
  BY <1>1, <1>2 DEF AnswersComplete
<1>4. ASSUME NEW c \in Call
      PROVE  StoredBy(c)' = StoredBy(c) \/ (tier.seedPrefix /\ StoredBy(c)' = {})
  <2>1. StoredBy(c)' = StoredBy(c) \ SeedReference
    BY <1>2 DEF StoredBy
  <2>2. StoredBy(c) = {} \/ \E s \in OwnReferences : StoredBy(c) = {s}
    BY DEF ApplicantInv, StoredOnce
  <2>3. \A s \in OwnReferences : s \in SeedReference <=> tier.seedPrefix
    BY ReferenceAssumption DEF OwnReferences
  <2> QED BY <2>1, <2>2, <2>3
<1>5. clock' \in 0..MaxTime /\ log' \in Seq(Records) /\ log' # <<>> /\ Current' = Current
  BY <1>1, NoWrite DEF TypeOK
<1>6. ProofsKept' /\ Normalised'
  BY <1>1, RecordsUntouched
<1> QED BY <1>1, <1>2, <1>3, <1>4, <1>5, <1>6, OutsideStep

-----------------------------------------------------------------------------
(* The invariant                                                           *)

LEMMA EarlierType ==
    ASSUME NEW d \in EarlierLinks
    PROVE  d # None => d \in LinkRecord /\ Lower[d.email] = d.email
<1> DEFINE used == [journey |-> Anyone, createdAt |-> 0, verifiedAt |-> 0,
                    email |-> AnyEmail, status |-> "verified"]
<1>1. used \in LinkRecord /\ used.email = AnyEmail
  BY AnybodyType DEF LinkRecord
<1>2. Sent(used) \in LinkRecord /\ Sent(used).email = AnyEmail
  BY AnybodyType DEF LinkRecord, Sent
<1>3. d \in {None, used, Sent(used)}
  BY DEF EarlierLinks
<1> HIDE DEF used
<1> QED BY <1>1, <1>2, <1>3, AnybodyType

LEMMA InvariantInit == Init => ApplicantInv
<1> SUFFICES ASSUME Init PROVE ApplicantInv
  OBVIOUS
<1>1. PICK e \in EarlierLinks : log = <<[l \in Link |-> IF l = Earlier THEN e ELSE None]>>
  BY DEF Init
<1> DEFINE first == [l \in Link |-> IF l = Earlier THEN e ELSE None]
<1>2. first \in Records
  BY EarlierType DEF Records
<1>3. \A l \in Link : first[l] # None => Lower[first[l].email] = first[l].email
  BY EarlierType
<1>4. \A c \in Call : first[c] = None /\ c \in Link
  BY EarlierAssumption DEF Link
<1> HIDE DEF first
<1>5. log = <<first>>
  BY <1>1 DEF first
<1>6. log \in Seq(Records) /\ log # <<>> /\ Current = first /\ \A v \in Versions : v = first
  BY <1>2, <1>5 DEF Current, Versions
<1>7. /\ tier \in Tier /\ clock = 0 /\ docs = [e1 \in Event |-> {}]
      /\ register = [r \in References |-> None]
      /\ pc = [c \in Call |-> "idle"] /\ ask = [c \in Call |-> NoRequest]
      /\ began = [c \in Call |-> 0] /\ attempt = [c \in Call |-> 0]
      /\ latest = [c \in Call |-> None] /\ answer = [c \in Call |-> None]
      /\ sent = [c \in Call |-> 0]
  BY DEF Init
<1>8. TypeOK
  <2>1. 0 \in 0..MaxTime /\ 0 \in 0..MaxAttempts - 1 /\ 0 \in 0..1
    BY ApplicantTimesAssumption
  <2> QED BY <1>6, <1>7, <2>1 DEF TypeOK
<1>9. ProofsKept /\ Normalised
  <2>1. DOMAIN log = {1} /\ Len(log) = 1
    BY <1>5
  <2>2. \A k \in 1..1 : k = 1
    OBVIOUS
  <2>3. ProofsKept
    BY <2>1, <2>2 DEF ProofsKept
  <2> QED BY <1>3, <1>6, <2>3 DEF Normalised
<1>10. ASSUME NEW c \in Call
       PROVE  /\ LinkStage(c) /\ CallStage(c) /\ StoredOnce(c) /\ CountedOnce(c)
              /\ Status(c) = 0 /\ sent[c] = 0
  <2>1. /\ pc[c] = "idle" /\ ask[c] = NoRequest /\ answer[c] = None
        /\ Status(c) = 0 /\ sent[c] = 0
    BY <1>7 DEF Status
  <2>2. StoredBy(c) = {} /\ CountedBy(c) = {}
    BY <1>7 DEF StoredBy, CountedBy
  <2>3. LinkStage(c)
    BY <1>4, <1>6, <2>1 DEF LinkStage
  <2>4. CallStage(c)
    BY <2>1 DEF CallStage
  <2>5. StoredOnce(c) /\ CountedOnce(c)
    BY <2>1, <2>2 DEF StoredOnce, CountedOnce
  <2> QED BY <2>1, <2>3, <2>4, <2>5
<1>11. SessionsCounted
  BY <1>7, <1>10 DEF SessionsCounted
<1>12. EventsMatchMilestones
  BY <1>10 DEF EventsMatchMilestones
<1>13. GateHolds /\ AnswersComplete
  BY <1>7 DEF GateHolds, AnswersComplete
<1> QED BY <1>8, <1>9, <1>10, <1>11, <1>12, <1>13 DEF ApplicantInv

LEMMA InvariantStep == ApplicantInv /\ [Next]_vars => ApplicantInv'
<1> SUFFICES ASSUME ApplicantInv, [Next]_vars PROVE ApplicantInv'
  OBVIOUS
<1>1. TypeOK /\ ProofsKept /\ Normalised
  BY DEF ApplicantInv
<1>2. ASSUME clock' \in 0..MaxTime,
             UNCHANGED <<tier, log, docs, register, pc, ask, began, attempt, latest, answer, sent>>
      PROVE  ApplicantInv'
  BY <1>1, <1>2, NoWrite, RecordsUntouched, RegisterUntouched, OutsideStep
<1>3. CASE UNCHANGED vars
  BY <1>1, <1>2, <1>3 DEF vars, TypeOK
<1>4. CASE Tick
  <2>1. clock' \in 0..MaxTime
    BY <1>1, <1>4, ApplicantTimesAssumption DEF Tick, TypeOK
  <2> QED BY <1>2, <1>4, <2>1 DEF Tick
<1>5. ASSUME NEW c \in Call,
             \/ \E q \in Requests : Receive(c, q)
             \/ RecordEvent(c) \/ CheckGate(c)
             \/ \E r \in OwnReferences : \E o \in Outcomes(r) : TryReference(c, r, o)
      PROVE  ApplicantInv'
  BY <1>5, ReceiveStep, RecordEventStep, CheckGateStep, TryReferenceStep
<1>6. ASSUME NEW c \in Call,
             \/ Reserve(c) \/ Deliver(c) \/ NotifyFails(c)
             \/ Verify(c) \/ VerifiedUnheard(c) \/ Explain(c)
             \/ Look(c) \/ Judge(c) \/ Fails(c)
      PROVE  ApplicantInv'
  BY <1>6, ReserveStep, DeliverStep, NotifyFailsStep, VerifyStep, ExplainStep,
     LookStep, JudgeStep, FailsStep
<1>7. ASSUME NEW r \in SeedReference, Seed(r)
      PROVE  ApplicantInv'
  BY <1>7, SeedStep
<1>8. CASE DeleteSeed
  BY <1>8, DeleteSeedStep
<1> QED BY <1>3, <1>4, <1>5, <1>6, <1>7, <1>8, CatchUpStep DEF Next

\* Under any settings and however many calls run at once, what each point of a
\* call knows stays true until the call acts on it.
THEOREM ApplicantInvariance == Spec => []ApplicantInv
BY InvariantInit, InvariantStep, PTL DEF Spec

-----------------------------------------------------------------------------
(* What follows from it                                                    *)

\* Every answer is one that its route declares, and no variable leaves its type.
THEOREM ApplicantTyped == Spec => []TypeOK
<1>1. ApplicantInv => TypeOK
  BY DEF ApplicantInv
<1> QED BY <1>1, ApplicantInvariance, PTL

\* No registration gets past the gate without its journey's own verification of
\* the address it is stored with.
THEOREM GateIsHeld == Spec => []GateHolds
<1>1. ApplicantInv => GateHolds
  BY DEF ApplicantInv
<1> QED BY <1>1, ApplicantInvariance, PTL

\* A submission stores one registration at most, and is told which.
THEOREM StoredOnlyOnce == Spec => []OneCallOneRegistration
<1>1. ApplicantInv => OneCallOneRegistration
  <2> SUFFICES ASSUME ApplicantInv, NEW c \in Call
               PROVE  /\ Cardinality(StoredBy(c)) <= 1
                      /\ Status(c) = 201 => StoredBy(c) = {answer[c][2]} \/ GoneWithSeeds(c)
                      /\ Status(c) \in 400..499 => StoredBy(c) = {}
    BY DEF OneCallOneRegistration
  <2>1. CASE StoredBy(c) = {} /\ (Status(c) = 201 => tier.seedPrefix)
    BY <2>1, FS_EmptySet DEF GoneWithSeeds
  <2>2. ASSUME NEW r \in OwnReferences, StoredBy(c) = {r},
               answer[c] = <<201, r>> \/ Status(c) = 500
        PROVE  /\ Cardinality(StoredBy(c)) <= 1
               /\ Status(c) = 201 => StoredBy(c) = {answer[c][2]}
               /\ Status(c) \in 400..499 => StoredBy(c) = {}
    <3>1. Cardinality(StoredBy(c)) = 1
      <4>1. Cardinality({r}) = 1
        BY FS_Singleton
      <4> QED BY <2>2, <4>1
    <3>2. answer[c] = <<201, r>> => Status(c) = 201 /\ answer[c][2] = r
      <4>1. 201 \in Statuses /\ r \in Codes \cup References
        BY DEF Statuses, OwnReferences, References
      <4>2. <<201, r>> # None
        BY <4>1, AnswerType
      <4> QED BY <4>2 DEF Status
    <3> QED BY <2>2, <3>1, <3>2
  <2> QED BY <2>1, <2>2 DEF ApplicantInv, StoredOnce
<1> QED BY <1>1, ApplicantInvariance, PTL

\* What is stored is complete, submitted or seeded.
THEOREM StoredComplete == Spec => []AnswersComplete
<1>1. ApplicantInv => AnswersComplete
  BY DEF ApplicantInv
<1> QED BY <1>1, ApplicantInvariance, PTL

\* A signed session counts once, and a beacon that is told so has counted.
THEOREM SessionsCountOnce == Spec => []SessionCountsOnce
<1>1. ApplicantInv => SessionCountsOnce
  <2> SUFFICES ASSUME ApplicantInv, tier.secret, NEW e \in Event, NEW c \in Call
               PROVE  LET counted(j) == {d \in docs[e] : d.nonce = j} IN
                      /\ \A j \in Journey : Cardinality(counted(j)) <= 1
                      /\ counted(None) = {}
                      /\ ask[c].kind = e /\ Status(c) = 204 => counted(ask[c].journey) # {}
    BY DEF SessionCountsOnce
  <2> DEFINE counted(j) == {d \in docs[e] : d.nonce = j}
  <2>1. /\ \A d \in docs[e] : d.nonce # None
        /\ \A d, f \in docs[e] : d.nonce = f.nonce => d = f
        /\ ask[c].kind = e /\ Status(c) = 204 => \E d \in docs[e] : d.nonce = ask[c].journey
    BY DEF ApplicantInv, SessionsCounted
  <2>2. ASSUME NEW j \in Journey
        PROVE  Cardinality(counted(j)) <= 1
    <3>1. CASE counted(j) = {}
      BY <3>1, FS_EmptySet
    <3>2. ASSUME NEW d \in counted(j)
          PROVE  Cardinality(counted(j)) <= 1
      <4>1. counted(j) = {d}
        BY <2>1, <3>2
      <4>2. Cardinality({d}) = 1
        BY FS_Singleton
      <4> QED BY <4>1, <4>2
    <3> QED BY <3>1, <3>2
  <2> QED BY <2>1, <2>2
<1> QED BY <1>1, ApplicantInvariance, PTL

\* Analytics hears once of each acknowledged milestone, and of nothing else.
THEOREM AnalyticsMatch == Spec => []EventsMatchMilestones
<1>1. ApplicantInv => EventsMatchMilestones
  BY DEF ApplicantInv
<1> QED BY <1>1, ApplicantInvariance, PTL

-----------------------------------------------------------------------------
(* What no step may do                                                     *)

\* Whatever else is submitted, tried again or seeded, a submitted registration
\* stays as it is; the removal of seeds takes it only where the service's own
\* references start with the seeds' prefix.
THEOREM RegistrationsStay == Spec => StoredForGood
<1>1. ApplicantInv /\ [Next]_vars =>
        [\A r \in References : register[r] # None /\ register[r].call # None =>
           \/ register'[r] = register[r]
           \/ tier.seedPrefix /\ DeleteSeed]_vars
  <2> SUFFICES ASSUME ApplicantInv, [Next]_vars, NEW r \in References,
                      register[r] # None, register[r].call # None
               PROVE  register'[r] = register[r] \/ (tier.seedPrefix /\ DeleteSeed)
    OBVIOUS
  <2>1. register \in [References -> Registration \cup {None}]
    BY DEF ApplicantInv, TypeOK
  <2>2. ASSUME NEW c \in Call, NEW s \in OwnReferences, NEW o \in Outcomes(s), TryReference(c, s, o)
        PROVE  register'[r] = register[r]
    <3>1. Applied(o) => s # r
      BY DEF Outcomes, Applied
    <3>2. register' = IF Applied(o) THEN [register EXCEPT ![s] = Submission(c)] ELSE register
      BY <2>2 DEF TryReference
    <3> QED BY <2>1, <3>1, <3>2
  <2>3. ASSUME NEW s \in SeedReference, Seed(s)
        PROVE  register'[r] = register[r]
    BY <2>1, <2>3 DEF Seed
  <2>4. CASE DeleteSeed /\ ~tier.seedPrefix
    <3>1. register[r].call \in Call
      BY <2>1 DEF Registration
    <3>2. PICK c \in Call : register[r].call = c
      BY <3>1
    <3>3. r \in StoredBy(c)
      BY <3>2 DEF StoredBy
    <3>4. StoredBy(c) \subseteq OwnReferences
      BY <3>3 DEF ApplicantInv, StoredOnce
    <3>5. r \notin SeedReference
      BY <2>4, <3>3, <3>4, ReferenceAssumption DEF OwnReferences
    <3> QED BY <2>1, <2>4, <3>5 DEF DeleteSeed, Seeded
  <2>5. CASE UNCHANGED register
    BY <2>5
  <2>6. ASSUME NEW c \in Call,
               \/ \E q \in Requests : Receive(c, q)
               \/ RecordEvent(c) \/ CheckGate(c) \/ Reserve(c) \/ Deliver(c) \/ NotifyFails(c)
               \/ Verify(c) \/ VerifiedUnheard(c) \/ Explain(c)
               \/ Look(c) \/ Judge(c) \/ Fails(c)
        PROVE  UNCHANGED register
    BY <2>6 DEF Receive, RecordEvent, CheckGate, Reserve, Deliver, NotifyFails, Verify,
                VerifiedUnheard, Explain, Look, Judge, Fails
  <2>7. DeleteSeed => ~tier.seedPrefix \/ (tier.seedPrefix /\ DeleteSeed)
    OBVIOUS
  <2> QED BY <2>2, <2>3, <2>4, <2>5, <2>6, <2>7 DEF Next, Tick, CatchUp, vars
<1> QED BY <1>1, ApplicantInvariance, PTL DEF Spec, StoredForGood

\* A call is answered by its own step, from where it is.
LEMMA AnsweredWhere ==
    ASSUME ApplicantInv, [Next]_vars, NEW c \in Call
    PROVE  /\ pc[c] = "check" => CheckGate(c) \/ Fails(c) \/ answer'[c] = answer[c]
           /\ pc[c] = "judge" => Judge(c) \/ Fails(c) \/ answer'[c] = answer[c]
<1>1. answer \in [Call -> Answers \cup {None}]
  BY DEF ApplicantInv, TypeOK
<1>2. ASSUME NEW d \in Call, d # c,
             (\E a : Answer(d, a)) \/ UNCHANGED answer
      PROVE  answer'[c] = answer[c]
  BY <1>1, <1>2 DEF Answer
<1>3. ASSUME NEW d \in Call, NEW q \in Requests, Receive(d, q)
      PROVE  pc[d] = "idle" /\ ((\E a : Answer(d, a)) \/ UNCHANGED answer)
  BY <1>3 DEF Receive
<1>4. ASSUME NEW d \in Call, RecordEvent(d)
      PROVE  pc[d] = "record" /\ \E a : Answer(d, a)
  BY <1>4 DEF RecordEvent
<1>5. ASSUME NEW d \in Call, NEW r \in OwnReferences, NEW o \in Outcomes(r), TryReference(d, r, o)
      PROVE  pc[d] = "save" /\ ((\E a : Answer(d, a)) \/ UNCHANGED answer)
  BY <1>5 DEF TryReference
<1>6. ASSUME NEW d \in Call, Reserve(d)
      PROVE  pc[d] = "send" /\ ((\E a : Answer(d, a)) \/ UNCHANGED answer)
  BY <1>6 DEF Reserve, Goto
<1>7. ASSUME NEW d \in Call, Deliver(d) \/ NotifyFails(d)
      PROVE  pc[d] = "deliver" /\ \E a : Answer(d, a)
  BY <1>7 DEF Deliver, NotifyFails
<1>8. ASSUME NEW d \in Call, Verify(d) \/ VerifiedUnheard(d)
      PROVE  pc[d] = "verify" /\ ((\E a : Answer(d, a)) \/ UNCHANGED answer)
  BY <1>8 DEF Verify, VerifiedUnheard, Goto
<1>9. ASSUME NEW d \in Call, Explain(d)
      PROVE  pc[d] = "explain" /\ \E a : Answer(d, a)
  BY <1>9 DEF Explain
<1>10. ASSUME NEW d \in Call, Look(d)
       PROVE  pc[d] = "look" /\ ((\E a : Answer(d, a)) \/ UNCHANGED answer)
  BY <1>10 DEF Look, Goto
<1>11. ASSUME NEW d \in Call, CheckGate(d)
       PROVE  pc[d] = "check" /\ ((\E a : Answer(d, a)) \/ UNCHANGED answer)
  BY <1>11 DEF CheckGate, Goto
<1>12. ASSUME NEW d \in Call, Judge(d)
       PROVE  pc[d] = "judge" /\ \E a : Answer(d, a)
  BY <1>12 DEF Judge
<1>13. ASSUME NEW d \in Call, Fails(d)
       PROVE  \E a : Answer(d, a)
  BY <1>13 DEF Fails
<1>14. ASSUME Tick \/ CatchUp \/ (\E r \in SeedReference : Seed(r)) \/ DeleteSeed \/ UNCHANGED vars
       PROVE  answer'[c] = answer[c]
  BY <1>14 DEF Tick, CatchUp, Seed, DeleteSeed, vars
<1>15. ASSUME NEW d \in Call,
              \/ \E q \in Requests : Receive(d, q)
              \/ RecordEvent(d) \/ CheckGate(d)
              \/ \E r \in OwnReferences : \E o \in Outcomes(r) : TryReference(d, r, o)
              \/ Reserve(d) \/ Deliver(d) \/ NotifyFails(d)
              \/ Verify(d) \/ VerifiedUnheard(d) \/ Explain(d)
              \/ Look(d) \/ Judge(d) \/ Fails(d)
       PROVE  /\ pc[c] = "check" => CheckGate(c) \/ Fails(c) \/ answer'[c] = answer[c]
              /\ pc[c] = "judge" => Judge(c) \/ Fails(c) \/ answer'[c] = answer[c]
  <2>1. CASE d = c
    BY <1>3, <1>4, <1>5, <1>6, <1>7, <1>8, <1>9, <1>10, <1>11, <1>12, <1>15, <2>1
  <2>2. CASE d # c
    <3>1. (\E a : Answer(d, a)) \/ UNCHANGED answer
      BY <1>3, <1>4, <1>5, <1>6, <1>7, <1>8, <1>9, <1>10, <1>11, <1>12, <1>13, <1>15
    <3> QED BY <1>2, <2>2, <3>1
  <2> QED BY <2>1, <2>2
<1> QED BY <1>14, <1>15 DEF Next

\* Nobody is refused for lack of a verification that every secondary shows, in
\* whatever spelling the address comes.
THEOREM RefusalsAreDue == Spec => NoFalseRefusal
<1>1. ASSUME ApplicantInv, [Next]_vars, NEW c \in Call,
             pc[c] = "check", answer'[c] = NotVerified
      PROVE  \A l \in Link :
               \/ Oldest[l] = None
               \/ Oldest[l].status # "verified"
               \/ Oldest[l].journey # ask[c].journey
               \/ Oldest[l].email # Lower[ask[c].email]
               \/ Oldest[l].verifiedAt + VerifiedTtl <= began[c]
  <2>1. TypeOK /\ CallStage(c) /\ ProofsKept
    BY <1>1 DEF ApplicantInv
  <2>2. answer[c] = None /\ answer \in [Call -> Answers \cup {None}]
    BY <1>1, <2>1, InProgress DEF TypeOK
  <2>3. ~Fails(c)
    <3>1. SUFFICES ASSUME Fails(c) PROVE FALSE
      OBVIOUS
    <3>2. answer'[c] = IF ask[c].kind = "verify" THEN <<500, "VERIFICATION_FAILED">> ELSE <<500, "">>
      BY <2>2, <3>1 DEF Fails, Answer
    <3>3. NotVerified # <<500, "VERIFICATION_FAILED">> /\ NotVerified # <<500, "">>
      BY DEF NotVerified
    <3> QED BY <1>1, <3>2, <3>3
  <2>4. CheckGate(c)
    BY <1>1, <2>2, <2>3, AnsweredWhere, RefusalsAreAnswers
  <2>5. PICK records \in Versions :
          IF RecentVerifications(records, VerifiedNonce(ask[c]), NormaliseEmail(ask[c].email),
                                 began[c] - VerifiedTtl) # {}
          THEN Goto(c, "save") ELSE Answer(c, NotVerified)
    BY <2>4 DEF CheckGate
  <2>6. RecentVerifications(records, VerifiedNonce(ask[c]), NormaliseEmail(ask[c].email),
                            began[c] - VerifiedTtl) = {}
    BY <1>1, <2>2, <2>5, RefusalsAreAnswers DEF Goto
  <2>7. /\ ask[c] \in Requests /\ Refusal(ask[c]) = None /\ tier.required
        /\ "check" \in StepsOf(ask[c].kind) /\ ask[c].kind \in Kind
    BY <1>1, <2>1, RequestType DEF CallStage, Request
  <2>8. ask[c].kind = "register"
    BY <2>7 DEF StepsOf, Kind, Event
  <2>9. VerifiedNonce(ask[c]) = ask[c].journey
    BY <2>1, <2>7, <2>8, Accepted
  <2>10. PICK k \in DOMAIN log : records = log[k]
    BY <2>5 DEF Versions
  <2>11. 1 \in DOMAIN log /\ k \in 1..Len(log)
    <3>1. Len(log) \in Nat /\ DOMAIN log = 1..Len(log)
      BY <2>1 DEF TypeOK
    <3> QED BY <2>10, <3>1
  <2>12. ASSUME NEW l \in Link, Oldest[l] # None, Oldest[l].status = "verified",
                Oldest[l].journey = ask[c].journey, Oldest[l].email = Lower[ask[c].email]
         PROVE  Oldest[l].verifiedAt + VerifiedTtl <= began[c]
    <3>1. records[l] = Oldest[l]
      BY <2>1, <2>10, <2>11, <2>12 DEF ProofsKept, Oldest
    <3>2. ~(Oldest[l].verifiedAt > began[c] - VerifiedTtl)
      BY <2>6, <2>9, <2>12, <3>1 DEF RecentVerifications, NormaliseEmail
    <3>3. Oldest[l].verifiedAt \in Nat
      BY <2>1, <2>5, <2>12, <3>1, VersionsType DEF Records, LinkRecord
    <3>4. began[c] \in Nat
      BY <2>1, ApplicantTimesAssumption DEF TypeOK
    <3> QED BY <3>2, <3>3, <3>4, ApplicantTimesAssumption
  <2> QED BY <2>12
<1>2. ApplicantInv /\ [Next]_vars =>
        [\A c \in Call : pc[c] = "check" /\ answer'[c] = NotVerified =>
           \A l \in Link :
             \/ Oldest[l] = None
             \/ Oldest[l].status # "verified"
             \/ Oldest[l].journey # ask[c].journey
             \/ Oldest[l].email # Lower[ask[c].email]
             \/ Oldest[l].verifiedAt + VerifiedTtl <= began[c]]_vars
  BY <1>1
<1> QED BY <1>2, ApplicantInvariance, PTL DEF Spec, NoFalseRefusal

\* The status is "verified" only if the gate's own test, on the current records,
\* would pass too.
THEOREM StatusIsTrue == Spec => StatusAgreesWithGate
<1>1. ASSUME ApplicantInv, [Next]_vars, NEW c \in Call,
             pc[c] = "judge", answer'[c] = <<200, "verified">>
      PROVE  RecentVerifications(Current, ask[c].journey, latest[c].email,
                                 began[c] - VerifiedTtl) # {}
  <2>1. TypeOK /\ CallStage(c) /\ ProofsKept
    BY <1>1 DEF ApplicantInv
  <2>2. answer[c] = None /\ answer \in [Call -> Answers \cup {None}]
    BY <1>1, <2>1, InProgress DEF TypeOK
  <2>3. answer'[c] # None
    <3>1. 200 \in Statuses /\ "verified" \in Codes \cup References
      BY DEF Statuses, Codes
    <3>2. <<200, "verified">> # None
      BY <3>1, AnswerType
    <3> QED BY <1>1, <3>2
  <2>4. ~Fails(c)
    <3>1. SUFFICES ASSUME Fails(c) PROVE FALSE
      OBVIOUS
    <3>2. answer'[c] = IF ask[c].kind = "verify" THEN <<500, "VERIFICATION_FAILED">> ELSE <<500, "">>
      BY <2>2, <3>1 DEF Fails, Answer
    <3>3. <<200, "verified">> # <<500, "VERIFICATION_FAILED">> /\ <<200, "verified">> # <<500, "">>
      OBVIOUS
    <3> QED BY <1>1, <3>2, <3>3
  <2>5. Judge(c)
    BY <1>1, <2>2, <2>3, <2>4, AnsweredWhere
  <2>6. PICK records \in Versions : Answer(c, <<200, StatusFrom(latest[c], records, began[c])>>)
    BY <2>5 DEF Judge
  <2>7. answer'[c] = <<200, StatusFrom(latest[c], records, began[c])>>
    BY <2>2, <2>6 DEF Answer
  <2>8. StatusFrom(latest[c], records, began[c]) = "verified"
    BY <1>1, <2>7
  <2>9. RecentVerifications(records, latest[c].journey, latest[c].email, began[c] - VerifiedTtl) # {}
    BY <2>8 DEF StatusFrom
  <2>10. latest[c].journey = ask[c].journey
    BY <1>1, <2>1 DEF CallStage
  <2>11. PICK l \in RecentVerifications(records, latest[c].journey, latest[c].email,
                                        began[c] - VerifiedTtl) : TRUE
    BY <2>9
  <2>12. l \in Link /\ records[l] # None /\ records[l].status = "verified"
    BY <2>11 DEF RecentVerifications
  <2>13. Current[l] = records[l]
    BY <2>1, <2>6, <2>12, ProofsStand
  <2>14. l \in RecentVerifications(Current, ask[c].journey, latest[c].email,
                                   began[c] - VerifiedTtl)
    BY <2>10, <2>11, <2>13 DEF RecentVerifications
  <2> QED BY <2>14
<1>2. ApplicantInv /\ [Next]_vars =>
        [\A c \in Call : pc[c] = "judge" /\ answer'[c] = <<200, "verified">> =>
           RecentVerifications(Current, ask[c].journey, latest[c].email,
                               began[c] - VerifiedTtl) # {}]_vars
  BY <1>1
<1> QED BY <1>2, ApplicantInvariance, PTL DEF Spec, StatusAgreesWithGate

-----------------------------------------------------------------------------
(* Links keep the promise of JourneyLinks                                  *)

\* A call came in before now.
Begun == \A c \in Call : began[c] <= clock

LEMMA BegunStep == ApplicantInv /\ Begun /\ [Next]_vars => Begun'
<1> SUFFICES ASSUME ApplicantInv, Begun, [Next]_vars PROVE Begun'
  OBVIOUS
<1>1. TypeOK /\ clock \in Nat /\ 0 <= clock /\ \A c \in Call : began[c] \in Nat
  BY ApplicantTimesAssumption DEF ApplicantInv, TypeOK
<1>2. ASSUME NEW c \in Call, clock' = clock,
             \/ began' = [began EXCEPT ![c] = 0]
             \/ began' = [began EXCEPT ![c] = clock]
             \/ began' = began
      PROVE  Begun'
  <2>1. began \in [Call -> 0..MaxTime]
    BY <1>1 DEF TypeOK
  <2>2. \A d \in Call : began'[d] \in {0, clock, began[d]}
    BY <1>2, <2>1
  <2> QED BY <1>1, <1>2, <2>2 DEF Begun
<1>3. ASSUME NEW c \in Call, NEW q \in Requests, Receive(c, q)
      PROVE  Begun'
  <2>1. \/ began' = [began EXCEPT ![c] = 0]
        \/ began' = [began EXCEPT ![c] = clock]
    BY <1>3 DEF Receive, Answer
  <2> QED BY <1>2, <1>3, <2>1 DEF Receive
<1>4. ASSUME NEW c \in Call, RecordEvent(c) \/ CheckGate(c) \/ Reserve(c) \/ Deliver(c)
                             \/ NotifyFails(c)
      PROVE  Begun'
  <2>1. clock' = clock /\ (began' = [began EXCEPT ![c] = 0] \/ began' = began)
    BY <1>4 DEF RecordEvent, CheckGate, Reserve, Deliver, NotifyFails, Answer, Goto
  <2> QED BY <1>2, <2>1
<1>5. ASSUME NEW c \in Call, Verify(c) \/ VerifiedUnheard(c) \/ Explain(c) \/ Look(c)
                             \/ Judge(c) \/ Fails(c)
      PROVE  Begun'
  <2>1. clock' = clock /\ (began' = [began EXCEPT ![c] = 0] \/ began' = began)
    BY <1>5 DEF Verify, VerifiedUnheard, Explain, Look, Judge, Fails, Answer, Goto
  <2> QED BY <1>2, <2>1
<1>6. ASSUME NEW c \in Call, NEW r \in OwnReferences, NEW o \in Outcomes(r), TryReference(c, r, o)
      PROVE  Begun'
  <2>1. clock' = clock /\ (began' = [began EXCEPT ![c] = 0] \/ began' = began)
    BY <1>6 DEF TryReference, Answer
  <2> QED BY <1>2, <2>1
<1>7. CASE UNCHANGED began /\ (clock' = clock \/ clock' = clock + 1)
  BY <1>1, <1>7 DEF Begun
<1>8. CASE Tick \/ CatchUp \/ DeleteSeed \/ (\E r \in SeedReference : Seed(r)) \/ UNCHANGED vars
  <2>1. UNCHANGED began /\ (clock' = clock \/ clock' = clock + 1)
    BY <1>8 DEF Tick, CatchUp, DeleteSeed, Seed, vars
  <2> QED BY <1>7, <2>1
<1> QED BY <1>3, <1>4, <1>5, <1>6, <1>8 DEF Next

\* The call that would have sent the link is over.
Over(l) == l \in Call /\ pc[l] = "done" /\ ask[l].kind = "send"

\* What is shown of a record, and of none.
LEMMA RecordShown ==
    ASSUME NEW l \in Link, Current[l] # None
    PROVE  /\ Phases[l] = Current[l].status
           /\ Abouts[l] = [journey |-> Current[l].journey, email |-> Current[l].email,
                           at |-> Current[l].createdAt]
           /\ Abouts[l].journey = Current[l].journey /\ Abouts[l].at = Current[l].createdAt
           /\ Uses[l] = IF Current[l].status = "verified" THEN Current[l].verifiedAt ELSE None
BY DEF Phases, Phase, Abouts, About, Uses, UsedAt

LEMMA NoneShown ==
    ASSUME NEW l \in Link, Current[l] = None
    PROVE  /\ Phases[l] = IF Over(l) THEN "gone" ELSE "none"
           /\ Abouts[l] = None
           /\ Uses[l] = None
BY DEF Phases, Phase, Abouts, About, Uses, UsedAt, Over

LEMMA RecordShownNext ==
    ASSUME NEW l \in Link, Current'[l] # None
    PROVE  /\ Phases'[l] = Current'[l].status
           /\ Abouts'[l] = [journey |-> Current'[l].journey, email |-> Current'[l].email,
                            at |-> Current'[l].createdAt]
           /\ Uses'[l] = IF Current'[l].status = "verified" THEN Current'[l].verifiedAt ELSE None
BY DEF Phases, Phase, Abouts, About, Uses, UsedAt

LEMMA NoneShownNext ==
    ASSUME NEW l \in Link, Current'[l] = None
    PROVE  /\ Phases'[l] = IF Over(l)' THEN "gone" ELSE "none"
           /\ Abouts'[l] = None
           /\ Uses'[l] = None
BY DEF Phases, Phase, Abouts, About, Uses, UsedAt, Over

LEMMA SameShown ==
    ASSUME NEW l \in Link, Current'[l] = Current[l],
           Current[l] = None => (Over(l)' <=> Over(l))
    PROVE  Phases'[l] = Phases[l] /\ Abouts'[l] = Abouts[l] /\ Uses'[l] = Uses[l]
<1>1. CASE Current[l] = None
  BY <1>1, NoneShown, NoneShownNext
<1>2. CASE Current[l] # None
  <2>1. Phases'[l] = Phases[l]
    BY <1>2, RecordShown, RecordShownNext
  <2>2. Abouts'[l] = Abouts[l]
    BY <1>2, RecordShown, RecordShownNext
  <2>3. Uses'[l] = Uses[l]
    BY <1>2, RecordShown, RecordShownNext
  <2> QED BY <2>1, <2>2, <2>3
<1> QED BY <1>1, <1>2

\* The calls but c are where they were.
OthersStand(c) == \A d \in Call \ {c} : pc'[d] = pc[d] /\ ask'[d] = ask[d]

\* A step of a call about its own link.
LEMMA OneShown ==
    ASSUME NEW c \in Call, OthersStand(c), \A k \in Link \ {c} : Current'[k] = Current[k]
    PROVE  /\ Phases' = [Phases EXCEPT ![c] = Phases'[c]]
           /\ Abouts' = [Abouts EXCEPT ![c] = Abouts'[c]]
           /\ Uses' = [Uses EXCEPT ![c] = Uses'[c]]
<1>1. \A k \in Link \ {c} : Over(k)' <=> Over(k)
  BY DEF Over, OthersStand
<1>2. \A k \in Link \ {c} : Phases'[k] = Phases[k] /\ Abouts'[k] = Abouts[k] /\ Uses'[k] = Uses[k]
  BY <1>1, SameShown
<1> QED BY <1>2 DEF Phases, Abouts, Uses

\* A step of a call that leaves the records alone shows nothing, or the call
\* ends without having stored its link.
LEMMA NoWriteShown ==
    ASSUME TypeOK, NEW c \in Call, pc[c] # "done", OthersStand(c), log' = log, clock' = clock
    PROVE  Promise!Next \/ UNCHANGED Promise!vars
<1>1. Current' = Current /\ c \in Link /\ ~Over(c)
  BY NoWrite DEF Link, Over
<1>2. /\ Phases' = [Phases EXCEPT ![c] = Phases'[c]]
      /\ Abouts' = [Abouts EXCEPT ![c] = Abouts'[c]]
      /\ Uses' = [Uses EXCEPT ![c] = Uses'[c]]
  BY <1>1, OneShown
<1>3. CASE Current[c] # None \/ ~Over(c)'
  <2>1. Phases'[c] = Phases[c] /\ Abouts'[c] = Abouts[c] /\ Uses'[c] = Uses[c]
    BY <1>1, <1>3, SameShown
  <2>2. UNCHANGED <<Phases, Abouts, Uses>>
    BY <1>2, <2>1 DEF Phases, Abouts, Uses
  <2> QED BY <2>2 DEF Promise!vars
<1>4. CASE Current[c] = None /\ Over(c)'
  <2>1. Phases[c] = "none" /\ Abouts[c] = None /\ Uses[c] = None
    BY <1>1, <1>4, NoneShown
  <2>2. Phases'[c] = "gone" /\ Abouts'[c] = None /\ Uses'[c] = None
    BY <1>1, <1>4, NoneShownNext
  <2>3. Abouts' = Abouts /\ Uses' = Uses
    BY <1>2, <2>1, <2>2 DEF Abouts, Uses
  <2> QED BY <1>1, <1>2, <2>1, <2>2, <2>3 DEF Promise!Next, Promise!Forgo
<1> QED BY <1>3, <1>4

\* A request that is granted stores its record.
LEMMA ReserveAsks ==
    ASSUME ApplicantInv, Begun, NEW c \in Call, pc[c] = "send",
           OthersStand(c), clock' = clock,
           Write([Current EXCEPT ![c] =
                    [journey |-> ask[c].journey, email |-> NormaliseEmail(ask[c].email),
                     createdAt |-> began[c], verifiedAt |-> 0, status |-> "sending"]])
    PROVE  Promise!Next
<1> DEFINE e == NormaliseEmail(ask[c].email)
           d == [journey |-> ask[c].journey, email |-> e,
                 createdAt |-> began[c], verifiedAt |-> 0, status |-> "sending"]
           records == [Current EXCEPT ![c] = d]
<1>1. TypeOK /\ LinkStage(c) /\ CallStage(c) /\ c \in Link /\ Write(records)
  BY DEF ApplicantInv, Link
<1>2. ask[c].journey \in Journey /\ e \in Spelling
  BY <1>1, RequestType, LowerAssumption DEF CallStage, Request, NormaliseEmail
<1> HIDE DEF e
<1>3. began[c] \in 0..clock
  <2>1. began[c] \in Nat /\ clock \in Nat
    BY <1>1, ApplicantTimesAssumption DEF TypeOK
  <2>2. began[c] <= clock
    BY DEF Begun
  <2> QED BY <2>1, <2>2
<1>4. /\ d \in LinkRecord /\ d # None /\ d.status = "sending"
      /\ d.journey = ask[c].journey /\ d.email = e /\ d.createdAt = began[c]
  <2>1. began[c] \in Nat /\ 0 \in Nat
    BY <1>1, ApplicantTimesAssumption DEF TypeOK
  <2> QED BY <1>2, <2>1, NoDocumentAssumption DEF LinkRecord
<1>5. Current \in Records /\ Current[c] = None
  BY <1>1, VersionsType DEF LinkStage
<1> HIDE DEF d
<1>6. records \in Records /\ records[c] = d /\ \A l \in Link \ {c} : records[l] = Current[l]
  BY <1>1, <1>4, <1>5 DEF Records
<1> HIDE DEF records
<1>7. Current' = records
  BY <1>1, <1>6, WriteShows
<1>8. Phases[c] = "none" /\ Uses[c] = None
  BY <1>1, <1>5, NoneShown DEF Over
<1>9. Current'[c] # None /\ Current'[c] = d
  BY <1>4, <1>6, <1>7
<1>10. Phases'[c] = "sending" /\ Uses'[c] = None
  BY <1>1, <1>4, <1>9, RecordShownNext
<1>11. Abouts'[c] = [journey |-> ask[c].journey, email |-> e, at |-> began[c]]
  BY <1>1, <1>4, <1>9, RecordShownNext
<1>12. Abouts'[c] \in Promise!AskedBy(clock)
  BY <1>2, <1>3, <1>11 DEF Promise!AskedBy
<1>13. /\ Phases' = [Phases EXCEPT ![c] = Phases'[c]]
       /\ Abouts' = [Abouts EXCEPT ![c] = Abouts'[c]]
       /\ Uses' = [Uses EXCEPT ![c] = Uses'[c]]
  BY <1>2, <1>6, <1>7, OneShown
<1>14. Uses' = Uses
  BY <1>8, <1>10, <1>13 DEF Uses
<1> QED BY <1>1, <1>8, <1>10, <1>12, <1>13, <1>14 DEF Promise!Next, Promise!AskFor

\* The activation makes the link live and supersedes its journey's live one.
LEMMA DeliverGoesLive ==
    ASSUME ApplicantInv, NEW c \in Call, pc[c] = "deliver", OthersStand(c), clock' = clock,
           Write(Activated(c))
    PROVE  Promise!Next
<1>1. /\ TypeOK /\ c \in Link /\ Current \in Records
      /\ Current[c] # None /\ Current[c].status = "sending"
  BY VersionsType DEF ApplicantInv, LinkStage, Link
<1>2. Current' = Activated(c)
  BY <1>1, ActivatedType, WriteShows
<1>3. \A l \in Link : Current[l] # None => Current[l] \in LinkRecord
  BY <1>1 DEF Records
<1>4. ASSUME NEW l \in Link, NEW s \in {"pending", "superseded"}, Current[l] # None,
             Current[l].status # "verified", Current'[l] = [Current[l] EXCEPT !.status = s]
      PROVE  Phases'[l] = s /\ Abouts'[l] = Abouts[l] /\ Uses'[l] = Uses[l]
  <2>1. /\ Current'[l] # None /\ Current'[l].status = s
        /\ Current'[l].journey = Current[l].journey
        /\ Current'[l].email = Current[l].email
        /\ Current'[l].createdAt = Current[l].createdAt
    <3>1. PICK d \in LinkRecord : Current[l] = d
      BY <1>3, <1>4
    <3>2. Current'[l] = [d EXCEPT !.status = s]
      BY <1>4, <3>1
    <3>3. [d EXCEPT !.status = s] \in LinkRecord
      BY DEF LinkRecord
    <3>4. Current'[l] # None
      BY <3>2, <3>3, NoDocumentAssumption
    <3>5. /\ Current'[l].status = s /\ Current'[l].journey = d.journey
          /\ Current'[l].email = d.email /\ Current'[l].createdAt = d.createdAt
      BY <3>2 DEF LinkRecord
    <3> QED BY <3>1, <3>4, <3>5
  <2>2. Phases'[l] = s /\ Uses'[l] = None
    BY <2>1, RecordShownNext
  <2>3. Uses[l] = None
    BY <1>4, RecordShown
  <2>4. Abouts[l] = [journey |-> Current[l].journey, email |-> Current[l].email,
                     at |-> Current[l].createdAt]
    BY <1>4, RecordShown
  <2>5. Abouts'[l] = [journey |-> Current'[l].journey, email |-> Current'[l].email,
                      at |-> Current'[l].createdAt]
    BY <2>1, RecordShownNext
  <2>6. Abouts'[l] = Abouts[l]
    BY <2>1, <2>4, <2>5
  <2> QED BY <2>2, <2>3, <2>6
<1>5. /\ Phases[c] = "sending" /\ Phases'[c] = "pending"
      /\ Abouts'[c] = Abouts[c] /\ Uses'[c] = Uses[c]
  <2>1. Current'[c] = [Current[c] EXCEPT !.status = "pending"]
    BY <1>1, <1>2 DEF Activated
  <2>2. Phases[c] = "sending"
    BY <1>1, RecordShown
  <2> QED BY <1>1, <1>4, <2>1, <2>2
<1>6. \A m \in Link \ {c} :
        /\ Phases'[m] = IF Phases[m] = "pending" /\ Abouts[m].journey = Abouts[c].journey
                        THEN "superseded" ELSE Phases[m]
        /\ Abouts'[m] = Abouts[m] /\ Uses'[m] = Uses[m]
  <2> SUFFICES ASSUME NEW m \in Link \ {c}
               PROVE  /\ Phases'[m] = IF Phases[m] = "pending" /\ Abouts[m].journey = Abouts[c].journey
                                      THEN "superseded" ELSE Phases[m]
                      /\ Abouts'[m] = Abouts[m] /\ Uses'[m] = Uses[m]
    OBVIOUS
  <2>1. Over(m)' <=> Over(m)
    BY DEF Over, OthersStand
  <2>2. Abouts[c].journey = Current[c].journey
    BY <1>1, RecordShown
  <2>3. CASE Current[m] # None /\ Current[m].status = "pending"
               /\ Current[m].journey = Current[c].journey
    <3>1. Current'[m] = [Current[m] EXCEPT !.status = "superseded"]
      BY <1>2, <2>3 DEF Activated
    <3>2. Phases[m] = "pending" /\ Abouts[m].journey = Abouts[c].journey
      BY <2>2, <2>3, RecordShown
    <3>3. Phases'[m] = "superseded" /\ Abouts'[m] = Abouts[m] /\ Uses'[m] = Uses[m]
      BY <1>4, <2>3, <3>1
    <3> QED BY <3>2, <3>3
  <2>4. CASE ~(Current[m] # None /\ Current[m].status = "pending"
               /\ Current[m].journey = Current[c].journey)
    <3>1. Current'[m] = Current[m]
      BY <1>2, <2>4 DEF Activated
    <3>2. Phases'[m] = Phases[m] /\ Abouts'[m] = Abouts[m] /\ Uses'[m] = Uses[m]
      BY <2>1, <3>1, SameShown
    <3>3. Current[m] = None => Phases[m] # "pending"
      BY NoneShown
    <3>4. Current[m] # None =>
            Phases[m] = Current[m].status /\ Abouts[m].journey = Current[m].journey
      BY RecordShown
    <3>5. ~(Phases[m] = "pending" /\ Abouts[m].journey = Abouts[c].journey)
      BY <2>2, <2>4, <3>3, <3>4
    <3> QED BY <3>2, <3>5
  <2> QED BY <2>3, <2>4
<1>7. Phases' = [m \in Link |->
                   IF m = c THEN "pending"
                   ELSE IF Phases[m] = "pending" /\ Abouts[m].journey = Abouts[c].journey
                   THEN "superseded" ELSE Phases[m]]
  BY <1>5, <1>6 DEF Phases
<1>8. Abouts' = Abouts /\ Uses' = Uses
  BY <1>5, <1>6 DEF Abouts, Uses
<1> QED BY <1>1, <1>5, <1>7, <1>8 DEF Promise!Next, Promise!GoLive

\* The undoing drops the record.
LEMMA DropGivesUp ==
    ASSUME ApplicantInv, NEW c \in Call, pc[c] = "deliver", OthersStand(c), clock' = clock,
           pc'[c] = "done", ask' = ask, Write([Current EXCEPT ![c] = None])
    PROVE  Promise!Next
<1> DEFINE records == [Current EXCEPT ![c] = None]
<1>1. /\ TypeOK /\ c \in Link /\ Current \in Records /\ CallStage(c) /\ Write(records)
      /\ Current[c] # None /\ Current[c].status = "sending"
  BY VersionsType DEF ApplicantInv, LinkStage, Link
<1>2. records \in Records /\ records[c] = None /\ \A l \in Link \ {c} : records[l] = Current[l]
  BY <1>1 DEF Records
<1> HIDE DEF records
<1>3. Current' = records
  BY <1>1, <1>2, WriteShows
<1>4. Over(c)'
  <2>1. "deliver" \in StepsOf(ask[c].kind) /\ ask[c].kind \in Kind
    BY <1>1, RequestType DEF CallStage, Request
  <2>2. ask[c].kind = "send"
    BY <2>1 DEF StepsOf, Kind, Event
  <2> QED BY <2>2 DEF Over
<1>5. Phases[c] = "sending" /\ Uses[c] = None
  BY <1>1, RecordShown
<1>6. Phases'[c] = "gone" /\ Abouts'[c] = None /\ Uses'[c] = None
  BY <1>1, <1>2, <1>3, <1>4, NoneShownNext
<1>7. /\ Phases' = [Phases EXCEPT ![c] = Phases'[c]]
      /\ Abouts' = [Abouts EXCEPT ![c] = Abouts'[c]]
      /\ Uses' = [Uses EXCEPT ![c] = Uses'[c]]
  BY <1>2, <1>3, OneShown
<1>8. Uses' = Uses
  BY <1>5, <1>6, <1>7 DEF Uses
<1> QED BY <1>1, <1>5, <1>6, <1>7, <1>8 DEF Promise!Next, Promise!GiveUp

\* The one update that finds the link pending and in time verifies it.
LEMMA VerifyUses ==
    ASSUME ApplicantInv, Begun, NEW c \in Call, pc[c] = "verify", pc'[c] = "done" => ask[c].kind # "send",
           OthersStand(c), ask' = ask, clock' = clock,
           NEW l \in Link, Verifiable(Current[l], began[c]),
           Write([Current EXCEPT ![l] = Used(Current[l], began[c])])
    PROVE  Promise!Next
<1> DEFINE records == [Current EXCEPT ![l] = Used(Current[l], began[c])]
<1>1. /\ TypeOK /\ Current \in Records /\ Write(records)
      /\ Current[l] # None /\ Current[l].status = "pending" /\ Current[l] \in LinkRecord
  BY VersionsType DEF ApplicantInv, Verifiable, Records
<1>2. PICK time \in Nat : began[c] = time
  BY <1>1, ApplicantTimesAssumption DEF TypeOK
<1>3. time \in 0..clock
  <2>1. time <= clock /\ clock \in Nat
    BY <1>1, <1>2, ApplicantTimesAssumption DEF Begun, TypeOK
  <2> QED BY <2>1
<1>4. time < Current[l].createdAt + LinkTtl
  <2>1. Current[l].createdAt \in Nat /\ LinkTtl \in Nat
    BY <1>1, ApplicantTimesAssumption DEF LinkRecord
  <2> QED BY <1>2, <2>1 DEF Verifiable, ExpiresAt
<1> DEFINE d == Used(Current[l], began[c])
<1>5. /\ d \in LinkRecord /\ d # None /\ d.status = "verified" /\ d.verifiedAt = time
      /\ d.journey = Current[l].journey /\ d.email = Current[l].email
      /\ d.createdAt = Current[l].createdAt
  BY <1>1, <1>2, NoDocumentAssumption DEF LinkRecord, Used
<1> HIDE DEF d
<1>6. records \in Records /\ records[l] = d /\ \A m \in Link \ {l} : records[m] = Current[m]
  BY <1>1, <1>5 DEF Records, d
<1> HIDE DEF records
<1>7. Current' = records
  BY <1>1, <1>6, WriteShows
<1>8. Current'[l] = d /\ \A m \in Link \ {l} : Current'[m] = Current[m]
  BY <1>6, <1>7
<1>9. \A m \in Link : Over(m)' <=> Over(m)
  BY DEF Over, OthersStand
<1>10. \A m \in Link \ {l} :
         Phases'[m] = Phases[m] /\ Abouts'[m] = Abouts[m] /\ Uses'[m] = Uses[m]
  BY <1>8, <1>9, SameShown
<1>11. Phases[l] = "pending" /\ Abouts[l].at = Current[l].createdAt
  BY <1>1, RecordShown
<1>12. Phases'[l] = "verified" /\ Uses'[l] = time
  BY <1>5, <1>8, RecordShownNext
<1>13. Abouts'[l] = Abouts[l]
  <2>1. Abouts[l] = [journey |-> Current[l].journey, email |-> Current[l].email,
                     at |-> Current[l].createdAt]
    BY <1>1, RecordShown
  <2>2. Abouts'[l] = [journey |-> d.journey, email |-> d.email, at |-> d.createdAt]
    BY <1>5, <1>8, RecordShownNext
  <2> QED BY <1>5, <2>1, <2>2
<1>14. Phases' = [Phases EXCEPT ![l] = "verified"]
  BY <1>10, <1>12 DEF Phases
<1>15. Uses' = [Uses EXCEPT ![l] = Uses'[l]]
  BY <1>10 DEF Uses
<1>16. Abouts' = Abouts
  BY <1>10, <1>13 DEF Abouts
<1> QED BY <1>3, <1>4, <1>11, <1>12, <1>14, <1>15, <1>16 DEF Promise!Next, Promise!Use

\* When the service starts, an earlier link is there or not.
LEMMA PromiseInit == Init => Promise!Init
<1> SUFFICES ASSUME Init PROVE Promise!Init
  OBVIOUS
<1>1. PICK e \in EarlierLinks : log = <<[l \in Link |-> IF l = Earlier THEN e ELSE None]>>
  BY DEF Init
<1>2. /\ Current[Earlier] = e /\ Earlier \in Link
      /\ \A l \in Link \ {Earlier} : Current[l] = None
  BY <1>1 DEF Current, Link
<1>3. \A l \in Link : ~Over(l)
  BY DEF Init, Over
<1>4. \A l \in Link \ {Earlier} : Phases[l] = "none" /\ Abouts[l] = None /\ Uses[l] = None
  BY <1>2, <1>3, NoneShown
<1> DEFINE d == [journey |-> Anyone, createdAt |-> 0, verifiedAt |-> 0,
                 email |-> AnyEmail, status |-> "verified"]
           a == [journey |-> Anyone, email |-> AnyEmail, at |-> 0]
<1>5. e = None \/ e = d \/ e = Sent(d)
  BY DEF EarlierLinks
<1>6. a \in Promise!AskedBy(0)
  BY AnybodyType DEF Promise!AskedBy
<1>7. CASE e = None
  <2>1. Phases[Earlier] = "none" /\ Abouts[Earlier] = None /\ Uses[Earlier] = None
    BY <1>2, <1>3, <1>7, NoneShown
  <2> QED BY <1>4, <2>1 DEF Promise!Init, Init, Phases, Abouts, Uses
<1>8. ASSUME NEW s \in {"pending", "verified"}, e # None, e.status = s,
             e.journey = Anyone, e.email = AnyEmail, e.createdAt = 0, e.verifiedAt = 0
      PROVE  Promise!Init
  <2>1. /\ Phases[Earlier] = s
        /\ Uses[Earlier] = IF s = "verified" THEN 0 ELSE None
    BY <1>2, <1>8, RecordShown
  <2>2. Abouts[Earlier] = a
    BY <1>2, <1>8, RecordShown
  <2> HIDE DEF a
  <2>3. Phases \in [Link -> {"none", "pending", "verified"}]
    BY <1>4, <2>1 DEF Phases
  <2>4. Abouts \in [Link -> {None} \cup Promise!AskedBy(0)]
    BY <1>4, <1>6, <2>2 DEF Abouts
  <2>5. Uses = [l \in Link |-> IF Phases[l] = "verified" THEN 0 ELSE None]
    BY <1>4, <2>1 DEF Uses
  <2>6. \A l \in Link : Abouts[l] \in IF Phases[l] = "none" THEN {None} ELSE Promise!AskedBy(0)
    BY <1>4, <1>6, <2>1, <2>2
  <2>7. \A l \in Link : Phases[l] # "none" => l = Earlier
    BY <1>4
  <2> QED BY <2>3, <2>4, <2>5, <2>6, <2>7 DEF Promise!Init, Init
<1>9. CASE e = d
  <2>1. d \in LinkRecord
    BY AnybodyType DEF LinkRecord
  <2>2. e # None
    BY <1>9, <2>1, NoDocumentAssumption
  <2> QED BY <1>8, <1>9, <2>2
<1>10. CASE e = Sent(d)
  <2>1. Sent(d) \in LinkRecord
    BY AnybodyType DEF LinkRecord, Sent
  <2>2. e # None
    BY <1>10, <2>1, NoDocumentAssumption
  <2>3. /\ e.status = "pending" /\ e.journey = Anyone /\ e.email = AnyEmail
        /\ e.createdAt = 0 /\ e.verifiedAt = 0
    BY <1>10 DEF Sent
  <2> QED BY <1>8, <2>2, <2>3
<1> QED BY <1>5, <1>7, <1>9, <1>10

\* The links of the API implement JourneyLinks: whichever calls overlap, fail or
\* are not heard (routes/email-verification.js and what it calls), each step is
\* one of its steps or shows nothing of the links.
THEOREM LinksPromised == Spec => LinksAsPromised
<1>1. ApplicantInv /\ Begun /\ [Next]_vars => [Promise!Next]_(Promise!vars)
  <2> SUFFICES ASSUME ApplicantInv, Begun, [Next]_vars
               PROVE  Promise!Next \/ UNCHANGED Promise!vars
    OBVIOUS
  <2>t. TypeOK
    BY DEF ApplicantInv
  <2>p. DOMAIN pc = Call /\ DOMAIN ask = Call
    BY <2>t DEF TypeOK
  <2>1. CASE UNCHANGED <<pc, ask>> /\ Current' = Current /\ (UNCHANGED clock \/ Tick)
    <3>2. \A l \in Link : Over(l)' <=> Over(l)
      BY <2>1 DEF Over
    <3>3. \A l \in Link : Phases'[l] = Phases[l] /\ Abouts'[l] = Abouts[l] /\ Uses'[l] = Uses[l]
      BY <2>1, <3>2, SameShown
    <3>4. UNCHANGED <<Phases, Abouts, Uses>>
      BY <3>3 DEF Phases, Abouts, Uses
    <3>5. CASE UNCHANGED clock
      BY <3>4, <3>5 DEF Promise!vars
    <3>6. CASE Tick
      BY <3>4, <3>6 DEF Tick, Promise!Next, Promise!Tick
    <3> QED BY <2>1, <3>5, <3>6
  <2>2. ASSUME NEW c \in Call, NEW q \in Requests, Receive(c, q)
        PROVE  Promise!Next \/ UNCHANGED Promise!vars
    <3>1. pc[c] = "idle" /\ log' = log /\ clock' = clock /\ OthersStand(c)
      BY <2>p, <2>2 DEF Receive, Answer, OthersStand
    <3> QED BY <2>t, <3>1, NoWriteShown
  <2>3. ASSUME NEW c \in Call, NEW r \in OwnReferences, NEW o \in Outcomes(r), TryReference(c, r, o)
        PROVE  Promise!Next \/ UNCHANGED Promise!vars
    <3>1. pc[c] = "save" /\ log' = log /\ clock' = clock /\ OthersStand(c)
      BY <2>p, <2>3 DEF TryReference, Answer, OthersStand
    <3> QED BY <2>t, <3>1, NoWriteShown
  <2>4. ASSUME NEW c \in Call, RecordEvent(c) \/ CheckGate(c) \/ Explain(c)
        PROVE  Promise!Next \/ UNCHANGED Promise!vars
    <3>1. pc[c] # "done" /\ log' = log /\ clock' = clock /\ OthersStand(c)
      BY <2>p, <2>4 DEF RecordEvent, CheckGate, Explain, Answer, Goto, OthersStand
    <3> QED BY <2>t, <3>1, NoWriteShown
  <2>5. ASSUME NEW c \in Call, Look(c) \/ Judge(c) \/ Fails(c)
        PROVE  Promise!Next \/ UNCHANGED Promise!vars
    <3>1. pc[c] # "done" /\ log' = log /\ clock' = clock /\ OthersStand(c)
      BY <2>p, <2>5 DEF Look, Judge, Fails, Answer, Goto, OthersStand
    <3> QED BY <2>t, <3>1, NoWriteShown
  <2>6. ASSUME NEW c \in Call, Reserve(c)
        PROVE  Promise!Next \/ UNCHANGED Promise!vars
    <3>1. pc[c] = "send" /\ ask' = ask /\ clock' = clock /\ OthersStand(c)
      BY <2>p, <2>6 DEF Reserve, Answer, Goto, OthersStand
    <3>2. CASE log' = log
      BY <2>t, <3>1, <3>2, NoWriteShown
    <3>3. CASE log' # log
      BY <2>6, <3>1, <3>3, ReserveAsks DEF Reserve
    <3> QED BY <3>2, <3>3
  <2>7. ASSUME NEW c \in Call, Deliver(c) \/ NotifyFails(c)
        PROVE  Promise!Next \/ UNCHANGED Promise!vars
    <3>1. /\ pc[c] = "deliver" /\ pc'[c] = "done" /\ ask' = ask /\ clock' = clock
          /\ OthersStand(c)
      BY <2>p, <2>7 DEF Deliver, NotifyFails, Answer, OthersStand
    <3>2. log' = log \/ Write(Activated(c)) \/ Write([Current EXCEPT ![c] = None])
      BY <2>7 DEF Deliver, NotifyFails
    <3>3. CASE log' = log
      BY <2>t, <3>1, <3>3, NoWriteShown
    <3>4. CASE Write(Activated(c))
      BY <3>1, <3>4, DeliverGoesLive
    <3>5. CASE Write([Current EXCEPT ![c] = None])
      BY <3>1, <3>5, DropGivesUp
    <3> QED BY <3>2, <3>3, <3>4, <3>5
  <2>8. ASSUME NEW c \in Call, Verify(c) \/ VerifiedUnheard(c)
        PROVE  Promise!Next \/ UNCHANGED Promise!vars
    <3>1. pc[c] = "verify" /\ ask' = ask /\ clock' = clock /\ OthersStand(c)
      BY <2>p, <2>8 DEF Verify, VerifiedUnheard, Answer, Goto, OthersStand
    <3>2. CASE log' = log
      BY <2>t, <3>1, <3>2, NoWriteShown
    <3>3. CASE log' # log
      <4>1. /\ ask[c].link \in Link \cup {None}
            /\ "verify" \in StepsOf(ask[c].kind) /\ ask[c].kind \in Kind
        BY <3>1, RequestType DEF ApplicantInv, CallStage, Request
      <4>2. ask[c].kind # "send"
        BY <4>1 DEF StepsOf, Kind, Event
      <4>3. /\ ask[c].link # None
            /\ Verifiable(Current[ask[c].link], began[c])
            /\ Write([Current EXCEPT ![ask[c].link] = Used(Current[ask[c].link], began[c])])
        BY <2>8, <3>3 DEF Verify, VerifiedUnheard, Verifiable
      <4>4. PICK l \in Link : ask[c].link = l
        BY <4>1, <4>3
      <4> QED BY <3>1, <4>2, <4>3, <4>4, VerifyUses
    <3> QED BY <3>2, <3>3
  <2>9. CASE Tick \/ (\E r \in SeedReference : Seed(r)) \/ DeleteSeed \/ UNCHANGED vars
    <3>1. UNCHANGED <<log, pc, ask>> /\ (UNCHANGED clock \/ Tick)
      BY <2>9 DEF Tick, Seed, DeleteSeed, vars
    <3>2. Current' = Current
      BY <2>t, <3>1, NoWrite
    <3> QED BY <2>1, <3>1, <3>2
  <2>10. CASE CatchUp
    <3>1. UNCHANGED <<pc, ask, clock>>
      BY <2>10 DEF CatchUp
    <3>2. Current' = Current
      BY <2>t, <2>10, CaughtUp DEF ApplicantInv
    <3> QED BY <2>1, <3>1, <3>2
  <2> QED BY <2>10, <2>2, <2>3, <2>4, <2>5, <2>6, <2>7, <2>8, <2>9 DEF Next
<1>2. Init => Begun
  BY DEF Init, Begun
<1>3. Spec => []Begun
  BY <1>2, BegunStep, ApplicantInvariance, PTL DEF Spec
<1> QED BY <1>1, <1>3, PromiseInit, ApplicantInvariance, PTL DEF Spec, LinksAsPromised, Promise!Spec

\* What is proved of the promise holds of the links of the API.
Kept == INSTANCE JourneyLinksProofs WITH
    Before <- {Earlier}, Email <- Spelling, Retention <- LinkTtl + VerifiedTtl,
    phase <- Phases, about <- Abouts, used <- Uses

LEMMA PromiseIsKept == Spec => Kept!Spec
<1>1. Promise!Init => Kept!Init
  BY DEF Promise!Init, Kept!Init, Promise!AskedBy, Kept!AskedBy
<1>2. [Promise!Next]_(Promise!vars) => [Kept!Next]_(Kept!vars)
  <2>1. UNCHANGED Promise!vars => UNCHANGED Kept!vars
    BY DEF Promise!vars, Kept!vars
  <2>2. Promise!Tick => Kept!Tick
    BY DEF Promise!Tick, Kept!Tick
  <2>3. ASSUME NEW l \in Link
        PROVE  /\ Promise!AskFor(l) => Kept!AskFor(l)
               /\ Promise!Forgo(l) => Kept!Forgo(l)
               /\ Promise!GiveUp(l) => Kept!GiveUp(l)
               /\ Promise!GoLive(l) => Kept!GoLive(l)
               /\ Promise!Use(l) => Kept!Use(l)
               /\ Promise!Expire(l) => Kept!Expire(l)
    BY DEF Promise!AskFor, Kept!AskFor, Promise!AskedBy, Kept!AskedBy, Promise!Forgo, Kept!Forgo,
           Promise!GiveUp, Kept!GiveUp, Promise!GoLive, Kept!GoLive, Promise!Use, Kept!Use,
           Promise!Expire, Kept!Expire
  <2>4. ASSUME NEW l \in Link, Phases'[l] # Phases[l],
               \/ Promise!AskFor(l) \/ Promise!Forgo(l) \/ Promise!GiveUp(l)
               \/ Promise!GoLive(l) \/ Promise!Use(l) \/ Promise!Expire(l)
        PROVE  Kept!Next
    <3>1. \/ Kept!AskFor(l) \/ Kept!Forgo(l) \/ Kept!GiveUp(l)
          \/ Kept!GoLive(l) \/ Kept!Use(l) \/ Kept!Expire(l)
      BY <2>3, <2>4
    <3> QED BY <2>4, <3>1 DEF Kept!Next
  <2>5. Promise!Tick => Kept!Next
    BY <2>2 DEF Kept!Next
  <2>6. Promise!Next => Kept!Next
    BY <2>4, <2>5 DEF Promise!Next
  <2> QED BY <2>1, <2>6
<1> QED BY <1>1, <1>2, LinksPromised, PTL DEF LinksAsPromised, Promise!Spec, Kept!Spec

\* However many calls ask for links at once, and whichever of them fail or are not
\* heard, a journey has one live link at most.
THEOREM ApiLiveOnce == Spec => []Kept!OneLive
BY PromiseIsKept, Kept!LiveOnce, PTL

\* No call brings back a link that was superseded or verified, nor changes what
\* was verified by it and when.
THEOREM ApiNoneComesBack == Spec => Kept!NeverBack
BY PromiseIsKept, Kept!NoneComesBack, PTL
=============================================================================
