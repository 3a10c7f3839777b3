------------------------- MODULE CaseOfficerApiProofs -------------------------
(***************************************************************************)
(* What CaseOfficerApi promises, for any number of calls, officers,        *)
(* requests, registrations and settings: its inductive invariant, and from *)
(* it who is served, exports, totals, versions and deletions.              *)
(***************************************************************************)
EXTENDS CaseOfficerApi, JourneyMetricsProofs

-----------------------------------------------------------------------------
(* Documents and versions                                                  *)

LEMMA DocFields ==
    ASSUME NEW w \in World, NEW s \in Session
    PROVE  /\ w[s].start \in Undated..MaxTime /\ w[s].end \in Undated..MaxTime
           /\ w[s].state \in {"none", "open", "registered", "not eligible"}
           /\ w[s].version \in {None} \cup (Nat \ {0})
           /\ w[s].deleted \in BOOLEAN
           /\ w[s].deleted => w[s].state = "registered"
           /\ w[s].state = "not eligible" => w[s].end # Undated
BY DEF World, Doc

LEMMA RegisteredType ==
    ASSUME NEW w
    PROVE  /\ Visible(w) \subseteq Registered(w) /\ Registered(w) \subseteq Session
           /\ IsFiniteSet(Registered(w)) /\ IsFiniteSet(Visible(w))
<1>1. Visible(w) \in SUBSET Session /\ Registered(w) \in SUBSET Session
  BY DEF Visible, Registered
<1>2. Visible(w) \subseteq Registered(w)
  BY DEF Visible
<1>3. IsFiniteSet(Session)
  BY SessionAssumption
<1> QED BY <1>1, <1>2, <1>3, FS_Subset

LEMMA FollowsItself == ASSUME NEW w PROVE Follows(w, w)
BY DEF Follows

LEMMA FollowsOn ==
    ASSUME NEW v, NEW w, NEW x, Follows(v, w), Follows(w, x)
    PROVE  Follows(v, x)
<1> SUFFICES ASSUME NEW s \in Registered(v)
             PROVE  \/ x[s] = v[s]
                    \/ /\ s \in Visible(v) /\ s \in Registered(x) \ Visible(x)
                       /\ x[s].end = v[s].end
  BY DEF Follows
<1>1. CASE w[s] = v[s]
  <2>1. s \in Registered(w) /\ (s \in Visible(w) <=> s \in Visible(v))
    BY <1>1 DEF Registered, Visible
  <2> QED BY <1>1, <2>1 DEF Follows
<1>2. CASE s \in Visible(v) /\ s \in Registered(w) \ Visible(w) /\ w[s].end = v[s].end
  <2>1. x[s] = w[s]
    BY <1>2 DEF Follows
  <2>2. s \in Registered(x) \ Visible(x)
    BY <1>2, <2>1 DEF Registered, Visible
  <2> QED BY <1>2, <2>1, <2>2
<1> QED BY <1>1, <1>2 DEF Follows

LEMMA LogType ==
    ASSUME TypeOK
    PROVE  /\ Len(log) \in Nat \ {0} /\ DOMAIN log = 1..Len(log)
           /\ Len(log) \in DOMAIN log /\ Current \in World
           /\ \A i \in DOMAIN log : log[i] \in World
BY SessionAssumption DEF TypeOK, Current

\* What a read may see is made of what was stored.
LEMMA ViewType ==
    ASSUME TypeOK, NEW v \in Views
    PROVE  v \in World /\ \A s \in Session : \E i \in DOMAIN log : v[s] = log[i][s]
<1>1. PICK version \in [Session -> DOMAIN log] : v = [s \in Session |-> log[version[s]][s]]
  BY DEF Views
<1>2. ASSUME NEW s \in Session
      PROVE  v[s] \in Doc /\ \E i \in DOMAIN log : v[s] = log[i][s]
  <2>1. version[s] \in DOMAIN log /\ v[s] = log[version[s]][s]
    BY <1>1
  <2>2. log[version[s]] \in World
    BY <2>1, LogType
  <2> QED BY <2>1, <2>2 DEF World
<1> QED BY <1>1, <1>2 DEF World

LEMMA WrittenLog ==
    ASSUME TypeOK, NEW x \in World, Write(x)
    PROVE  /\ log' \in Seq(World) /\ Len(log') \in 1..MaxWrites + 1
           /\ DOMAIN log' = 1..Len(log) + 1
           /\ \A i \in DOMAIN log : log'[i] = log[i]
           /\ log'[Len(log) + 1] = x /\ Current' = x
BY SessionAssumption DEF TypeOK, Write, Current

\* A document changed in a way that a registration may.
LEMMA LogStaysInOrder ==
    ASSUME TypeOK, LogInOrder, NEW x \in World, Write(x), Follows(Current, x)
    PROVE  LogInOrder'
<1> SUFFICES ASSUME NEW i \in DOMAIN log', NEW j \in DOMAIN log', i <= j
             PROVE  Follows(log'[i], log'[j])
  BY DEF LogInOrder
<1>1. Len(log) \in Nat \ {0} /\ DOMAIN log = 1..Len(log)
  BY LogType
<1>2. /\ DOMAIN log' = 1..Len(log) + 1
      /\ \A k \in DOMAIN log : log'[k] = log[k]
      /\ log'[Len(log) + 1] = x
  BY WrittenLog
<1>3. i \in DOMAIN log \/ i = Len(log) + 1
  BY <1>1, <1>2
<1>4. j \in DOMAIN log \/ j = Len(log) + 1
  BY <1>1, <1>2
<1>5. CASE i \in DOMAIN log /\ j \in DOMAIN log
  BY <1>2, <1>5 DEF LogInOrder
<1>6. CASE i \in DOMAIN log /\ j = Len(log) + 1
  <2>1. i <= Len(log) /\ Len(log) \in DOMAIN log
    BY <1>1, <1>6
  <2>2. Follows(log[i], Current)
    BY <1>6, <2>1 DEF LogInOrder, Current
  <2> QED BY <1>2, <1>6, <2>2, FollowsOn
<1>7. CASE i = Len(log) + 1
  <2>1. j = Len(log) + 1
    BY <1>1, <1>2, <1>7
  <2> QED BY <1>2, <1>7, <2>1, FollowsItself
<1> QED BY <1>3, <1>4, <1>5, <1>6, <1>7

-----------------------------------------------------------------------------
(* What steps leave alone                                                  *)

LEMMA SameStage ==
    ASSUME NEW c \in Call, CallStage(c),
           UNCHANGED <<settings, server>>, ask'[c] = ask[c], pc'[c] = pc[c],
           got'[c] = got[c], answer'[c] = answer[c]
    PROVE  CallStage(c)'
BY DEF CallStage

LEMMA SameReads ==
    ASSUME TypeOK, NEW c \in Call, ReadsAreTrue(c), settings' = settings,
           ask'[c] = ask[c], got'[c] = got[c],
           \A i \in DOMAIN log : i \in DOMAIN log' /\ log'[i] = log[i]
    PROVE  ReadsAreTrue(c)'
BY DEF ReadsAreTrue

\* What was said of a deletion stays true whatever else becomes of registrations.
LEMMA DeletionStands ==
    ASSUME TypeOK, NEW c \in Call, DeletionStage(c), NEW x \in World,
           Follows(Current, x), Write(x), ask'[c] = ask[c], answer'[c] = answer[c]
    PROVE  DeletionStage(c)'
<1>1. /\ DOMAIN log = 1..Len(log) /\ Len(log) \in DOMAIN log /\ Len(log) \in Nat
      /\ DOMAIN log' = 1..Len(log) + 1 /\ Current' = x
      /\ log'[Len(log) + 1] = x
      /\ \A i \in DOMAIN log : log'[i] = log[i]
  BY LogType, WrittenLog
<1> DEFINE s == ask[c].reference
           v == ask[c].version
<1>2. ASSUME ask[c].kind = "delete", answer[c].status = 200
      PROVE  s \in Registered(x) \ Visible(x) /\ x[s].version = v + 1
  <2>1. s \in Registered(Current) \ Visible(Current) /\ Current[s].version = v + 1
    BY <1>2 DEF DeletionStage
  <2>2. x[s] = Current[s]
    BY <2>1 DEF Follows
  <2> QED BY <2>1, <2>2 DEF Registered, Visible
<1>3. ASSUME ask[c].kind = "delete", answer[c].status = 409
      PROVE  /\ s \in Registered(x)
             /\ \A i \in DOMAIN log' : s \in Visible(log'[i]) => ~AtVersion(log'[i][s], v)
  <2>1. /\ s \in Registered(Current)
        /\ \A i \in DOMAIN log : s \in Visible(log[i]) => ~AtVersion(log[i][s], v)
    BY <1>3 DEF DeletionStage
  <2>2. x[s] = Current[s] \/ s \in Registered(x) \ Visible(x)
    BY <2>1 DEF Follows
  <2>3. s \in Registered(x)
    BY <2>1, <2>2 DEF Registered
  <2>4. s \in Visible(x) => ~AtVersion(x[s], v)
    <3> SUFFICES ASSUME s \in Visible(x) PROVE ~AtVersion(x[s], v)
      OBVIOUS
    <3>1. x[s] = Current[s]
      BY <2>2
    <3>2. s \in Visible(Current)
      BY <2>1, <3>1 DEF Visible
    <3> QED BY <1>1, <2>1, <3>1, <3>2 DEF Current
  <2>5. ASSUME NEW i \in DOMAIN log', s \in Visible(log'[i])
        PROVE  ~AtVersion(log'[i][s], v)
    <3>1. i \in DOMAIN log \/ i = Len(log) + 1
      BY <1>1
    <3>2. CASE i \in DOMAIN log
      BY <1>1, <2>1, <2>5, <3>2
    <3>3. CASE i = Len(log) + 1
      BY <1>1, <2>4, <2>5, <3>3
    <3> QED BY <3>1, <3>2, <3>3
  <2> QED BY <2>3, <2>5
<1> QED BY <1>1, <1>2, <1>3 DEF DeletionStage

LEMMA DeletionStandsStill ==
    ASSUME NEW c \in Call, DeletionStage(c), log' = log,
           ask'[c] = ask[c], answer'[c] = answer[c]
    PROVE  DeletionStage(c)'
BY DEF DeletionStage, Current

-----------------------------------------------------------------------------
(* The start, the clock and the applicants                                 *)

LEMMA InitHolds == Init => OfficerInv
<1> SUFFICES ASSUME Init PROVE OfficerInv
  OBVIOUS
<1>1. PICK w \in InitialWorlds : log = <<w>>
  BY DEF Init
<1>2. w \in World
  BY WorldAssumption
<1>3. log \in Seq(World) /\ Len(log) = 1 /\ log[1] = w /\ DOMAIN log = {1}
  BY <1>1, <1>2
<1>4. TypeOK
  BY <1>3, SessionAssumption DEF Init, TypeOK
<1>5. LogInOrder
  BY <1>3, FollowsItself DEF LogInOrder
<1>6. ASSUME NEW c \in Call
      PROVE  ReadsAreTrue(c) /\ CallStage(c) /\ DeletionStage(c)
  <2>1. /\ pc[c] = "idle" /\ ask[c] = [kind |-> "none"] /\ got[c] = Nothing
        /\ answer[c] = [status |-> 0] /\ DOMAIN Nothing = {}
    BY DEF Init, Nothing
  <2> QED BY <2>1 DEF ReadsAreTrue, CallStage, DeletionStage
<1>7. \A c \in Call : ~Served(c, "delete")
  BY DEF Init, Served
<1>8. server # "up"
  BY DEF Init
<1> QED BY <1>4, <1>5, <1>6, <1>7, <1>8 DEF OfficerInv

LEMMA StartStep ==
    ASSUME OfficerInv, Start
    PROVE  OfficerInv'
<1>1. /\ UNCHANGED <<settings, clock, log, pc, ask, got, answer>>
      /\ server = "down" /\ server' \in {"up", "refused"}
      /\ server' = "up" => StartupAllowed(settings)
  BY DEF Start
<1>2. TypeOK'
  BY <1>1 DEF OfficerInv, TypeOK
<1>3. LogInOrder'
  BY <1>1 DEF OfficerInv, LogInOrder
<1>4. ASSUME NEW c \in Call
      PROVE  ReadsAreTrue(c)' /\ CallStage(c)' /\ DeletionStage(c)'
  <2>1. ReadsAreTrue(c) /\ CallStage(c) /\ DeletionStage(c)
    BY DEF OfficerInv
  <2>2. CallStage(c)'
    BY <1>1, <2>1 DEF CallStage
  <2>3. ReadsAreTrue(c)'
    BY <1>1, <2>1 DEF ReadsAreTrue
  <2> QED BY <1>1, <2>1, <2>2, <2>3, DeletionStandsStill
<1> QED BY <1>1, <1>2, <1>3, <1>4 DEF OfficerInv, Served

LEMMA TickStep ==
    ASSUME OfficerInv, Tick \/ UNCHANGED vars
    PROVE  OfficerInv'
<1>1. /\ UNCHANGED <<settings, server, log, pc, ask, got, answer>>
      /\ clock' \in FirstDay..MaxTime
  BY SessionAssumption DEF OfficerInv, TypeOK, Tick, vars
<1>2. TypeOK'
  BY <1>1 DEF OfficerInv, TypeOK
<1>3. LogInOrder'
  BY <1>1 DEF OfficerInv, LogInOrder
<1>4. ASSUME NEW c \in Call
      PROVE  ReadsAreTrue(c)' /\ CallStage(c)' /\ DeletionStage(c)'
  <2>1. ReadsAreTrue(c) /\ CallStage(c) /\ DeletionStage(c)
    BY DEF OfficerInv
  <2>2. ReadsAreTrue(c)'
    BY <1>1, <2>1 DEF ReadsAreTrue
  <2> QED BY <1>1, <2>1, <2>2, SameStage, DeletionStandsStill
<1> QED BY <1>1, <1>2, <1>3, <1>4 DEF OfficerInv, Served

\* An applicant's journey goes on, up to its registration.
LEMMA JourneyStep ==
    ASSUME OfficerInv, NEW s \in Session, s \notin Registered(Current), NEW d \in Doc,
           Write([Current EXCEPT ![s] = d]), UNCHANGED applicants
    PROVE  OfficerInv'
<1> DEFINE x == [Current EXCEPT ![s] = d]
<1>1. TypeOK /\ LogInOrder /\ Current \in World
  BY LogType DEF OfficerInv
<1>2. x \in World
  BY <1>1 DEF World
<1>3. Follows(Current, x)
  <2>1. \A r \in Registered(Current) : x[r] = Current[r]
    BY <1>1 DEF World, Registered
  <2> QED BY <2>1 DEF Follows
<1>4. Write(x) /\ UNCHANGED <<settings, server, clock, pc, ask, got, answer>>
  BY DEF applicants
<1> HIDE DEF x
<1>5. TypeOK'
  <2>1. log' \in Seq(World) /\ Len(log') \in 1..MaxWrites + 1
    BY <1>1, <1>2, <1>4, WrittenLog
  <2> QED BY <1>1, <1>4, <2>1 DEF TypeOK
<1>6. LogInOrder'
  BY <1>1, <1>2, <1>3, <1>4, LogStaysInOrder
<1>7. \A i \in DOMAIN log : i \in DOMAIN log' /\ log'[i] = log[i]
  BY <1>1, <1>2, <1>4, LogType, WrittenLog
<1>8. ASSUME NEW c \in Call
      PROVE  ReadsAreTrue(c)' /\ CallStage(c)' /\ DeletionStage(c)'
  <2>1. ReadsAreTrue(c) /\ CallStage(c) /\ DeletionStage(c)
    BY DEF OfficerInv
  <2>2. ReadsAreTrue(c)'
    BY <1>1, <1>4, <1>7, <2>1, SameReads
  <2>3. CallStage(c)'
    BY <1>4, <2>1, SameStage
  <2>4. DeletionStage(c)'
    BY <1>1, <1>2, <1>3, <1>4, <2>1, DeletionStands
  <2> QED BY <2>2, <2>3, <2>4
<1> QED BY <1>4, <1>5, <1>6, <1>8 DEF OfficerInv, Served

LEMMA NextDoc ==
    ASSUME NEW d \in Doc, d.state # "registered", NEW t \in Undated..MaxTime
    PROVE  /\ [d EXCEPT !.state = "open", !.start = t] \in Doc
           /\ [d EXCEPT !.state = "registered", !.end = t, !.version = 1] \in Doc
           /\ t # Undated => [d EXCEPT !.state = "not eligible", !.end = t] \in Doc
<1>1. [d EXCEPT !.state = "open", !.start = t] \in Doc
  BY DEF Doc
<1> DEFINE v == 1
<1>2. v \in {None} \cup (Nat \ {0})
  OBVIOUS
<1> HIDE DEF v
<1>3. [d EXCEPT !.state = "registered", !.end = t, !.version = v] \in Doc
  BY <1>2 DEF Doc
<1>4. [d EXCEPT !.state = "registered", !.end = t, !.version = 1] \in Doc
  BY <1>3 DEF v
<1>5. t # Undated => [d EXCEPT !.state = "not eligible", !.end = t] \in Doc
  BY DEF Doc
<1> QED BY <1>1, <1>4, <1>5

LEMMA DayType ==
    ASSUME NEW n \in 0..MaxTime
    PROVE  {n, Undated} \cup ({n - 1, n} \cap Nat) \subseteq Undated..MaxTime
BY SessionAssumption DEF Undated

LEMMA ApplicantStep ==
    ASSUME OfficerInv, NEW s \in Session, Begin(s) \/ Submit(s) \/ NotEligible(s)
    PROVE  OfficerInv'
<1>1. Current \in World /\ clock \in 0..MaxTime
  BY LogType, SessionAssumption DEF OfficerInv, TypeOK
<1>2. Current[s] \in Doc /\ DOMAIN Current = Session
  BY <1>1 DEF World
<1>3. Current[s].state \in {"none", "open"} /\ UNCHANGED applicants
  BY DEF Begin, Submit, NotEligible, applicants
<1>4. s \notin Registered(Current) /\ Current[s].state # "registered"
  BY <1>3 DEF Registered
<1>5. CASE Begin(s)
  <2>1. PICK day \in {clock, Undated} :
            Write([Current EXCEPT ![s].state = "open", ![s].start = day])
    BY <1>5 DEF Begin
  <2> DEFINE d == [Current[s] EXCEPT !.state = "open", !.start = day]
  <2>2. day \in Undated..MaxTime
    BY <1>1, DayType
  <2>3. d \in Doc
    BY <1>2, <1>4, <2>2, NextDoc
  <2>4. [Current EXCEPT ![s].state = "open", ![s].start = day] = [Current EXCEPT ![s] = d]
    BY <1>2
  <2> QED BY <1>3, <1>4, <2>1, <2>3, <2>4, JourneyStep
<1>6. CASE Submit(s)
  <2>1. PICK day \in {clock - 1, clock} \cap Nat :
            Write([Current EXCEPT ![s].state = "registered", ![s].end = day, ![s].version = 1])
    BY <1>6 DEF Submit
  <2> DEFINE d == [Current[s] EXCEPT !.state = "registered", !.end = day, !.version = 1]
  <2>2. day \in Undated..MaxTime
    BY <1>1, DayType
  <2>3. d \in Doc
    BY <1>2, <1>4, <2>2, NextDoc
  <2>4. [Current EXCEPT ![s].state = "registered", ![s].end = day, ![s].version = 1]
            = [Current EXCEPT ![s] = d]
    BY <1>2
  <2> QED BY <1>3, <1>4, <2>1, <2>3, <2>4, JourneyStep
<1>7. CASE NotEligible(s)
  <2>1. Write([Current EXCEPT ![s].state = "not eligible", ![s].end = clock])
    BY <1>7 DEF NotEligible
  <2> DEFINE d == [Current[s] EXCEPT !.state = "not eligible", !.end = clock]
  <2>2. clock \in Undated..MaxTime /\ clock # Undated
    BY <1>1, DayType DEF Undated
  <2>3. d \in Doc
    BY <1>2, <1>4, <2>2, NextDoc
  <2>4. [Current EXCEPT ![s].state = "not eligible", ![s].end = clock]
            = [Current EXCEPT ![s] = d]
    BY <1>2
  <2> QED BY <1>3, <1>4, <2>1, <2>3, <2>4, JourneyStep
<1> QED BY <1>5, <1>6, <1>7

-----------------------------------------------------------------------------
(* The calls                                                               *)

\* A step of one call that deletes nothing.
LEMMA CallStep ==
    ASSUME OfficerInv, NEW c \in Call, UNCHANGED <<settings, server, clock, log>>,
           pc' \in [Call -> {"idle", "reading", "deleting", "done"}],
           DOMAIN ask' = Call, DOMAIN got' = Call, DOMAIN answer' = Call,
           \A d \in Call \ {c} : /\ pc'[d] = pc[d] /\ ask'[d] = ask[d]
                                 /\ got'[d] = got[d] /\ answer'[d] = answer[d],
           ReadsAreTrue(c)', CallStage(c)', DeletionStage(c)', ~Served(c, "delete")'
    PROVE  OfficerInv'
<1>1. TypeOK'
  BY DEF OfficerInv, TypeOK
<1>2. LogInOrder'
  BY DEF OfficerInv, LogInOrder
<1>3. server' = "up" => StartupAllowed(settings')
  BY DEF OfficerInv
<1>4. ASSUME NEW d \in Call
      PROVE  ReadsAreTrue(d)' /\ CallStage(d)' /\ DeletionStage(d)'
  <2>1. TypeOK /\ ReadsAreTrue(d) /\ CallStage(d) /\ DeletionStage(d)
    BY DEF OfficerInv
  <2>2. CASE d # c
    <3>1. ReadsAreTrue(d)'
      BY <2>1, <2>2, SameReads
    <3>2. CallStage(d)'
      BY <2>1, <2>2, SameStage
    <3>3. DeletionStage(d)'
      BY <2>1, <2>2, DeletionStandsStill
    <3> QED BY <3>1, <3>2, <3>3
  <2> QED BY <2>2
<1>5. ASSUME NEW a \in Call, NEW b \in Call, Served(a, "delete")', Served(b, "delete")',
             ask'[b].reference = ask'[a].reference
      PROVE  a = b
  <2>1. a # c /\ b # c
    BY <1>5
  <2>2. Served(a, "delete") /\ Served(b, "delete") /\ ask[b].reference = ask[a].reference
    BY <1>5, <2>1 DEF Served
  <2> QED BY <2>2 DEF OfficerInv
<1> QED BY <1>1, <1>2, <1>3, <1>4, <1>5 DEF OfficerInv

LEMMA AdmissionOf ==
    ASSUME NEW st, NEW t
    PROVE  Admission(st, t) \in {200, 401, 403}
BY DEF Admission

LEMMA ReceiveStep ==
    ASSUME OfficerInv, NEW c \in Call, NEW q \in Request, Receive(c, q)
    PROVE  OfficerInv'
<1> DEFINE status == Admission(settings, q.token)
<1>1. /\ TypeOK /\ CallStage(c) /\ pc[c] = "idle" /\ server = "up"
      /\ UNCHANGED <<settings, server, clock, log, got>>
      /\ ask' = [ask EXCEPT ![c] = q]
  BY DEF OfficerInv, Receive
<1>2. got[c] = Nothing /\ DOMAIN Nothing = {} /\ answer[c] = [status |-> 0]
  BY <1>1 DEF CallStage, Nothing
<1>3. q \in Requests
  BY RequestAssumption
<1>4. /\ DOMAIN ask' = Call /\ DOMAIN got' = Call
      /\ \A d \in Call \ {c} : ask'[d] = ask[d] /\ got'[d] = got[d]
      /\ ask'[c] = q /\ got'[c] = Nothing
  BY <1>1, <1>2 DEF TypeOK
<1>5. ReadsAreTrue(c)'
  BY <1>2, <1>4 DEF ReadsAreTrue
<1>6. /\ status \in {200, 401, 403}
      /\ status # 200 => Answer(c, [status |-> status])
      /\ status = 200 =>
           \/ Answer(c, [status |-> 400])
           \/ q.kind = "whoami" /\ Answer(c, [status |-> 200])
           \/ /\ RequestValid(settings, q) /\ q.kind # "whoami" /\ UNCHANGED answer
              /\ pc' = [pc EXCEPT ![c] = IF q.kind = "delete" THEN "deleting" ELSE "reading"]
  BY AdmissionOf DEF Receive
<1> HIDE DEF status
<1>7. ASSUME NEW n \in {200, 400, 401, 403}, Answer(c, [status |-> n]),
             n \in {200, 400} => status = 200,
             n = 200 => q.kind = "whoami"
      PROVE  OfficerInv'
  <2>1. /\ pc' \in [Call -> {"idle", "reading", "deleting", "done"}]
        /\ DOMAIN answer' = Call
        /\ \A d \in Call \ {c} : pc'[d] = pc[d] /\ answer'[d] = answer[d]
        /\ pc'[c] = "done" /\ answer'[c] = [status |-> n]
    BY <1>1, <1>7 DEF TypeOK, Answer
  <2>2. answer'[c].status = n
    BY <2>1
  <2>3. CallStage(c)'
    BY <1>1, <1>2, <1>3, <1>4, <1>7, <2>1, <2>2 DEF CallStage, status
  <2>4. DeletionStage(c)' /\ ~Served(c, "delete")'
    BY <1>4, <1>7, <2>2 DEF DeletionStage, Served
  <2> QED BY <1>1, <1>4, <1>5, <2>1, <2>3, <2>4, CallStep
<1>8. ASSUME status = 200, RequestValid(settings, q), q.kind # "whoami", UNCHANGED answer,
             pc' = [pc EXCEPT ![c] = IF q.kind = "delete" THEN "deleting" ELSE "reading"]
      PROVE  OfficerInv'
  <2>1. /\ pc' \in [Call -> {"idle", "reading", "deleting", "done"}]
        /\ DOMAIN answer' = Call
        /\ \A d \in Call \ {c} : pc'[d] = pc[d] /\ answer'[d] = answer[d]
        /\ pc'[c] = IF q.kind = "delete" THEN "deleting" ELSE "reading"
        /\ answer'[c] = [status |-> 0]
    BY <1>1, <1>2, <1>8 DEF TypeOK
  <2>2. answer'[c].status = 0
    BY <2>1
  <2>3. CallStage(c)'
    BY <1>1, <1>2, <1>3, <1>4, <1>8, <2>1, <2>2 DEF CallStage, status
  <2>4. DeletionStage(c)' /\ ~Served(c, "delete")'
    BY <2>2 DEF DeletionStage, Served
  <2> QED BY <1>1, <1>4, <1>5, <2>1, <2>3, <2>4, CallStep
<1> QED BY <1>6, <1>7, <1>8

LEMMA FailsStep ==
    ASSUME OfficerInv, NEW c \in Call, Fails(c)
    PROVE  OfficerInv'
<1>1. /\ TypeOK /\ CallStage(c) /\ pc[c] \in {"deleting", "reading"}
      /\ UNCHANGED <<settings, server, clock, log, ask>>
      /\ Answer(c, [status |-> 500]) /\ got' = [got EXCEPT ![c] = Nothing]
  BY DEF OfficerInv, Fails
<1>2. /\ pc' \in [Call -> {"idle", "reading", "deleting", "done"}]
      /\ DOMAIN answer' = Call /\ DOMAIN got' = Call /\ DOMAIN ask' = Call
      /\ \A d \in Call \ {c} : /\ pc'[d] = pc[d] /\ answer'[d] = answer[d]
                               /\ got'[d] = got[d] /\ ask'[d] = ask[d]
      /\ pc'[c] = "done" /\ answer'[c] = [status |-> 500]
      /\ got'[c] = Nothing /\ ask'[c] = ask[c]
  BY <1>1 DEF TypeOK, Answer
<1>3. answer'[c].status = 500 /\ DOMAIN Nothing = {}
  BY <1>2 DEF Nothing
<1>4. ReadsAreTrue(c)'
  BY <1>2, <1>3 DEF ReadsAreTrue
<1>5. CallStage(c)'
  BY <1>1, <1>2, <1>3 DEF CallStage
<1>6. DeletionStage(c)' /\ ~Served(c, "delete")'
  BY <1>3 DEF DeletionStage, Served
<1> QED BY <1>1, <1>2, <1>4, <1>5, <1>6, CallStep

LEMMA ReadStep ==
    ASSUME OfficerInv, NEW c \in Call, NEW part, Read(c, part)
    PROVE  OfficerInv'
<1>1. /\ TypeOK /\ ReadsAreTrue(c) /\ CallStage(c) /\ pc[c] = "reading"
      /\ part \in Parts(ask[c]) \ DOMAIN got[c]
      /\ UNCHANGED <<settings, server, clock, log, ask>>
  BY DEF OfficerInv, Read
<1>2. PICK v \in Views : \E r \in Results(settings, ask[c], part, v) :
        LET all == Including(got[c], part, [result |-> r, view |-> v]) IN
        /\ got' = [got EXCEPT ![c] = all]
        /\ IF DOMAIN all = Parts(ask[c])
           THEN Answer(c, Reply(settings, ask[c], [p \in DOMAIN all |-> all[p].result]))
           ELSE UNCHANGED <<pc, answer>>
  BY DEF Read
<1>3. PICK r \in Results(settings, ask[c], part, v) :
        LET all == Including(got[c], part, [result |-> r, view |-> v]) IN
        /\ got' = [got EXCEPT ![c] = all]
        /\ IF DOMAIN all = Parts(ask[c])
           THEN Answer(c, Reply(settings, ask[c], [p \in DOMAIN all |-> all[p].result]))
           ELSE UNCHANGED <<pc, answer>>
  BY <1>2
<1> DEFINE x == [result |-> r, view |-> v]
           all == Including(got[c], part, x)
           a == Reply(settings, ask[c], [p \in DOMAIN all |-> all[p].result])
<1>4. /\ DOMAIN all = DOMAIN got[c] \cup {part}
      /\ all[part] = x
      /\ \A p \in DOMAIN got[c] : all[p] = got[c][p]
  <2> DEFINE reads == got[c]
  <2>1. part \notin DOMAIN reads
    BY <1>1
  <2> HIDE DEF x, reads
  <2>2. /\ DOMAIN Including(reads, part, x) = DOMAIN reads \cup {part}
        /\ Including(reads, part, x)[part] = x
        /\ \A p \in DOMAIN reads : Including(reads, part, x)[p] = reads[p]
    BY <2>1 DEF Including
  <2> QED BY <2>2 DEF reads
<1>5. got' = [got EXCEPT ![c] = all]
  BY <1>3
<1>6. \/ DOMAIN all = Parts(ask[c]) /\ Answer(c, a)
      \/ UNCHANGED <<pc, answer>>
  BY <1>3
<1>7. a = Reply(settings, ask[c], [p \in DOMAIN all |-> all[p].result])
  OBVIOUS
<1> HIDE DEF all, a
<1>8. /\ DOMAIN ask' = Call /\ DOMAIN got' = Call
      /\ \A d \in Call \ {c} : got'[d] = got[d] /\ ask'[d] = ask[d]
      /\ got'[c] = all /\ ask'[c] = ask[c]
  BY <1>1, <1>5 DEF TypeOK
<1>9. ReadsAreTrue(c)'
  <2> SUFFICES ASSUME NEW p \in DOMAIN all
               PROVE  /\ p \in Parts(ask[c]) /\ all[p].view \in World
                      /\ \A s \in Session : \E i \in DOMAIN log : all[p].view[s] = log[i][s]
                      /\ all[p].result \in Results(settings, ask[c], p, all[p].view)
    BY <1>1, <1>8 DEF ReadsAreTrue
  <2>1. CASE p = part
    <3>1. all[p].view = v /\ all[p].result = r
      BY <1>4, <2>1
    <3>2. v \in World /\ \A s \in Session : \E i \in DOMAIN log : v[s] = log[i][s]
      BY <1>1, ViewType
    <3> QED BY <1>1, <1>3, <2>1, <3>1, <3>2
  <2>2. CASE p \in DOMAIN got[c]
    BY <1>1, <1>4, <2>2 DEF ReadsAreTrue
  <2> QED BY <1>4, <2>1, <2>2
<1>10. DOMAIN got'[c] # {}
  BY <1>4, <1>8
<1>11. /\ ask[c].kind \notin {"whoami", "delete"} /\ RequestValid(settings, ask[c])
       /\ server = "up" /\ Admission(settings, ask[c].token) = 200
       /\ answer[c] = [status |-> 0] /\ ask[c] \in Requests
  BY <1>1 DEF CallStage
<1>12. DeletionStage(c)' /\ ~Served(c, "delete")'
  BY <1>8, <1>11 DEF DeletionStage, Served
<1>13. CASE DOMAIN all = Parts(ask[c]) /\ Answer(c, a)
  <2>1. /\ pc' \in [Call -> {"idle", "reading", "deleting", "done"}]
        /\ DOMAIN answer' = Call
        /\ \A d \in Call \ {c} : pc'[d] = pc[d] /\ answer'[d] = answer[d]
        /\ pc'[c] = "done" /\ answer'[c] = a
    BY <1>1, <1>13 DEF TypeOK, Answer
  <2>2. CallStage(c)'
    BY <1>1, <1>7, <1>8, <1>10, <1>11, <1>13, <2>1 DEF CallStage
  <2> QED BY <1>1, <1>8, <1>9, <1>12, <2>1, <2>2, CallStep
<1>14. CASE UNCHANGED <<pc, answer>>
  <2>1. /\ pc' \in [Call -> {"idle", "reading", "deleting", "done"}]
        /\ DOMAIN answer' = Call
        /\ \A d \in Call \ {c} : pc'[d] = pc[d] /\ answer'[d] = answer[d]
        /\ pc'[c] = "reading" /\ answer'[c] = [status |-> 0]
    BY <1>1, <1>11, <1>14 DEF TypeOK
  <2>2. CallStage(c)'
    BY <1>1, <1>8, <1>10, <1>11, <2>1 DEF CallStage
  <2> QED BY <1>1, <1>8, <1>9, <1>12, <2>1, <2>2, CallStep
<1> QED BY <1>6, <1>13, <1>14

\* softDelete: refused, or stored with its version, its answer heard or not.
LEMMA DeleteStep ==
    ASSUME OfficerInv, NEW c \in Call, Delete(c)
    PROVE  OfficerInv'
<1> DEFINE q == ask[c]
           d == Current[q.reference]
<1>1. /\ TypeOK /\ LogInOrder /\ ReadsAreTrue(c) /\ CallStage(c) /\ pc[c] = "deleting"
      /\ UNCHANGED <<settings, server, clock, ask, got>>
  BY DEF OfficerInv, Delete
<1>2. /\ q.kind = "delete" /\ q \in Requests /\ RequestValid(settings, q)
      /\ server = "up" /\ Admission(settings, q.token) = 200 /\ got[c] = Nothing
      /\ DOMAIN Nothing = {}
  BY <1>1 DEF CallStage, Nothing
<1>3. q.version \in Nat
  <2>1. q.version \in Int
    BY <1>2 DEF Requests, Series
  <2>2. q.version >= 0
    BY <1>2 DEF RequestValid, DeleteValid
  <2> QED BY <2>1, <2>2
<1>4. /\ DOMAIN ask' = Call /\ DOMAIN got' = Call
      /\ \A e \in Call : got'[e] = got[e] /\ ask'[e] = ask[e]
  BY <1>1 DEF TypeOK
<1>5. ASSUME NEW n \in {200, 404, 409, 500}, Answer(c, [status |-> n])
      PROVE  /\ pc' \in [Call -> {"idle", "reading", "deleting", "done"}]
             /\ DOMAIN answer' = Call
             /\ \A e \in Call \ {c} : pc'[e] = pc[e] /\ answer'[e] = answer[e]
             /\ pc'[c] = "done" /\ answer'[c] = [status |-> n] /\ answer'[c].status = n
             /\ CallStage(c)'
  <2>1. /\ pc' \in [Call -> {"idle", "reading", "deleting", "done"}]
        /\ DOMAIN answer' = Call
        /\ \A e \in Call \ {c} : pc'[e] = pc[e] /\ answer'[e] = answer[e]
        /\ pc'[c] = "done" /\ answer'[c] = [status |-> n]
    BY <1>1, <1>5 DEF TypeOK, Answer
  <2>2. answer'[c].status = n
    BY <2>1
  <2>3. CallStage(c)'
    BY <1>1, <1>2, <1>4, <2>1, <2>2 DEF CallStage
  <2> QED BY <2>1, <2>2, <2>3
<1>6. \/ q.reference \notin Visible(Current) /\ Answer(c, [status |-> 404]) /\ UNCHANGED log
      \/ /\ q.reference \in Visible(Current) /\ ~AtVersion(d, q.version)
         /\ Answer(c, [status |-> 409]) /\ UNCHANGED log
      \/ /\ q.reference \in Visible(Current)
         /\ Write([Current EXCEPT ![q.reference] = SoftDeleted(d, q.version)])
         /\ \E n \in {200, 500} : Answer(c, [status |-> n])
  BY DEF Delete
<1>7. ReadsAreTrue(c)' \/ log' # log
  BY <1>2, <1>4 DEF ReadsAreTrue
<1>8. ASSUME q.reference \notin Visible(Current), Answer(c, [status |-> 404]), UNCHANGED log
      PROVE  OfficerInv'
  <2>1. /\ pc' \in [Call -> {"idle", "reading", "deleting", "done"}]
        /\ DOMAIN answer' = Call
        /\ \A e \in Call \ {c} : pc'[e] = pc[e] /\ answer'[e] = answer[e]
        /\ answer'[c].status = 404 /\ CallStage(c)'
    BY <1>5, <1>8
  <2>2. DeletionStage(c)' /\ ~Served(c, "delete")'
    BY <2>1 DEF DeletionStage, Served
  <2> QED BY <1>1, <1>4, <1>7, <1>8, <2>1, <2>2, CallStep
<1>9. ASSUME q.reference \in Visible(Current), ~AtVersion(d, q.version),
             Answer(c, [status |-> 409]), UNCHANGED log
      PROVE  OfficerInv'
  <2>1. /\ pc' \in [Call -> {"idle", "reading", "deleting", "done"}]
        /\ DOMAIN answer' = Call
        /\ \A e \in Call \ {c} : pc'[e] = pc[e] /\ answer'[e] = answer[e]
        /\ answer'[c].status = 409 /\ CallStage(c)'
    BY <1>5, <1>9
  <2>2. ASSUME NEW i \in DOMAIN log, q.reference \in Visible(log[i])
        PROVE  ~AtVersion(log[i][q.reference], q.version)
    <3>1. Follows(log[i], Current)
      <4>1. Len(log) \in DOMAIN log /\ i <= Len(log)
        BY <1>1, LogType
      <4> QED BY <1>1, <4>1 DEF LogInOrder, Current
    <3>2. Current[q.reference] = log[i][q.reference]
      BY <1>9, <2>2, <3>1, RegisteredType DEF Follows
    <3> QED BY <1>9, <3>2
  <2>3. q.reference \in Registered(Current)
    BY <1>9, RegisteredType
  <2>4. DeletionStage(c)'
    BY <1>4, <1>9, <2>1, <2>2, <2>3 DEF DeletionStage, Current
  <2>5. ~Served(c, "delete")'
    BY <2>1 DEF Served
  <2> QED BY <1>1, <1>4, <1>7, <1>9, <2>1, <2>4, <2>5, CallStep
<1>10. ASSUME q.reference \in Visible(Current),
              Write([Current EXCEPT ![q.reference] = SoftDeleted(d, q.version)]),
              NEW n \in {200, 500}, Answer(c, [status |-> n])
       PROVE  OfficerInv'
  <2> DEFINE x == [Current EXCEPT ![q.reference] = SoftDeleted(d, q.version)]
  <2>1. Current \in World /\ q.reference \in Session /\ d \in Doc /\ d.state = "registered"
    <3>1. Current \in World
      BY <1>1, LogType
    <3>2. q.reference \in Registered(Current)
      BY <1>10, RegisteredType
    <3> QED BY <3>1, <3>2 DEF Registered, World
  <2>2. PICK e : e = SoftDeleted(d, q.version)
    OBVIOUS
  <2>3. /\ e \in Doc /\ e.state = "registered" /\ e.deleted
         /\ e.end = d.end /\ e.version = q.version + 1
    <3> DEFINE v == q.version + 1
    <3>1. v \in {None} \cup (Nat \ {0})
      BY <1>3
    <3>2. e = [d EXCEPT !.deleted = TRUE, !.version = v]
      BY <2>2 DEF SoftDeleted
    <3>3. d \in Doc /\ d.state = "registered"
      BY <2>1
    <3> HIDE DEF d, v
    <3>4. e \in Doc /\ e.state = "registered" /\ e.end = d.end /\ e.version = v
      BY <3>1, <3>2, <3>3 DEF Doc
    <3>5. e.deleted
      BY <3>2, <3>3 DEF Doc
    <3> QED BY <3>4, <3>5 DEF v
  <2>4. /\ x \in World /\ x[q.reference] = e
        /\ \A s \in Session \ {q.reference} : x[s] = Current[s]
    BY <2>1, <2>2, <2>3 DEF World
  <2>5. q.reference \in Registered(x) \ Visible(x)
    BY <2>1, <2>3, <2>4 DEF Registered, Visible
  <2>6. Write(x)
    BY <1>10
  <2> HIDE DEF x
  <2>7. Follows(Current, x)
    <3>1. \A s \in Registered(Current) \ {q.reference} : x[s] = Current[s]
      BY <2>4, RegisteredType
    <3>2. x[q.reference].end = Current[q.reference].end
      BY <2>3, <2>4
    <3> QED BY <1>10, <2>5, <3>1, <3>2 DEF Follows
  <2>8. /\ pc' \in [Call -> {"idle", "reading", "deleting", "done"}]
        /\ DOMAIN answer' = Call
        /\ \A f \in Call \ {c} : pc'[f] = pc[f] /\ answer'[f] = answer[f]
        /\ answer'[c].status = n /\ CallStage(c)'
    BY <1>5, <1>10
  <2>9. TypeOK'
    <3>1. log' \in Seq(World) /\ Len(log') \in 1..MaxWrites + 1
      BY <1>1, <2>4, <2>6, WrittenLog
    <3> QED BY <1>1, <1>4, <2>8, <3>1 DEF TypeOK
  <2>10. LogInOrder' /\ Current' = x
    BY <1>1, <2>4, <2>6, <2>7, LogStaysInOrder, WrittenLog
  <2>11. \A i \in DOMAIN log : i \in DOMAIN log' /\ log'[i] = log[i]
    BY <1>1, <2>4, <2>6, LogType, WrittenLog
  <2>12. DeletionStage(c)'
    <3>1. x[q.reference].version = q.version + 1
      BY <2>3, <2>4
    <3> QED BY <1>4, <2>5, <2>8, <2>10, <3>1 DEF DeletionStage
  <2>13. ASSUME NEW f \in Call
         PROVE  ReadsAreTrue(f)' /\ CallStage(f)' /\ DeletionStage(f)'
    <3>1. ReadsAreTrue(f) /\ CallStage(f) /\ DeletionStage(f)
      BY DEF OfficerInv
    <3>2. ReadsAreTrue(f)'
      BY <1>1, <1>4, <2>11, <3>1, SameReads
    <3>3. CASE f # c
      <4>1. CallStage(f)'
        BY <1>1, <1>4, <2>8, <3>1, <3>3, SameStage
      <4>2. DeletionStage(f)'
        BY <1>1, <1>4, <2>4, <2>6, <2>7, <2>8, <3>1, <3>3, DeletionStands
      <4> QED BY <3>2, <4>1, <4>2
    <3> QED BY <2>8, <2>12, <3>2, <3>3
  <2>14. ASSUME NEW f \in Call \ {c}, Served(f, "delete")'
         PROVE  Served(f, "delete") /\ ask[f].reference # q.reference
    <3>1. Served(f, "delete")
      BY <1>4, <2>8, <2>14 DEF Served
    <3>2. ask[f].reference \notin Visible(Current)
      BY <3>1 DEF OfficerInv, DeletionStage, Served
    <3> QED BY <1>10, <3>1, <3>2
  <2>15. ASSUME NEW a \in Call, NEW b \in Call, Served(a, "delete")', Served(b, "delete")',
                ask'[b].reference = ask'[a].reference
         PROVE  a = b
    <3>1. ask[b].reference = ask[a].reference
      BY <1>4, <2>15
    <3>2. CASE a # c /\ b # c
      <4>1. Served(a, "delete") /\ Served(b, "delete")
        BY <2>14, <2>15, <3>2
      <4> QED BY <3>1, <4>1 DEF OfficerInv
    <3>3. CASE a = c
      BY <2>14, <2>15, <3>1, <3>3
    <3>4. CASE b = c
      BY <2>14, <2>15, <3>1, <3>4
    <3> QED BY <3>2, <3>3, <3>4
  <2>16. server' = "up" => StartupAllowed(settings')
    BY <1>1 DEF OfficerInv
  <2> QED BY <2>9, <2>10, <2>13, <2>15, <2>16 DEF OfficerInv
<1> QED BY <1>6, <1>8, <1>9, <1>10
LEMMA NextStep ==
    ASSUME OfficerInv, [Next]_vars
    PROVE  OfficerInv'
<1>1. CASE Start
  BY <1>1, StartStep
<1>2. CASE Tick \/ UNCHANGED vars
  BY <1>2, TickStep
<1>3. ASSUME NEW s \in Session, Begin(s) \/ Submit(s) \/ NotEligible(s)
      PROVE  OfficerInv'
  BY <1>3, ApplicantStep
<1>4. ASSUME NEW c \in Call, NEW q \in Request, Receive(c, q)
      PROVE  OfficerInv'
  BY <1>4, ReceiveStep
<1>5. ASSUME NEW c \in Call, NEW part, Read(c, part)
      PROVE  OfficerInv'
  BY <1>5, ReadStep
<1>6. ASSUME NEW c \in Call, Delete(c) \/ Fails(c)
      PROVE  OfficerInv'
  <2>1. CASE Delete(c)
    BY <2>1, DeleteStep
  <2>2. CASE Fails(c)
    BY <2>2, FailsStep
  <2> QED BY <1>6, <2>1, <2>2
<1> QED BY <1>1, <1>2, <1>3, <1>4, <1>5, <1>6 DEF Next

\* Registrations only ever get deleted, calls are answered with what their reads
\* saw, document by document, and a deletion's answer stays true: whatever the
\* settings, the requests, the officers and the applicants, and whichever copy of
\* the database each read goes to.
THEOREM OfficerInvariance == Spec => []OfficerInv
<1>1. Init => OfficerInv
  BY InitHolds
<1>2. OfficerInv /\ [Next]_vars => OfficerInv'
  BY NextStep
<1> QED BY <1>1, <1>2, PTL DEF Spec

-----------------------------------------------------------------------------
(* What follows                                                            *)

\* Nobody but a verified case officer gets past authentication on a deployed tier:
\* the service does not start there in the mode that leaves tokens unverified.
THEOREM OnlyOfficers == Spec => []OnlyOfficersServed
<1>1. OfficerInv => OnlyOfficersServed
  <2> SUFFICES ASSUME OfficerInv, NEW c \in Call, settings.tier = "deployed",
                      answer[c].status \notin {0, 401, 403}
               PROVE  LET t == ask[c].token IN
                      /\ t.signed /\ t.issuer /\ t.audience /\ t.fresh
                      /\ settings.auth.tenant /\ settings.auth.audience
                      /\ t.roles \cap settings.auth.roles # {}
                      /\ settings.auth.scope => t.scope
    BY DEF OnlyOfficersServed
  <2>1. StartupAllowed(settings) /\ Admission(settings, ask[c].token) = 200
    <3>1. CallStage(c) /\ (server = "up" => StartupAllowed(settings))
      BY DEF OfficerInv
    <3>2. server = "up" /\ Admission(settings, ask[c].token) = 200
      BY <3>1 DEF CallStage
    <3> QED BY <3>1, <3>2
  <2>2. settings \in Settings
    BY SettingAssumption DEF OfficerInv, TypeOK
  <2>3. AuthMode(settings) = "live"
    <3>1. settings.auth.mode \in {"unset", "mock", "live"}
      BY <2>2 DEF Settings, AuthSettings
    <3> QED BY <2>1, <3>1 DEF StartupAllowed, ModeAllowed, AuthMode
  <2>4. Accepted(settings, ask[c].token)
    BY <2>1 DEF Admission
  <2>5. Verified(settings, ask[c].token)
    BY <2>3, <2>4 DEF Accepted
  <2>6. /\ ask[c].token.roles \cap settings.auth.roles # {}
        /\ settings.auth.scope => ask[c].token.scope
    BY <2>1 DEF Admission
  <2> QED BY <2>5, <2>6 DEF Verified
<1> QED BY <1>1, OfficerInvariance, PTL

\* One call at most is told that it deleted a registration, and then it is deleted
\* for good, one version later.
THEOREM DeletedAtMostOnce == Spec => []DeletedOnce
<1>1. OfficerInv => DeletedOnce
  <2> SUFFICES ASSUME OfficerInv, NEW a \in Call, NEW b \in Call, Served(a, "delete")
               PROVE  /\ Current[ask[a].reference].deleted
                      /\ Current[ask[a].reference].version = ask[a].version + 1
                      /\ Served(b, "delete") /\ ask[b].reference = ask[a].reference => a = b
    BY DEF DeletedOnce
  <2>1. /\ ask[a].reference \in Registered(Current) \ Visible(Current)
        /\ Current[ask[a].reference].version = ask[a].version + 1
    BY DEF OfficerInv, DeletionStage, Served
  <2>2. Current[ask[a].reference].deleted
    BY <2>1 DEF Visible
  <2> QED BY <2>1, <2>2 DEF OfficerInv
<1> QED BY <1>1, OfficerInvariance, PTL

\* The answer of a call that has read is made of its reads.
LEMMA MadeOfReads ==
    ASSUME OfficerInv, NEW c \in Call, answer[c].status # 0, DOMAIN got[c] # {}
    PROVE  /\ DOMAIN got[c] = Parts(ask[c]) /\ RequestValid(settings, ask[c])
           /\ answer[c] = Reply(settings, ask[c], [p \in DOMAIN got[c] |-> got[c][p].result])
<1>1. CallStage(c) /\ pc[c] \in {"idle", "reading", "deleting", "done"}
  BY DEF OfficerInv, TypeOK
<1>2. pc[c] = "done"
  BY <1>1 DEF CallStage
<1> QED BY <1>1, <1>2 DEF CallStage

\* What a part of a call returned is what it saw of what was stored.
LEMMA ReadTruly ==
    ASSUME OfficerInv, NEW c \in Call, NEW part \in DOMAIN got[c]
    PROVE  /\ got[c][part].view \in World
           /\ \A s \in Session : \E i \in DOMAIN log : got[c][part].view[s] = log[i][s]
           /\ got[c][part].result \in Results(settings, ask[c], part, got[c][part].view)
BY DEF OfficerInv, ReadsAreTrue

LEMMA MatchingType ==
    ASSUME NEW w, NEW term
    PROVE  /\ Matching(w, term) \subseteq Visible(w) /\ Matching(w, term) \subseteq Session
           /\ IsFiniteSet(Matching(w, term)) /\ Cardinality(Matching(w, term)) \in Nat
<1>1. Matching(w, term) \in SUBSET Visible(w)
  BY DEF Matching
<1>2. IsFiniteSet(Matching(w, term))
  BY <1>1, RegisteredType, FS_Subset
<1> QED BY <1>1, <1>2, RegisteredType, FS_CardinalityType

\* An export has all that matches in what it saw, or is refused because that is
\* more than it may return: the one row more that it reads tells the two apart.
THEOREM ExportsComplete == Spec => []ExportComplete
<1>1. OfficerInv => ExportComplete
  <2> SUFFICES ASSUME OfficerInv, NEW c \in Call, ask[c].kind = "export",
                      answer[c].status \in {200, 400}, DOMAIN got[c] = {"list"}
               PROVE  LET matching == Matching(got[c]["list"].view, ask[c].term) IN
                      IF answer[c].status = 200 THEN answer[c].rows = matching
                      ELSE Cardinality(matching) > settings.maxRows
    BY DEF ExportComplete
  <2> DEFINE w == got[c]["list"].view
             rows == got[c]["list"].result
             matching == Matching(w, ask[c].term)
  <2>1. /\ DOMAIN got[c] = Parts(ask[c])
        /\ answer[c] = Reply(settings, ask[c], [p \in DOMAIN got[c] |-> got[c][p].result])
    BY MadeOfReads
  <2>2. ask[c].reference = None
    BY <2>1 DEF Parts
  <2>3. answer[c] = IF Cardinality(rows) > settings.maxRows THEN [status |-> 400]
                    ELSE [status |-> 200, rows |-> rows]
    <3> DEFINE results == [p \in DOMAIN got[c] |-> got[c][p].result]
    <3>1. results["list"] = rows
      OBVIOUS
    <3> HIDE DEF results
    <3>2. answer[c] = ExportReply(settings, ask[c], results)
      BY <2>1 DEF Reply, Series, results
    <3> QED BY <2>2, <3>1, <3>2 DEF ExportReply
  <2>4. rows \in Results(settings, ask[c], "list", w)
    BY ReadTruly
  <2>5. /\ rows \in SUBSET matching
        /\ Cardinality(rows) = Least(settings.maxRows + 1, Cardinality(matching))
    BY <2>4 DEF Results, ListedRows, ExportLimit, Series
  <2>6. settings.maxRows \in Int
    <3>1. settings \in Settings
      BY SettingAssumption DEF OfficerInv, TypeOK
    <3> QED BY <3>1 DEF Settings
  <2>7. IsFiniteSet(matching) /\ Cardinality(matching) \in Nat
    BY MatchingType
  <2> HIDE DEF w, rows, matching
  <2>8. Cardinality(matching) = Cardinality(rows) => matching = rows
    BY <2>5, <2>7, FS_Subset
  <2>9. CASE Cardinality(rows) > settings.maxRows
    <3>1. answer[c].status = 400
      BY <2>3, <2>9
    <3>2. Cardinality(matching) > settings.maxRows
      BY <2>5, <2>6, <2>7, <2>9 DEF Least
    <3> QED BY <3>1, <3>2 DEF matching, w
  <2>10. CASE ~(Cardinality(rows) > settings.maxRows)
    <3>1. answer[c].status = 200 /\ answer[c].rows = rows
      BY <2>3, <2>10
    <3>2. Cardinality(rows) = Cardinality(matching)
      BY <2>5, <2>6, <2>7, <2>10 DEF Least
    <3> QED BY <2>8, <3>1, <3>2 DEF matching, w
  <2> QED BY <2>9, <2>10
<1> QED BY <1>1, OfficerInvariance, PTL

LEMMA CountedTotals ==
    ASSUME NEW w
    PROVE  /\ Counted(w, "starts", NoBound, NoBound).total = Cardinality(Started(w))
           /\ Counted(w, "registrations", NoBound, NoBound).total = Cardinality(Completed(w))
           /\ Counted(w, "notEligible", NoBound, NoBound).total = Cardinality(NotNeeding(w))
<1>1. ASSUME NEW ids, NEW day
      PROVE  MonthlyCounts(ids, day, NoBound, NoBound).total = Cardinality(ids)
  <2>1. {i \in ids : InRange(day[i], NoBound, NoBound)} = ids
    BY DEF InRange
  <2> QED BY <2>1 DEF MonthlyCounts
<1> QED BY <1>1 DEF Counted

LEMMA DropOutsOf ==
    ASSUME NEW s, NEW r, NEW n
    PROVE  Summarise(s, r, n).dropOuts = IF s > r + n THEN s - (r + n) ELSE 0
BY DEF Summarise

\* Drop-outs are journeys that were seen to start and not to end: counting deleted
\* registrations as completed keeps them out, and reading the three counts from
\* different versions can only leave some out.
THEOREM DropOutsReal == Spec => []DropOutsAreReal
<1>1. OfficerInv => DropOutsAreReal
  <2> SUFFICES ASSUME OfficerInv, NEW c \in Call, Served(c, "journeys"),
                      ask[c].from = NoBound, ask[c].to = NoBound
               PROVE  answer[c].body.all.dropOuts <=
                        Cardinality({s \in Session :
                            /\ got[c]["starts"].view[s].start # Undated
                            /\ got[c]["registrations"].view[s].state # "registered"
                            /\ got[c]["notEligible"].view[s].state # "not eligible"})
    BY DEF DropOutsAreReal
  <2> DEFINE ws == got[c]["starts"].view
             wr == got[c]["registrations"].view
             wn == got[c]["notEligible"].view
             S == Started(ws)
             R == Completed(wr)
             N == NotNeeding(wn)
             D == {s \in Session : /\ ws[s].start # Undated
                                   /\ wr[s].state # "registered"
                                   /\ wn[s].state # "not eligible"}
             all == answer[c].body.all
             starts == got[c]["starts"].result
             registrations == got[c]["registrations"].result
             notEligible == got[c]["notEligible"].result
  <2>1. /\ ask[c].kind = "journeys" /\ answer[c].status = 200 /\ DOMAIN got[c] # {}
    BY DEF Served, OfficerInv, CallStage
  <2>2. /\ DOMAIN got[c] = Series
        /\ answer[c] = Reply(settings, ask[c], [p \in DOMAIN got[c] |-> got[c][p].result])
    <3>1. Parts(ask[c]) = Series
      BY <2>1 DEF Parts, Series
    <3> QED BY <2>1, <3>1, MadeOfReads
  <2>3. all = Summarise(starts.total, registrations.total, notEligible.total)
    <3> DEFINE results == [p \in DOMAIN got[c] |-> got[c][p].result]
    <3>1. /\ results["starts"] = starts /\ results["registrations"] = registrations
          /\ results["notEligible"] = notEligible
      BY <2>2 DEF Series
    <3> HIDE DEF results, starts, registrations, notEligible
    <3>2. answer[c] = JourneysReply(results)
      BY <2>1, <2>2 DEF Reply, Series, results
    <3>3. all = SummariseJourneys(starts, registrations, notEligible).all
      BY <3>1, <3>2 DEF JourneysReply
    <3> QED BY <3>3 DEF SummariseJourneys
  <2>4. /\ starts \in Results(settings, ask[c], "starts", ws)
        /\ registrations \in Results(settings, ask[c], "registrations", wr)
        /\ notEligible \in Results(settings, ask[c], "notEligible", wn)
    BY <2>2, ReadTruly DEF Series
  <2>5. /\ starts = Counted(ws, "starts", NoBound, NoBound)
        /\ registrations = Counted(wr, "registrations", NoBound, NoBound)
        /\ notEligible = Counted(wn, "notEligible", NoBound, NoBound)
    BY <2>4 DEF Results, Series
  <2>6. /\ starts.total = Cardinality(S)
        /\ registrations.total = Cardinality(R)
        /\ notEligible.total = Cardinality(N)
    BY <2>5, CountedTotals
  <2>7. S \in SUBSET Session /\ R \in SUBSET Session /\ N \in SUBSET Session
    BY DEF Started, Completed, Registered, NotNeeding
  <2>8. D = S \ (R \cup N)
    BY DEF Started, Completed, Registered, NotNeeding
  <2> HIDE DEF S, R, N, D, starts, registrations, notEligible
  <2>9. Cardinality(S) <= Cardinality(D) + Cardinality(R) + Cardinality(N)
    <3>1. IsFiniteSet(Session)
      BY SessionAssumption
    <3>2. IsFiniteSet(S) /\ IsFiniteSet(R) /\ IsFiniteSet(N)
      BY <2>7, <3>1, FS_Subset
    <3> DEFINE both == R \cap N
               E == R \cup N
               gone == S \cap E
    <3>3. /\ IsFiniteSet(E) /\ IsFiniteSet(both)
          /\ Cardinality(E) = Cardinality(R) + Cardinality(N) - Cardinality(both)
      BY <3>2, FS_Union, FS_Intersection
    <3>4. /\ Cardinality(gone) <= Cardinality(E)
          /\ IsFiniteSet(gone) /\ IsFiniteSet(S \ E)
          /\ Cardinality(S \ E) = Cardinality(S) - Cardinality(gone)
      BY <3>2, <3>3, FS_Intersection, FS_Difference
    <3>5. D = S \ E
      BY <2>8
    <3> HIDE DEF both, E, gone
    <3>6. /\ Cardinality(S) \in Nat /\ Cardinality(R) \in Nat /\ Cardinality(N) \in Nat
          /\ Cardinality(D) \in Nat /\ Cardinality(both) \in Nat
          /\ Cardinality(E) \in Nat /\ Cardinality(gone) \in Nat
      BY <3>2, <3>3, <3>4, <3>5, FS_CardinalityType
    <3> QED BY <3>3, <3>4, <3>5, <3>6
  <2>10. /\ Cardinality(S) \in Nat /\ Cardinality(R) \in Nat
         /\ Cardinality(N) \in Nat /\ Cardinality(D) \in Nat
    <3>1. D \in SUBSET Session
      BY DEF D
    <3> QED BY <2>7, <3>1, SessionAssumption, FS_Subset, FS_CardinalityType
  <2>11. all.dropOuts = IF Cardinality(S) > Cardinality(R) + Cardinality(N)
                        THEN Cardinality(S) - (Cardinality(R) + Cardinality(N)) ELSE 0
    BY <2>3, <2>6, DropOutsOf
  <2> HIDE DEF all
  <2>12. all.dropOuts <= Cardinality(D)
    BY <2>9, <2>10, <2>11
  <2> QED BY <2>12 DEF D, all
<1> QED BY <1>1, OfficerInvariance, PTL

\* The documents that each count takes, and the days that date them.
CountedIn(w, series) ==
    CASE series = "starts" -> Started(w)
      [] series = "registrations" -> Completed(w)
      [] series = "notEligible" -> NotNeeding(w)

DaysIn(w, series) ==
    [s \in Session |-> IF series = "starts" THEN w[s].start ELSE w[s].end]

LEMMA CountedType ==
    ASSUME NEW w \in World, NEW f \in Series, NEW from, NEW to
    PROVE  /\ CountedIn(w, f) \in SUBSET Session /\ IsFiniteSet(CountedIn(w, f))
           /\ \A s \in CountedIn(w, f) : DaysIn(w, f)[s] \in Nat \cup {Undated}
           /\ Counted(w, f, from, to) = MonthlyCounts(CountedIn(w, f), DaysIn(w, f), from, to)
<1>1. CountedIn(w, f) \in SUBSET Session
  BY DEF CountedIn, Series, Started, Completed, Registered, NotNeeding
<1>2. IsFiniteSet(CountedIn(w, f))
  BY <1>1, SessionAssumption, FS_Subset
<1>3. \A s \in Session : DaysIn(w, f)[s] \in Nat \cup {Undated}
  <2>1. \A s \in Session : w[s].start \in Undated..MaxTime /\ w[s].end \in Undated..MaxTime
    BY DocFields
  <2>2. \A n \in Undated..MaxTime : n \in Nat \cup {Undated}
    BY SessionAssumption DEF Undated
  <2> QED BY <2>1, <2>2 DEF DaysIn
<1>4. Counted(w, f, from, to) = MonthlyCounts(CountedIn(w, f), DaysIn(w, f), from, to)
  <2>1. CASE f = "starts"
    BY <2>1 DEF Counted, CountedIn, DaysIn
  <2>2. CASE f = "registrations"
    BY <2>2 DEF Counted, CountedIn, DaysIn
  <2>3. CASE f = "notEligible"
    BY <2>3 DEF Counted, CountedIn, DaysIn
  <2> QED BY <2>1, <2>2, <2>3 DEF Series
<1> QED BY <1>1, <1>2, <1>3, <1>4

\* Only registrations may be without the date that they are counted by.
LEMMA UndatedCounted ==
    ASSUME NEW w \in World, NEW f \in Series
    PROVE  UndatedIn(CountedIn(w, f), DaysIn(w, f)) =
               IF f = "registrations"
               THEN Cardinality({s \in Registered(w) : w[s].end = Undated}) ELSE 0
<1> DEFINE undated == {s \in CountedIn(w, f) : DaysIn(w, f)[s] = Undated}
<1>1. UndatedIn(CountedIn(w, f), DaysIn(w, f)) = Cardinality(undated)
  BY DEF UndatedIn
<1>2. Cardinality({}) = 0
  BY FS_EmptySet
<1>3. CASE f = "starts"
  <2>1. undated = {}
    BY <1>3 DEF CountedIn, DaysIn, Started
  <2> QED BY <1>1, <1>2, <1>3, <2>1
<1>4. CASE f = "registrations"
  <2>1. undated = {s \in Registered(w) : w[s].end = Undated}
    BY <1>4 DEF CountedIn, DaysIn, Completed, Registered
  <2> QED BY <1>1, <1>4, <2>1
<1>5. CASE f = "notEligible"
  <2>1. undated = {}
    BY <1>5, DocFields DEF CountedIn, DaysIn, NotNeeding
  <2> QED BY <1>1, <1>2, <1>5, <2>1
<1> QED BY <1>3, <1>4, <1>5 DEF Series

\* A summary of journeys adds up, although its three counts come from different
\* versions, may have different months, and some registrations have no date: the
\* months make the years, and with the undated registrations they make the whole;
\* and each month that is listed has something in it.
THEOREM SummariesAddUp == Spec => []MetricsAddUp
<1>1. OfficerInv => MetricsAddUp
  <2> SUFFICES ASSUME OfficerInv, NEW c \in Call, Served(c, "journeys"), NEW field \in Series
               PROVE  LET body == answer[c].body
                          sum(months) == SumOver([m \in months |-> body.byMonth[m][field]], months)
                          wr == got[c]["registrations"].view
                      IN  /\ body.all[field] - sum(DOMAIN body.byMonth) =
                               IF field = "registrations" /\ ask[c].from = NoBound
                                                          /\ ask[c].to = NoBound
                               THEN Cardinality({s \in Registered(wr) : wr[s].end = Undated})
                               ELSE 0
                          /\ \A y \in DOMAIN body.byYear :
                               body.byYear[y][field] =
                                   sum({m \in DOMAIN body.byMonth : YearOf(m) = y})
                          /\ \A m \in DOMAIN body.byMonth :
                               \E f \in Series : body.byMonth[m][f] # 0
    BY DEF MetricsAddUp, Series
  <2> DEFINE seen(f) == got[c][f].view
             results == [p \in DOMAIN got[c] |-> got[c][p].result]
             ids == [f \in Series |-> CountedIn(seen(f), f)]
             day == [f \in Series |-> DaysIn(seen(f), f)]
             from == ask[c].from
             to == ask[c].to
             body == answer[c].body
  <2>1. /\ ask[c].kind = "journeys" /\ answer[c].status = 200 /\ DOMAIN got[c] # {}
    BY DEF Served, OfficerInv, CallStage
  <2>2. DOMAIN got[c] = Series /\ answer[c] = Reply(settings, ask[c], results)
    <3>1. Parts(ask[c]) = Series
      BY <2>1 DEF Parts, Series
    <3> QED BY <2>1, <3>1, MadeOfReads
  <2>3. body = SummaryOf(results)
    <3> HIDE DEF results
    <3>1. answer[c] = JourneysReply(results)
      BY <2>1, <2>2 DEF Reply, Series
    <3> QED BY <3>1 DEF JourneysReply, SummaryOf
  <2>4. ASSUME NEW f \in Series
        PROVE  seen(f) \in World /\ results[f] = Counted(seen(f), f, from, to)
    <3>1. got[c][f].result \in Results(settings, ask[c], f, got[c][f].view)
      BY <2>2, ReadTruly
    <3>2. seen(f) \in World
      BY <2>2, ReadTruly
    <3>3. got[c][f].result = Counted(seen(f), f, from, to)
      BY <3>1 DEF Results, Series
    <3> QED BY <2>2, <3>2, <3>3
  <2>5. CountsFrom(results, ids, day, from, to)
    <3> SUFFICES ASSUME NEW f \in Series
                 PROVE  /\ IsFiniteSet(ids[f])
                        /\ \A i \in ids[f] : day[f][i] \in Nat \cup {Undated}
                        /\ results[f] = MonthlyCounts(ids[f], day[f], from, to)
      BY DEF Counts, Series, CountsFrom
    <3>1. ids[f] = CountedIn(seen(f), f) /\ day[f] = DaysIn(seen(f), f)
      OBVIOUS
    <3> DEFINE w == seen(f)
    <3>2. w \in World /\ results[f] = Counted(w, f, from, to)
      BY <2>4
    <3>3. ids[f] = CountedIn(w, f) /\ day[f] = DaysIn(w, f)
      BY <3>1
    <3> HIDE DEF results, ids, day, seen, from, to, w
    <3>4. /\ IsFiniteSet(CountedIn(w, f))
          /\ \A s \in CountedIn(w, f) : DaysIn(w, f)[s] \in Nat \cup {Undated}
          /\ Counted(w, f, from, to) = MonthlyCounts(CountedIn(w, f), DaysIn(w, f), from, to)
      BY <3>2, CountedType
    <3> QED BY <3>2, <3>3, <3>4
  <2>6. UndatedIn(ids[field], day[field]) =
           IF field = "registrations"
           THEN Cardinality({s \in Registered(seen("registrations")) :
                                seen("registrations")[s].end = Undated})
           ELSE 0
    <3>1. UndatedIn(ids[field], day[field]) = UndatedIn(CountedIn(seen(field), field), DaysIn(seen(field), field))
      OBVIOUS
    <3> HIDE DEF ids, day, seen
    <3> QED BY <2>4, <3>1, UndatedCounted
  <2> HIDE DEF results, ids, day, from, to
  <2>7. AddsUp(SummaryOf(results), field,
               IF from = NoBound /\ to = NoBound
               THEN UndatedIn(ids[field], day[field]) ELSE 0)
    BY <2>5, SummaryAddsUp DEF Counts, Series
  <2>8. \A m \in DOMAIN SummaryOf(results).byMonth :
           \E f \in Series : SummaryOf(results).byMonth[m][f] # 0
    BY <2>5, MonthHasSome DEF Counts, Series
  <2> HIDE DEF body
  <2>9. \A m \in DOMAIN body.byMonth : \E f \in Series : body.byMonth[m][f] # 0
    BY <2>3, <2>8
  <2>10. AddsUp(body, field, IF from = NoBound /\ to = NoBound
                            THEN UndatedIn(ids[field], day[field]) ELSE 0)
    BY <2>3, <2>7
  <2> QED BY <2>6, <2>10, <2>9 DEF AddsUp, SumIn, body, from, to
<1> QED BY <1>1, OfficerInvariance, PTL

-----------------------------------------------------------------------------
(* Pages                                                                   *)

LEMMA SkipType ==
    ASSUME NEW q, q.page \in Nat \ {0}, q.size \in Nat \ {0}
    PROVE  Skip(q) \in Nat
<1>1. \A n, k \in Nat : n * k \in Nat
  OBVIOUS
<1>2. q.page - 1 \in Nat /\ q.size \in Nat
  OBVIOUS
<1> QED BY <1>1, <1>2 DEF Skip

\* What a page shows: the registrations at its positions in some sorted order.
LEMMA PageShows ==
    ASSUME NEW w, NEW q, q.page \in Nat \ {0}, q.size \in Nat \ {0},
           NEW rows \in PageRows(w, q), NEW n, n = Cardinality(Matching(w, q.term))
    PROVE  \E o \in Orders(w, Matching(w, q.term)) :
             /\ DOMAIN rows = 1..Least(Skip(q) + q.size, n) - Skip(q)
             /\ \A i \in DOMAIN rows : /\ Skip(q) + i \in 1..n
                                       /\ rows[i] = Row(w, o[Skip(q) + i])
<1>1. PICK o \in Orders(w, Matching(w, q.term)) :
          rows = [i \in DOMAIN Page(o, q) |-> Row(w, Page(o, q)[i])]
  BY DEF PageRows
<1>2. n \in Nat /\ Skip(q) \in Nat
  BY MatchingType, SkipType
<1> DEFINE found == Matching(w, q.term)
           k == Skip(q)
           l == Least(k + q.size, n)
<1>3. o \in [1..n -> found]
  BY DEF Orders
<1>4. Page(o, q) = SubSeq(o, k + 1, l)
  <2>1. Len(o) = n
    BY <1>2, <1>3
  <2> QED BY <2>1 DEF Page
<1>5. l \in Nat /\ l <= n
  BY <1>2 DEF Least
<1> HIDE DEF k, l, found
<1>6. k \in Nat
  BY <1>2 DEF k
<1>7. /\ DOMAIN SubSeq(o, k + 1, l) = 1..l - k
      /\ \A i \in 1..l - k : SubSeq(o, k + 1, l)[i] = o[k + i]
  BY <1>3, <1>5, <1>6
<1>8. DOMAIN rows = 1..l - k
  BY <1>1, <1>4, <1>7
<1>9. ASSUME NEW i \in DOMAIN rows
      PROVE  k + i \in 1..n /\ rows[i] = Row(w, o[k + i])
  BY <1>1, <1>2, <1>4, <1>5, <1>6, <1>7, <1>8
<1> QED BY <1>8, <1>9 DEF k, l

LEMMA SearchAnswer ==
    ASSUME OfficerInv, NEW c \in Call, Served(c, "search")
    PROVE  /\ DOMAIN got[c] = {"page", "count"}
           /\ ask[c].page \in Nat \ {0} /\ ask[c].size \in Nat \ {0}
           /\ answer[c].rows \in PageRows(got[c]["page"].view, ask[c])
           /\ answer[c].pages = TotalPages(
                Cardinality(Matching(got[c]["count"].view, ask[c].term)), ask[c].size)
<1>1. ask[c].kind = "search" /\ answer[c].status = 200 /\ DOMAIN got[c] # {}
  BY DEF Served, OfficerInv, CallStage
<1>2. /\ DOMAIN got[c] = Parts(ask[c]) /\ RequestValid(settings, ask[c])
      /\ answer[c] = Reply(settings, ask[c], [p \in DOMAIN got[c] |-> got[c][p].result])
  BY <1>1, MadeOfReads
<1>3. DOMAIN got[c] = {"page", "count"}
  BY <1>1, <1>2 DEF Parts, Series
<1>4. ask[c].page \in Nat \ {0} /\ ask[c].size \in Nat \ {0}
  <2>1. ask[c] \in Requests
    <3>1. CallStage(c)
      BY DEF OfficerInv
    <3>2. pc[c] = "done"
      BY <1>1, <3>1 DEF CallStage
    <3> QED BY <3>1, <3>2 DEF CallStage
  <2>2. ask[c].page \in Int /\ ask[c].size \in Int
    BY <1>1, <2>1 DEF Requests, Series
  <2>3. ask[c].page >= 1 /\ ask[c].size >= 1
    BY <1>1, <1>2 DEF RequestValid, SearchValid, PositiveInt
  <2> QED BY <2>2, <2>3
<1> DEFINE results == [p \in DOMAIN got[c] |-> got[c][p].result]
<1>5. /\ results["page"] = got[c]["page"].result
      /\ results["count"] = got[c]["count"].result
  BY <1>3
<1> HIDE DEF results
<1>6. answer[c] = SearchReply(ask[c], results)
  BY <1>1, <1>2 DEF Reply, Series, results
<1>7. /\ got[c]["page"].result \in Results(settings, ask[c], "page", got[c]["page"].view)
      /\ got[c]["count"].result \in Results(settings, ask[c], "count", got[c]["count"].view)
  BY <1>3, ReadTruly
<1>8. /\ got[c]["page"].result \in PageRows(got[c]["page"].view, ask[c])
      /\ got[c]["count"].result = Cardinality(Matching(got[c]["count"].view, ask[c].term))
  BY <1>7 DEF Results, Series
<1>9. /\ answer[c].rows = results["page"]
      /\ answer[c].pages = TotalPages(results["count"], ask[c].size)
  BY <1>6 DEF SearchReply
<1> QED BY <1>3, <1>4, <1>5, <1>8, <1>9

\* The version that a search shows is one that the repository accepts: a deletion
\* is refused for its version only if no version of the register ever showed it.
THEOREM ShownVersions == Spec => []ShownVersionWorks
<1>1. OfficerInv => ShownVersionWorks
  <2> SUFFICES ASSUME OfficerInv, NEW a \in Call, NEW b \in Call, Served(a, "search"),
                      ask[b].kind = "delete", answer[b].status = 409,
                      NEW i \in DOMAIN answer[a].rows,
                      answer[a].rows[i] = [reference |-> ask[b].reference,
                                           version |-> ask[b].version]
               PROVE  FALSE
    BY DEF ShownVersionWorks
  <2> DEFINE w == got[a]["page"].view
             q == ask[a]
             rows == answer[a].rows
             n == Cardinality(Matching(w, q.term))
             s == ask[b].reference
             v == ask[b].version
  <2>1. /\ rows \in PageRows(w, q)
        /\ \A r \in Session : \E j \in DOMAIN log : w[r] = log[j][r]
        /\ q.page \in Nat \ {0} /\ q.size \in Nat \ {0}
    BY SearchAnswer, ReadTruly
  <2>2. \A j \in DOMAIN log : s \in Visible(log[j]) => ~AtVersion(log[j][s], v)
    BY DEF OfficerInv, DeletionStage
  <2>3. rows[i] = [reference |-> s, version |-> v] /\ i \in DOMAIN rows
    OBVIOUS
  <2> HIDE DEF w, q, rows, n, s, v
  <2>4. PICK o \in Orders(w, Matching(w, q.term)) :
            \A j \in DOMAIN rows : Skip(q) + j \in 1..n /\ rows[j] = Row(w, o[Skip(q) + j])
    BY <2>1, PageShows DEF n
  <2> DEFINE x == o[Skip(q) + i]
  <2>5. x \in Matching(w, q.term)
    BY <2>3, <2>4 DEF Orders, n
  <2>6. rows[i] = [reference |-> x, version |-> ShownVersion(w[x])]
    BY <2>3, <2>4 DEF Row
  <2> HIDE DEF x
  <2>7. x = s /\ v = ShownVersion(w[x])
    BY <2>3, <2>6
  <2>8. x \in Visible(w) /\ AtVersion(w[x], v)
    BY <2>5, <2>7 DEF Matching, ShownVersion, AtVersion
  <2>9. x \in Session
    BY <2>8, RegisteredType
  <2>10. PICK j \in DOMAIN log : w[x] = log[j][x]
    BY <2>1, <2>9
  <2>11. x \in Visible(log[j])
    BY <2>8, <2>9, <2>10 DEF Visible, Registered
  <2> QED BY <2>2, <2>7, <2>8, <2>10, <2>11 DEF s, v
<1> QED BY <1>1, OfficerInvariance, PTL

LEMMA Quotient ==
    ASSUME NEW m \in Nat, NEW d \in Nat \ {0}, NEW k \in Nat
    PROVE  k <= m \div d <=> k * d <= m
<1> DEFINE e == m \div d
<1>1. e \in Nat /\ e * d <= m /\ m < (e + 1) * d
  OBVIOUS
<1> HIDE DEF e
<1>2. ASSUME NEW i \in Nat, NEW j \in Nat, i <= j
      PROVE  i * d <= j * d
  <2> DEFINE t == j - i
  <2>1. t \in Nat /\ j = i + t
    BY <1>2
  <2> HIDE DEF t
  <2>2. j * d = i * d + t * d
    BY <2>1
  <2>3. t * d \in Nat /\ i * d \in Nat
    BY <2>1
  <2> QED BY <2>2, <2>3
<1>3. CASE k <= e
  <2>1. k * d <= e * d
    BY <1>1, <1>2, <1>3
  <2> QED BY <1>1, <1>3, <2>1 DEF e
<1>4. CASE ~(k <= e)
  <2>1. e + 1 <= k /\ e + 1 \in Nat
    BY <1>1, <1>4
  <2>2. (e + 1) * d <= k * d
    BY <1>2, <2>1
  <2> QED BY <1>1, <1>4, <2>2 DEF e
<1> QED BY <1>3, <1>4

\* The number of pages is the number of the last page that has rows, whenever a
\* search's two reads found the same registrations.
THEOREM LastPage == Spec => []LastPageIsLast
<1>1. OfficerInv => LastPageIsLast
  <2> SUFFICES ASSUME OfficerInv, NEW c \in Call, Served(c, "search"),
                      Matching(got[c]["page"].view, ask[c].term)
                        = Matching(got[c]["count"].view, ask[c].term)
               PROVE  ask[c].page <= answer[c].pages <=> answer[c].rows # <<>>
    BY DEF LastPageIsLast
  <2> DEFINE w == got[c]["page"].view
             q == ask[c]
             page == q.page
             size == q.size
             rows == answer[c].rows
             pages == answer[c].pages
             n == Cardinality(Matching(w, q.term))
  <2>1. rows \in PageRows(w, q) /\ page \in Nat \ {0} /\ size \in Nat \ {0}
    BY SearchAnswer
  <2>2. pages = (n + size - 1) \div size
    BY SearchAnswer DEF TotalPages
  <2>3. n \in Nat
    BY MatchingType
  <2> HIDE DEF w, rows, pages, n
  <2>4. PICK o : DOMAIN rows = 1..Least(Skip(q) + size, n) - Skip(q)
    BY <2>1, PageShows DEF n
  <2>5. Skip(q) = (page - 1) * size /\ Skip(q) \in Nat
    BY <2>1, SkipType DEF Skip
  <2> HIDE DEF page, size, q
  <2>6. 1 \in DOMAIN rows <=> Skip(q) + 1 <= n
    BY <2>1, <2>3, <2>4, <2>5 DEF Least
  <2>7. page <= pages <=> page * size <= n + size - 1
    BY <2>1, <2>2, <2>3, Quotient
  <2>8. page * size = Skip(q) + size
    <3> DEFINE k == page - 1
    <3>1. k \in Nat /\ page = k + 1
      BY <2>1
    <3>2. Skip(q) = k * size
      BY <2>5
    <3> HIDE DEF k
    <3> QED BY <2>1, <3>1, <3>2
  <2>9. page <= pages <=> Skip(q) + 1 <= n
    BY <2>1, <2>3, <2>5, <2>7, <2>8
  <2>10. rows # <<>> <=> 1 \in DOMAIN rows
    <3>1. rows = <<>> => DOMAIN rows = {}
      OBVIOUS
    <3>2. ASSUME 1 \notin DOMAIN rows
          PROVE  rows = <<>>
      <4>1. Least(Skip(q) + size, n) - Skip(q) \in Int
        BY <2>1, <2>3, <2>5 DEF Least
      <4>2. DOMAIN rows = {}
        BY <2>4, <3>2, <4>1
      <4>3. rows = [i \in DOMAIN rows |-> rows[i]]
        BY <2>1 DEF PageRows
      <4> QED BY <4>2, <4>3
    <3> QED BY <3>1, <3>2
  <2> QED BY <2>6, <2>9, <2>10 DEF page, pages, rows, q
<1> QED BY <1>1, OfficerInvariance, PTL

-----------------------------------------------------------------------------
(* Orders and positions                                                    *)

\* searchSort leaves no two registrations in either order.
LEMMA SortIsStrict ==
    ASSUME NEW w \in World, NEW x \in Session, NEW y \in Session
    PROVE  /\ ~SortedBefore(w, x, x)
           /\ x # y => SortedBefore(w, x, y) \/ SortedBefore(w, y, x)
<1>1. x \in Nat /\ y \in Nat
  BY SessionAssumption
<1>2. w[x].end \in Int /\ w[y].end \in Int
  <2>1. Undated..MaxTime \subseteq Int
    BY SessionAssumption DEF Undated
  <2> QED BY <2>1, DocFields
<1> QED BY <1>1, <1>2 DEF SortedBefore

\* An order has every registration, and before each of them those that sort before it.
LEMMA Position ==
    ASSUME NEW w \in World, NEW F \in SUBSET Session, NEW o \in Orders(w, F), NEW x \in F
    PROVE  LET before == {y \in F : SortedBefore(w, y, x)} IN
           /\ Cardinality(before) \in 0..Cardinality(F) - 1
           /\ \A i \in 1..Cardinality(F) : o[i] = x <=> i = Cardinality(before) + 1
<1> DEFINE n == Cardinality(F)
           before == {y \in F : SortedBefore(w, y, x)}
<1>1. IsFiniteSet(F) /\ n \in Nat
  BY SessionAssumption, FS_Subset, FS_CardinalityType
<1>2. /\ o \in [1..n -> F]
      /\ \A i, j \in 1..n : i < j => o[i] # o[j] /\ ~SortedBefore(w, o[j], o[i])
  BY DEF Orders
<1> HIDE DEF n
<1>3. \A i, j \in 1..n : o[i] = o[j] => i = j
  BY <1>1, <1>2
<1>4. o \in Injection(1..n, F)
  BY <1>2, <1>3 DEF Injection, IsInjective
<1>5. IsFiniteSet(1..n) /\ Cardinality(1..n) = n
  BY <1>1, FS_Interval
<1>6. o \in Surjection(1..n, F)
  BY <1>1, <1>4, <1>5, FS_Injection DEF n
<1>7. PICK p \in 1..n : o[p] = x
  BY <1>6 DEF Surjection
<1>8. before = {o[i] : i \in 1..p - 1}
  <2>1. ASSUME NEW i \in 1..p - 1
        PROVE  o[i] \in before
    <3>1. i \in 1..n /\ i < p
      BY <1>1, <1>7
    <3>2. o[i] # x /\ ~SortedBefore(w, x, o[i]) /\ o[i] \in F
      BY <1>2, <1>7, <3>1
    <3> QED BY <3>2, SortIsStrict
  <2>2. ASSUME NEW y \in before
        PROVE  \E i \in 1..p - 1 : y = o[i]
    <3>1. PICK i \in 1..n : o[i] = y
      BY <1>6 DEF Surjection
    <3>2. y \in F /\ SortedBefore(w, y, x)
      OBVIOUS
    <3>3. i # p
      BY <1>7, <3>1, <3>2, SortIsStrict
    <3>4. ~(p < i)
      BY <1>2, <1>7, <3>1, <3>2
    <3> QED BY <1>1, <1>7, <3>1, <3>3, <3>4
  <2> HIDE DEF before
  <2> QED BY <2>1, <2>2
<1> HIDE DEF before
<1>9. Cardinality(before) = p - 1
  <2> DEFINE f == [i \in 1..p - 1 |-> o[i]]
  <2>1. f \in Injection(1..p - 1, before)
    BY <1>1, <1>3, <1>7, <1>8 DEF Injection, IsInjective
  <2>2. f \in Surjection(1..p - 1, before)
    BY <1>8, <2>1 DEF Injection, Surjection
  <2>3. IsFiniteSet(before)
    <3>1. before \in SUBSET F
      BY DEF before
    <3> QED BY <1>1, <3>1, FS_Subset
  <2>4. Cardinality(1..p - 1) = p - 1
    BY <1>1, <1>7, FS_Interval
  <2> HIDE DEF f
  <2> QED BY <2>1, <2>2, <2>3, <2>4, FS_Injection
<1>10. /\ Cardinality(before) \in 0..n - 1
       /\ \A i \in 1..n : o[i] = x <=> i = Cardinality(before) + 1
  BY <1>1, <1>3, <1>7, <1>9
<1> QED BY <1>10 DEF n, before

\* A page lists the registrations whose number of predecessors is on it.
LEMMA ListedByRank ==
    ASSUME OfficerInv, NEW c \in Call, Served(c, "search"),
           NEW x \in Matching(got[c]["page"].view, ask[c].term)
    PROVE  LET w == got[c]["page"].view
               k == Cardinality({y \in Matching(w, ask[c].term) : SortedBefore(w, y, x)})
           IN  /\ k \in Nat
               /\ x \in ListedBy(c) <=> Skip(ask[c]) <= k /\ k < Skip(ask[c]) + ask[c].size
<1> DEFINE w == got[c]["page"].view
           q == ask[c]
           F == Matching(w, q.term)
           n == Cardinality(F)
           k == Cardinality({y \in F : SortedBefore(w, y, x)})
           rows == answer[c].rows
           skip == Skip(q)
           size == q.size
<1>1. /\ rows \in PageRows(w, q) /\ w \in World
      /\ q.page \in Nat \ {0} /\ q.size \in Nat \ {0}
  BY SearchAnswer, ReadTruly
<1>2. ListedBy(c) = {rows[i].reference : i \in DOMAIN rows}
  BY DEF ListedBy
<1>3. n \in Nat /\ F \in SUBSET Session /\ x \in F
  BY MatchingType
<1> HIDE DEF w, q, rows
<1>4. PICK o \in Orders(w, F) :
        /\ DOMAIN rows = 1..Least(Skip(q) + q.size, n) - Skip(q)
        /\ \A i \in DOMAIN rows : /\ Skip(q) + i \in 1..n
                                  /\ rows[i] = Row(w, o[Skip(q) + i])
  BY <1>1, PageShows
<1>5. k \in 0..n - 1 /\ \A i \in 1..n : o[i] = x <=> i = k + 1
  BY <1>1, <1>3, <1>4, Position
<1>6. skip \in Nat /\ size \in Nat \ {0}
  BY <1>1, SkipType
<1>7. /\ DOMAIN rows = 1..Least(skip + size, n) - skip
      /\ \A i \in DOMAIN rows : skip + i \in 1..n /\ rows[i].reference = o[skip + i]
  BY <1>4 DEF Row
<1> HIDE DEF F, n, k, skip, size
<1>8. x \in ListedBy(c) <=> \E i \in DOMAIN rows : i = k + 1 - skip
  <2>1. \A i \in DOMAIN rows : rows[i].reference = x <=> skip + i = k + 1
    BY <1>5, <1>7
  <2>2. \A i \in DOMAIN rows : i \in Int
    BY <1>3, <1>6, <1>7 DEF Least
  <2>3. x \in ListedBy(c) <=> \E i \in DOMAIN rows : rows[i].reference = x
    BY <1>2
  <2> QED BY <1>3, <1>5, <1>6, <2>1, <2>2, <2>3
<1>9. x \in ListedBy(c) <=> skip <= k /\ k < skip + size
  <2>1. x \in ListedBy(c) <=> k + 1 - skip \in 1..Least(skip + size, n) - skip
    BY <1>7, <1>8
  <2> QED BY <1>3, <1>5, <1>6, <2>1 DEF Least
<1>10. k \in Nat
  BY <1>3, <1>5
<1> QED BY <1>9, <1>10 DEF k, F, skip, size, w, q

\* Two reads agree on when the registrations that both find were made, whichever
\* versions of them they saw.
LEMMA SameEnd ==
    ASSUME OfficerInv, NEW v, NEW w, NEW y \in Session,
           \E i \in DOMAIN log : v[y] = log[i][y], \E j \in DOMAIN log : w[y] = log[j][y],
           y \in Visible(v), y \in Visible(w)
    PROVE  v[y].end = w[y].end
<1>1. PICK i \in DOMAIN log, j \in DOMAIN log : v[y] = log[i][y] /\ w[y] = log[j][y]
  OBVIOUS
<1>2. y \in Registered(log[i]) /\ y \in Registered(log[j])
  BY <1>1 DEF Visible, Registered
<1>3. i <= j \/ j <= i
  BY LogType DEF OfficerInv
<1>4. Follows(log[i], log[j]) \/ Follows(log[j], log[i])
  BY <1>3 DEF OfficerInv, LogInOrder
<1>5. log[i][y].end = log[j][y].end
  BY <1>2, <1>4 DEF Follows
<1> QED BY <1>1, <1>5

LEMMA PagesApart ==
    ASSUME NEW q, NEW r, q.page \in Nat \ {0}, r.page \in Nat \ {0},
           q.size \in Nat \ {0}, r.size = q.size, q.page < r.page
    PROVE  Skip(q) + q.size <= Skip(r)
<1> DEFINE p == q.page - 1
           t == r.page - q.page - 1
           s == q.size
<1>1. p \in Nat /\ t \in Nat /\ s \in Nat
  OBVIOUS
<1>2. Skip(q) = p * s
  BY DEF Skip
<1>3. Skip(r) = (p + (t + 1)) * s
  <2>1. r.page - 1 = p + (t + 1)
    OBVIOUS
  <2> HIDE DEF p, t
  <2> QED BY <2>1 DEF Skip
<1>4. t * s \in Nat
  BY <1>1
<1> HIDE DEF p, t, s
<1>5. (p + (t + 1)) * s = p * s + t * s + s
  BY <1>1
<1>6. p * s \in Nat
  BY <1>1
<1> QED BY <1>1, <1>2, <1>3, <1>4, <1>5, <1>6 DEF s

\* Two pages of one search are cut from the same order as far as both found the same:
\* sorting by date alone would not do, as the reference decides among equal dates.
THEOREM ListedOnce == Spec => []EachListedOnce
<1>1. OfficerInv => EachListedOnce
  <2> SUFFICES ASSUME OfficerInv, NEW a \in Call, NEW b \in Call,
                      Served(a, "search"), Served(b, "search"),
                      ask[a].term = ask[b].term, ask[a].size = ask[b].size,
                      ask[a].page < ask[b].page, NEW x \in Session,
                      x \in AsNew(a, x), AsNew(a, x) = AsNew(b, x)
               PROVE  /\ ~(x \in ListedBy(a) /\ x \in ListedBy(b))
                      /\ ask[a].page = 1 /\ ask[b].page = 2
                              /\ Cardinality(AsNew(a, x)) <= 2 * ask[a].size
                           => x \in ListedBy(a) \cup ListedBy(b)
    BY DEF EachListedOnce
  <2> DEFINE wa == got[a]["page"].view
             wb == got[b]["page"].view
             Fa == Matching(wa, ask[a].term)
             Fb == Matching(wb, ask[b].term)
             seen == AsNew(a, x)
             size == ask[a].size
             Ba == {y \in Fa : SortedBefore(wa, y, x)}
             Bb == {y \in Fb : SortedBefore(wb, y, x)}
             k == Cardinality(Ba)
  <2>1. /\ wa \in World /\ \A y \in Session : \E i \in DOMAIN log : wa[y] = log[i][y]
        /\ wb \in World /\ \A y \in Session : \E i \in DOMAIN log : wb[y] = log[i][y]
    BY SearchAnswer, ReadTruly
  <2>2. seen = {y \in Fa : wa[y].end >= wa[x].end} /\ seen = {y \in Fb : wb[y].end >= wb[x].end}
    BY DEF AsNew
  <2>3. x \in Fa /\ x \in Fb
    BY <2>2
  <2>4. ASSUME NEW y \in seen
        PROVE  wa[y].end = wb[y].end
    <3>1. y \in Visible(wa) /\ y \in Visible(wb) /\ y \in Session
      BY <2>2, MatchingType
    <3> HIDE DEF wa, wb, seen
    <3> QED BY <2>1, <3>1, SameEnd
  <2>5. Ba = Bb /\ Ba \in SUBSET seen /\ x \notin Ba
    <3>1. \A y \in Session : wa[y].end \in Int /\ wb[y].end \in Int
      <4>1. Undated..MaxTime \subseteq Int
        BY SessionAssumption DEF Undated
      <4> QED BY <2>1, <4>1, DocFields
    <3>2. Fa \subseteq Session /\ Fb \subseteq Session
      BY MatchingType
    <3> HIDE DEF wa, wb, Fa, Fb, seen
    <3>3. Ba = {y \in seen : SortedBefore(wa, y, x)}
      BY <2>2, <2>3, <3>1, <3>2 DEF SortedBefore
    <3>4. Bb = {y \in seen : SortedBefore(wb, y, x)}
      BY <2>2, <2>3, <3>1, <3>2 DEF SortedBefore
    <3>5. \A y \in seen : SortedBefore(wa, y, x) <=> SortedBefore(wb, y, x)
      BY <2>4 DEF SortedBefore, seen
    <3>6. ~SortedBefore(wa, x, x)
      BY <2>1, SortIsStrict
    <3> QED BY <3>3, <3>4, <3>5, <3>6
  <2>6. /\ k \in Nat
        /\ x \in ListedBy(a) <=> Skip(ask[a]) <= k /\ k < Skip(ask[a]) + ask[a].size
    BY <2>3, ListedByRank
  <2>7. x \in ListedBy(b) <=> Skip(ask[b]) <= k /\ k < Skip(ask[b]) + ask[b].size
    BY <2>3, <2>5, ListedByRank
  <2>8. /\ size \in Nat \ {0} /\ Skip(ask[a]) \in Nat /\ Skip(ask[b]) \in Nat
        /\ Skip(ask[a]) + size <= Skip(ask[b])
        /\ ask[a].page = 1 /\ ask[b].page = 2 => Skip(ask[a]) = 0 /\ Skip(ask[b]) = size
    <3>1. size \in Nat \ {0} /\ ask[a].page \in Nat \ {0} /\ ask[b].page \in Nat \ {0}
      BY SearchAnswer
    <3>2. ask[a].page = 1 => Skip(ask[a]) = 0
      BY <3>1 DEF Skip
    <3>3. ask[b].page = 2 => Skip(ask[b]) = size
      BY <3>1 DEF Skip
    <3>4. Skip(ask[a]) \in Nat /\ Skip(ask[b]) \in Nat
      BY <3>1, SkipType
    <3>5. Skip(ask[a]) + size <= Skip(ask[b])
      BY <3>1, PagesApart
    <3> QED BY <3>1, <3>2, <3>3, <3>4, <3>5
  <2>9. k < Cardinality(seen) /\ Cardinality(seen) \in Nat
    <3>1. IsFiniteSet(seen)
      <4>1. seen \in SUBSET Fa
        BY <2>2
      <4> QED BY <4>1, MatchingType, FS_Subset
    <3>2. IsFiniteSet(seen \ {x}) /\ Cardinality(seen \ {x}) = Cardinality(seen) - 1
      BY <3>1, FS_RemoveElement
    <3>3. Ba \in SUBSET (seen \ {x})
      BY <2>5
    <3>4. k <= Cardinality(seen \ {x})
      BY <3>2, <3>3, FS_Subset
    <3>5. Cardinality(seen) \in Nat
      BY <3>1, FS_CardinalityType
    <3> QED BY <2>6, <3>2, <3>4, <3>5
  <2>10. ask[b].size = size
    OBVIOUS
  <2>11. x \in ListedBy(a) <=> Skip(ask[a]) <= k /\ k < Skip(ask[a]) + size
    BY <2>6
  <2>12. x \in ListedBy(b) <=> Skip(ask[b]) <= k /\ k < Skip(ask[b]) + size
    BY <2>7, <2>10
  <2> HIDE DEF k, size, seen
  <2>13. ~(x \in ListedBy(a) /\ x \in ListedBy(b))
    BY <2>6, <2>8, <2>11, <2>12
  <2>14. /\ ask[a].page = 1 /\ ask[b].page = 2 /\ Cardinality(seen) <= 2 * size
         => x \in ListedBy(a) \/ x \in ListedBy(b)
    BY <2>6, <2>8, <2>9, <2>11, <2>12
  <2> QED BY <2>13, <2>14 DEF seen, size
<1> QED BY <1>1, OfficerInvariance, PTL
=============================================================================
