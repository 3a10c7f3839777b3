---------------------------- MODULE CaseOfficerApi ----------------------------
(***************************************************************************)
(* The protected API: whoami, GET /search, GET /export, the metrics and    *)
(* DELETE /registrations, from the token to the answer, while applicants   *)
(* begin and end their journeys.                                           *)
(*                                                                         *)
(* The service checks its settings once, when it starts.  A request is     *)
(* admitted and validated in one step, then makes its reads, of which      *)
(* Promise.all runs several at once, and answers once it has them all.  A  *)
(* read goes to any secondary, and is no snapshot: each document is found  *)
(* as some version of the database has it, not all as one does.  A delete  *)
(* is a transaction on the primary, which AuditedRepository has in detail  *)
(* and which is one step here.                                             *)
(***************************************************************************)
EXTENDS Sequences, OfficerAuth, JourneyMetrics

CONSTANTS
    Setting,       \* the settings to be looked at
    Request,       \* the requests to be made, each with a token
    Call,          \* HTTP calls, each made once
    Session,       \* journeys, and the references of what they register: integers,
                   \* which order as the references do
    Matches,       \* the registrations that each search term matches
    BlankTerm,     \* the term that /export takes for everything
    OtherPrefix,   \* other references, which do not have the configured prefix
    InitialWorlds, \* what the database holds when the service starts
    FirstDay,      \* the day on which the service starts
    MaxTime,       \* bound: the last day
    MaxWrites,     \* bound: the writes from then on
    None

ASSUME SettingAssumption == Setting \subseteq Settings

ASSUME SessionAssumption ==
    /\ Session \subseteq Nat /\ IsFiniteSet(Session) /\ OtherPrefix \cap Session = {}
    /\ Matches \in [DOMAIN Matches -> SUBSET Session] /\ BlankTerm \in DOMAIN Matches
    /\ MaxTime \in Nat /\ FirstDay \in 0..MaxTime /\ MaxWrites \in Nat

Series == {"starts", "registrations", "notEligible"}

\* The requests to each route, with the fields that it looks at.
Requests ==
    [kind : {"whoami"}, token : Token]
    \cup [kind : {"search"}, token : Token, term : DOMAIN Matches, page : Int, size : Int]
    \cup [kind : {"export"}, token : Token, term : DOMAIN Matches \cup {None},
           reference : Session \cup OtherPrefix \cup {None}]
    \cup [kind : {"delete"}, token : Token, reference : Session \cup OtherPrefix,
           version : Int]
    \cup [kind : Series \cup {"journeys"}, token : Token, from : Int, to : Int]

ASSUME RequestAssumption == Request \subseteq Requests

VARIABLES
    settings,
    server,  \* "down", "up", or "refused" to start
    clock,   \* the day
    log,     \* the versions of the database, the last is the primary's
    pc,      \* where each call is
    ask,     \* what it asks
    got,     \* what its reads returned, and what they saw of the database
    answer   \* its status and body

vars == <<settings, server, clock, log, pc, ask, got, answer>>

\* One journey: whether its start was recorded and when, how it ended and when,
\* and its registration, if it has one, which alone can be deleted.  One stored
\* before there were versions has none.  Only a registration's date may be missing:
\* the record of a journey that ended without one is made with its date.
Doc == {d \in [start : Undated..MaxTime, end : Undated..MaxTime,
                state : {"none", "open", "registered", "not eligible"},
                version : {None} \cup (Nat \ {0}), deleted : BOOLEAN] :
            /\ d.deleted => d.state = "registered"
            /\ d.state = "not eligible" => d.end # Undated}

World == [Session -> Doc]

ASSUME WorldAssumption == InitialWorlds \subseteq World /\ None \notin Int

TypeOK ==
    /\ settings \in Setting
    /\ server \in {"down", "up", "refused"}
    /\ clock \in FirstDay..MaxTime
    /\ log \in Seq(World) /\ Len(log) \in 1..MaxWrites + 1
    /\ pc \in [Call -> {"idle", "reading", "deleting", "done"}]
    /\ DOMAIN ask = Call /\ DOMAIN got = Call /\ DOMAIN answer = Call

Current == log[Len(log)]

Write(world) == Len(log) <= MaxWrites /\ log' = Append(log, world)

\* What a read may see: each document in any version that it had.
Views == {[s \in Session |-> log[version[s]][s]] : version \in [Session -> DOMAIN log]}

-----------------------------------------------------------------------------
(* Reads                                                                   *)

Registered(w) == {s \in Session : w[s].state = "registered"}

\* What goes wrong if a deleted registration can still be found.
FoundEvenDeleted(w) == Registered(w)

\* visible: what reads and deletions find.
Visible(w) == {s \in Registered(w) : ~w[s].deleted}

\* What goes wrong if the metrics leave deleted registrations out.
StillThere(w) == Visible(w)

\* countRegistrations includes the deleted: they were completed.
Completed(w) == Registered(w)

Matching(w, term) == Visible(w) \cap Matches[term]

\* What goes wrong without the reference in searchSort.
NewestOnly(w, x, y) == w[x].end > w[y].end

\* searchSort: newest first, and by reference among equals.
SortedBefore(w, x, y) == w[x].end > w[y].end \/ (w[x].end = w[y].end /\ x < y)

\* Every order in which the database may return them.
Orders(w, found) ==
    {q \in [1..Cardinality(found) -> found] :
        \A i, j \in 1..Cardinality(found) : i < j => q[i] # q[j] /\ ~SortedBefore(w, q[j], q[i])}

Skip(q) == (q.page - 1) * q.size

Least(a, b) == IF a < b THEN a ELSE b

Page(order, q) == SubSeq(order, Skip(q) + 1, Least(Skip(q) + q.size, Len(order)))

\* What goes wrong if an unversioned registration is shown at version 1.
ShownAtOne(d) == IF d.version = None THEN 1 ELSE d.version

\* record.version ?? UNVERSIONED
ShownVersion(d) == IF d.version = None THEN 0 ELSE d.version

Row(w, s) == [reference |-> s, version |-> ShownVersion(w[s])]

\* What goes wrong if no more rows are read than may be returned.
AtMostAllowed(st) == st.maxRows

\* The limit of an export's read: one more row than it may return.
ExportLimit(st) == st.maxRows + 1

\* The rows of the page that a search asks for.
PageRows(w, q) ==
    {[i \in DOMAIN p |-> Row(w, p[i])] : p \in {Page(o, q) : o \in Orders(w, Matching(w, q.term))}}

\* The registrations that an export reads; which, does not matter when they are too many.
ListedRows(st, w, q) ==
    {rows \in SUBSET Matching(w, q.term) :
        Cardinality(rows) = Least(ExportLimit(st), Cardinality(Matching(w, q.term)))}

\* The documents of a series and the field that dates them.
Started(w) == {s \in Session : w[s].start # Undated}
NotNeeding(w) == {s \in Session : w[s].state = "not eligible"}

Counted(w, series, from, to) ==
    CASE series = "starts" -> MonthlyCounts(Started(w), [s \in Session |-> w[s].start], from, to)
      [] series = "registrations" ->
            MonthlyCounts(Completed(w), [s \in Session |-> w[s].end], from, to)
      [] series = "notEligible" ->
            MonthlyCounts(NotNeeding(w), [s \in Session |-> w[s].end], from, to)

\* What a part of a request may return, reading this version.
Results(st, q, part, w) ==
    CASE part = "page" -> PageRows(w, q)
      [] part = "count" -> {Cardinality(Matching(w, q.term))}
      [] part = "list" -> ListedRows(st, w, q)
      [] part = "single" -> {{q.reference} \cap Visible(w)}
      [] part \in Series -> {Counted(w, part, q.from, q.to)}

\* What goes wrong if the last, partly filled page is not counted.
FullPages(total, size) == total \div size

TotalPages(total, size) == (total + size - 1) \div size

SearchReply(q, results) ==
    [status |-> 200, rows |-> results["page"], total |-> results["count"],
     pages |-> TotalPages(results["count"], q.size)]

ExportReply(st, q, results) ==
    IF q.reference # None THEN [status |-> 200, rows |-> results["single"]]
    ELSE IF Cardinality(results["list"]) > st.maxRows THEN [status |-> 400]
    ELSE [status |-> 200, rows |-> results["list"]]

JourneysReply(results) ==
    [status |-> 200, body |-> SummariseJourneys(results["starts"],
                                results["registrations"], results["notEligible"])]

\* The answer, once all the reads have returned.
Reply(st, q, results) ==
    CASE q.kind = "search" -> SearchReply(q, results)
      [] q.kind = "export" -> ExportReply(st, q, results)
      [] q.kind = "journeys" -> JourneysReply(results)
      [] q.kind \in Series -> [status |-> 200, body |-> results[q.kind]]

\* The reads that a request makes.
Parts(q) ==
    CASE q.kind = "search" -> {"page", "count"}
      [] q.kind = "export" -> IF q.reference = None THEN {"list"} ELSE {"single"}
      [] q.kind = "journeys" -> Series
      [] q.kind \in Series -> {q.kind}

\* validateReferenceNumber
ReferenceValid(s) == s \notin OtherPrefix

MaxPage == 10000

\* searchQuerySchema, and the page sizes that the settings allow.  A term with
\* nothing but wildcards, or too many of them, is refused as a blank one is.
SearchValid(st, q) ==
    /\ q.term # BlankTerm
    /\ PositiveInt(q.page) /\ q.page <= MaxPage
    /\ PositiveInt(q.size) /\ q.size <= st.maxPageSize

\* exportQuerySchema, and resolveQuery's check of the reference.
ExportValid(q) ==
    /\ (q.reference = None) # (q.term = None)
    /\ q.reference # None => ReferenceValid(q.reference)

DeleteValid(q) == ReferenceValid(q.reference) /\ q.version >= 0

RequestValid(st, q) ==
    CASE q.kind = "search" -> SearchValid(st, q)
      [] q.kind = "export" -> ExportValid(q)
      [] q.kind = "delete" -> DeleteValid(q)
      [] OTHER -> TRUE

-----------------------------------------------------------------------------
Nothing == [x \in {} |-> 0]

Including(reads, part, x) ==
    [p \in DOMAIN reads \cup {part} |-> IF p = part THEN x ELSE reads[p]]

Init ==
    /\ settings \in Setting
    /\ server = "down"
    /\ clock = FirstDay
    /\ \E w \in InitialWorlds : log = <<w>>
    /\ pc = [c \in Call |-> "idle"]
    /\ ask = [c \in Call |-> [kind |-> "none"]]
    /\ got = [c \in Call |-> Nothing]
    /\ answer = [c \in Call |-> [status |-> 0]]

\* The service starts, or refuses to.
Start ==
    /\ server = "down"
    /\ server' = IF StartupAllowed(settings) THEN "up" ELSE "refused"
    /\ UNCHANGED <<settings, clock, log, pc, ask, got, answer>>

\* Only what is written depends on the day, so it stays the same after the last write.
Tick ==
    /\ server = "up" /\ clock < MaxTime /\ Len(log) <= MaxWrites
    /\ clock' = clock + 1
    /\ UNCHANGED <<settings, server, log, pc, ask, got, answer>>

applicants == <<settings, server, clock, pc, ask, got, answer>>

\* A journey begins, and its beacon is recorded or lost.
Begin(s) ==
    /\ server = "up" /\ Current[s].state = "none"
    /\ \E day \in {clock, Undated} :
        Write([Current EXCEPT ![s].state = "open", ![s].start = day])
    /\ UNCHANGED applicants

\* A registration is stored, dated when its submission read the clock.
Submit(s) ==
    /\ server = "up" /\ Current[s].state = "open"
    /\ \E day \in {clock - 1, clock} \cap Nat :
        Write([Current EXCEPT ![s].state = "registered", ![s].end = day, ![s].version = 1])
    /\ UNCHANGED applicants

\* The applicant learns that there is nothing to register.
NotEligible(s) ==
    /\ server = "up" /\ Current[s].state = "open"
    /\ Write([Current EXCEPT ![s].state = "not eligible", ![s].end = clock])
    /\ UNCHANGED applicants

Answer(c, a) ==
    /\ pc' = [pc EXCEPT ![c] = "done"]
    /\ answer' = [answer EXCEPT ![c] = a]

\* The bearer scheme, the route's scope and its validation, before the handler.
Receive(c, q) ==
    LET status == Admission(settings, q.token) IN
    /\ server = "up" /\ pc[c] = "idle"
    /\ ask' = [ask EXCEPT ![c] = q]
    /\ IF status # 200 THEN Answer(c, [status |-> status])
       ELSE IF ~RequestValid(settings, q) THEN Answer(c, [status |-> 400])
       ELSE IF q.kind = "whoami" THEN Answer(c, [status |-> 200])
       ELSE /\ pc' = [pc EXCEPT ![c] = IF q.kind = "delete" THEN "deleting" ELSE "reading"]
            /\ UNCHANGED answer
    /\ UNCHANGED <<settings, server, clock, log, got>>

\* One of the call's reads returns, from whichever copy it went to, and with the
\* last of them Promise.all and the answer.
Read(c, part) ==
    /\ pc[c] = "reading"
    /\ part \in Parts(ask[c]) \ DOMAIN got[c]
    /\ \E v \in Views : \E r \in Results(settings, ask[c], part, v) :
        LET all == Including(got[c], part, [result |-> r, view |-> v]) IN
        /\ got' = [got EXCEPT ![c] = all]
        /\ IF DOMAIN all = Parts(ask[c])
           THEN Answer(c, Reply(settings, ask[c], [p \in DOMAIN all |-> all[p].result]))
           ELSE UNCHANGED <<pc, answer>>
    /\ UNCHANGED <<settings, server, clock, log, ask>>

\* atVersion: 0 stands for a registration from before there were versions.
AtVersion(d, version) == IF d.version = None THEN version = 0 ELSE version = d.version

\* What goes wrong if softDelete leaves the version as it was.
DeletedInPlace(d, version) == [d EXCEPT !.deleted = TRUE, !.version = version]

\* The registration that softDelete stores, a version later.
SoftDeleted(d, version) == [d EXCEPT !.deleted = TRUE, !.version = version + 1]

\* softDelete at the version the officer sends; its answer may be lost.
Delete(c) ==
    LET q == ask[c]
        d == Current[q.reference]
    IN  /\ pc[c] = "deleting"
        /\ IF q.reference \notin Visible(Current)
           THEN Answer(c, [status |-> 404]) /\ UNCHANGED log
           ELSE IF ~AtVersion(d, q.version)
           THEN Answer(c, [status |-> 409]) /\ UNCHANGED log
           ELSE /\ Write([Current EXCEPT ![q.reference] = SoftDeleted(d, q.version)])
                /\ \E status \in {200, 500} : Answer(c, [status |-> status])
        /\ UNCHANGED <<settings, server, clock, ask, got>>

\* A read or the delete fails.
Fails(c) ==
    /\ pc[c] \in {"deleting", "reading"}
    /\ Answer(c, [status |-> 500])
    /\ got' = [got EXCEPT ![c] = Nothing]
    /\ UNCHANGED <<settings, server, clock, log, ask>>

Next ==
    \/ Start
    \/ Tick
    \/ \E s \in Session : Begin(s) \/ Submit(s) \/ NotEligible(s)
    \/ \E c \in Call :
        \/ pc[c] = "idle" /\ \E q \in Request : Receive(c, q)
        \/ \E part \in {"page", "count", "list", "single"} \cup Series : Read(c, part)
        \/ Delete(c) \/ Fails(c)

Spec == Init /\ [][Next]_vars

-----------------------------------------------------------------------------
(* Properties                                                              *)

Served(c, kind) == ask[c].kind = kind /\ answer[c].status = 200

\* On a deployed tier nobody gets past authentication but the bearer of a fresh
\* token that our tenant signed for this API, with a case officer's role, and the
\* scope if one is required, whatever was left out of the settings
\* (auth.js:28, entra-bearer-scheme.js:64).
OnlyOfficersServed ==
    \A c \in Call :
        settings.tier = "deployed" /\ answer[c].status \notin {0, 401, 403} =>
            LET t == ask[c].token IN
            /\ t.signed /\ t.issuer /\ t.audience /\ t.fresh
            /\ settings.auth.tenant /\ settings.auth.audience
            /\ t.roles \cap settings.auth.roles # {}
            /\ settings.auth.scope => t.scope

\* The registrations that a page's read found as new as x or newer.
AsNew(c, x) ==
    LET w == got[c]["page"].view
    IN  {y \in Matching(w, ask[c].term) : w[y].end >= w[x].end}

ListedBy(c) == {row.reference : row \in {answer[c].rows[i] : i \in DOMAIN answer[c].rows}}

\* An officer sees a registration on two pages of a search, or misses one on turning
\* from the first page to the second, only if the reads found different ones that
\* are at least as new: not because of equal dates (search.js:6).
EachListedOnce ==
    \A a, b \in Call :
        /\ Served(a, "search") /\ Served(b, "search")
        /\ ask[a].term = ask[b].term /\ ask[a].size = ask[b].size
        /\ ask[a].page < ask[b].page
        => \A x \in Session :
            LET seen == AsNew(a, x) IN
            x \in seen /\ seen = AsNew(b, x) =>
                /\ ~(x \in ListedBy(a) /\ x \in ListedBy(b))
                /\ ask[a].page = 1 /\ ask[b].page = 2 /\ Cardinality(seen) <= 2 * ask[a].size
                     => x \in ListedBy(a) \cup ListedBy(b)

\* If a search's two reads found the same registrations, the number of pages is
\* right: the page has rows if and only if it is one of them.
LastPageIsLast ==
    \A c \in Call : Served(c, "search") =>
        LET found(part) == Matching(got[c][part].view, ask[c].term) IN
        found("page") = found("count") =>
            (ask[c].page <= answer[c].pages <=> answer[c].rows # <<>>)

\* An export is "never cut short": it has every registration that matched, and
\* was not deleted, when its read came to it, and nothing else, and it is refused
\* only if these are too many (routes/export/index.js:18).
ExportComplete ==
    \A c \in Call : ask[c].kind = "export" /\ answer[c].status \in {200, 400} /\ DOMAIN got[c] = {"list"} =>
        LET matching == Matching(got[c]["list"].view, ask[c].term) IN
        IF answer[c].status = 200 THEN answer[c].rows = matching
        ELSE Cardinality(matching) > settings.maxRows

\* A deletion at the version that a search shows is never refused as a conflict:
\* nothing else changes registrations, and unversioned ones are shown at the
\* version that the repository takes for none (search.js:42).
ShownVersionWorks ==
    \A a, b \in Call :
        Served(a, "search") /\ ask[b].kind = "delete" /\ answer[b].status = 409 =>
            \A i \in DOMAIN answer[a].rows :
                answer[a].rows[i] # [reference |-> ask[b].reference, version |-> ask[b].version]

\* Of all the calls that delete a registration one is told so at most, also when
\* answers are lost, and then it is deleted for good, at the next version.
DeletedOnce ==
    \A a, b \in Call : Served(a, "delete") =>
        /\ Current[ask[a].reference].deleted
        /\ Current[ask[a].reference].version = ask[a].version + 1
        /\ Served(b, "delete") /\ ask[b].reference = ask[a].reference => a = b

\* Drop-outs are not overstated: at least as many journeys had their start
\* recorded by the time the starts were counted and had not ended when the ends
\* were, although a registration may be deleted and the counts are read at
\* different moments (journeys/index.js:14).
DropOutsAreReal ==
    \A c \in Call :
        Served(c, "journeys") /\ ask[c].from = NoBound /\ ask[c].to = NoBound =>
            LET seen(part) == got[c][part].view IN
            answer[c].body.all.dropOuts <=
                Cardinality({s \in Session :
                    /\ seen("starts")[s].start # Undated
                    /\ seen("registrations")[s].state # "registered"
                    /\ seen("notEligible")[s].state # "not eligible"})

\* A summary adds up: the months of a year make the year, and all of them with the
\* undated make the whole, however the three counts differ in their months; and no
\* month is listed in which nothing happened (journeys/index.js:56).
MetricsAddUp ==
    \A c \in Call : Served(c, "journeys") =>
        LET body == answer[c].body
            sum(field, months) == SumOver([m \in months |-> body.byMonth[m][field]], months)
            undated == {s \in Registered(got[c]["registrations"].view) :
                            got[c]["registrations"].view[s].end = Undated}
        IN  /\ \A field \in Series :
                /\ body.all[field] - sum(field, DOMAIN body.byMonth) =
                     IF field = "registrations" /\ ask[c].from = NoBound /\ ask[c].to = NoBound
                     THEN Cardinality(undated) ELSE 0
                /\ \A y \in DOMAIN body.byYear :
                     body.byYear[y][field] =
                         sum(field, {m \in DOMAIN body.byMonth : YearOf(m) = y})
            /\ \A m \in DOMAIN body.byMonth :
                \E field \in Series : body.byMonth[m][field] # 0

-----------------------------------------------------------------------------
(* Why it works: the inductive invariant                                   *)

\* What becomes of a registration: it stays as it is, or is deleted, for good.
Follows(w, x) ==
    \A s \in Registered(w) :
        \/ x[s] = w[s]
        \/ s \in Visible(w) /\ s \in Registered(x) \ Visible(x) /\ x[s].end = w[s].end

\* The versions of the database are in order.
LogInOrder == \A i, j \in DOMAIN log : i <= j => Follows(log[i], log[j])

\* What a call has read is what it saw, and that was stored.
ReadsAreTrue(c) ==
    \A part \in DOMAIN got[c] :
        /\ part \in Parts(ask[c]) /\ got[c][part].view \in World
        /\ \A s \in Session : \E i \in DOMAIN log : got[c][part].view[s] = log[i][s]
        /\ got[c][part].result \in Results(settings, ask[c], part, got[c][part].view)

\* What each point of a call knows: only what was admitted and is valid goes on,
\* and an answer is made of all the reads or of none.
CallStage(c) ==
    /\ pc[c] # "idle" => ask[c] \in Requests
    /\ pc[c] # "done" => answer[c] = [status |-> 0]
    /\ pc[c] \notin {"reading", "done"} => got[c] = Nothing
    /\ pc[c] \in {"reading", "deleting"} \/ answer[c].status \notin {0, 401, 403} =>
         server = "up" /\ Admission(settings, ask[c].token) = 200
    /\ pc[c] \in {"reading", "deleting"} \/ DOMAIN got[c] # {} => RequestValid(settings, ask[c])
    /\ pc[c] = "deleting" => ask[c].kind = "delete"
    /\ pc[c] = "reading" \/ DOMAIN got[c] # {} => ask[c].kind \notin {"whoami", "delete"}
    /\ pc[c] = "done" /\ DOMAIN got[c] # {} =>
         /\ DOMAIN got[c] = Parts(ask[c])
         /\ answer[c] = Reply(settings, ask[c], [p \in DOMAIN got[c] |-> got[c][p].result])
    /\ answer[c].status = 200 /\ DOMAIN got[c] = {} => ask[c].kind \in {"whoami", "delete"}

\* What a deletion's answer says is true from then on.
DeletionStage(c) ==
    ask[c].kind = "delete" =>
        /\ answer[c].status = 200 =>
             /\ ask[c].reference \in Registered(Current) \ Visible(Current)
             /\ Current[ask[c].reference].version = ask[c].version + 1
        /\ answer[c].status = 409 =>
             /\ ask[c].reference \in Registered(Current)
             /\ \A i \in DOMAIN log : ask[c].reference \in Visible(log[i]) =>
                    ~AtVersion(log[i][ask[c].reference], ask[c].version)

OfficerInv ==
    /\ TypeOK /\ LogInOrder
    /\ server = "up" => StartupAllowed(settings)
    /\ \A c \in Call : ReadsAreTrue(c) /\ CallStage(c) /\ DeletionStage(c)
    /\ \A a, b \in Call : Served(a, "delete") /\ Served(b, "delete")
                            /\ ask[b].reference = ask[a].reference => a = b
=============================================================================
