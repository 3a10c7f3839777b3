-------------------------- MODULE AuditedRepository --------------------------
(***************************************************************************)
(* The audited repository: create, update and softDelete of registrations, *)
(* each recorded in the history collection in the same MongoDB             *)
(* transaction, alone or grouped by withTransaction                        *)
(* (repositories/audited-repository.js, registration-history.js,           *)
(* mongo-transaction.js).                                                  *)
(*                                                                         *)
(* Callers interleave at every await.  A transaction works on a private    *)
(* view, the snapshot taken by its first operation plus its own writes.    *)
(* The server refuses a write to a document that another open transaction  *)
(* has written, or that was committed since the snapshot: the first        *)
(* updater wins, and the other gets a transient error that the driver      *)
(* answers by running the work again.  The database may fail at any        *)
(* operation, the acknowledgement of a commit may be lost, and a process   *)
(* may crash.                                                              *)
(*                                                                         *)
(* The content of a registration is abstracted to the caller who changed   *)
(* it last; entries keep the version, the operation, the actor and the     *)
(* snapshot.  The unique index on the history's (reference, version) is    *)
(* left out on purpose: HistoryComplete shows it never has to refuse.      *)
(***************************************************************************)
EXTENDS Integers

CONSTANTS
    Ref,          \* the references of registrations
    LegacyRef,    \* those stored before versions and history existed
    Caller,       \* the actors with a call in progress
    MaxVersion,   \* bound: no registration changes beyond this version
    MaxRetries,   \* bound: how often the driver runs the work again
    Legacy,       \* the author of an unversioned registration
    Absent,       \* no document with that reference
    NoRequest     \* a grouped call that has not made its first change

ASSUME LegacyAssumption == LegacyRef \subseteq Ref
ASSUME BoundsAssumption == MaxVersion \in Nat \ {0} /\ MaxRetries \in Nat
ASSUME LegacyAuthorAssumption == Legacy \notin Caller

UNVERSIONED == 0
FIRST_VERSION == 1

Registration == [version : 0..MaxVersion, isDeleted : BOOLEAN,
                 author : Caller \cup {Legacy}]

Change == {"create", "update", "delete"}

Entry == [reference : Ref, version : 0..MaxVersion, operation : Change,
          by : Caller, snapshot : Registration]

\* A change a caller asks for.  create has no expected version; the others
\* send the version the caller loaded, however long ago.
Request ==
    {q \in [kind : Change, ref : Ref, expected : 0..(MaxVersion - 1)] :
        q.kind = "create" => q.expected = UNVERSIONED}

ASSUME AbsentAssumption == Absent \notin Registration
ASSUME NoRequestAssumption == NoRequest \notin Request

VARIABLES
    regs,     \* the committed registrations collection
    hist,     \* the committed history collection
    pc,       \* where each caller's call is
    mode,     \* "single": own transaction; "group": withTransaction
    op,       \* the change the caller is making
    view,     \* the registrations as the open transaction sees them
    added,    \* the history entries the open transaction has inserted
    wset,     \* the registrations the open transaction has written
    stale,    \* those that others have committed since its snapshot
    failure,  \* the first failure of the transaction, as run records it
    retries,  \* how often the driver has run the work again
    tried,    \* every entry this call inserted, in any of its attempts
    outcome   \* what the caller was told

txn == <<view, added, wset, stale, failure>>
vars == <<regs, hist, pc, mode, op, view, added, wset, stale, failure,
          retries, tried, outcome>>

Open == {"working", "appending", "committing"}
Failures == {"conflict", "duplicate", "transient", "fatal"}
Outcomes == {"none", "ok", "null", "rejected", "unknown"}

TypeOK ==
    /\ regs \in [Ref -> Registration \cup {Absent}]
    /\ hist \in SUBSET Entry
    /\ pc \in [Caller -> Open \cup {"idle", "aborted", "committed", "ended"}]
    /\ mode \in [Caller -> {"single", "group"}]
    /\ op \in [Caller -> Request \cup {NoRequest}]
    /\ view \in [Caller -> [Ref -> Registration \cup {Absent}]]
    /\ added \in [Caller -> SUBSET Entry]
    /\ wset \in [Caller -> SUBSET Ref]
    /\ stale \in [Caller -> SUBSET Ref]
    /\ failure \in [Caller -> Failures \cup {"none"}]
    /\ retries \in [Caller -> 0..MaxRetries]
    /\ tried \in [Caller -> SUBSET Entry]
    /\ outcome \in [Caller -> Outcomes]

-----------------------------------------------------------------------------
(* Documents, filters and entries                                          *)

\* A registration stored before versions: no version, no isDeleted field.
LegacyDoc == [version |-> UNVERSIONED, isDeleted |-> FALSE, author |-> Legacy]

\* The NOT_DELETED filter every read and write applies.
Visible(d) == d # Absent /\ ~d.isDeleted

\* What goes wrong without atVersion: the last writer wins.
AtAnyVersion(d, expected) == Visible(d)

\* The filter of findOneAndUpdate: visible, and still at that version.
AtVersion(d, expected) == Visible(d) /\ d.version = expected

\* What goes wrong if a deleted registration no longer holds its reference.
TakenWhileVisible(d) == Visible(d)

\* The unique index on reference, which covers deleted registrations too.
Taken(d) == d # Absent

Created(c) == [version |-> FIRST_VERSION, isDeleted |-> FALSE, author |-> c]

\* What goes wrong without $inc: two entries claim one version.
UpdatedInPlace(d, c) ==
    [version |-> d.version, isDeleted |-> d.isDeleted, author |-> c]

Updated(d, c) ==
    [version |-> d.version + 1, isDeleted |-> d.isDeleted, author |-> c]

SoftDeleted(d, c) ==
    [version |-> d.version + 1, isDeleted |-> TRUE, author |-> c]

\* The document q leaves in place of d.
Changed(d, q, c) ==
    CASE q.kind = "create" -> Created(c)
      [] q.kind = "update" -> Updated(d, c)
      [] q.kind = "delete" -> SoftDeleted(d, c)

\* historyEntry: the document as the change left it.
HistoryEntry(q, snapshot, c) ==
    [reference |-> q.ref, version |-> snapshot.version, operation |-> q.kind,
     by |-> c, snapshot |-> snapshot]

\* The entry of the change c has made but not yet recorded.
PendingEntry(c) == HistoryEntry(op[c], view[c][op[c].ref], c)

\* What goes wrong without snapshot isolation: a write over a commit that the
\* transaction has not seen.
ConflictOfOpenWriters(c, r) ==
    \E d \in Caller \ {c} : pc[d] \in Open /\ r \in wset[d]

\* The server refuses the write: another open transaction wrote r first, or r
\* was committed after this transaction's snapshot.
WriteConflict(c, r) ==
    \/ r \in stale[c]
    \/ \E d \in Caller \ {c} : pc[d] \in Open /\ r \in wset[d]

-----------------------------------------------------------------------------
\* What a caller without a transaction sees.
NoView == [r \in Ref |-> Absent]

Init ==
    /\ regs = [r \in Ref |-> IF r \in LegacyRef THEN LegacyDoc ELSE Absent]
    /\ hist = {}
    /\ pc = [c \in Caller |-> "idle"]
    /\ mode = [c \in Caller |-> "single"]
    /\ op = [c \in Caller |-> NoRequest]
    /\ view = [c \in Caller |-> NoView]
    /\ added = [c \in Caller |-> {}]
    /\ wset = [c \in Caller |-> {}]
    /\ stale = [c \in Caller |-> {}]
    /\ failure = [c \in Caller |-> "none"]
    /\ retries = [c \in Caller |-> 0]
    /\ tried = [c \in Caller |-> {}]
    /\ outcome = [c \in Caller |-> "none"]

\* The driver starts a transaction for c: a fresh snapshot, nothing written,
\* no failure recorded.
Snapshot(c) ==
    /\ pc' = [pc EXCEPT ![c] = "working"]
    /\ view' = [view EXCEPT ![c] = regs]
    /\ added' = [added EXCEPT ![c] = {}]
    /\ wset' = [wset EXCEPT ![c] = {}]
    /\ stale' = [stale EXCEPT ![c] = {}]
    /\ failure' = [failure EXCEPT ![c] = "none"]

\* A call begins: create, update or softDelete without a session.
BeginSingle(c, q) ==
    /\ pc[c] = "idle"
    /\ Snapshot(c)
    /\ mode' = [mode EXCEPT ![c] = "single"]
    /\ op' = [op EXCEPT ![c] = q]
    /\ UNCHANGED <<regs, hist, retries, tried, outcome>>

\* A call of withTransaction begins; its work has made no change yet.
BeginGroup(c) ==
    /\ pc[c] = "idle"
    /\ Snapshot(c)
    /\ mode' = [mode EXCEPT ![c] = "group"]
    /\ UNCHANGED <<regs, hist, op, retries, tried, outcome>>

\* The changes c may make now: a single call has one, a group any number.
\* run rethrows the first failure instead of making a later change.
MayChange(c, q) ==
    /\ pc[c] = "working"
    /\ failure[c] = "none"
    /\ mode[c] = "single" => q = op[c]

\* The document is written in the transaction; its history entry comes next.
Write(c, q) ==
    LET r == q.ref IN
    /\ view' = [view EXCEPT ![c][r] = Changed(@, q, c)]
    /\ wset' = [wset EXCEPT ![c] = @ \cup {r}]
    /\ op' = [op EXCEPT ![c] = q]
    /\ pc' = [pc EXCEPT ![c] = "appending"]
    /\ UNCHANGED <<regs, hist, mode, added, stale, failure, retries, tried,
                   outcome>>

\* A failure is recorded unless one is already; work may catch it and go on.
Fail(c, kind) ==
    /\ failure' = [failure EXCEPT ![c] = IF @ = "none" THEN kind ELSE @]
    /\ pc' = [pc EXCEPT ![c] = "working"]
    /\ UNCHANGED <<regs, hist, mode, op, view, added, wset, stale, retries,
                   tried, outcome>>

\* createRegistration: insertOne, refused when the reference is taken.
Create(c, q) ==
    /\ q.kind = "create"
    /\ MayChange(c, q)
    /\ \/ Taken(view[c][q.ref]) /\ Fail(c, "duplicate")
       \/ ~Taken(view[c][q.ref]) /\ WriteConflict(c, q.ref)
          /\ Fail(c, "transient")
       \/ ~Taken(view[c][q.ref]) /\ ~WriteConflict(c, q.ref) /\ Write(c, q)

\* changeExisting for update and softDelete: the document must be visible and
\* at the expected version.  Otherwise it tells a conflict (the document is
\* there, at another version) from null (it is absent or deleted), which is a
\* result and not a failure; a group that gets null goes on unchanged.
ChangeExisting(c, q) ==
    LET d == view[c][q.ref] IN
    /\ q.kind \in {"update", "delete"}
    /\ MayChange(c, q)
    /\ \/ AtVersion(d, q.expected) /\ ~WriteConflict(c, q.ref) /\ Write(c, q)
       \/ AtVersion(d, q.expected) /\ WriteConflict(c, q.ref)
          /\ Fail(c, "transient")
       \/ Visible(d) /\ d.version # q.expected /\ Fail(c, "conflict")
       \/ ~Visible(d) /\ mode[c] = "single"
          /\ pc' = [pc EXCEPT ![c] = "committing"]
          /\ UNCHANGED <<regs, hist, mode, op, txn, retries, tried, outcome>>

\* What goes wrong without the session: the entry survives a rollback.
AppendOutsideTransaction(c) ==
    /\ pc[c] = "appending"
    /\ hist' = hist \cup {PendingEntry(c)}
    /\ tried' = [tried EXCEPT ![c] = @ \cup {PendingEntry(c)}]
    /\ pc' = [pc EXCEPT ![c] =
                IF mode[c] = "single" THEN "committing" ELSE "working"]
    /\ UNCHANGED <<regs, mode, op, view, added, wset, stale, failure, retries,
                   outcome>>

\* appendHistory: the entry is inserted in the same transaction.  A single
\* call is then finished, a group may go on.
Append(c) ==
    /\ pc[c] = "appending"
    /\ added' = [added EXCEPT ![c] = @ \cup {PendingEntry(c)}]
    /\ tried' = [tried EXCEPT ![c] = @ \cup {PendingEntry(c)}]
    /\ pc' = [pc EXCEPT ![c] =
                IF mode[c] = "single" THEN "committing" ELSE "working"]
    /\ UNCHANGED <<regs, hist, mode, op, view, wset, stale, failure, retries,
                   outcome>>

\* What goes wrong if a caught failure is forgotten: half a group commits.
WorkReturnsAnyway(c) ==
    /\ pc[c] = "working"
    /\ mode[c] = "group"
    /\ pc' = [pc EXCEPT ![c] = "committing"]
    /\ UNCHANGED <<regs, hist, mode, op, txn, retries, tried, outcome>>

\* The work of a group returns.  withTransaction lets it commit only if no
\* change failed, caught or not.
WorkReturns(c) ==
    /\ pc[c] = "working"
    /\ mode[c] = "group"
    /\ failure[c] = "none"
    /\ pc' = [pc EXCEPT ![c] = "committing"]
    /\ UNCHANGED <<regs, hist, mode, op, txn, retries, tried, outcome>>

\* An operation of the open transaction fails: an input check or a database
\* error, or a failover or network error, which the driver labels transient.
OperationFails(c) ==
    /\ pc[c] \in Open
    /\ failure[c] = "none"
    /\ \E kind \in {"transient", "fatal"} : Fail(c, kind)

\* The transaction is over; nothing of it is left.
CloseTransaction(c) ==
    /\ view' = [view EXCEPT ![c] = NoView]
    /\ added' = [added EXCEPT ![c] = {}]
    /\ wset' = [wset EXCEPT ![c] = {}]
    /\ stale' = [stale EXCEPT ![c] = {}]
    /\ failure' = [failure EXCEPT ![c] = "none"]
    /\ retries' = [retries EXCEPT ![c] = 0]
    /\ UNCHANGED <<regs, hist, mode, op, tried>>

\* The session ends and the caller is told what happened; a transaction that
\* is still open is aborted.
EndCall(c, told) ==
    /\ pc' = [pc EXCEPT ![c] = "ended"]
    /\ outcome' = [outcome EXCEPT ![c] = told]
    /\ CloseTransaction(c)

\* The caller has its answer and may make another call.
Return(c) ==
    /\ pc[c] = "ended"
    /\ pc' = [pc EXCEPT ![c] = "idle"]
    /\ mode' = [mode EXCEPT ![c] = "single"]
    /\ op' = [op EXCEPT ![c] = NoRequest]
    /\ tried' = [tried EXCEPT ![c] = {}]
    /\ outcome' = [outcome EXCEPT ![c] = "none"]
    /\ UNCHANGED <<regs, hist, txn, retries>>

\* What goes wrong if the driver only ever retries: a call may not end.
PermanentFailureEnds(c) ==
    /\ pc[c] = "working"
    /\ failure[c] \notin {"none", "transient"}
    /\ EndCall(c, "rejected")

\* A failure that is not transient ends the call, even if work caught it; a
\* transient one does when the driver has no time left to try again.
WorkFails(c) ==
    /\ pc[c] = "working"
    /\ failure[c] # "none"
    /\ EndCall(c, "rejected")

\* The work of a group throws an error of its own.
WorkThrows(c) ==
    /\ pc[c] = "working"
    /\ mode[c] = "group"
    /\ failure[c] = "none"
    /\ EndCall(c, "rejected")

\* The work of a group aborts the transaction itself.  (That it commits it
\* itself, and then goes on, is left out: no work in the service does either.)
WorkAborts(c) ==
    /\ pc[c] = "working"
    /\ mode[c] = "group"
    /\ failure[c] = "none"
    /\ pc' = [pc EXCEPT ![c] = "aborted"]
    /\ CloseTransaction(c)
    /\ UNCHANGED outcome

\* After that run makes no change: the session is in no transaction, and the
\* attempt fails the call, caught or not.  Otherwise the work returns or throws.
AbortedCallEnds(c) ==
    /\ pc[c] = "aborted"
    /\ EndCall(c, "ok") \/ EndCall(c, "rejected")

\* The driver answers a transient failure, whatever error the caller wrapped
\* it in, by aborting and running the work again from a new snapshot.
Retry(c) ==
    /\ pc[c] = "working"
    /\ failure[c] = "transient"
    /\ retries[c] < MaxRetries
    /\ retries' = [retries EXCEPT ![c] = @ + 1]
    /\ Snapshot(c)
    /\ UNCHANGED <<regs, hist, mode, op, tried, outcome>>

\* The server commits: every write and every entry becomes visible at once.
Commit(c) ==
    /\ pc[c] = "committing"
    /\ regs' = [r \in Ref |-> IF r \in wset[c] THEN view[c][r] ELSE regs[r]]
    /\ hist' = hist \cup added[c]
    /\ pc' = [pc EXCEPT ![c] = "committed"]
    /\ stale' = [d \in Caller |->
                   IF d # c /\ pc[d] \in Open THEN stale[d] \cup wset[c]
                                              ELSE stale[d]]
    /\ UNCHANGED <<mode, op, view, added, wset, failure, retries, tried,
                   outcome>>

\* The acknowledgement arrives, perhaps after the driver repeated the commit.
Acknowledge(c) ==
    /\ pc[c] = "committed"
    /\ EndCall(c, IF mode[c] = "single" /\ added[c] = {} THEN "null"
                                                         ELSE "ok")

\* The process crashes, or the acknowledgement never comes: the caller does
\* not learn what became of its transaction.
Lose(c) ==
    /\ pc[c] \in Open \cup {"committed"}
    /\ EndCall(c, "unknown")

Next ==
    \E c \in Caller :
        \/ \E q \in Request : BeginSingle(c, q)
        \/ BeginGroup(c)
        \/ \E q \in Request : Create(c, q) \/ ChangeExisting(c, q)
        \/ Append(c)
        \/ WorkReturns(c)
        \/ OperationFails(c)
        \/ WorkFails(c)
        \/ WorkThrows(c)
        \/ WorkAborts(c)
        \/ AbortedCallEnds(c)
        \/ Retry(c)
        \/ Commit(c)
        \/ Acknowledge(c)
        \/ Lose(c)
        \/ Return(c)

Spec == Init /\ [][Next]_vars

\* The event loop and the server serve every operation in progress, and the
\* work of a call ends; nobody is obliged to make a call.
Fairness ==
    \A c \in Caller :
        /\ WF_vars(\E q \in Request : Create(c, q) \/ ChangeExisting(c, q))
        /\ WF_vars(Append(c))
        /\ WF_vars(WorkReturns(c))
        /\ WF_vars(WorkFails(c))
        /\ WF_vars(AbortedCallEnds(c))
        /\ WF_vars(Commit(c))
        /\ WF_vars(Acknowledge(c))

FairSpec == Spec /\ Fairness

-----------------------------------------------------------------------------
(* Properties                                                              *)

EntriesOf(r, H) == {e \in H : e.reference = r}

\* The history H of reference r agrees with the document d: no entry without
\* a document, exactly one entry for each version from 1 to the document's,
\* and the last snapshot is the document as stored.
Recorded(r, d, H) ==
    /\ d = Absent => EntriesOf(r, H) = {}
    /\ d # Absent =>
         /\ \A v \in 1..d.version : \E e \in EntriesOf(r, H) : e.version = v
         /\ \A e \in EntriesOf(r, H) :
              /\ e.version \in 1..d.version
              /\ e.snapshot.version = e.version
              /\ e.version = d.version => e.snapshot = d
         /\ \A e, f \in EntriesOf(r, H) : e.version = f.version => e = f

\* Neither a registration nor its history is saved without the other: the
\* history keeps exactly one entry per version, up to the stored document.
\* So the unique index on (reference, version) never rejects an entry.
HistoryComplete == \A r \in Ref : Recorded(r, regs[r], hist)

\* A call that is told it failed has stored nothing, whatever its attempts
\* wrote before, and even if its work caught the failure and went on.
RejectedLeavesNothing ==
    \A c \in Caller : outcome[c] = "rejected" => tried[c] \cap hist = {}

\* The history H tells of the change that c was asked to make.
Tells(c, H) ==
    \E e \in H :
        /\ e.by = c
        /\ e.reference = op[c].ref
        /\ e.operation = op[c].kind
        /\ e.version = op[c].expected + 1

\* A single change that succeeded is in the history under its caller's name,
\* as the version right after the one the caller had loaded.  With
\* HistoryComplete, two callers who loaded the same version never both succeed.
AcknowledgedIsRecorded ==
    \A c \in Caller :
        outcome[c] = "ok" /\ mode[c] = "single" => Tells(c, hist)

\* A deleted registration never changes again and gets no further entry.
DeletedIsFrozen ==
    [][\A r \in Ref :
         regs[r] # Absent /\ regs[r].isDeleted =>
            regs'[r] = regs[r] /\ EntriesOf(r, hist') = EntriesOf(r, hist)]_vars

\* The repository implements the abstract store: whatever the interleaving of
\* its transactions, their failures and retries, what the database goes through
\* is a sequence of whole transactions by one caller each.
Store == INSTANCE RegistrationStore WITH
            Initial <- [r \in Ref |->
                          IF r \in LegacyRef THEN LegacyDoc ELSE Absent]

ImplementsStore == Store!Spec

\* Every call ends: no caller waits for another, and retries are bounded.
EveryCallEnds == \A c \in Caller : pc[c] = "working" ~> pc[c] = "ended"

-----------------------------------------------------------------------------
(* Why it works: the inductive invariant                                   *)

\* The first updater wins: no other open transaction has written what c has,
\* and nobody has committed it since c's snapshot.
OnlyWriter(c) ==
    pc[c] \in Open =>
        \A r \in wset[c] :
            /\ r \notin stale[c]
            /\ \A d \in Caller \ {c} : pc[d] \in Open => r \notin wset[d]

\* What c has not written, and nobody has committed since its snapshot, c sees
\* as it is now.
ViewCurrent(c) ==
    pc[c] \in Open =>
        \A r \in Ref \ (wset[c] \cup stale[c]) : view[c][r] = regs[r]

\* c records only what it has written, in its own name.
EntriesOwned(c) ==
    /\ \A e \in added[c] : e.by = c /\ e.reference \in wset[c]
    /\ \A e \in tried[c] : e.by = c

Pending(c) == IF pc[c] = "appending" THEN {PendingEntry(c)} ELSE {}

\* Unless an operation of it failed, the registrations c has written are newer
\* than the committed ones, which are not deleted, and their history is
\* complete but for the entry that comes next.
WritesRecorded(c) ==
    pc[c] \in Open /\ failure[c] = "none" =>
        \A r \in wset[c] :
            /\ view[c][r] # Absent
            /\ view[c][r].version > 0
            /\ regs[r] # Absent =>
                 ~regs[r].isDeleted /\ regs[r].version < view[c][r].version
            /\ Recorded(r, view[c][r], hist \cup added[c] \cup Pending(c))

\* What each point of the call knows about the change being made.
ControlConsistent(c) ==
    /\ pc[c] \in {"appending", "committing"} => failure[c] = "none"
    /\ pc[c] = "appending" => op[c] \in Request /\ op[c].ref \in wset[c]
    /\ pc[c] \in Open /\ mode[c] = "single" => op[c] \in Request

CallerInv(c) ==
    /\ OnlyWriter(c)
    /\ ViewCurrent(c)
    /\ EntriesOwned(c)
    /\ WritesRecorded(c)
    /\ ControlConsistent(c)

\* The inductive invariant: types, the promise of the committed database, and
\* what every transaction may rely on.
IInv ==
    /\ TypeOK
    /\ HistoryComplete
    /\ \A c \in Caller : CallerInv(c)

\* What the calls are told rests on what they have inserted so far: nothing of
\* an attempt that was aborted is stored, and nothing of one still open.
AttemptsUnseen(c) ==
    /\ added[c] \subseteq tried[c]
    /\ pc[c] = "idle" => tried[c] = {}
    /\ pc[c] \in {"idle", "aborted", "ended"} => added[c] = {}
    /\ outcome[c] # "none" => pc[c] = "ended"
    /\ pc[c] \in Open \cup {"aborted"} \/ outcome[c] = "rejected" =>
         tried[c] \cap hist = {}

\* A change takes the version its caller expected to the next one; a single
\* call that made none has inserted nothing, and one that made one has recorded
\* it before it commits.
SingleRecorded(c) ==
    /\ pc[c] = "appending" => view[c][op[c].ref].version = op[c].expected + 1
    /\ mode[c] = "single" =>
         /\ pc[c] # "aborted"
         /\ pc[c] = "working" /\ failure[c] = "none" => added[c] = {}
         /\ pc[c] = "committing" /\ added[c] # {} => Tells(c, added[c])
         /\ pc[c] = "committed" /\ added[c] # {} => Tells(c, hist)
         /\ outcome[c] = "ok" => Tells(c, hist)

\* The entries of an open transaction say truly which of its changes creates
\* the registration and which deletes it, and a deletion is its last.
EntriesTell(c) ==
    pc[c] \in Open /\ failure[c] = "none" =>
        \A e \in added[c] \cup Pending(c) :
            /\ e.operation = "create" <=>
                 regs[e.reference] = Absent /\ e.version = 1
            /\ e.operation = "delete" <=> e.snapshot.isDeleted
            /\ e.operation = "delete" =>
                 e.version = view[c][e.reference].version

\* The inductive invariant of what the calls are told and of the refinement.
CallsInv ==
    /\ IInv
    /\ \A c \in Caller :
        AttemptsUnseen(c) /\ SingleRecorded(c) /\ EntriesTell(c)
=============================================================================
