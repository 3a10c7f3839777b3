----------------------- MODULE AuditedRepositoryProofs -----------------------
(***************************************************************************)
(* Proofs about AuditedRepository, for any number of registrations,        *)
(* callers, versions and retries.                                          *)
(***************************************************************************)
EXTENDS AuditedRepository, TLAPS

-----------------------------------------------------------------------------
(* Lemmas about documents and their history                                *)

\* Recorded looks only at the entries of its own reference.
LEMMA RecordedLocal ==
    ASSUME NEW r, NEW d, NEW G, NEW H,
           EntriesOf(r, G) = EntriesOf(r, H), Recorded(r, d, G)
    PROVE  Recorded(r, d, H)
BY DEF Recorded

\* A document that moves to its next version, together with the entry of that
\* version, keeps its history complete.
LEMMA RecordedExtends ==
    ASSUME NEW r \in Ref, NEW d \in Registration \cup {Absent},
           NEW n \in Registration, NEW e \in Entry, NEW H \in SUBSET Entry,
           Recorded(r, d, H),
           n.version = IF d = Absent THEN 1 ELSE d.version + 1,
           e.reference = r, e.version = n.version, e.snapshot = n
    PROVE  Recorded(r, n, H \cup {e})
<1> DEFINE K == H \cup {e}
<1>1. EntriesOf(r, K) = EntriesOf(r, H) \cup {e}
  BY DEF EntriesOf
<1>2. n # Absent
  BY AbsentAssumption
<1>3. n.version \in Int /\ (d # Absent => d.version \in Int /\ d.version >= 0)
  BY BoundsAssumption DEF Registration
<1>4. \A f \in EntriesOf(r, H) :
        /\ f.version \in Int /\ f.version >= 1 /\ f.version < n.version
        /\ f.snapshot.version = f.version
  BY <1>3, BoundsAssumption DEF Recorded, EntriesOf, Entry
<1>5. \A v \in 1..n.version : \E f \in EntriesOf(r, K) : f.version = v
  <2> SUFFICES ASSUME NEW v \in 1..n.version
               PROVE  \E f \in EntriesOf(r, K) : f.version = v
    OBVIOUS
  <2>1. CASE v = n.version
    BY <2>1, <1>1
  <2>2. CASE v # n.version
    <3>1. d # Absent /\ v \in 1..d.version
      BY <2>2, <1>3
    <3> QED BY <3>1, <1>1 DEF Recorded
  <2> QED BY <2>1, <2>2
<1>6. \A f \in EntriesOf(r, K) :
        /\ f.version \in 1..n.version
        /\ f.snapshot.version = f.version
        /\ f.version = n.version => f.snapshot = n
  <2>1. n.version >= 1
    BY <1>3
  <2> QED BY <1>1, <1>3, <1>4, <2>1
<1>7. \A f, g \in EntriesOf(r, K) : f.version = g.version => f = g
  <2>1. \A f, g \in EntriesOf(r, H) : f.version = g.version => f = g
    BY DEF Recorded, EntriesOf
  <2> QED BY <1>1, <1>4, <2>1
<1> QED BY <1>2, <1>5, <1>6, <1>7 DEF Recorded

\* The three changes produce the next version of a registration.
LEMMA ChangedType ==
    ASSUME NEW c \in Caller, NEW q \in Request,
           NEW d \in Registration \cup {Absent},
           \/ q.kind = "create" /\ d = Absent
           \/ q.kind \in {"update", "delete"} /\ AtVersion(d, q.expected)
    PROVE  /\ Changed(d, q, c) \in Registration
           /\ Changed(d, q, c).version = q.expected + 1
           /\ Changed(d, q, c).version = IF d = Absent THEN 1 ELSE d.version + 1
<1> USE BoundsAssumption DEF Request, Change, Registration, UNVERSIONED,
        FIRST_VERSION
<1>1. CASE q.kind = "create" /\ d = Absent
  <2>1. Changed(d, q, c) = Created(c) /\ q.expected = 0
    BY <1>1 DEF Changed
  <2> QED BY <1>1, <2>1 DEF Created
<1>2. CASE q.kind = "update" /\ AtVersion(d, q.expected)
  <2>1. Changed(d, q, c) = Updated(d, c)
    BY <1>2 DEF Changed
  <2>2. d \in Registration /\ d # Absent /\ d.version = q.expected
    BY <1>2 DEF AtVersion, Visible
  <2> QED BY <2>1, <2>2, <1>2 DEF Updated
<1>3. CASE q.kind = "delete" /\ AtVersion(d, q.expected)
  <2>1. Changed(d, q, c) = SoftDeleted(d, c)
    BY <1>3 DEF Changed
  <2>2. d \in Registration /\ d # Absent /\ d.version = q.expected
    BY <1>3 DEF AtVersion, Visible
  <2> QED BY <2>1, <2>2, <1>3 DEF SoftDeleted
<1> QED BY <1>1, <1>2, <1>3

-----------------------------------------------------------------------------
(* Type correctness                                                        *)

\* The entry of a change in progress is a history entry.
LEMMA PendingType ==
    ASSUME TypeOK, NEW c \in Caller, CallerInv(c), pc[c] = "appending"
    PROVE  /\ PendingEntry(c) \in Entry
           /\ PendingEntry(c).by = c
           /\ PendingEntry(c).reference = op[c].ref
           /\ PendingEntry(c).version = view[c][op[c].ref].version
           /\ PendingEntry(c).snapshot = view[c][op[c].ref]
<1>1. op[c] \in Request /\ failure[c] = "none" /\ op[c].ref \in wset[c]
  BY DEF CallerInv, ControlConsistent
<1>2. view[c][op[c].ref] # Absent
  BY <1>1 DEF CallerInv, WritesRecorded, Open
<1>3. op[c].ref \in Ref /\ op[c].kind \in Change
  BY <1>1 DEF Request
<1>4. view[c][op[c].ref] \in Registration
  BY <1>2, <1>3 DEF TypeOK
<1> QED BY <1>3, <1>4 DEF PendingEntry, HistoryEntry, Entry, Registration

LEMMA TypeInit == Init => TypeOK
BY LegacyAssumption, BoundsAssumption
   DEF Init, TypeOK, LegacyDoc, UNVERSIONED, Registration, NoView, Outcomes,
       Failures

\* What a change writes is a registration.
LEMMA WriteType ==
    ASSUME TypeOK, NEW c \in Caller, NEW q \in Request, Write(c, q),
           Changed(view[c][q.ref], q, c) \in Registration
    PROVE  TypeOK'
<1>1. q.ref \in Ref
  BY DEF Request
<1>2. view' \in [Caller -> [Ref -> Registration \cup {Absent}]]
  BY <1>1 DEF TypeOK, Write
<1> QED BY <1>1, <1>2 DEF TypeOK, Write, Open

LEMMA FailType ==
    ASSUME TypeOK, NEW c \in Caller, NEW kind \in Failures, Fail(c, kind)
    PROVE  TypeOK'
BY DEF TypeOK, Fail, Open

LEMMA EndType ==
    ASSUME TypeOK, NEW c \in Caller, NEW told \in Outcomes, EndCall(c, told)
    PROVE  TypeOK'
BY BoundsAssumption DEF TypeOK, EndCall, CloseTransaction, NoView

\* A change finds a registration that may take it.
LEMMA WriteEnabled ==
    ASSUME TypeOK, NEW c \in Caller, NEW q \in Request,
           \/ q.kind = "create" /\ view[c][q.ref] = Absent
           \/ /\ q.kind \in {"update", "delete"}
              /\ AtVersion(view[c][q.ref], q.expected)
    PROVE  /\ q.ref \in Ref
           /\ view[c][q.ref] \in Registration \cup {Absent}
           /\ Changed(view[c][q.ref], q, c) \in Registration
           /\ Changed(view[c][q.ref], q, c).version = q.expected + 1
           /\ Changed(view[c][q.ref], q, c).version =
                IF view[c][q.ref] = Absent THEN 1
                                           ELSE view[c][q.ref].version + 1
<1>1. q.ref \in Ref
  BY DEF Request
<1>2. view[c][q.ref] \in Registration \cup {Absent}
  BY <1>1 DEF TypeOK
<1> QED BY <1>1, <1>2, ChangedType

LEMMA TypeStep ==
    ASSUME IInv, [Next]_vars
    PROVE  TypeOK'
<1> USE DEF IInv
<1>1. CASE UNCHANGED vars
  BY <1>1 DEF vars, TypeOK
<1>2. ASSUME NEW c \in Caller, NEW q \in Request, BeginSingle(c, q)
      PROVE  TypeOK'
  BY <1>2 DEF TypeOK, BeginSingle, Snapshot, Open
<1>3. ASSUME NEW c \in Caller, BeginGroup(c)
      PROVE  TypeOK'
  BY <1>3 DEF TypeOK, BeginGroup, Snapshot, Open
<1>4. ASSUME NEW c \in Caller, NEW q \in Request, Create(c, q)
      PROVE  TypeOK'
  <2>1. CASE \E kind \in Failures : Fail(c, kind)
    BY <2>1, FailType
  <2>2. CASE view[c][q.ref] = Absent /\ Write(c, q)
    BY <2>2, <1>4, WriteType, WriteEnabled DEF Create
  <2> QED BY <2>1, <2>2, <1>4 DEF Create, Taken, Failures
<1>5. ASSUME NEW c \in Caller, NEW q \in Request, ChangeExisting(c, q)
      PROVE  TypeOK'
  <2>1. CASE \E kind \in Failures : Fail(c, kind)
    BY <2>1, FailType
  <2>2. CASE AtVersion(view[c][q.ref], q.expected) /\ Write(c, q)
    BY <2>2, <1>5, WriteType, WriteEnabled DEF ChangeExisting
  <2>3. CASE /\ pc' = [pc EXCEPT ![c] = "committing"]
             /\ UNCHANGED <<regs, hist, mode, op, txn, retries, tried, outcome>>
    BY <2>3 DEF TypeOK, txn, Open
  <2> QED BY <2>1, <2>2, <2>3, <1>5 DEF ChangeExisting, Failures
<1>6. ASSUME NEW c \in Caller, Append(c)
      PROVE  TypeOK'
  <2>1. PendingEntry(c) \in Entry
    BY <1>6, PendingType DEF Append
  <2> QED BY <2>1, <1>6 DEF TypeOK, Append, Open
<1>7. ASSUME NEW c \in Caller, WorkReturns(c)
      PROVE  TypeOK'
  BY <1>7 DEF TypeOK, WorkReturns, txn, Open
<1>8. ASSUME NEW c \in Caller, OperationFails(c)
      PROVE  TypeOK'
  BY <1>8, FailType DEF OperationFails, Failures
<1>9. ASSUME NEW c \in Caller, WorkFails(c) \/ WorkThrows(c) \/ Lose(c)
      PROVE  TypeOK'
  BY <1>9, EndType DEF WorkFails, WorkThrows, Lose, Outcomes
<1>a. ASSUME NEW c \in Caller, WorkAborts(c)
      PROVE  TypeOK'
  BY <1>a, BoundsAssumption DEF TypeOK, WorkAborts, CloseTransaction, NoView
<1>b. ASSUME NEW c \in Caller, AbortedCallEnds(c)
      PROVE  TypeOK'
  BY <1>b, EndType DEF AbortedCallEnds, Outcomes
<1>10. ASSUME NEW c \in Caller, Retry(c)
       PROVE  TypeOK'
  <2>1. retries[c] + 1 \in 0..MaxRetries
    BY <1>10, BoundsAssumption DEF TypeOK, Retry
  <2> QED BY <2>1, <1>10 DEF TypeOK, Retry, Snapshot, Open
<1>11. ASSUME NEW c \in Caller, Commit(c)
       PROVE  TypeOK'
  BY <1>11 DEF TypeOK, Commit
<1>12. ASSUME NEW c \in Caller, Acknowledge(c)
       PROVE  TypeOK'
  BY <1>12, EndType DEF Acknowledge, Outcomes
<1>13. ASSUME NEW c \in Caller, Return(c)
       PROVE  TypeOK'
  BY <1>13 DEF TypeOK, Return, txn, Outcomes
<1> QED BY <1>1, <1>2, <1>3, <1>4, <1>5, <1>6, <1>7, <1>8, <1>9, <1>10,
           <1>11, <1>12, <1>13, <1>a, <1>b DEF Next

-----------------------------------------------------------------------------
(* The inductive invariant                                                 *)

\* The state of every caller but c stays as it is.
OthersKeep(c) ==
    \A d \in Caller \ {c} :
        /\ pc'[d] = pc[d] /\ mode'[d] = mode[d] /\ op'[d] = op[d]
        /\ view'[d] = view[d] /\ added'[d] = added[d] /\ wset'[d] = wset[d]
        /\ stale'[d] = stale[d] /\ failure'[d] = failure[d]
        /\ tried'[d] = tried[d]

\* A step inside c's own transaction keeps the invariant of all if it keeps
\* c's: the database is as before, and c writes nothing others have written.
LEMMA LocalStep ==
    ASSUME IInv, TypeOK', NEW c \in Caller, OthersKeep(c),
           UNCHANGED <<regs, hist>>, CallerInv(c)'
    PROVE  IInv'
<1>1. HistoryComplete'
  BY DEF IInv, HistoryComplete, Recorded, EntriesOf
<1>2. ASSUME NEW d \in Caller \ {c}
      PROVE  CallerInv(d)'
  <2>1. CallerInv(d)
    BY DEF IInv
  <2>2. /\ pc'[d] = pc[d] /\ mode'[d] = mode[d] /\ op'[d] = op[d]
        /\ view'[d] = view[d] /\ added'[d] = added[d] /\ wset'[d] = wset[d]
        /\ stale'[d] = stale[d] /\ failure'[d] = failure[d]
        /\ tried'[d] = tried[d]
    BY DEF OthersKeep
  <2>3. OnlyWriter(d)'
    <3> SUFFICES ASSUME pc'[d] \in Open, NEW r \in wset'[d]
                 PROVE  /\ r \notin stale'[d]
                        /\ \A e \in Caller \ {d} :
                             pc'[e] \in Open => r \notin wset'[e]
      BY DEF OnlyWriter
    <3>1. r \notin stale'[d]
      BY <2>1, <2>2 DEF CallerInv, OnlyWriter
    <3>2. ASSUME NEW e \in Caller \ {d}, pc'[e] \in Open
          PROVE  r \notin wset'[e]
      <4>1. CASE e = c
        BY <4>1, <3>2 DEF CallerInv, OnlyWriter
      <4>2. CASE e # c
        BY <4>2, <3>2, <2>1, <2>2 DEF CallerInv, OnlyWriter, OthersKeep
      <4> QED BY <4>1, <4>2
    <3> QED BY <3>1, <3>2
  <2>4. ViewCurrent(d)'
    BY <2>1, <2>2 DEF CallerInv, ViewCurrent
  <2>5. EntriesOwned(d)'
    BY <2>1, <2>2 DEF CallerInv, EntriesOwned
  <2>6. WritesRecorded(d)'
    <3>1. Pending(d)' = Pending(d)
      BY <2>2 DEF Pending, PendingEntry
    <3> QED BY <2>1, <2>2, <3>1 DEF CallerInv, WritesRecorded, Recorded,
                                    EntriesOf
  <2>7. ControlConsistent(d)'
    BY <2>1, <2>2 DEF CallerInv, ControlConsistent
  <2> QED BY <2>3, <2>4, <2>5, <2>6, <2>7 DEF CallerInv
<1> QED BY <1>1, <1>2 DEF IInv

\* A transaction that has just started has written nothing.
LEMMA SnapshotStep ==
    ASSUME IInv, TypeOK', NEW c \in Caller, Snapshot(c), OthersKeep(c),
           UNCHANGED <<regs, hist, tried>>,
           mode'[c] = "single" => op'[c] \in Request
    PROVE  IInv'
<1>1. /\ pc'[c] = "working" /\ wset'[c] = {} /\ added'[c] = {}
      /\ view'[c] = regs
  BY DEF Snapshot, IInv, TypeOK
<1>2. CallerInv(c)'
  <2>1. CallerInv(c)
    BY DEF IInv
  <2>2. EntriesOwned(c)'
    BY <1>1, <2>1 DEF CallerInv, EntriesOwned
  <2>3. OnlyWriter(c)' /\ ViewCurrent(c)' /\ WritesRecorded(c)'
    BY <1>1 DEF OnlyWriter, ViewCurrent, WritesRecorded
  <2>4. ControlConsistent(c)'
    BY <1>1 DEF ControlConsistent
  <2> QED BY <2>2, <2>3, <2>4 DEF CallerInv
<1> QED BY <1>2, LocalStep

\* Once a caller has no open transaction, nothing is asked of it.
LEMMA ClosedStep ==
    ASSUME IInv, TypeOK', NEW c \in Caller, OthersKeep(c),
           UNCHANGED <<regs, hist>>, pc'[c] \in {"idle", "aborted", "ended"},
           added'[c] = {}, tried'[c] \subseteq tried[c]
    PROVE  IInv'
<1>1. CallerInv(c)
  BY DEF IInv
<1>2. EntriesOwned(c)'
  BY <1>1 DEF CallerInv, EntriesOwned
<1>3. OnlyWriter(c)' /\ ViewCurrent(c)' /\ WritesRecorded(c)'
  BY DEF OnlyWriter, ViewCurrent, WritesRecorded, Open
<1>4. ControlConsistent(c)'
  BY DEF ControlConsistent, Open
<1>5. CallerInv(c)'
  BY <1>2, <1>3, <1>4 DEF CallerInv
<1> QED BY <1>5, LocalStep

LEMMA FailStep ==
    ASSUME IInv, TypeOK', NEW c \in Caller, NEW kind \in Failures,
           pc[c] \in Open, Fail(c, kind)
    PROVE  IInv'
<1>1. CallerInv(c) /\ TypeOK
  BY DEF IInv
<1>2. pc'[c] = "working" /\ failure'[c] # "none"
  BY <1>1 DEF Fail, TypeOK, Failures
<1>3. OthersKeep(c)
  BY <1>1 DEF OthersKeep, Fail, TypeOK
<1>4. OnlyWriter(c)'
  <2>1. \A d \in Caller \ {c} : pc'[d] = pc[d]
    BY <1>3 DEF OthersKeep
  <2> QED BY <1>1, <2>1 DEF CallerInv, OnlyWriter, Fail
<1>5. ViewCurrent(c)' /\ EntriesOwned(c)'
  BY <1>1 DEF CallerInv, ViewCurrent, EntriesOwned, Fail
<1>6. WritesRecorded(c)'
  BY <1>2 DEF WritesRecorded
<1>7. ControlConsistent(c)'
  BY <1>1, <1>2 DEF CallerInv, ControlConsistent, Fail
<1>8. CallerInv(c)'
  BY <1>4, <1>5, <1>6, <1>7 DEF CallerInv
<1> QED BY <1>3, <1>8, LocalStep DEF Fail

\* The work is done and the driver commits.
LEMMA CommittingStep ==
    ASSUME IInv, TypeOK', NEW c \in Caller, pc[c] = "working",
           failure[c] = "none", pc' = [pc EXCEPT ![c] = "committing"],
           UNCHANGED <<regs, hist, mode, op, txn, retries, tried, outcome>>
    PROVE  IInv'
<1>1. CallerInv(c) /\ TypeOK
  BY DEF IInv
<1>2. pc'[c] = "committing" /\ Pending(c) = {} /\ Pending(c)' = {}
  BY <1>1 DEF TypeOK, Pending
<1>3. OthersKeep(c)
  BY <1>1 DEF OthersKeep, txn, TypeOK
<1>4. OnlyWriter(c)'
  <2>1. \A d \in Caller \ {c} : pc'[d] = pc[d]
    BY <1>3 DEF OthersKeep
  <2> QED BY <1>1, <2>1 DEF CallerInv, OnlyWriter, txn, Open
<1>5. ViewCurrent(c)' /\ EntriesOwned(c)'
  BY <1>1 DEF CallerInv, ViewCurrent, EntriesOwned, txn, Open
<1>6. WritesRecorded(c)'
  BY <1>1, <1>2 DEF CallerInv, WritesRecorded, txn, Open, Recorded, EntriesOf
<1>7. ControlConsistent(c)'
  BY <1>1, <1>2 DEF CallerInv, ControlConsistent, txn, Open
<1>8. CallerInv(c)'
  BY <1>4, <1>5, <1>6, <1>7 DEF CallerInv
<1> QED BY <1>3, <1>8, LocalStep

\* A change is written, on a registration nobody else has written since the
\* snapshot: what c sees of it is what is committed, or c's own earlier write.
LEMMA WriteStep ==
    ASSUME IInv, TypeOK', NEW c \in Caller, NEW q \in Request,
           MayChange(c, q), ~WriteConflict(c, q.ref), Write(c, q),
           \/ q.kind = "create" /\ view[c][q.ref] = Absent
           \/ /\ q.kind \in {"update", "delete"}
              /\ AtVersion(view[c][q.ref], q.expected)
    PROVE  IInv'
<1> DEFINE r == q.ref
           d == view[c][r]
           n == Changed(d, q, c)
<1>1. CallerInv(c) /\ TypeOK /\ pc[c] = "working" /\ failure[c] = "none"
  BY DEF IInv, MayChange
<1>2. /\ r \in Ref /\ d \in Registration \cup {Absent} /\ n \in Registration
      /\ n.version = IF d = Absent THEN 1 ELSE d.version + 1
  BY <1>1, WriteEnabled
<1>3. /\ pc'[c] = "appending" /\ op'[c] = q /\ failure'[c] = "none"
      /\ wset'[c] = wset[c] \cup {r} /\ view'[c][r] = n
      /\ \A s \in Ref \ {r} : view'[c][s] = view[c][s]
      /\ added'[c] = added[c] /\ stale'[c] = stale[c] /\ tried'[c] = tried[c]
  BY <1>1, <1>2 DEF Write, TypeOK
<1>4. OthersKeep(c)
  BY <1>1 DEF OthersKeep, Write, TypeOK
<1>5. /\ r \notin stale[c]
      /\ \A e \in Caller \ {c} : pc[e] \in Open => r \notin wset[e]
  BY DEF WriteConflict
<1>6. OnlyWriter(c)'
  <2>1. OnlyWriter(c) /\ pc[c] \in Open
    BY <1>1 DEF CallerInv, Open
  <2>2. \A e \in Caller \ {c} : pc'[e] = pc[e] /\ wset'[e] = wset[e]
    BY <1>4 DEF OthersKeep
  <2> QED BY <1>3, <1>5, <2>1, <2>2 DEF OnlyWriter
<1>7. ViewCurrent(c)'
  <2>1. ViewCurrent(c) /\ pc[c] \in Open
    BY <1>1 DEF CallerInv, Open
  <2> QED BY <1>3, <2>1 DEF ViewCurrent, Write
<1>8. EntriesOwned(c)'
  BY <1>1, <1>3 DEF CallerInv, EntriesOwned
<1>9. n # Absent /\ n.version > 0
  BY <1>2, AbsentAssumption, BoundsAssumption DEF Registration
<1>10. Recorded(r, d, hist \cup added[c])
       /\ (regs[r] # Absent => /\ ~regs[r].isDeleted
                               /\ d # Absent
                               /\ regs[r].version <= d.version)
  <2>1. CASE r \in wset[c]
    <3>1. Pending(c) = {} /\ pc[c] \in Open
      BY <1>1 DEF Pending, Open
    <3>2. /\ d # Absent /\ Recorded(r, d, hist \cup added[c] \cup Pending(c))
          /\ regs[r] # Absent => ~regs[r].isDeleted /\ regs[r].version < d.version
      BY <1>1, <2>1, <3>1 DEF CallerInv, WritesRecorded
    <3>3. hist \cup added[c] \cup Pending(c) = hist \cup added[c]
      BY <3>1
    <3>4. regs[r] # Absent => regs[r].version \in Int /\ d.version \in Int
      BY <1>1, <1>2, <3>2, BoundsAssumption DEF TypeOK, Registration
    <3> QED BY <3>2, <3>3, <3>4
  <2>2. CASE r \notin wset[c]
    <3>1. d = regs[r]
      BY <1>1, <1>2, <1>5, <2>2 DEF CallerInv, ViewCurrent, Open
    <3>2. Recorded(r, d, hist)
      BY <1>2, <3>1 DEF IInv, HistoryComplete
    <3>3. EntriesOf(r, hist \cup added[c]) = EntriesOf(r, hist)
      BY <1>1, <2>2 DEF CallerInv, EntriesOwned, EntriesOf
    <3>4. Recorded(r, d, hist \cup added[c])
      BY <3>2, <3>3, RecordedLocal
    <3>5. regs[r] # Absent => ~regs[r].isDeleted
      BY <3>1 DEF AtVersion, Visible
    <3>6. regs[r] # Absent => regs[r].version <= d.version
      BY <1>1, <1>2, <3>1, BoundsAssumption DEF TypeOK, Registration
    <3> QED BY <3>1, <3>4, <3>5, <3>6
  <2> QED BY <2>1, <2>2
<1>11. WritesRecorded(c)'
  <2> SUFFICES ASSUME NEW s \in wset'[c]
               PROVE  /\ view'[c][s] # Absent
                      /\ view'[c][s].version > 0
                      /\ regs[s] # Absent =>
                           /\ ~regs[s].isDeleted
                           /\ regs[s].version < view'[c][s].version
                      /\ Recorded(s, view'[c][s],
                                  hist \cup added[c] \cup Pending(c)')
    BY <1>3 DEF WritesRecorded, Write
  <2>1. PendingEntry(c)' = HistoryEntry(q, n, c)
    BY <1>3 DEF PendingEntry
  <2>2. Pending(c)' = {HistoryEntry(q, n, c)}
    BY <1>3, <2>1 DEF Pending
  <2>3. /\ HistoryEntry(q, n, c) \in Entry
        /\ HistoryEntry(q, n, c).reference = r
        /\ HistoryEntry(q, n, c).version = n.version
        /\ HistoryEntry(q, n, c).snapshot = n
    BY <1>2 DEF HistoryEntry, Entry, Request, Registration
  <2>4. CASE s = r
    <3>1. hist \cup added[c] \in SUBSET Entry
      BY <1>1 DEF TypeOK
    <3>2. Recorded(r, n, (hist \cup added[c]) \cup {HistoryEntry(q, n, c)})
      BY <1>2, <1>10, <2>3, <3>1, RecordedExtends
    <3>3. regs[r] # Absent => regs[r].version < n.version
      <4>1. regs[r] # Absent => regs[r].version \in Int /\ d.version \in Int
        BY <1>1, <1>2, <1>10, BoundsAssumption DEF TypeOK, Registration
      <4> QED BY <1>2, <1>10, <4>1
    <3> QED BY <1>3, <1>9, <1>10, <2>2, <2>4, <3>2, <3>3
  <2>5. CASE s # r
    <3>1. s \in wset[c] /\ s \in Ref
      BY <1>1, <1>3, <2>5 DEF TypeOK
    <3>2. view'[c][s] = view[c][s]
      BY <1>3, <2>5, <3>1
    <3>3. /\ view[c][s] # Absent /\ view[c][s].version > 0
          /\ regs[s] # Absent =>
               ~regs[s].isDeleted /\ regs[s].version < view[c][s].version
          /\ Recorded(s, view[c][s], hist \cup added[c] \cup Pending(c))
      BY <1>1, <3>1 DEF CallerInv, WritesRecorded, Open
    <3>4. EntriesOf(s, hist \cup added[c] \cup Pending(c)) =
          EntriesOf(s, hist \cup added[c] \cup Pending(c)')
      BY <1>1, <2>2, <2>3, <2>5 DEF EntriesOf, Pending
    <3>5. Recorded(s, view[c][s], hist \cup added[c] \cup Pending(c)')
      BY <3>3, <3>4, RecordedLocal
    <3> QED BY <3>2, <3>3, <3>5
  <2> QED BY <2>4, <2>5
<1>12. ControlConsistent(c)'
  BY <1>3 DEF ControlConsistent
<1>13. CallerInv(c)'
  BY <1>6, <1>7, <1>8, <1>11, <1>12 DEF CallerInv
<1> QED BY <1>4, <1>13, LocalStep DEF Write

\* The entry is added that was due.
LEMMA AppendStep ==
    ASSUME IInv, TypeOK', NEW c \in Caller, Append(c)
    PROVE  IInv'
<1>1. CallerInv(c) /\ TypeOK /\ pc[c] = "appending"
  BY DEF IInv, Append
<1>2. /\ pc'[c] \in {"committing", "working"}
      /\ Pending(c) = {PendingEntry(c)} /\ Pending(c)' = {}
      /\ added'[c] = added[c] \cup {PendingEntry(c)}
      /\ tried'[c] = tried[c] \cup {PendingEntry(c)}
  BY <1>1 DEF Append, TypeOK, Pending
<1>3. OthersKeep(c)
  BY <1>1 DEF OthersKeep, Append, TypeOK
<1>4. OnlyWriter(c)'
  <2>1. \A d \in Caller \ {c} : pc'[d] = pc[d]
    BY <1>3 DEF OthersKeep
  <2> QED BY <1>1, <2>1 DEF CallerInv, OnlyWriter, Append, Open
<1>5. ViewCurrent(c)'
  BY <1>1 DEF CallerInv, ViewCurrent, Append, Open
<1>6. EntriesOwned(c)'
  <2>1. op[c].ref \in wset[c]
    BY <1>1 DEF CallerInv, ControlConsistent
  <2>2. PendingEntry(c).by = c /\ PendingEntry(c).reference \in wset[c]
    BY <1>1, <2>1, PendingType
  <2> QED BY <1>1, <1>2, <2>2 DEF CallerInv, EntriesOwned, Append
<1>7. WritesRecorded(c)'
  <2>1. hist \cup added[c] \cup Pending(c) =
        hist \cup added'[c] \cup Pending(c)'
    BY <1>2
  <2>2. UNCHANGED <<regs, hist, view, wset, failure>> /\ pc[c] \in Open
    BY <1>1 DEF Append, Open
  <2> QED BY <1>1, <2>1, <2>2 DEF CallerInv, WritesRecorded, Recorded,
                                  EntriesOf
<1>8. ControlConsistent(c)'
  BY <1>1, <1>2 DEF CallerInv, ControlConsistent, Append, Open
<1>9. CallerInv(c)'
  BY <1>4, <1>5, <1>6, <1>7, <1>8 DEF CallerInv
<1> QED BY <1>3, <1>9, LocalStep DEF Append

\* A commit installs what c has written with its complete history; no other
\* open transaction has written any of it.
LEMMA CommitStep ==
    ASSUME IInv, TypeOK', NEW c \in Caller, Commit(c)
    PROVE  IInv'
<1>1. CallerInv(c) /\ TypeOK /\ pc[c] = "committing" /\ failure[c] = "none"
  BY DEF IInv, Commit, CallerInv, ControlConsistent
<1>2. HistoryComplete'
  <2> SUFFICES ASSUME NEW r \in Ref
               PROVE  Recorded(r, regs'[r], hist')
    BY DEF HistoryComplete
  <2>1. hist' = hist \cup added[c]
    BY DEF Commit
  <2>2. CASE r \in wset[c]
    <3>1. regs'[r] = view[c][r]
      BY <2>2 DEF Commit
    <3>2. Pending(c) = {}
      BY <1>1 DEF Pending
    <3>3. Recorded(r, view[c][r], hist \cup added[c] \cup Pending(c))
      BY <1>1, <2>2 DEF CallerInv, WritesRecorded, Open
    <3>4. hist \cup added[c] \cup Pending(c) = hist'
      BY <2>1, <3>2
    <3> QED BY <3>1, <3>3, <3>4
  <2>3. CASE r \notin wset[c]
    <3>1. regs'[r] = regs[r]
      BY <2>3 DEF Commit
    <3>2. EntriesOf(r, hist) = EntriesOf(r, hist')
      BY <1>1, <2>1, <2>3 DEF CallerInv, EntriesOwned, EntriesOf
    <3>3. Recorded(r, regs[r], hist)
      BY DEF IInv, HistoryComplete
    <3> QED BY <3>1, <3>2, <3>3, RecordedLocal
  <2> QED BY <2>2, <2>3
<1>3. ASSUME NEW d \in Caller
      PROVE  CallerInv(d)'
  <2>1. CASE d = c
    <3>1. pc'[c] = "committed"
      BY <1>1 DEF Commit, TypeOK
    <3>2. EntriesOwned(c)'
      BY <1>1 DEF CallerInv, EntriesOwned, Commit
    <3> QED BY <2>1, <3>1, <3>2 DEF CallerInv, OnlyWriter, ViewCurrent,
                                    WritesRecorded, ControlConsistent, Open
  <2>2. CASE d # c
    <3>1. CallerInv(d) /\ pc'[d] = pc[d] /\ UNCHANGED <<mode, op, view, added,
              wset, failure, retries, tried, outcome>>
      BY <1>1, <2>2 DEF IInv, Commit, TypeOK
    <3>2. stale'[d] = IF pc[d] \in Open THEN stale[d] \cup wset[c] ELSE stale[d]
      BY <2>2 DEF Commit
    <3>3. pc[d] \in Open => wset[d] \cap wset[c] = {}
      BY <1>1, <2>2 DEF CallerInv, OnlyWriter, Open
    <3>4. OnlyWriter(d)'
      <4>1. pc[d] \in Open => \A r \in wset[d] : r \notin stale'[d]
        BY <3>1, <3>2, <3>3 DEF CallerInv, OnlyWriter
      <4>2. \A e \in Caller : pc'[e] \in Open => pc[e] \in Open
        BY <1>1 DEF Commit, TypeOK, Open
      <4> QED BY <3>1, <4>1, <4>2 DEF CallerInv, OnlyWriter
    <3>5. ViewCurrent(d)'
      <4> SUFFICES ASSUME pc[d] \in Open, NEW r \in Ref \ (wset[d] \cup stale'[d])
                   PROVE  view[d][r] = regs'[r]
        BY <3>1 DEF ViewCurrent
      <4>1. r \notin wset[c] /\ r \notin stale[d]
        BY <3>2
      <4>2. regs'[r] = regs[r]
        BY <4>1 DEF Commit
      <4> QED BY <3>1, <4>1, <4>2 DEF CallerInv, ViewCurrent
    <3>6. EntriesOwned(d)' /\ ControlConsistent(d)'
      BY <3>1 DEF CallerInv, EntriesOwned, ControlConsistent
    <3>7. WritesRecorded(d)'
      <4> SUFFICES ASSUME pc[d] \in Open, failure[d] = "none",
                          NEW r \in wset[d]
                   PROVE  /\ view[d][r] # Absent
                          /\ view[d][r].version > 0
                          /\ regs'[r] # Absent =>
                               /\ ~regs'[r].isDeleted
                               /\ regs'[r].version < view[d][r].version
                          /\ Recorded(r, view[d][r],
                                      hist' \cup added[d] \cup Pending(d)')
        BY <3>1 DEF WritesRecorded
      <4>1. Pending(d)' = Pending(d)
        BY <3>1 DEF Pending, PendingEntry
      <4>2. r \notin wset[c] /\ r \in Ref
        BY <1>1, <3>3 DEF TypeOK
      <4>3. regs'[r] = regs[r]
        BY <4>2 DEF Commit
      <4>4. EntriesOf(r, hist \cup added[d] \cup Pending(d)) =
            EntriesOf(r, hist' \cup added[d] \cup Pending(d))
        BY <1>1, <4>2 DEF CallerInv, EntriesOwned, EntriesOf, Commit
      <4>5. /\ view[d][r] # Absent /\ view[d][r].version > 0
            /\ regs[r] # Absent =>
                 ~regs[r].isDeleted /\ regs[r].version < view[d][r].version
            /\ Recorded(r, view[d][r], hist \cup added[d] \cup Pending(d))
        BY <3>1 DEF CallerInv, WritesRecorded
      <4>6. Recorded(r, view[d][r], hist' \cup added[d] \cup Pending(d))
        BY <4>4, <4>5, RecordedLocal
      <4> QED BY <4>1, <4>3, <4>5, <4>6
    <3> QED BY <3>4, <3>5, <3>6, <3>7 DEF CallerInv
  <2> QED BY <2>1, <2>2
<1> QED BY <1>2, <1>3 DEF IInv

\* The invariant holds initially: nothing is written, and no history is kept of
\* the registrations stored before versions.
LEMMA IInvInit == Init => IInv
<1> SUFFICES ASSUME Init PROVE IInv
  OBVIOUS
<1>1. TypeOK
  BY TypeInit
<1>2. HistoryComplete
  <2> SUFFICES ASSUME NEW r \in Ref PROVE Recorded(r, regs[r], hist)
    BY DEF HistoryComplete
  <2>1. EntriesOf(r, hist) = {}
    BY DEF Init, EntriesOf
  <2>2. regs[r] # Absent => regs[r].version = 0
    BY DEF Init, LegacyDoc, UNVERSIONED
  <2> QED BY <2>1, <2>2 DEF Recorded
<1>3. ASSUME NEW c \in Caller
      PROVE  CallerInv(c)
  BY DEF Init, CallerInv, OnlyWriter, ViewCurrent, EntriesOwned,
         WritesRecorded, ControlConsistent, Open
<1> QED BY <1>1, <1>2, <1>3 DEF IInv

\* Every step keeps it.
LEMMA IInvStep == IInv /\ [Next]_vars => IInv'
<1> SUFFICES ASSUME IInv, [Next]_vars PROVE IInv'
  OBVIOUS
<1>t. TypeOK /\ TypeOK'
  BY TypeStep DEF IInv
<1>1. CASE UNCHANGED vars
  <2>1. \A c \in Caller : Pending(c)' = Pending(c)
    BY <1>1 DEF Pending, PendingEntry, vars
  <2>2. HistoryComplete'
    BY <1>1 DEF IInv, HistoryComplete, Recorded, EntriesOf, vars
  <2>3. \A c \in Caller : CallerInv(c)'
    BY <1>1, <2>1 DEF IInv, CallerInv, OnlyWriter, ViewCurrent, EntriesOwned,
                      WritesRecorded, ControlConsistent, Recorded, EntriesOf,
                      vars
  <2> QED BY <1>t, <2>2, <2>3 DEF IInv
<1>2. ASSUME NEW c \in Caller, NEW q \in Request, BeginSingle(c, q)
      PROVE  IInv'
  <2>1. OthersKeep(c) /\ op'[c] = q
    BY <1>t, <1>2 DEF BeginSingle, Snapshot, OthersKeep, TypeOK
  <2> QED BY <1>t, <1>2, <2>1, SnapshotStep DEF BeginSingle
<1>3. ASSUME NEW c \in Caller, BeginGroup(c)
      PROVE  IInv'
  <2>1. OthersKeep(c) /\ mode'[c] = "group"
    BY <1>t, <1>3 DEF BeginGroup, Snapshot, OthersKeep, TypeOK
  <2> QED BY <1>t, <1>3, <2>1, SnapshotStep DEF BeginGroup
<1>4. ASSUME NEW c \in Caller, NEW q \in Request, Create(c, q)
      PROVE  IInv'
  <2>1. pc[c] \in Open
    BY <1>4 DEF Create, MayChange, Open
  <2>2. CASE \E kind \in Failures : Fail(c, kind)
    BY <1>t, <2>1, <2>2, FailStep
  <2>3. CASE /\ view[c][q.ref] = Absent /\ ~WriteConflict(c, q.ref)
             /\ Write(c, q)
    BY <1>t, <1>4, <2>3, WriteStep DEF Create
  <2> QED BY <1>4, <2>2, <2>3 DEF Create, Taken, Failures
<1>5. ASSUME NEW c \in Caller, NEW q \in Request, ChangeExisting(c, q)
      PROVE  IInv'
  <2>1. /\ pc[c] \in Open /\ pc[c] = "working" /\ failure[c] = "none"
        /\ q.kind \in {"update", "delete"} /\ MayChange(c, q)
    BY <1>5 DEF ChangeExisting, MayChange, Open
  <2>2. CASE \E kind \in Failures : Fail(c, kind)
    BY <1>t, <2>1, <2>2, FailStep
  <2>3. CASE /\ AtVersion(view[c][q.ref], q.expected)
             /\ ~WriteConflict(c, q.ref) /\ Write(c, q)
    BY <1>t, <2>1, <2>3, WriteStep
  <2>4. CASE /\ pc' = [pc EXCEPT ![c] = "committing"]
             /\ UNCHANGED <<regs, hist, mode, op, txn, retries, tried, outcome>>
    BY <1>t, <2>1, <2>4, CommittingStep
  <2> QED BY <1>5, <2>2, <2>3, <2>4 DEF ChangeExisting, Failures
<1>6. ASSUME NEW c \in Caller, Append(c)
      PROVE  IInv'
  BY <1>t, <1>6, AppendStep
<1>7. ASSUME NEW c \in Caller, WorkReturns(c)
      PROVE  IInv'
  BY <1>t, <1>7, CommittingStep DEF WorkReturns
<1>8. ASSUME NEW c \in Caller, OperationFails(c)
      PROVE  IInv'
  BY <1>t, <1>8, FailStep DEF OperationFails, Failures
<1>9. ASSUME NEW c \in Caller, NEW told, EndCall(c, told)
      PROVE  IInv'
  <2>1. /\ OthersKeep(c) /\ pc'[c] = "ended" /\ added'[c] = {}
        /\ tried'[c] = tried[c]
    BY <1>t, <1>9 DEF EndCall, CloseTransaction, OthersKeep, TypeOK
  <2> QED BY <1>t, <1>9, <2>1, ClosedStep DEF EndCall, CloseTransaction
<1>a. ASSUME NEW c \in Caller, WorkAborts(c)
      PROVE  IInv'
  <2>1. /\ OthersKeep(c) /\ pc'[c] = "aborted" /\ added'[c] = {}
        /\ tried'[c] = tried[c]
    BY <1>t, <1>a DEF WorkAborts, CloseTransaction, OthersKeep, TypeOK
  <2> QED BY <1>t, <1>a, <2>1, ClosedStep DEF WorkAborts, CloseTransaction
<1>10. ASSUME NEW c \in Caller, Retry(c)
       PROVE  IInv'
  <2>1. OthersKeep(c)
    BY <1>t, <1>10 DEF Retry, Snapshot, OthersKeep, TypeOK
  <2>2. mode[c] = "single" => op[c] \in Request
    BY <1>10 DEF IInv, CallerInv, ControlConsistent, Retry, Open
  <2> QED BY <1>t, <1>10, <2>1, <2>2, SnapshotStep DEF Retry
<1>11. ASSUME NEW c \in Caller, Commit(c)
       PROVE  IInv'
  BY <1>t, <1>11, CommitStep
<1>12. ASSUME NEW c \in Caller, Return(c)
       PROVE  IInv'
  <2>1. /\ OthersKeep(c) /\ pc'[c] = "idle" /\ added'[c] = added[c]
        /\ tried'[c] = {}
    BY <1>t, <1>12 DEF Return, txn, OthersKeep, TypeOK
  <2>2. CallerInv(c)
    BY DEF IInv
  <2>3. EntriesOwned(c)'
    BY <1>12, <2>1, <2>2 DEF CallerInv, EntriesOwned, Return, txn
  <2>4. CallerInv(c)'
    BY <2>1, <2>3 DEF CallerInv, OnlyWriter, ViewCurrent, WritesRecorded,
                      ControlConsistent, Open
  <2> QED BY <1>t, <1>12, <2>1, <2>4, LocalStep DEF Return
<1> QED BY <1>1, <1>2, <1>3, <1>4, <1>5, <1>6, <1>7, <1>8, <1>9, <1>10,
           <1>11, <1>12, <1>a
        DEF Next, WorkFails, WorkThrows, AbortedCallEnds, Acknowledge, Lose

THEOREM Invariance == Spec => []IInv
<1>1. Init => IInv
  BY IInvInit
<1>2. IInv /\ [Next]_vars => IInv'
  BY IInvStep
<1> QED BY <1>1, <1>2, PTL DEF Spec

-----------------------------------------------------------------------------
(* Theorems                                                                *)

\* The state of every reachable configuration is well typed: no step of a call
\* leaves a malformed document, entry or transaction.
THEOREM TypeCorrect == Spec => []TypeOK
BY Invariance, PTL DEF IInv

\* Whatever the calls, their interleaving, failures, retries and crashes, every
\* version of every registration has exactly one history entry, and no entry
\* lacks its registration.
THEOREM HistoryIsComplete == Spec => []HistoryComplete
BY Invariance, PTL DEF IInv

\* A soft-deleted registration and its history never change again, however
\* stale the version a caller sends or the snapshot it works on.
THEOREM DeletionIsFinal == Spec => DeletedIsFrozen
<1> DEFINE Frozen ==
      \A r \in Ref :
         regs[r] # Absent /\ regs[r].isDeleted =>
            regs'[r] = regs[r] /\ EntriesOf(r, hist') = EntriesOf(r, hist)
<1>1. ASSUME IInv, [Next]_vars, NEW r \in Ref, regs[r] # Absent,
             regs[r].isDeleted
      PROVE  regs'[r] = regs[r] /\ EntriesOf(r, hist') = EntriesOf(r, hist)
  <2>1. CASE \E c \in Caller : Commit(c)
    <3>1. PICK c \in Caller : Commit(c)
      BY <2>1
    <3>2. CallerInv(c) /\ pc[c] \in Open /\ failure[c] = "none"
      BY <1>1, <3>1 DEF IInv, Commit, CallerInv, ControlConsistent, Open
    <3>3. r \notin wset[c]
      BY <1>1, <3>2 DEF CallerInv, WritesRecorded
    <3>4. EntriesOf(r, hist \cup added[c]) = EntriesOf(r, hist)
      BY <3>2, <3>3 DEF CallerInv, EntriesOwned, EntriesOf
    <3> QED BY <1>1, <3>1, <3>3, <3>4 DEF Commit
  <2>2. CASE UNCHANGED <<regs, hist>>
    BY <2>2 DEF EntriesOf
  <2>3. UNCHANGED <<regs, hist>> \/ \E c \in Caller : Commit(c)
    BY <1>1 DEF Next, vars, BeginSingle, BeginGroup, Create, ChangeExisting,
                Write, Fail, Append, WorkReturns, OperationFails, WorkFails,
                WorkThrows, WorkAborts, AbortedCallEnds, Retry, Acknowledge,
                Lose, EndCall, CloseTransaction, Return
  <2> QED BY <2>1, <2>2, <2>3
<1>2. IInv /\ [Next]_vars => [Frozen]_vars
  BY <1>1
<1> QED BY <1>2, Invariance, PTL DEF Spec, DeletedIsFrozen
=============================================================================
