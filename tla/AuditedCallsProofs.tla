-------------------------- MODULE AuditedCallsProofs --------------------------
(***************************************************************************)
(* What the callers of AuditedRepository are told, and that it implements  *)
(* RegistrationStore, for any number of registrations, callers, versions   *)
(* and retries.  The proofs add to the invariant of AuditedRepositoryProofs*)
(* what an open transaction has inserted and how it describes its changes. *)
(***************************************************************************)
EXTENDS AuditedRepositoryProofs

-----------------------------------------------------------------------------
(* Steps inside one call                                                   *)

\* What c's call adds to its invariant.
CallOK(c) == AttemptsUnseen(c) /\ SingleRecorded(c) /\ EntriesTell(c)

\* The state of every caller but c stays as it is, what it was told included.
OthersRest(c) ==
    OthersKeep(c) /\ \A d \in Caller \ {c} : outcome'[d] = outcome[d]

\* A step inside c's own call keeps what the other calls rest on.
LEMMA CallStep ==
    ASSUME CallsInv, IInv', NEW c \in Caller, OthersRest(c),
           UNCHANGED <<regs, hist>>, CallOK(c)'
    PROVE  CallsInv'
<1>1. ASSUME NEW d \in Caller \ {c}
      PROVE  CallOK(d)'
  <2>1. AttemptsUnseen(d) /\ SingleRecorded(d) /\ EntriesTell(d)
    BY DEF CallsInv
  <2>2. /\ pc'[d] = pc[d] /\ mode'[d] = mode[d] /\ op'[d] = op[d]
        /\ view'[d] = view[d] /\ added'[d] = added[d] /\ failure'[d] = failure[d]
        /\ tried'[d] = tried[d] /\ outcome'[d] = outcome[d]
    BY DEF OthersRest, OthersKeep
  <2>3. AttemptsUnseen(d)'
    BY <2>1, <2>2 DEF AttemptsUnseen
  <2>4. SingleRecorded(d)'
    BY <2>1, <2>2 DEF SingleRecorded, Tells
  <2>5. EntriesTell(d)'
    <3>1. Pending(d)' = Pending(d)
      BY <2>2 DEF Pending, PendingEntry
    <3> QED BY <2>1, <2>2, <3>1 DEF EntriesTell
  <2> QED BY <2>3, <2>4, <2>5 DEF CallOK
<1> QED BY <1>1 DEF CallsInv, CallOK

\* A call that begins, or begins again, has inserted nothing in its snapshot.
LEMMA CallSnapshot ==
    ASSUME CallsInv, IInv', NEW c \in Caller, pc[c] \in Open \cup {"idle"},
           Snapshot(c), UNCHANGED <<regs, hist, tried, outcome>>,
           OthersKeep(c)
    PROVE  CallsInv'
<1>1. AttemptsUnseen(c) /\ TypeOK
  BY DEF CallsInv, IInv
<1>2. /\ pc'[c] = "working" /\ added'[c] = {}
      /\ tried'[c] = tried[c] /\ outcome'[c] = "none"
  BY <1>1 DEF Snapshot, TypeOK, AttemptsUnseen, Open
<1>3. tried[c] \cap hist = {}
  BY <1>1 DEF AttemptsUnseen
<1>4. AttemptsUnseen(c)'
  BY <1>2, <1>3 DEF AttemptsUnseen
<1>5. SingleRecorded(c)'
  BY <1>2 DEF SingleRecorded
<1>6. EntriesTell(c)'
  BY <1>2 DEF EntriesTell, Pending
<1> QED BY <1>4, <1>5, <1>6, CallStep DEF CallOK, OthersRest

\* A call whose transaction failed answers for nothing but its attempts.
LEMMA CallFails ==
    ASSUME CallsInv, IInv', NEW c \in Caller, NEW kind \in Failures,
           pc[c] \in Open, Fail(c, kind)
    PROVE  CallsInv'
<1>1. AttemptsUnseen(c) /\ TypeOK /\ SingleRecorded(c)
  BY DEF CallsInv, IInv
<1>2. pc'[c] = "working" /\ failure'[c] # "none"
  BY <1>1 DEF Fail, TypeOK, Failures
<1>3. OthersRest(c)
  BY <1>1 DEF OthersRest, OthersKeep, Fail, TypeOK
<1>4. outcome[c] = "none"
  BY <1>1 DEF AttemptsUnseen, Open
<1>5. AttemptsUnseen(c)'
  BY <1>1, <1>2, <1>4 DEF AttemptsUnseen, Fail
<1>6. SingleRecorded(c)' /\ EntriesTell(c)'
  BY <1>2, <1>4 DEF SingleRecorded, EntriesTell, Fail
<1> QED BY <1>3, <1>5, <1>6, CallStep DEF CallOK, Fail

\* The work of a call has returned and the driver commits: a group, or a
\* single change that found nothing to change.
LEMMA CallCommitting ==
    ASSUME CallsInv, IInv', NEW c \in Caller, pc[c] = "working",
           failure[c] = "none", pc' = [pc EXCEPT ![c] = "committing"],
           UNCHANGED <<regs, hist, mode, op, txn, retries, tried, outcome>>
    PROVE  CallsInv'
<1>1. CallOK(c) /\ TypeOK
  BY DEF CallsInv, IInv, CallOK
<1>2. pc'[c] = "committing" /\ Pending(c) = {} /\ Pending(c)' = {}
  BY <1>1 DEF TypeOK, Pending
<1>3. OthersRest(c)
  BY <1>1 DEF OthersRest, OthersKeep, txn, TypeOK
<1>4. outcome[c] = "none"
  BY <1>1 DEF CallOK, AttemptsUnseen
<1>5. AttemptsUnseen(c)'
  BY <1>1, <1>2, <1>4 DEF CallOK, AttemptsUnseen, txn, Open
<1>6. SingleRecorded(c)'
  BY <1>1, <1>2, <1>4 DEF CallOK, SingleRecorded, txn
<1>7. EntriesTell(c)'
  BY <1>1, <1>2 DEF CallOK, EntriesTell, txn, Open
<1> QED BY <1>3, <1>5, <1>6, <1>7, CallStep DEF CallOK

\* The entry due for a change tells truly what it was, and is not stored yet.
LEMMA CallWrites ==
    ASSUME CallsInv, IInv', NEW c \in Caller, NEW q \in Request,
           MayChange(c, q), ~WriteConflict(c, q.ref), Write(c, q),
           \/ q.kind = "create" /\ view[c][q.ref] = Absent
           \/ /\ q.kind \in {"update", "delete"}
              /\ AtVersion(view[c][q.ref], q.expected)
    PROVE  CallsInv'
<1> DEFINE r == q.ref
           d == view[c][r]
           n == Changed(d, q, c)
<1>1. /\ CallOK(c) /\ CallerInv(c) /\ TypeOK /\ pc[c] = "working"
      /\ failure[c] = "none"
  BY DEF CallsInv, IInv, CallOK, MayChange
<1>2. /\ r \in Ref /\ d \in Registration \cup {Absent} /\ n \in Registration
      /\ n.version = q.expected + 1
      /\ n.version = IF d = Absent THEN 1 ELSE d.version + 1
  BY <1>1, WriteEnabled
<1>3. /\ pc'[c] = "appending" /\ op'[c] = q /\ failure'[c] = "none"
      /\ view'[c][r] = n
      /\ \A s \in Ref \ {r} : view'[c][s] = view[c][s]
      /\ added'[c] = added[c] /\ tried'[c] = tried[c]
      /\ outcome'[c] = outcome[c]
  BY <1>1, <1>2 DEF Write, TypeOK
<1>4. OthersRest(c)
  BY <1>1 DEF OthersRest, OthersKeep, Write, TypeOK
<1>5. outcome[c] = "none"
  BY <1>1 DEF CallOK, AttemptsUnseen
<1>6. AttemptsUnseen(c)'
  BY <1>1, <1>3, <1>5 DEF CallOK, AttemptsUnseen, Open, Write
<1>7. SingleRecorded(c)'
  BY <1>2, <1>3, <1>5 DEF SingleRecorded
<1>8. /\ PendingEntry(c)' = HistoryEntry(q, n, c)
      /\ Pending(c)' = {HistoryEntry(q, n, c)} /\ Pending(c) = {}
  BY <1>1, <1>3 DEF Pending, PendingEntry
<1>9. (d = Absent /\ r \notin wset[c]) \/ (d # Absent /\ ~d.isDeleted)
  BY <1>1 DEF AtVersion, Visible, CallerInv, WritesRecorded, Open
<1>10. r \notin wset[c] => d = regs[r]
  BY <1>1, <1>2 DEF CallerInv, ViewCurrent, WriteConflict, Open
<1>11. r \in wset[c] => d # Absent /\ d.version > 0
  BY <1>1 DEF CallerInv, WritesRecorded, Open
<1>12. d # Absent => d.version \in Int /\ d.version >= 0
  BY <1>2, BoundsAssumption DEF Registration
<1>13. EntriesTell(c)'
  <2> SUFFICES ASSUME NEW e \in added[c] \cup Pending(c)'
               PROVE  /\ e.operation = "create" <=>
                           regs[e.reference] = Absent /\ e.version = 1
                      /\ e.operation = "delete" <=> e.snapshot.isDeleted
                      /\ e.operation = "delete" =>
                           e.version = view'[c][e.reference].version
    BY <1>3 DEF EntriesTell, Write
  <2>1. CASE e \in added[c]
    <3>1. /\ e \in Entry /\ e.reference \in Ref /\ e.reference \in wset[c]
          /\ e \in EntriesOf(e.reference, added[c])
      BY <1>1, <2>1 DEF TypeOK, Entry, CallerInv, EntriesOwned, EntriesOf
    <3>2. /\ e.operation = "create" <=>
               regs[e.reference] = Absent /\ e.version = 1
          /\ e.operation = "delete" <=> e.snapshot.isDeleted
          /\ e.operation = "delete" =>
               e.version = view[c][e.reference].version
      BY <1>1, <2>1 DEF CallOK, EntriesTell, Open
    <3>3. CASE e.reference # r
      BY <1>3, <3>1, <3>2, <3>3
    <3>4. CASE e.reference = r
      <4>1. Recorded(r, d, hist \cup added[c] \cup Pending(c))
        BY <1>1, <3>1, <3>4 DEF CallerInv, WritesRecorded, Open
      <4>2. e.version = d.version => e.snapshot = d
        BY <1>9, <1>11, <3>1, <3>4, <4>1 DEF Recorded, EntriesOf
      <4>3. e.operation # "delete"
        BY <1>9, <1>11, <3>1, <3>2, <3>4, <4>2
      <4> QED BY <3>2, <4>3
    <3> QED BY <3>3, <3>4
  <2>2. CASE e = HistoryEntry(q, n, c)
    <3>1. /\ e.operation = q.kind /\ e.reference = r /\ e.version = n.version
          /\ e.snapshot = n
      BY <2>2 DEF HistoryEntry
    <3>2. q.kind = "delete" <=> n.isDeleted
      BY <1>9 DEF Changed, Created, Updated, SoftDeleted, AtVersion, Visible
    <3>3. q.kind = "create" <=> d = Absent
      BY DEF AtVersion, Visible
    <3>4. d = Absent <=> regs[r] = Absent /\ n.version = 1
      BY <1>2, <1>9, <1>10, <1>11, <1>12
    <3> QED BY <1>3, <3>1, <3>2, <3>3, <3>4
  <2> QED BY <1>8, <2>1, <2>2
<1> QED BY <1>4, <1>6, <1>7, <1>13, CallStep DEF CallOK, Write

\* The entry is inserted that was due: it is of a version the history does not
\* have, so it is not in it.
LEMMA CallAppends ==
    ASSUME CallsInv, IInv', NEW c \in Caller, Append(c)
    PROVE  CallsInv'
<1> DEFINE e == PendingEntry(c)
<1>1. /\ CallOK(c) /\ CallerInv(c) /\ TypeOK /\ pc[c] = "appending"
      /\ HistoryComplete
  BY DEF CallsInv, IInv, CallOK, Append
<1>2. /\ pc'[c] = IF mode[c] = "single" THEN "committing" ELSE "working"
      /\ Pending(c) = {e} /\ Pending(c)' = {}
      /\ added'[c] = added[c] \cup {e} /\ tried'[c] = tried[c] \cup {e}
      /\ outcome'[c] = outcome[c]
  BY <1>1 DEF Append, TypeOK, Pending
<1>3. OthersRest(c)
  BY <1>1 DEF OthersRest, OthersKeep, Append, TypeOK
<1>4. /\ outcome[c] = "none" /\ failure[c] = "none"
      /\ op[c] \in Request /\ op[c].ref \in wset[c] /\ op[c].ref \in Ref
  BY <1>1 DEF CallOK, AttemptsUnseen, CallerInv, ControlConsistent, Request
<1>5. /\ e \in Entry /\ e.by = c /\ e.reference = op[c].ref
      /\ e.version = view[c][op[c].ref].version /\ e.operation = op[c].kind
  BY <1>1, PendingType DEF PendingEntry, HistoryEntry
<1>6. e \notin hist
  <2> SUFFICES ASSUME e \in hist PROVE FALSE
    OBVIOUS
  <2>1. e \in EntriesOf(op[c].ref, hist)
    BY <1>5 DEF EntriesOf
  <2>2. /\ regs[op[c].ref] # Absent
        /\ e.version \in 1..regs[op[c].ref].version
    BY <1>1, <1>4, <2>1 DEF HistoryComplete, Recorded
  <2>3. regs[op[c].ref].version < e.version
    BY <1>1, <1>4, <1>5, <2>2 DEF CallerInv, WritesRecorded, Open
  <2>4. regs[op[c].ref].version \in Int /\ e.version \in Int
    BY <1>1, <1>4, <1>5, <2>2, BoundsAssumption
       DEF TypeOK, Registration, Entry
  <2> QED BY <2>2, <2>3, <2>4
<1>7. AttemptsUnseen(c)'
  BY <1>1, <1>2, <1>4, <1>6 DEF CallOK, AttemptsUnseen, Open, Append
<1>8. SingleRecorded(c)'
  <2>1. Tells(c, added[c])'
    <3>1. e \in added'[c] /\ op' = op
      BY <1>2 DEF Append
    <3>2. e.version = op[c].expected + 1
      BY <1>1, <1>5 DEF CallOK, SingleRecorded
    <3> QED BY <1>5, <3>1, <3>2 DEF Tells
  <2> QED BY <1>2, <1>4, <2>1 DEF SingleRecorded, Append
<1>9. EntriesTell(c)'
  <2>1. added[c] \cup Pending(c) = added'[c] \cup Pending(c)'
    BY <1>2
  <2>2. UNCHANGED <<regs, view, failure>> /\ pc[c] \in Open
    BY <1>1 DEF Append, Open
  <2> QED BY <1>1, <2>1, <2>2 DEF CallOK, EntriesTell
<1> QED BY <1>3, <1>7, <1>8, <1>9, CallStep DEF CallOK, Append

\* A call ends with what its transaction became: rejected before it committed,
\* acknowledged after it did, or unknown.
LEMMA CallEnds ==
    ASSUME CallsInv, IInv', NEW c \in Caller, NEW told \in Outcomes \ {"none"},
           EndCall(c, told),
           told = "rejected" => pc[c] \in Open \cup {"aborted"},
           told = "ok" => \/ pc[c] = "aborted"
                          \/ /\ pc[c] = "committed"
                             /\ mode[c] = "single" => added[c] # {}
    PROVE  CallsInv'
<1>1. CallOK(c) /\ TypeOK
  BY DEF CallsInv, IInv, CallOK
<1>2. /\ pc'[c] = "ended" /\ outcome'[c] = told /\ added'[c] = {}
      /\ UNCHANGED <<tried, hist, mode, op>>
  BY <1>1 DEF EndCall, CloseTransaction, TypeOK
<1>3. OthersRest(c)
  BY <1>1 DEF OthersRest, OthersKeep, EndCall, CloseTransaction, TypeOK
<1>4. AttemptsUnseen(c)'
  BY <1>1, <1>2 DEF CallOK, AttemptsUnseen, Open
<1>5. SingleRecorded(c)'
  BY <1>1, <1>2 DEF CallOK, SingleRecorded, Tells
<1>6. EntriesTell(c)'
  BY <1>2 DEF EntriesTell, Open
<1> QED BY <1>3, <1>4, <1>5, <1>6, CallStep DEF CallOK, EndCall, CloseTransaction

\* A call whose work aborted the transaction has nothing stored or pending.
LEMMA CallAborts ==
    ASSUME CallsInv, IInv', NEW c \in Caller, WorkAborts(c)
    PROVE  CallsInv'
<1>1. CallOK(c) /\ TypeOK /\ pc[c] \in Open /\ mode[c] = "group"
  BY DEF CallsInv, IInv, CallOK, WorkAborts, Open
<1>2. /\ pc'[c] = "aborted" /\ added'[c] = {} /\ outcome[c] = "none"
      /\ UNCHANGED <<tried, hist, mode, op, outcome>>
  BY <1>1 DEF WorkAborts, CloseTransaction, TypeOK, CallOK, AttemptsUnseen, Open
<1>3. OthersRest(c)
  BY <1>1 DEF OthersRest, OthersKeep, WorkAborts, CloseTransaction, TypeOK
<1>4. AttemptsUnseen(c)'
  BY <1>1, <1>2 DEF CallOK, AttemptsUnseen
<1>5. SingleRecorded(c)'
  BY <1>1, <1>2 DEF SingleRecorded
<1>6. EntriesTell(c)'
  BY <1>2 DEF EntriesTell, Open
<1> QED BY <1>3, <1>4, <1>5, <1>6, CallStep
        DEF CallOK, WorkAborts, CloseTransaction

\* A commit stores the entries of one caller: no other call has tried any of
\* them, and no other open transaction has written their registrations.
LEMMA CallCommits ==
    ASSUME CallsInv, IInv', NEW c \in Caller, Commit(c)
    PROVE  CallsInv'
<1>1. /\ CallOK(c) /\ CallerInv(c) /\ TypeOK /\ pc[c] = "committing"
      /\ hist' = hist \cup added[c]
  BY DEF CallsInv, IInv, CallOK, Commit
<1>2. UNCHANGED <<mode, op, view, added, wset, failure, tried, outcome>>
  BY DEF Commit
<1>3. ASSUME NEW d \in Caller
      PROVE  CallOK(d)'
  <2>1. CallOK(d) /\ CallerInv(d)
    BY DEF CallsInv, IInv, CallOK
  <2>2. CASE d = c
    <3>1. pc'[c] = "committed" /\ outcome[c] = "none"
      BY <1>1 DEF Commit, TypeOK, CallOK, AttemptsUnseen
    <3>2. AttemptsUnseen(c)'
      BY <1>1, <1>2, <3>1 DEF CallOK, AttemptsUnseen, Open
    <3>3. SingleRecorded(c)'
      <4>1. Tells(c, added[c]) => Tells(c, hist)'
        BY <1>1, <1>2 DEF Tells
      <4> QED BY <1>1, <1>2, <3>1, <4>1 DEF CallOK, SingleRecorded
    <3>4. EntriesTell(c)'
      BY <3>1 DEF EntriesTell, Open
    <3> QED BY <2>2, <3>2, <3>3, <3>4 DEF CallOK
  <2>3. CASE d # c
    <3>1. pc'[d] = pc[d]
      BY <1>1, <2>3 DEF Commit, TypeOK
    <3>2. tried[d] \cap added[c] = {}
      BY <1>1, <2>1, <2>3 DEF CallerInv, EntriesOwned
    <3>3. AttemptsUnseen(d)'
      BY <1>1, <1>2, <2>1, <3>1, <3>2 DEF CallOK, AttemptsUnseen
    <3>4. SingleRecorded(d)'
      <4>1. Tells(d, hist) => Tells(d, hist)'
        BY <1>1, <1>2 DEF Tells
      <4>2. Tells(d, added[d]) => Tells(d, added[d])'
        BY <1>2 DEF Tells
      <4> QED BY <1>2, <2>1, <3>1, <4>1, <4>2 DEF CallOK, SingleRecorded
    <3>5. EntriesTell(d)'
      <4> SUFFICES ASSUME pc[d] \in Open, failure[d] = "none"
                   PROVE  \A e \in added[d] \cup Pending(d) :
                            regs'[e.reference] = regs[e.reference]
        <5>1. Pending(d)' = Pending(d)
          BY <1>2, <3>1 DEF Pending, PendingEntry
        <5> QED BY <1>2, <2>1, <3>1, <5>1 DEF CallOK, EntriesTell
      <4> TAKE e \in added[d] \cup Pending(d)
      <4>1. e.reference \in wset[d]
        BY <2>1 DEF CallerInv, EntriesOwned, ControlConsistent, Pending,
                    PendingEntry, HistoryEntry
      <4>2. e.reference \in Ref /\ e.reference \notin wset[c]
        BY <1>1, <2>1, <2>3, <4>1 DEF TypeOK, CallerInv, OnlyWriter, Open
      <4> QED BY <4>2 DEF Commit
    <3> QED BY <3>3, <3>4, <3>5 DEF CallOK
  <2> QED BY <2>2, <2>3
<1> QED BY <1>3 DEF CallsInv, CallOK

-----------------------------------------------------------------------------
(* The inductive invariant                                                 *)

\* It holds when no call has begun.
LEMMA CallsInvInit == Init => CallsInv
<1> SUFFICES ASSUME Init PROVE CallsInv
  OBVIOUS
<1>1. IInv
  BY IInvInit
<1>2. \A c \in Caller : CallOK(c)
  BY DEF Init, CallOK, AttemptsUnseen, SingleRecorded, EntriesTell, Open
<1> QED BY <1>1, <1>2 DEF CallsInv, CallOK

\* Every step keeps it.
LEMMA CallsInvStep == CallsInv /\ [Next]_vars => CallsInv'
<1> SUFFICES ASSUME CallsInv, [Next]_vars PROVE CallsInv'
  OBVIOUS
<1>t. IInv' /\ TypeOK
  BY IInvStep DEF CallsInv, IInv
<1>a. \A c \in Caller : CallOK(c) /\ CallerInv(c)
  BY DEF CallsInv, IInv, CallOK
<1>1. CASE UNCHANGED vars
  <2>1. \A c \in Caller : Pending(c)' = Pending(c)
    BY <1>1 DEF Pending, PendingEntry, vars
  <2>2. \A c \in Caller : CallOK(c)'
    BY <1>1, <1>a, <2>1 DEF CallOK, AttemptsUnseen, SingleRecorded, Tells,
                            EntriesTell, vars
  <2> QED BY <1>t, <2>2 DEF CallsInv, CallOK
<1>2. ASSUME NEW c \in Caller, NEW q \in Request, BeginSingle(c, q)
      PROVE  CallsInv'
  <2>1. OthersKeep(c)
    BY <1>t, <1>2 DEF BeginSingle, Snapshot, OthersKeep, TypeOK
  <2> QED BY <1>t, <1>2, <2>1, CallSnapshot DEF BeginSingle
<1>3. ASSUME NEW c \in Caller, BeginGroup(c)
      PROVE  CallsInv'
  <2>1. OthersKeep(c)
    BY <1>t, <1>3 DEF BeginGroup, Snapshot, OthersKeep, TypeOK
  <2> QED BY <1>t, <1>3, <2>1, CallSnapshot DEF BeginGroup
<1>4. ASSUME NEW c \in Caller, NEW q \in Request, Create(c, q)
      PROVE  CallsInv'
  <2>1. pc[c] \in Open /\ MayChange(c, q)
    BY <1>4 DEF Create, MayChange, Open
  <2>2. CASE \E kind \in Failures : Fail(c, kind)
    BY <1>t, <2>1, <2>2, CallFails
  <2>3. CASE /\ view[c][q.ref] = Absent /\ ~WriteConflict(c, q.ref)
             /\ Write(c, q)
    BY <1>t, <1>4, <2>1, <2>3, CallWrites DEF Create
  <2> QED BY <1>4, <2>2, <2>3 DEF Create, Taken, Failures
<1>5. ASSUME NEW c \in Caller, NEW q \in Request, ChangeExisting(c, q)
      PROVE  CallsInv'
  <2>1. /\ pc[c] \in Open /\ pc[c] = "working" /\ failure[c] = "none"
        /\ q.kind \in {"update", "delete"} /\ MayChange(c, q)
    BY <1>5 DEF ChangeExisting, MayChange, Open
  <2>2. CASE \E kind \in Failures : Fail(c, kind)
    BY <1>t, <2>1, <2>2, CallFails
  <2>3. CASE /\ AtVersion(view[c][q.ref], q.expected)
             /\ ~WriteConflict(c, q.ref) /\ Write(c, q)
    BY <1>t, <2>1, <2>3, CallWrites
  <2>4. CASE /\ mode[c] = "single"
             /\ pc' = [pc EXCEPT ![c] = "committing"]
             /\ UNCHANGED <<regs, hist, mode, op, txn, retries, tried, outcome>>
    BY <1>t, <2>1, <2>4, CallCommitting
  <2> QED BY <1>5, <2>2, <2>3, <2>4 DEF ChangeExisting, Failures
<1>6. ASSUME NEW c \in Caller, Append(c)
      PROVE  CallsInv'
  BY <1>t, <1>6, CallAppends
<1>7. ASSUME NEW c \in Caller, WorkReturns(c)
      PROVE  CallsInv'
  BY <1>t, <1>7, CallCommitting DEF WorkReturns
<1>8. ASSUME NEW c \in Caller, OperationFails(c)
      PROVE  CallsInv'
  BY <1>t, <1>8, CallFails DEF OperationFails, Failures
<1>9. ASSUME NEW c \in Caller, WorkFails(c) \/ WorkThrows(c) \/ Lose(c)
      PROVE  CallsInv'
  <2>1. \E told \in {"rejected", "unknown"} :
          EndCall(c, told) /\ (told = "rejected" => pc[c] \in Open)
    BY <1>9 DEF WorkFails, WorkThrows, Lose, Open
  <2> QED BY <1>t, <2>1, CallEnds DEF Outcomes
<1>b. ASSUME NEW c \in Caller, WorkAborts(c)
      PROVE  CallsInv'
  BY <1>t, <1>b, CallAborts
<1>c. ASSUME NEW c \in Caller, AbortedCallEnds(c)
      PROVE  CallsInv'
  <2>1. \E told \in {"ok", "rejected"} : EndCall(c, told) /\ pc[c] = "aborted"
    BY <1>c DEF AbortedCallEnds
  <2> QED BY <1>t, <2>1, CallEnds DEF Outcomes
<1>10. ASSUME NEW c \in Caller, Retry(c)
       PROVE  CallsInv'
  <2>1. OthersKeep(c)
    BY <1>t, <1>10 DEF Retry, Snapshot, OthersKeep, TypeOK
  <2> QED BY <1>t, <1>10, <2>1, CallSnapshot DEF Retry, Open
<1>11. ASSUME NEW c \in Caller, Commit(c)
       PROVE  CallsInv'
  BY <1>t, <1>11, CallCommits
<1>12. ASSUME NEW c \in Caller, Acknowledge(c)
       PROVE  CallsInv'
  <2>1. \E told \in {"null", "ok"} :
          /\ EndCall(c, told) /\ pc[c] = "committed"
          /\ told = "ok" => (mode[c] = "single" => added[c] # {})
    BY <1>12 DEF Acknowledge
  <2> QED BY <1>t, <2>1, CallEnds DEF Outcomes
<1>13. ASSUME NEW c \in Caller, Return(c)
       PROVE  CallsInv'
  <2>1. /\ OthersRest(c) /\ pc'[c] = "idle" /\ added'[c] = added[c]
        /\ tried'[c] = {} /\ outcome'[c] = "none"
    BY <1>t, <1>13 DEF Return, txn, OthersRest, OthersKeep, TypeOK
  <2>2. added[c] = {}
    BY <1>a, <1>13 DEF CallOK, AttemptsUnseen, Return
  <2>3. CallOK(c)'
    BY <2>1, <2>2 DEF CallOK, AttemptsUnseen, SingleRecorded, EntriesTell, Open
  <2> QED BY <1>t, <1>13, <2>1, <2>3, CallStep DEF Return
<1> QED BY <1>1, <1>2, <1>3, <1>4, <1>5, <1>6, <1>7, <1>8, <1>9, <1>10,
           <1>11, <1>12, <1>13, <1>b, <1>c DEF Next

\* What an open transaction has inserted is not stored, describes its changes
\* truly, and is kept exactly if it commits.
THEOREM CallsInvariance == Spec => []CallsInv
<1>1. Init => CallsInv
  BY CallsInvInit
<1>2. CallsInv /\ [Next]_vars => CallsInv'
  BY CallsInvStep
<1> QED BY <1>1, <1>2, PTL DEF Spec

-----------------------------------------------------------------------------
(* Theorems                                                                *)

\* A call that was told it failed has stored nothing, in any of its attempts,
\* and even if its work caught the failure and went on.
THEOREM RejectionIsClean == Spec => []RejectedLeavesNothing
<1>1. CallsInv => RejectedLeavesNothing
  BY DEF CallsInv, AttemptsUnseen, RejectedLeavesNothing
<1> QED BY <1>1, CallsInvariance, PTL

\* A single change that was acknowledged is in the history as the version right
\* after the one its caller expected, under the caller's name.
THEOREM AcknowledgementIsTrue == Spec => []AcknowledgedIsRecorded
<1>1. CallsInv => AcknowledgedIsRecorded
  BY DEF CallsInv, SingleRecorded, AcknowledgedIsRecorded
<1> QED BY <1>1, CallsInvariance, PTL

-----------------------------------------------------------------------------
(* The refinement                                                          *)

\* The entries c commits for one registration are the versions that follow the
\* stored one, up to the document that c leaves.
LEMMA CommitContinues ==
    ASSUME CallsInv, NEW c \in Caller, Commit(c), NEW r \in wset[c]
    PROVE  Store!Continues(regs[r], EntriesOf(r, added[c]), regs'[r])
<1> DEFINE own == EntriesOf(r, added[c])
           old == IF regs[r] = Absent THEN 0 ELSE regs[r].version
           n == view[c][r]
<1>1. /\ CallOK(c) /\ CallerInv(c) /\ TypeOK /\ HistoryComplete
      /\ pc[c] = "committing" /\ failure[c] = "none" /\ pc[c] \in Open
  BY DEF CallsInv, IInv, CallOK, Commit, CallerInv, ControlConsistent, Open
<1>2. r \in Ref /\ regs'[r] = n
  BY <1>1 DEF TypeOK, Commit
<1>3. /\ n # Absent /\ n.version > 0
      /\ regs[r] # Absent => regs[r].version < n.version
      /\ Recorded(r, n, hist \cup added[c])
  <2>1. hist \cup added[c] \cup Pending(c) = hist \cup added[c]
    BY <1>1 DEF Pending
  <2> QED BY <1>1, <2>1 DEF CallerInv, WritesRecorded
<1>4. Recorded(r, regs[r], hist)
  BY <1>1, <1>2 DEF HistoryComplete
<1>5. /\ n.version \in Int /\ old \in Int /\ 0 <= old /\ old < n.version
      /\ \A e \in EntriesOf(r, hist \cup added[c]) : e.version \in Int
  BY <1>1, <1>2, <1>3, BoundsAssumption
     DEF TypeOK, Registration, Entry, EntriesOf
<1>6. \A e \in EntriesOf(r, hist) : e.version <= old
  BY <1>4, <1>5 DEF Recorded, EntriesOf
<1>7. \A v \in 1..old : \E e \in EntriesOf(r, hist) : e.version = v
  BY <1>4, <1>5 DEF Recorded
<1>8. EntriesOf(r, hist \cup added[c]) = EntriesOf(r, hist) \cup own
  BY DEF EntriesOf
<1>9. added[c] \cap hist = {}
  BY <1>1 DEF CallOK, AttemptsUnseen
<1>10. \A e, f \in EntriesOf(r, hist \cup added[c]) :
         e.version = f.version => e = f
  BY <1>3 DEF Recorded
<1>11. ASSUME NEW e \in own
       PROVE  /\ e.version \in (old + 1)..n.version
              /\ e.version = n.version => e.snapshot = n
  <2>1. e.version \in 1..n.version /\ (e.version = n.version => e.snapshot = n)
    BY <1>3, <1>8 DEF Recorded
  <2>2. ~(e.version <= old)
    <3> SUFFICES ASSUME e.version <= old PROVE FALSE
      OBVIOUS
    <3>1. PICK f \in EntriesOf(r, hist) : f.version = e.version
      BY <1>5, <1>7, <2>1
    <3>2. e = f
      BY <1>8, <1>10, <3>1
    <3> QED BY <1>9, <3>2 DEF EntriesOf
  <2> QED BY <1>5, <1>8, <2>1, <2>2
<1>12. ASSUME NEW v \in (old + 1)..n.version
       PROVE  \E e \in own : e.version = v
  <2>1. v \in 1..n.version /\ v > old
    BY <1>5
  <2>2. PICK e \in EntriesOf(r, hist \cup added[c]) : e.version = v
    BY <1>3, <2>1 DEF Recorded
  <2>3. e \notin EntriesOf(r, hist)
    BY <1>5, <1>6, <2>1, <2>2
  <2> QED BY <1>8, <2>2, <2>3
<1>13. {e.version : e \in own} = (old + 1)..n.version
  BY <1>11, <1>12
<1>14. PICK last \in own : last.version = n.version
  BY <1>5, <1>12
<1>15. n = last.snapshot
  BY <1>11, <1>14
<1>16. Store!Version(regs[r]) = old
  BY DEF Store!Version
<1>17. \A e, f \in own : e.version = f.version => e = f
  BY <1>8, <1>10
<1> QED BY <1>2, <1>13, <1>14, <1>15, <1>16, <1>17 DEF Store!Continues

\* A commit is one transaction of the abstract store, by the caller who made it.
LEMMA CommitIsTransaction ==
    ASSUME CallsInv, NEW c \in Caller, Commit(c)
    PROVE  Store!Transaction(c, hist' \ hist)
<1>1. /\ CallOK(c) /\ CallerInv(c) /\ TypeOK
      /\ pc[c] = "committing" /\ failure[c] = "none" /\ pc[c] \in Open
  BY DEF CallsInv, IInv, CallOK, Commit, CallerInv, ControlConsistent, Open
<1>2. hist' = hist \cup added[c] /\ hist' \ hist = added[c]
  BY <1>1 DEF CallOK, AttemptsUnseen, Commit
<1>3. \A e \in added[c] : e.by = c /\ e.reference \in wset[c]
  BY <1>1 DEF CallerInv, EntriesOwned
<1>4. ASSUME NEW r \in Ref
      PROVE  LET own == {e \in added[c] : e.reference = r} IN
             \/ own = {} /\ regs'[r] = regs[r]
             \/ /\ Store!Changeable(regs[r])
                /\ Store!CreatesFirst(regs[r], own)
                /\ Store!DeletesLast(own)
                /\ Store!Continues(regs[r], own, regs'[r])
  <2> DEFINE own == {e \in added[c] : e.reference = r}
  <2>1. CASE r \notin wset[c]
    <3>1. own = {} /\ regs'[r] = regs[r]
      BY <1>3, <2>1 DEF Commit
    <3> QED BY <3>1
  <2>2. CASE r \in wset[c]
    <3>1. own = EntriesOf(r, added[c])
      BY DEF EntriesOf
    <3>2. Store!Continues(regs[r], own, regs'[r])
      BY <2>2, <3>1, CommitContinues
    <3>3. Store!Changeable(regs[r])
      BY <1>1, <2>2 DEF CallerInv, WritesRecorded, Store!Changeable
    <3>4. ASSUME NEW e \in own
          PROVE  /\ e.operation = "create" <=> regs[r] = Absent /\ e.version = 1
                 /\ e.operation = "delete" <=> e.snapshot.isDeleted
                 /\ e.operation = "delete" => e.version = view[c][r].version
      BY <1>1, <3>4 DEF CallOK, EntriesTell
    <3>5. Store!CreatesFirst(regs[r], own)
      BY <3>4 DEF Store!CreatesFirst
    <3>6. \A f \in own : f.version <= view[c][r].version
      <4>1. Recorded(r, view[c][r], hist \cup added[c] \cup Pending(c))
        BY <1>1, <2>2 DEF CallerInv, WritesRecorded
      <4>2. view[c][r] # Absent
        BY <1>1, <2>2 DEF CallerInv, WritesRecorded
      <4>3. view[c][r].version \in Int
        BY <1>1, <4>2, BoundsAssumption DEF TypeOK, Registration
      <4> QED BY <4>1, <4>2, <4>3 DEF Recorded, EntriesOf
    <3>7. Store!DeletesLast(own)
      BY <3>4, <3>6 DEF Store!DeletesLast
    <3> QED BY <3>2, <3>3, <3>5, <3>7
  <2> QED BY <2>1, <2>2
<1> QED BY <1>2, <1>3, <1>4 DEF Store!Transaction

\* Whatever the interleaving of its transactions, their failures and retries,
\* the repository goes through a sequence of whole transactions by one caller
\* each, which record every version without a gap and never touch a deleted
\* registration.
THEOREM RepositoryImplementsStore == Spec => ImplementsStore
<1>1. Init => Store!Init
  BY DEF Init, Store!Init
<1>2. CallsInv /\ [Next]_vars => [Store!Next]_(Store!vars)
  <2> SUFFICES ASSUME CallsInv, [Next]_vars
               PROVE  Store!Next \/ UNCHANGED <<regs, hist>>
    BY DEF Store!vars
  <2>1. CASE \E c \in Caller : Commit(c)
    BY <2>1, CommitIsTransaction DEF Store!Next
  <2>2. UNCHANGED <<regs, hist>> \/ \E c \in Caller : Commit(c)
    BY DEF Next, vars, BeginSingle, BeginGroup, Create, ChangeExisting,
           Write, Fail, Append, WorkReturns, OperationFails, WorkFails,
           WorkThrows, WorkAborts, AbortedCallEnds, Retry, Acknowledge, Lose,
           EndCall, CloseTransaction, Return
  <2> QED BY <2>1, <2>2
<1> QED BY <1>1, <1>2, CallsInvariance, PTL DEF Spec, ImplementsStore, Store!Spec
=============================================================================
